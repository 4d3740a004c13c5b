------------------------------ MODULE MarketRunner ------------------------------
(***************************************************************************)
(* A market gateway process: MarketGatewayRunner in                        *)
(* crates/nnxt-gateway/src/runner.rs, its control channel (an instance of  *)
(* ControlChannel) and the gateway it drives, which is the Python one of   *)
(* py-nnxt/examples/market_simulator.py behind py-nnxt/src/lib.rs: it      *)
(* publishes from a thread of its own the books of the instruments that    *)
(* control commands subscribe and unsubscribe.  That gateway's callbacks   *)
(* never fail; another's may, for an instrument it does not know.          *)
(*                                                                         *)
(* Time is counted in units of which the heartbeat interval and the        *)
(* client's timeouts are multiples; it passes only while the runner waits  *)
(* for the master or has nothing to do.                                    *)
(*                                                                         *)
(* Left out: what the master does with the registration (MasterRegistry,   *)
(* GatewayLoop), the content of the books, readers of the ring             *)
(* (RapidRing, MarketFlow).                                                *)
(***************************************************************************)
EXTENDS Integers, Sequences

CONSTANTS
  Instruments,
  Configured,    \* the instruments of configure()
  Unknown,       \* the instruments for which on_subscribe returns an error
  Interval,      \* heartbeat_interval
  Timeout,       \* DEFAULT_TIMEOUT of the master client, for sending and for receiving
  MaxRequests,   \* bound: control commands in a run
  MaxStarts      \* bound: starts of the process

ASSUME RunnerAssumption ==
  /\ Configured \subseteq Instruments
  /\ Unknown \subseteq Instruments \ Configured
  /\ Interval \in Nat \ {0}
  /\ Timeout \in Nat \ {0}
  /\ MaxRequests \in Nat
  /\ MaxStarts \in Nat

\* Commands that parse_market_command accepts, and any other.
Commands == [op : {"subscribe", "unsubscribe"}, instrument : Instruments]
              \cup {[op |-> "other"]}
Results  == {"ok", "error"}

VARIABLES
  asked, inbox, owner, rx, handled, answers, left, crossed,  \* the control channel
  stage,    \* off, sending, receiving, starting, polling, replying, stopping or stopped
  call,     \* the request to the master being made: register, heartbeat or none
  starts,   \* starts so far
  beat,     \* time since last_heartbeat_ns, counted up to Interval
  spent,    \* time spent on the present send or recv
  result,   \* the answer to the command being handled, or NoAnswer
  wait,     \* time since the channel began to hold commands, or the last was taken
  signal,   \* the shutdown signal
  sigAge,   \* how long it has been set
  name,     \* whether the name of the ring exists in shared memory
  subs,     \* _subscriptions
  running,  \* _running
  thread,   \* none, looking, publishing, sleeping or done
  todo,     \* the instruments its present round has still to publish
  late      \* history: books published of an instrument since it was unsubscribed

channelVars  == <<asked, inbox, owner, rx, handled, answers, left, crossed>>
runnerVars   == <<stage, call, beat, spent, result>>
surroundings == <<wait, signal, sigAge>>
processVars  == <<starts, name>>
simVars      == <<subs, running, thread, todo, late>>
vars == <<channelVars, runnerVars, surroundings, processVars, simVars>>

Channel == INSTANCE ControlChannel

Init ==
  /\ Channel!Init
  /\ stage = "off"
  /\ call = "none"
  /\ starts = 0
  /\ beat = 0
  /\ spent = 0
  /\ result = Channel!NoAnswer
  /\ wait = 0
  /\ signal = FALSE
  /\ sigAge = 0
  /\ name = FALSE
  /\ subs = Configured
  /\ running = FALSE
  /\ thread = "none"
  /\ todo = {}
  /\ late = [i \in Instruments |-> 0]

\* The loop of run, in which there is a listener thread.
InLoop ==
  stage \in {"polling", "replying"} \/ (stage \in {"sending", "receiving"} /\ call = "heartbeat")

--------------------------------------------------------------------------------
(* The runner.                                                             *)

CallMaster(request) ==
  /\ stage' = "sending"
  /\ call' = request
  /\ spent' = 0

EndOfCall == call' = "none" /\ spent' = 0

\* maybe_send_heartbeat, at the end of every event and of every empty poll.  The
\* time it remembers is that before the call.
MaybeHeartbeat ==
  \/ /\ beat < Interval
     /\ stage' = "polling"
     /\ UNCHANGED <<call, beat, spent>>
  \/ /\ beat = Interval
     /\ beat' = 0
     /\ CallMaster("heartbeat")

\* What ends with a process.
EndOfProcess ==
  /\ Channel!Close
  /\ stage' = "off"
  /\ call' = "none"
  /\ beat' = 0
  /\ spent' = 0
  /\ result' = Channel!NoAnswer
  /\ wait' = 0
  /\ signal' = FALSE
  /\ sigAge' = 0
  /\ subs' = Configured
  /\ running' = FALSE
  /\ thread' = "none"
  /\ todo' = {}
  /\ late' = [i \in Instruments |-> 0]
  /\ UNCHANGED starts

\* The runner is made, which takes a master that can be dialled, and run begins:
\* setup_control_socket, then register_with_master.
Start ==
  /\ stage = "off"
  /\ starts < MaxStarts
  /\ starts' = starts + 1
  /\ CallMaster("register")
  /\ UNCHANGED <<channelVars, beat, result, surroundings, name, simVars>>

\* The request leaves, if there is a master to send it to.
RequestLeaves ==
  /\ stage = "sending"
  /\ stage' = "receiving"
  /\ spent' = 0
  /\ UNCHANGED <<channelVars, call, beat, result, surroundings, processVars, simVars>>

\* The answer.  A heartbeat that is refused is as good; a registration that is
\* refused ends the process.
MasterAnswers ==
  /\ stage = "receiving"
  /\ \/ call = "heartbeat" /\ stage' = "polling" /\ UNCHANGED beat
     \/ call = "register" /\ stage' = "starting" /\ beat' = 0
     \/ call = "register" /\ stage' = "stopped" /\ UNCHANGED beat
  /\ EndOfCall
  /\ UNCHANGED <<channelVars, result, surroundings, processVars, simVars>>

\* Fault: a heartbeat that failed is sent again at once.
CallRepeats ==
  /\ stage \in {"sending", "receiving"}
  /\ spent = Timeout
  /\ IF call = "heartbeat" THEN stage' = "sending" ELSE stage' = "stopped"
  /\ spent' = 0
  /\ UNCHANGED <<channelVars, call, beat, result, surroundings, processVars, simVars>>

\* The send or the recv times out.  A heartbeat's error is ignored.
CallTimesOut ==
  /\ stage \in {"sending", "receiving"}
  /\ spent = Timeout
  /\ stage' = IF call = "heartbeat" THEN "polling" ELSE "stopped"
  /\ EndOfCall
  /\ UNCHANGED <<channelVars, beat, result, surroundings, processVars, simVars>>

\* init_writer does not clean up: it fails when the name is there.
InitWriter == ~name /\ name' = TRUE

\* on_start: init_writer, then the thread.  run returns the error of the first.
OnStart ==
  /\ stage = "starting"
  /\ \/ /\ InitWriter
        /\ stage' = "polling"
        /\ running' = TRUE
        /\ thread' = "looking"
     \/ /\ name
        /\ stage' = "stopped"
        /\ UNCHANGED <<name, running, thread>>
  /\ UNCHANGED <<channelVars, call, beat, spent, result, surroundings, starts,
                 subs, todo, late>>

\* The listener thread.
Listener ==
  /\ InLoop
  /\ ~signal
  /\ Channel!Receive
  /\ wait' = IF rx = <<>> THEN 0 ELSE wait
  /\ UNCHANGED <<runnerVars, signal, sigAge, processVars, simVars>>

\* on_subscribe and on_unsubscribe.
Subscribe(i) ==
  /\ i \notin Unknown
  /\ subs' = subs \cup {i}
  /\ late' = [late EXCEPT ![i] = 0]

Unsubscribe(i) ==
  /\ subs' = subs \ {i}
  /\ UNCHANGED late

\* Whether parse_market_command or the callback returns an error.
Fails(c) == c.op = "other" \/ (c.op = "subscribe" /\ c.instrument \in Unknown)

\* Fault: whatever was sent, the answer is ok.
HandleCommandOk ==
  /\ stage = "polling"
  /\ ~signal
  /\ Channel!Take
  /\ LET c == asked[Head(rx)]
     IN \/ c.op = "subscribe" /\ Subscribe(c.instrument)
        \/ c.op = "unsubscribe" /\ Unsubscribe(c.instrument)
        \/ Fails(c) /\ UNCHANGED <<subs, late>>
  /\ result' = "ok"
  /\ stage' = "replying"
  /\ wait' = 0
  /\ UNCHANGED <<call, beat, spent, signal, sigAge, processVars, running, thread, todo>>

\* Fault: a command that fails is dropped without an answer.
HandleCommandSilently ==
  /\ stage = "polling"
  /\ ~signal
  /\ Channel!Take
  /\ LET c == asked[Head(rx)]
     IN \/ c.op = "subscribe" /\ Subscribe(c.instrument) /\ result' = "ok" /\ stage' = "replying"
        \/ c.op = "unsubscribe" /\ Unsubscribe(c.instrument) /\ result' = "ok" /\ stage' = "replying"
        \/ Fails(c) /\ UNCHANGED <<subs, late, result, stage>>
  /\ wait' = 0
  /\ UNCHANGED <<call, beat, spent, signal, sigAge, processVars, running, thread, todo>>

\* poll finds a command: handle_control_message, up to the reply.
HandleCommand ==
  /\ stage = "polling"
  /\ ~signal
  /\ Channel!Take
  /\ LET c == asked[Head(rx)]
     IN \/ c.op = "subscribe" /\ Subscribe(c.instrument) /\ result' = "ok"
        \/ c.op = "unsubscribe" /\ Unsubscribe(c.instrument) /\ result' = "ok"
        \/ Fails(c) /\ UNCHANGED <<subs, late>> /\ result' = "error"
  /\ stage' = "replying"
  /\ wait' = 0
  /\ UNCHANGED <<call, beat, spent, signal, sigAge, processVars, running, thread, todo>>

\* reply_control, whose error is ignored, and the end of handle_event.
ReplyControl ==
  /\ stage = "replying"
  /\ Channel!Reply(result)
  /\ result' = Channel!NoAnswer
  /\ MaybeHeartbeat
  /\ UNCHANGED <<surroundings, processVars, simVars>>

\* poll finds nothing.
PollEmpty ==
  /\ stage = "polling"
  /\ ~signal
  /\ rx = <<>>
  /\ MaybeHeartbeat
  /\ UNCHANGED <<channelVars, result, surroundings, processVars, simVars>>

\* The shutdown signal is seen at the top of the loop, or by poll: on_stop begins.
OnStop ==
  /\ stage = "polling"
  /\ signal
  /\ stage' = "stopping"
  /\ running' = FALSE
  /\ UNCHANGED <<channelVars, call, beat, spent, result, surroundings, processVars,
                 subs, thread, todo, late>>

\* join returns, when the thread has ended or, the thread still asleep, after a
\* second.  To publish a round takes no time.
OnStopReturns ==
  /\ stage = "stopping"
  /\ thread \in {"sleeping", "done"}
  /\ stage' = "stopped"
  /\ UNCHANGED <<channelVars, call, beat, spent, result, surroundings, processVars, simVars>>

\* main returns and the process ends.  Dropping the gateway removes the name, unless
\* the daemon thread still holds the gateway.
Exit ==
  /\ stage = "stopped"
  /\ name' = (name /\ thread # "done")
  /\ EndOfProcess

\* The process is killed; the name stays.
Crash ==
  /\ stage # "off"
  /\ UNCHANGED name
  /\ EndOfProcess

--------------------------------------------------------------------------------
(* The simulator's thread, _run_loop.                                      *)

\* Fault: with nothing subscribed the thread ends.
LookOnce ==
  /\ thread = "looking"
  /\ todo' = subs
  /\ thread' = IF running /\ subs # {} THEN "publishing" ELSE "done"
  /\ UNCHANGED <<channelVars, runnerVars, surroundings, processVars, subs, running, late>>

\* The top of the loop: the thread ends, or copies the subscriptions under the lock.
Look ==
  /\ thread = "looking"
  /\ IF running
     THEN todo' = subs /\ thread' = "publishing"
     ELSE thread' = "done" /\ UNCHANGED todo
  /\ UNCHANGED <<channelVars, runnerVars, surroundings, processVars, subs, running, late>>

\* publish_order_book.
Publish(i) == late' = IF i \in subs THEN late ELSE [late EXCEPT ![i] = @ + 1]

\* Fault: the round is begun again as long as there is something to publish.
PublishOneForever ==
  /\ thread = "publishing"
  /\ \E i \in todo :
       /\ todo' = todo
       /\ Publish(i)
  /\ UNCHANGED <<channelVars, runnerVars, surroundings, processVars, subs, running, thread>>

\* _publish_one of the next instrument of the round.
PublishOne ==
  /\ thread = "publishing"
  /\ \E i \in todo :
       /\ todo' = todo \ {i}
       /\ Publish(i)
  /\ UNCHANGED <<channelVars, runnerVars, surroundings, processVars, subs, running, thread>>

\* The round is over; the thread sleeps for interval_ms.
Sleep ==
  /\ thread = "publishing"
  /\ todo = {}
  /\ thread' = "sleeping"
  /\ UNCHANGED <<channelVars, runnerVars, surroundings, processVars, subs, running, todo, late>>

Wake ==
  /\ thread = "sleeping"
  /\ thread' = "looking"
  /\ UNCHANGED <<channelVars, runnerVars, surroundings, processVars, subs, running, todo, late>>

--------------------------------------------------------------------------------
(* Clients, signals and time.                                              *)

\* From setup_control_socket on the control address can be dialled.
Listening == stage \notin {"off", "stopped"}

ClientSends ==
  /\ Listening
  /\ \E c \in Commands : Channel!Send(c) \/ Channel!SendAndLeave(c)
  /\ UNCHANGED <<runnerVars, surroundings, processVars, simVars>>

Interrupt ==
  /\ Listening
  /\ ~signal
  /\ signal' = TRUE
  /\ UNCHANGED <<channelVars, runnerVars, wait, sigAge, processVars, simVars>>

Waiting == stage \in {"sending", "receiving"} /\ spent < Timeout

Idle == stage = "polling" /\ rx = <<>> /\ ~signal /\ beat < Interval

\* Fault: the time since the last heartbeat is not reckoned from the last one.
TickUncapped ==
  /\ Waiting \/ Idle
  /\ beat' = beat + 1
  /\ spent' = IF Waiting THEN spent + 1 ELSE spent
  /\ wait' = IF rx = <<>> THEN wait ELSE wait + 1
  /\ sigAge' = IF signal THEN sigAge + 1 ELSE sigAge
  /\ UNCHANGED <<channelVars, stage, call, result, signal, processVars, simVars>>

Tick ==
  /\ Waiting \/ Idle
  /\ beat' = IF beat < Interval THEN beat + 1 ELSE beat
  /\ spent' = IF Waiting THEN spent + 1 ELSE spent
  /\ wait' = IF rx = <<>> THEN wait ELSE wait + 1
  /\ sigAge' = IF signal THEN sigAge + 1 ELSE sigAge
  /\ UNCHANGED <<channelVars, stage, call, result, signal, processVars, simVars>>

Next ==
  \/ Start \/ RequestLeaves \/ MasterAnswers \/ CallTimesOut \/ OnStart
  \/ Listener \/ HandleCommand \/ ReplyControl \/ PollEmpty
  \/ OnStop \/ OnStopReturns \/ Exit \/ Crash
  \/ Look \/ PublishOne \/ Sleep \/ Wake
  \/ ClientSends \/ Interrupt
  \/ Tick

\* The threads of a running process take their steps and time goes on.  The master
\* need not answer, nobody need send or interrupt.
Fairness ==
  /\ WF_vars(CallTimesOut)
  /\ WF_vars(OnStart)
  /\ WF_vars(Listener)
  /\ WF_vars(HandleCommand)
  /\ WF_vars(ReplyControl)
  /\ WF_vars(OnStop)
  /\ WF_vars(OnStopReturns)
  /\ WF_vars(Exit)
  /\ WF_vars(Look)
  /\ WF_vars(PublishOne)
  /\ WF_vars(Sleep)
  /\ WF_vars(Wake)
  /\ WF_vars(Tick)

Spec == Init /\ [][Next]_vars /\ Fairness

--------------------------------------------------------------------------------
(* Properties.                                                             *)

TypeOK ==
  /\ Channel!TypeOK
  /\ stage \in {"off", "sending", "receiving", "starting", "polling", "replying",
                "stopping", "stopped"}
  /\ call \in {"register", "heartbeat", "none"}
  /\ starts \in 0..MaxStarts
  /\ beat \in 0..Interval
  /\ spent \in 0..Timeout
  /\ result \in Results \cup {Channel!NoAnswer}
  /\ wait \in Nat
  /\ signal \in BOOLEAN
  /\ sigAge \in Nat
  /\ name \in BOOLEAN
  /\ subs \subseteq Instruments
  /\ running \in BOOLEAN
  /\ thread \in {"none", "looking", "publishing", "sleeping", "done"}
  /\ todo \subseteq Instruments
  /\ late \in [Instruments -> Nat]

\* A client whose request met no other on its way gets the answer to its own command.
\* Others may not: the listener may receive a request before the one before is
\* answered, and the answer to that then goes to the newer one's sender.
AnswerIsOwn ==
  \A r \in Channel!Requests :
    answers[r] # Channel!NoAnswer /\ r \notin crossed =>
      answers[r] = IF Fails(asked[r]) THEN "error" ELSE "ok"

\* Such a client gets an answer at all, though the master be gone, unless the process
\* ends or is told to.
LoneClientAnswered ==
  \A r \in Channel!Requests :
    (r <= Len(asked) /\ r \notin left) ~>
      answers[r] # Channel!NoAnswer \/ r \in crossed \/ r \in left \/ signal

\* A master that hangs or is gone makes every event cost a heartbeat's two timeouts,
\* and no more: no command waits longer for the one before it, nor does the runner
\* see the shutdown signal later.
LoopResponds ==
  /\ rx # <<>> => wait <= 2 * Timeout
  /\ Listening => sigAge <= 2 * Timeout

\* After on_unsubscribe at most one more book of the instrument is published, from the
\* round that was under way.
QuietAfterUnsubscribe == \A i \in Instruments : late[i] <= 1

\* An instrument that is subscribed in a gateway that runs is published, also when
\* there was nothing to publish before, and whatever the master does.
SubscribedIsPublished ==
  \A i \in Instruments \ Unknown :
    (running /\ i \in subs) ~> (i \in todo \/ i \notin subs \/ ~running)

================================================================================
