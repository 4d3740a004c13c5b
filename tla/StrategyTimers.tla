----------------------------- MODULE StrategyTimers -----------------------------
(***************************************************************************)
(* The timers of a strategy: TimerManager in                               *)
(* crates/nnxt-strategy/src/context.rs and the event loop that ticks it    *)
(* (StrategyRunner in runner.rs), from on_start to on_stop.                *)
(*                                                                         *)
(* A callback sees one time, read before it began; all callbacks of one    *)
(* tick_timers see the time that call read.  The clock goes on meanwhile.  *)
(*                                                                         *)
(* Left out: intents, and what the data events change (TradeFlow,          *)
(* MarketFlow).  The timers of the Reactor are used by nobody.             *)
(***************************************************************************)
EXTENDS Integers, Sequences

CONSTANTS
  Intervals,   \* intervals a strategy asks for
  MaxClock,    \* u64::MAX, where saturating_add stops
  MaxTimers,   \* bound: timers set in a run
  MaxPending,  \* bound: data events waiting in the strategy's queues
  MaxTime      \* bound on the clock

ASSUME TimersAssumption ==
  /\ MaxClock \in Nat
  /\ Intervals \subseteq 0..MaxClock
  /\ MaxTimers \in Nat
  /\ MaxPending \in Nat
  /\ MaxTime \in Nat
  /\ MaxTime < MaxClock

Ids   == 0..(MaxTimers - 1)
Times == 0..MaxTime
None  == -1

VARIABLES
  now,      \* the runner's clock
  pending,  \* data events waiting in the rings
  stage,    \* off, starting, polling, event, handled, ticking, stopping or stopped
  ctxNow,   \* now_ns of the last StrategyContext
  calling,  \* the timer whose on_timer runs, or None
  timers,   \* TimerManager.timers
  nextId,   \* TimerManager.next_id
  batch,    \* the events of due_timers not handled yet, by the timer's position
  asked,    \* history: when, and with what interval, each timer was set
  stamp,    \* history: the time stamp of each timer's last event, or None
  gone      \* history: the time at which each timer was cancelled, or None

loopVars    == <<stage, ctxNow, calling>>
managerVars == <<timers, nextId, batch>>
history     == <<asked, stamp, gone>>
vars == <<now, pending, loopVars, managerVars, history>>

Timer == [id : Ids, interval : Intervals, next : 0..MaxClock]

\* Fault: the sum wraps.
WrappingAdd(a, b) == (a + b) % (MaxClock + 1)

\* Fault: the sum is not capped, and does not fit.
PlainAdd(a, b) == a + b

\* u64::saturating_add
SaturatingAdd(a, b) == IF a + b > MaxClock THEN MaxClock ELSE a + b

\* Fault: the last element goes, whichever was meant.
PopInstead(s, i) == [k \in 1..(Len(s) - 1) |-> s[k]]

\* Vec::swap_remove: the last element takes the place of the one removed.
SwapRemove(s, i) ==
  [k \in 1..(Len(s) - 1) |-> IF k = i THEN s[Len(s)] ELSE s[k]]

Init ==
  /\ now = 0
  /\ pending = 0
  /\ stage = "off"
  /\ ctxNow = 0
  /\ calling = None
  /\ timers = <<>>
  /\ nextId = 0
  /\ batch = <<>>
  /\ asked = [i \in Ids |-> [at |-> 0, interval |-> 0]]
  /\ stamp = [i \in Ids |-> None]
  /\ gone = [i \in Ids |-> None]

--------------------------------------------------------------------------------
(* Callbacks: on_start, those of the data events, on_timer and on_stop may set *)
(* and cancel timers.                                                       *)

InCallback == stage \in {"starting", "event", "stopping"} \/ calling # None

\* start_with_ctx, once registered: on_start begins.
Start ==
  /\ stage = "off"
  /\ stage' = "starting"
  /\ ctxNow' = now
  /\ UNCHANGED <<now, pending, calling, managerVars, history>>

\* Fault: the id is the number of timers there are.
SetTimerByLength(d) ==
  /\ InCallback
  /\ nextId < MaxTimers
  /\ nextId' = nextId + 1
  /\ timers' = Append(timers,
       [id |-> Len(timers), interval |-> d, next |-> SaturatingAdd(ctxNow, d)])
  /\ asked' = [asked EXCEPT ![Len(timers)] = [at |-> ctxNow, interval |-> d]]
  /\ UNCHANGED <<now, pending, loopVars, batch, stamp, gone>>

\* StrategyContext::set_timer.
SetTimer(d) ==
  /\ InCallback
  /\ nextId < MaxTimers
  /\ nextId' = nextId + 1
  /\ timers' = Append(timers,
       [id |-> nextId, interval |-> d, next |-> SaturatingAdd(ctxNow, d)])
  /\ asked' = [asked EXCEPT ![nextId] = [at |-> ctxNow, interval |-> d]]
  /\ UNCHANGED <<now, pending, loopVars, batch, stamp, gone>>

\* StrategyContext::cancel_timer; of a timer that is not set it returns false.
CancelTimer(i) ==
  /\ InCallback
  /\ \E k \in DOMAIN timers :
       /\ timers[k].id = i
       /\ timers' = SwapRemove(timers, k)
  /\ gone' = [gone EXCEPT ![i] = ctxNow]
  /\ UNCHANGED <<now, pending, loopVars, nextId, batch, asked, stamp>>

\* The callback returns.  After on_start and on_stop the runner connects what they
\* asked for, where an error ends run.
EndCallback ==
  /\ \/ stage = "starting" /\ stage' \in {"polling", "stopped"}
     \/ stage = "event" /\ stage' = "handled"
     \/ stage = "stopping" /\ stage' = "stopped"
  /\ UNCHANGED <<now, pending, ctxNow, calling, managerVars, history>>

--------------------------------------------------------------------------------
(* The loop of run.                                                         *)

\* The timers that are due, by their position.
DueTimers == {k \in DOMAIN timers : now >= timers[k].next}

\* Fault: an event that is ignored does not tick the timers.
PollIgnoring ==
  /\ stage = "polling"
  /\ pending > 0
  /\ pending' = pending - 1
  /\ \/ stage' = "event" /\ ctxNow' = now
     \/ UNCHANGED <<stage, ctxNow>>
  /\ UNCHANGED <<now, calling, managerVars, history>>

\* poll finds a data event.  The handler calls the strategy, or ignores the event:
\* another instrument's book, or a repetition.
Poll ==
  /\ stage = "polling"
  /\ pending > 0
  /\ pending' = pending - 1
  /\ \/ stage' = "event" /\ ctxNow' = now
     \/ stage' = "handled" /\ UNCHANGED ctxNow
  /\ UNCHANGED <<now, calling, managerVars, history>>

\* tick_timers reads the clock and takes the events of due_timers.
Tick ==
  /\ stage = "handled"
  /\ stage' = "ticking"
  /\ ctxNow' = now
  /\ batch' = [k \in DueTimers |-> timers[k].id]
  /\ timers' = [k \in DOMAIN timers |->
       IF k \in DueTimers
       THEN [timers[k] EXCEPT !.next = SaturatingAdd(now, timers[k].interval)]
       ELSE timers[k]]
  /\ UNCHANGED <<now, pending, calling, nextId, history>>

\* The first event of the batch: on_timer begins.
NextEvent ==
  /\ stage = "ticking"
  /\ \E k \in DOMAIN batch :
       /\ \A j \in DOMAIN batch : k <= j
       /\ calling' = batch[k]
       /\ batch' = [j \in DOMAIN batch \ {k} |-> batch[j]]
       /\ stamp' = [stamp EXCEPT ![batch[k]] = ctxNow]
  /\ UNCHANGED <<now, pending, stage, ctxNow, timers, nextId, asked, gone>>

\* The batch is done.
EndTick ==
  /\ stage = "ticking"
  /\ DOMAIN batch = {}
  /\ calling' = None
  /\ stage' = "polling"
  /\ UNCHANGED <<now, pending, ctxNow, managerVars, history>>

\* poll finds the shutdown signal, before any event: on_stop begins.
Shutdown ==
  /\ stage = "polling"
  /\ stage' = "stopping"
  /\ ctxNow' = now
  /\ UNCHANGED <<now, pending, calling, managerVars, history>>

--------------------------------------------------------------------------------
(* The surroundings.                                                        *)

\* A gateway writes an event.
Arrive ==
  /\ pending < MaxPending
  /\ pending' = pending + 1
  /\ UNCHANGED <<now, loopVars, managerVars, history>>

\* Time passes, in a callback too.
Advance ==
  /\ now < MaxTime
  /\ now' = now + 1
  /\ UNCHANGED <<pending, loopVars, managerVars, history>>

Next ==
  \/ Start
  \/ \E d \in Intervals : SetTimer(d)
  \/ \E i \in Ids : CancelTimer(i)
  \/ EndCallback
  \/ Poll \/ Tick \/ NextEvent \/ EndTick \/ Shutdown
  \/ Arrive \/ Advance

\* Callbacks return and the loop goes on; no event need arrive.
Fairness ==
  /\ WF_vars(EndCallback)
  /\ WF_vars(Poll)
  /\ WF_vars(Tick)
  /\ WF_vars(NextEvent)
  /\ WF_vars(EndTick)

Spec == Init /\ [][Next]_vars /\ Fairness

--------------------------------------------------------------------------------
(* Properties.                                                              *)

TypeOK ==
  /\ now \in Times
  /\ pending \in 0..MaxPending
  /\ stage \in {"off", "starting", "polling", "event", "handled", "ticking",
                "stopping", "stopped"}
  /\ ctxNow \in 0..now
  /\ calling \in Ids \cup {None}
  /\ timers \in Seq(Timer)
  /\ nextId \in 0..MaxTimers
  /\ DOMAIN batch \subseteq Nat
  /\ batch \in [DOMAIN batch -> Ids]
  /\ asked \in [Ids -> [at : Times, interval : {0} \cup Intervals]]
  /\ stamp \in [Ids -> Times \cup {None}]
  /\ gone \in [Ids -> Times \cup {None}]

\* The runner has exactly the timers that were set and not cancelled, each once, in
\* whatever order swap_remove has left them.
TimersAccounted ==
  /\ \A j, k \in DOMAIN timers : timers[j].id = timers[k].id => j = k
  /\ {timers[k].id : k \in DOMAIN timers} = {i \in Ids : i < nextId /\ gone[i] = None}

\* The events of one timer are at least its interval apart, however late the loop
\* was with the last one, and the first is that long after set_timer; a timer of
\* u64::MAX, whose sum saturates, never fires.
CallsApart ==
  [][\A i \in Ids : stamp'[i] # stamp[i] =>
       stamp'[i] >= asked[i].interval + (IF stamp[i] = None THEN asked[i].at ELSE stamp[i])
    ]_vars

\* on_timer may still be called for a timer cancelled by another timer's callback,
\* when the two were due together; but no event of a cancelled timer is younger than
\* the cancellation.
CancelIsFinal == \A i \in Ids : gone[i] # None => stamp[i] <= gone[i]

Due(i) == \E k \in DOMAIN timers : timers[k].id = i /\ timers[k].next <= now

Served(i) == calling = i \/ gone[i] # None \/ stage = "stopped"

\* While data events keep arriving, also such as the runner ignores, every timer that
\* is due gets its on_timer.
TimersServed == []<>(pending > 0) => \A i \in Ids : Due(i) ~> Served(i)

================================================================================
