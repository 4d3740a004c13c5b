# Verification of nnxt

TLA+ models of nnxt, a trading framework of processes that talk through shared-memory
rings and a small master: what its components promise, checked with TLC on small
instances, and proved with TLAPS where the result should hold for every size.

* `tlc -config <X>.cfg <Module>` runs one of the configurations below, in this directory;
* `tlapm <Module>Proofs.tla` checks the proofs of a module;
* `PROJECT.json` lists components, runs, the source lines every definition stands for,
  seeded faults (operators marked "Fault:" in the modules), findings, hazards and theorems.

## 1. Inventory

The system consists of one master, gateways (market or trade) and strategies, each a
process with one event loop; the shared state is the rings.

| component | state | operations | talks to |
|---|---|---|---|
| Ring (`nnxt-rapid/ring.rs`) | header (`write_seq`), reader table, cells, all in shared memory; the Writer's pending sequence | create, `prepare`/`commit`/`write`; connect, `try_read`/`read`/`read_timeout`; both Drops; `cleanup` | every pair of processes, without locks |
| Addresses (`address.rs`, `nnxt-utils/queue.rs`) | none | parsing and formatting of queue names | names of rings in `/dev/shm` |
| Master (`registry.rs`, `server.rs`) | actors with status and heartbeat; queue address -> owner | register, register queue, unregister, heartbeat, three look-ups, connect-trade, list, forwarding a command | request/reply sockets; dials actors' control sockets |
| Reactor and actor context (`nnxt-actors`) | sources in connection order, timers, control socket, listener thread | connect, poll, timers, publish, receive control request, reply | rings; a channel from the listener thread |
| Trade gateway (`gateway/runner.rs`, `trade.rs`) | action queues, the gateway's own event list, heartbeat clock | register, add action queue on command, execute an action, publish its events, heartbeat | master, rings of all strategies |
| Market simulator (`gateway.rs`, `simulator.rs`, `subscription.rs`, `stats.rs`) | subscription table, queues per instrument, statistics | connect, subscribe, unsubscribe, publish | as the trade gateway |
| Market gateway runner (`gateway/runner.rs`) | heartbeat clock, shutdown flag; the gateway's own subscriptions | register, handle a command and reply, heartbeat, stop | master, control clients, a gateway with a publishing thread |
| Order and position state (`order_manager.rs`, `ledger.rs`, `state.rs`, `execution.rs`) | orders, events seen, positions, window of trade ids, next order id | record an action, apply an order event, apply a trade, turn intents into actions | only its runner |
| Strategy runner (`strategy/runner.rs`, `context.rs`) | the above, timers with their next id, pending subscriptions | start, resolve and connect, four callbacks, set, cancel and tick timers, shutdown | master, rings |
| Master client (`master_client.rs`) | a blocking socket | one request, one answer | master |
| Python bindings (`py-nnxt`) | one runner or gateway per object; the market gateway's own ring | conversions; `init_writer`, publishing without the GIL | the runners above |
| Utilities, data types, examples, benchmarks | - | clocks, logs, drivers | - |

What is hard, and what correctness means:

* **Ring.** Writer and readers race on every cell by design; readers enter, leave and die.
  Correct: a slot belongs to one reader; a reader is never ahead of the writer; what is
  committed stays whole until it is lapped; a reference never shows anything older than what
  was asked for; blocking reads return; the numbers of the messages that readers are referred to are
  those of a lossy broadcast channel.
* **Master.** One thread, but any sequence of requests by actors that restart, steal each
  other's addresses, fall silent. Correct: no orphan queue is handed out, health is current,
  the parts of a connect-trade answer belong together.
* **Order flow.** Order events and trades travel on two queues read in rotation, actions on
  a third; two event loops and a master interleave; gateways die and return. Correct: the
  position is what was traded; an order that was executed ends up finished in the books;
  a target is reached and kept; a start-up ends connected.
* **Control channel.** Two threads share a reply socket, and the channel between them carries
  messages without their senders. Correct: an answer reaches the peer that asked; who asks alone
  is answered.
* **Timers.** They are ticked by other events, several are due at once, and callbacks set and
  cancel them meanwhile. Correct: none is lost, early, or called for an event younger than its
  cancellation; all are served while events arrive.
* **Market gateway process.** A master that hangs blocks the loop, a thread publishes while commands
  change what, shutdown and crashes come at any point. Correct: commands and shutdown wait a
  bounded time; what is published follows what is subscribed.
* **Creation and removal of rings.** Names outlive processes. Correct: whoever connects finds
  an initialised ring; no ring ever has two producers; no name leads to a ring that was taken down.
* **Market data.** One ring, a reader per subscription, one source after another. Correct: the view
  of an instrument is the latest book its own source read; reader slots come back.
* **Gateway loop.** Commands block the loop, commands and rings of several incarnations overlap.
  Correct: heartbeats stay within the timeout; what the gateway was told to read is read (once is not guaranteed, see section 4).

## 2. Modules

| module | models | of |
|---|---|---|
| `Broadcast` | the abstract channel of message numbers: publish, find, join, look, receive, leave, close | which messages a ring refers its readers to |
| `RapidRing` | the ring between creation and removal, one access to shared memory per step | `ring.rs` |
| `RapidRingHistory` | `RapidRing` with the sequence of messages a reader obtained whole | `ring.rs`, for one finding |
| `ShmLifecycle` | the life of a queue's name and the objects behind it, one system call or store per step | `ring.rs`, `nnxt-actors/context.rs` |
| `MasterRegistry` | registry and server, one request per step | `registry.rs`, `server.rs` |
| `GatewayLoop` | a trade gateway between the master and one strategy: registration, heartbeats, commands, action queues; composes `MasterRegistry` | `gateway/runner.rs`, `reactor.rs`, `master_client.rs` |
| `MarketFlow` | market simulator, its subscriptions and heartbeats, and the strategy's market view | `gateway.rs`, `subscription.rs`, `simulator.rs`, `strategy/runner.rs` |
| `OrderState` | orders, position, fill window, intents: operators on a record | `order_manager.rs`, `ledger.rs`, `state.rs`, `execution.rs` |
| `TradeFlow` | strategy runners, one trade gateway and their queues; EXTENDS `OrderState` | `strategy/runner.rs`, `gateway/runner.rs`, `trade.rs` |
| `StrategyTimers` | a strategy's timers and the loop that ticks them | `strategy/context.rs`, `strategy/runner.rs` |
| `ControlChannel` | the reply socket, the listener thread and the channel to the actor | `reactor.rs`, `nnxt-actors/context.rs`, `server.rs` (forwarding) |
| `MarketRunner` | a market gateway process and its publishing thread; composes `ControlChannel` | `gateway/runner.rs`, `py-nnxt/src/lib.rs`, `py-nnxt/examples/market_simulator.py`, `master_client.rs` |
| `RapidRingProofs`, `ShmLifecycleProofs`, `MasterRegistryProofs`, `GatewayLoopProofs`, `StrategyTimersProofs`, `MarketRunnerProofs`, `MarketFlowProofs`, `TradeFlowProofs` | the theorems, each about the module of its name (`TradeFlowProofs` about `OrderState` too) | - |
| `MCRapidRing`, `MCShmLifecycle`, `MCMasterRegistry`, `MCMarketFlow`, `MCTradeFlow`, `MCMarketRunner` | symmetry sets, instruments, subscriptions and batches of intents for TLC | - |

### RapidRing

A message is its sequence number. `writeSeq`, `slots` and `data` are shared memory;
`pendingSeq` and `hasPending` are the Writer's fields; `unfilled` is which words of the
prepared cell the caller has yet to store. A reader is at `pc`: `off`, `opened`, `connecting` (between
its load of `write_seq` and its compare_exchange), `idle`, inside one of the three calls,
`holding` the reference a call returned (and copying word by word), or `dead`. `Open` and `LoadWriteSeq` are
two steps: `shm_open` needs the name, the load of `write_seq` does not, and the Writer's Drop may come between. `Load` and `Take` are two steps too, because the writer may move between them; the stores of a
call to its own slot are one, because nobody else reads that slot.

`Broadcast` is about numbers and says exactly which one a call refers its reader to: the first it wants, or,
when more than the capacity were waiting as the call looked, the oldest of those the ring kept then. It does not
say that the cell referred to still holds that message. It need not (finding 1), and what a copy from it shows is
the subject of `NeverStale` and `IntactUnlessLapped`.

Steps interleave, i.e. memory is sequentially consistent. For `write_seq` and the table that
is what the acquire/release orderings give on the accesses modelled; the cells are written and
read without synchronisation, which is a data race in the language's sense, and the model lets
each word be old or new independently, the outcomes a build has. Precondition, which `write`
meets and users of `prepare` are responsible for: `commit` follows a complete store of the cell.

### ShmLifecycle

An address names at most one object (`name`), but a process keeps the object it mapped
(`wobj`, `robj`). `Writer::create` is `Create` (exclusive), `Size` (ftruncate, mmap and their
failures) and one step per plain store (`StoreWord`, `StoreSlot`), which reach other processes in
any order; `Reader::connect` is `Open`, `Map`, one `Check` per header word and one `Scan` per slot.
`write_to` is `Cleanup` and `Create`, between which anything may happen. Every step that removes
the name removes it whatever it leads to by then, as `shm_unlink` does.

### MasterRegistry

`actors` and `queues` are the two hash maps; a request is one step (`Refreshed` is
`update_health`, run before each). `reply` is the last answer, `sent` the commands forwarded.
An iteration over a hash map that stops at the first match is a choice of any match. `Tick` is
time, `Restart` the end of the process: nothing is persisted. An actor's queue list is a set,
and one announcement never names an address twice.

### GatewayLoop

The variables of the master are those of `MasterRegistry`, and every request is an action of the
instance `Master`. `phase` is where `TradeGatewayRunner::run` stands; `add_action_queue` with its
retries is `HandleCommand`, `TryQueue` and `Wake`. A command travels through `socket` and, by the
listener thread, `rx`. It names an address, so what is connected is the ring that is there at that
moment (`ring`, told apart by the start of the strategy that made it). `write_to` is `CleanUp`, `CreateQueue`
and `FinishQueue`; an attempt that meets the ring in between may read it, if its header is there (`ShmLifecycle`),
or fails, and an error other than NotFound is not retried (`Hopeless`). Time passes only while the
gateway waits: steps of the loop and requests take none, so `RunningIsHealthy` is about the
sleeps, which are what the code spends its time with.

### MarketFlow

A book is its instrument and its number. The gateway's round is `BeginRound` (with the heartbeat),
`Store` and `Commit` for each entry of the table, and `EndRound`; `End` and `Crash` differ in the
name that stays. A start is `CreateQueue`, `FinishQueue` and `Register`, or `RegisterFails`, which takes the ring
down again. The simulator's requests to the master have no timeouts: while none `answers`, `Register` and a
`BeginRound` with a heartbeat that is due wait; the strategy's requests time out and end its start. The strategy connects one subscription after another (`Resolve`, `Connect`); each
is a reader of its own, which reads the books of all instruments, and `Poll` serves the first
source that has any. `clean` marks the instruments whose source has never been a capacity behind;
for the others a book may be torn (`RapidRing`), and nothing is claimed.

### OrderState and TradeFlow

`OrderState` is sequential code translated to operators on the record of `NewState`; one
instrument, no prices. `TradeFlow` steps are whole handlers of the strategy (they touch
nothing another process writes), and single publications of the gateway. `scan` is where the
reactor's loop stands: it polls market, orders, trades in that order and begins again after
each event. `stage` is how far the runner's start is; `link` is what the gateway knows of a
strategy's action queue, and `hears` which queues of the *current* gateway the strategy reads:
after a crash the successor creates new rings under the same names, and old readers hear
nothing. `executed` is a history variable.

Queues are lossless here: an execution of `TradeFlow` is one in which no reader falls
a capacity behind, and `RapidRing` says what happens to one that does. The market is an
environment that delivers up to `MaxBooks` books per strategy. Intents come from the batches in
`MCTradeFlow`: new orders of both sides, targets, cancels of known and unknown ids, cancel-all.

### StrategyTimers

The clock is the runner's, in units; `MaxClock` stands for `u64::MAX`, where `saturating_add` stops,
and the run never gets there. `pending` counts the data events in all queues. An event is handled
(with a callback, or ignored), then `tick_timers` reads the clock once (`Tick`), moves every due
timer on and collects its event in `batch`, and each event of the batch is a callback
(`NextEvent`) that sees that one time. A callback may set and cancel timers, also such as are still in
the batch. `timers` is a sequence because `cancel_timer` removes by swapping the last one in.
`asked`, `stamp` and `gone` are history variables.

### ControlChannel and MarketRunner

A request is its number. The listener thread receives it (`Receive`), which makes its sender the one
that the socket answers (`owner`), and hands the message on (`rx`); the actor takes it (`Take`) and
replies (`Reply`) to whoever `owner` is by then. `crossed` is a history variable: the requests
received while another was open, and those they met. A sender may leave without waiting, as the master does
when it forwards a command.

`MarketRunner` is the process around it. `stage` is where `run` stands; a request to the master is
`sending`, then `receiving`, each for at most `Timeout`, and the master need not answer either. It takes
a master that can be dialled to `Start`. `subs`, `running` and `thread` are the Python simulator's: its
thread copies the subscriptions under the lock (`Look`), publishes them one by one (`PublishOne`) and
sleeps. The callbacks of the Python simulator do not fail; `Unknown` is the instruments that a gateway refuses,
in the run one of two. `name` is the name of its ring: `init_writer` does not clean up, so a name left behind makes
the next `OnStart` fail. The name stays after a crash, and after a stop whose `join` gave up on a sleeping
thread. The model allows that for every sleep, where the code takes one longer than a second. `wait` and
`sigAge` are how long a command and the signal have been waiting, `late` counts books published
after an unsubscription.

## 3. Runs

| run | instance | shows |
|---|---|---|
| `ring` | 2 readers for 1 slot, 2 words, capacity 2, 3 messages | what cells retain and references show while being lapped; slots are exclusive through leave, crash, return; the numbers readers are referred to are those of `Broadcast`, also when the queue is dropped while they connect; `read` returns |
| `ring_order` | 1 reader, 2 words, capacity 2, 5 messages, with history | **violated**: strict order (finding 1) |
| `shm` | 2 creators, 2 readers, 1 slot, 2 objects | no ring has two producers; whoever connects has a complete ring and a slot of its own; no name leads to a ring taken down |
| `master` | 2 actors, 2 addresses, timeout 0, clock 0..1 | no orphans; connect-trade answers coherent; status current at each request |
| `gateway` | timeout 3, interval 1, 3 attempts, 2 starts of the strategy, clock 0..6 | a gateway that runs is never reported unhealthy; a command that arrives leads to its ring |
| `market` | 2 instruments, 2 slots, capacity 2, 3 books, 2 rings, 2 starts | the view of an instrument is what its own source read; slots are accounted for; a forgotten gateway ends while a master answers; a start ends |
| `timers` | 2 timers, intervals 0, 2 and the largest, 1 event waiting, clock 0..4 | timers are kept apart through cancellations; events are an interval apart; a cancellation is final; due timers are served while events arrive |
| `market_runner` | 2 instruments, one of them refused, interval 1, timeout 2, 2 requests, 2 starts | answers reach who asked, unless requests cross; a silent master costs two timeouts at most; a lone client is answered; what is subscribed is published, what is not is not |
| `flow` | 1 strategy, 2 books, 3 actions, window 2, 1 outage | position accounted for; quiet means settled; executed orders settle; a start against a running gateway ends connected in both directions |
| `flow_forgotten` | on_start submits | **violated**: no order is forgotten (finding 4) |
| `flow_target` | a strategy that only asks for target 1 | **violated**: target kept (finding 2) |
| `flow_shared` | two strategies, one gateway | **violated**: quiet means settled (finding 3) |

The instances are small because the hazards are. A reader is lapped when the writer is
`Capacity + 1` messages ahead, so capacity 2 and 3 messages are enough; a torn element needs two
words, a slot conflict two readers and one slot; for larger rings the theorems speak (section 5).
Two creators and two objects are what it takes to remove each other's names. An order conflict
needs one order with its two event streams, an id repeated needs two. Stealing an address needs two
actors, a coherent answer two addresses. The actors of `master` have one type, so that an answer has the
right type is shown by the theorem only (with two types the run takes more than 250 s). With a timeout of 0 a heartbeat's age is at the
timeout or above it. In `gateway`, interval plus retries use the timeout up, one unit less is
violated (`LoopAssumption`); two starts give two rings at one address and two commands under way.
In `market`, two sources share a ring, the third book overwrites a cell, the second ring replaces the
first, and the second start meets the slots the first one lost. In `timers`, two timers are what one
needs to cancel the other in the batch of both, or to be swapped into its place; interval 0 is always
due, 2 is late and drifts, the largest saturates and never fires; how many events wait changes nothing
about what is due, so one is enough. In `market_runner`, two requests cross, the second start meets the name
of the first, the interval is shorter than the timeout, so that a heartbeat is due again as soon as the last
has failed; one instrument that is taken and one that is refused are enough, as the properties are about one at a time. Three requests with one
start and timeout 1 have been checked too (982 000 states, more than five minutes). Deadlock checking is off where bounds
(messages, objects, books) end the behaviour; in `master` and `gateway` there is always a next step
and it is on.

The symmetry sets (readers, actors, addresses) are used only with invariants.

**Fairness.** `RapidRing`: weak fairness of each reader's next step inside a call: a process
that spins in `read` is scheduled. Nothing is assumed of the writer, nor of a reader between
calls. `TradeFlow`: weak fairness of the gateway's loop and of each strategy's connecting and
polling: both are loops that never wait for anything else (`loop { if let Some(event) = poll() ..
else spin }`). `GatewayLoop`: weak fairness of the gateway's
registration, its listener thread, its handling of commands and the end of a sleep: the loop and the
thread never block on anything else, and an action queue that never runs dry (which would starve
commands, as the reactor polls rings first) is excluded. `MarketFlow`: weak fairness of the steps of a
gateway's round, which repeats for as long as it is up (one that waits for the master goes on only if a master
answers, which nothing promises), and of a strategy's start; nothing is assumed
of its polling. `StrategyTimers`: callbacks return and the loop goes on; nothing is assumed of arrivals,
nor of the clock. `MarketRunner`: the threads of a process that runs take their steps and time goes on,
so calls time out and sleeps end; the master need not answer, nobody need send or interrupt.

A reactor that always finds a market event never reaches the other sources; the
books are finite in the model, so `OrderSettles` says *as long as the market leaves the
reactor time*. Nothing forces a strategy to start, a gateway to fail or a shutdown to happen.

## 4. Findings

1. **A lagging reader can obtain messages out of order** (`ring_order`). `try_read` lets a
   reader that lags jump to `write_seq - capacity`, the cell the writer overwrites next. Its
   reference then shows message n + capacity before that one is committed, and its next read
   shows n + 1. `docs/concepts/semantics.md:7` promises strict order within a queue.
   `NeverStale` and `IntactUnlessLapped` say what does hold.
2. **A target position can be ordered twice** (`flow_target`). The Filled order event ends the
   order's exposure; until the trade arrives on the other queue, the effective position is
   short of the whole order. Read the other way round (trade, then Active), the event's
   `filled_quantity = 0` replaces what the trade had added and the position counts twice.
3. **Strategies sharing a gateway disturb each other** (`flow_shared`). Every engine numbers its
   orders from 1 and all strategies read the same event queues. Events are recognised
   as repetitions by (id, status, figures), so another strategy's Filled hides one's own.
4. **Orders submitted in `on_start` are never sent** (`flow_forgotten`): they are recorded before
   the action queue exists, and `write_actions` returns silently.

Observed and not the subject of a run:

* a strategy whose gateway is replaced keeps reading the old rings; `docs/concepts/semantics.md` says
  gateways reconnect automatically, and nothing in the source does;
* a reader connecting while the ring is being created fails with an error that is not retried;
* a live ring becomes unreachable when an older Writer's Drop, or another clean-up, unlinks its name;
* `MarketSimulator::new` creates without cleaning up, so that it cannot start again after a crash;
* strategies send no heartbeats, so the master reports every one Unhealthy after the timeout;
* the market simulator's requests to the master have no timeouts, so a master that stays down blocks it;
* gateways ignore that a restarted master does not know them (the market simulator ends instead);
* an address the master still lists for a gateway that is gone keeps a start waiting without limit;
* a refused re-registration loses the actor's queues: `register` releases them, then looks for
  conflicts, and returns the error without putting them back;
* a ring can be read twice: when a strategy restarts while the command of its first start waits behind
  another one's retries, both commands connect to the new ring and each action is executed twice;
* timers fire only after a data event, though `docs/user-guide/strategy-development.md:34-35` shows one
  that fires every second; when several intervals have passed, there is one event and no more;
* a timer cancelled in the callback of another may fire once more, if the two were due together;
* the Python adapter has no `on_timer`, so a timer set from Python never calls back;
* `subscribe_quote` and `connect_trade` are dropped silently in callbacks other than `on_start` and `on_stop`;
* control requests that cross get each other's answer or none; a driver that expects one, as
  `examples/trade_sim.rs:53-54` does, panics then;
* `init_writer` of the Python market gateway does not clean up: after a crash, or a stop that gave up on its
  thread, the next `on_start` fails until somebody removes the name;
* gateways register before their ring exists, so the master may list one whose process ended in between;
* nothing uses the reactor's own timers.

## 5. Proofs

Every theorem is about all values of the constants that the module's named assumption allows; the
bounds of the runs are constants too, so nothing depends on their size.

**RapidRing** (`RingAssumption`: any readers and words, capacity at least 1, any number of slots
and messages):

* `RingInvariant`: `Spec => []RingInv`, and from it `TypeCorrect`, `SlotsAreExclusive`,
  `ReadersStayBehind`, `RingRetains`, `ReferencesNeverStale`, `ReferencesIntactUnlessLapped`;
* `RingImplementsBroadcast`: `Spec => Channel!Spec`, the refinement of `Broadcast`: a statement about the numbers
  of the messages that readers are referred to, not about what they copy.

None of the safety properties is inductive alone. What a cell holds (`CellsHold`) survives `Fill`
only because the cell prepared is the next one and the words stored so far are its own:
`PreparedCell`. A reference is intact because the cell is, provided the cursor it came from was
not ahead of the writer: `CursorBehindWriter`, which needs slots to be exclusive, or a claim
would overwrite another reader's cursor. The conjunction of all seven is `RingInv`. Each action
has its own step in the proof; two arithmetic lemmas about `%` carry the cells: two
different sequence numbers with one cell are at least `Capacity` apart.

The refinement maps a reader to `Away`, to `Found` once it has opened the object, to the `write_seq` it loaded
while it connects, or to its slot's content; what a call loaded of `write_seq` is what the channel's reader saw when
it looked. One lemma takes each ring step to a step or a stutter of the channel, given `RingInv`: `Take` is a
receive, of exactly the number that `Broadcast` says.

**ShmLifecycle** (`ShmAssumption`: any creators and readers, any numbers of slots and objects):
`ShmInvariant`, and from it `ShmTypeCorrect`, `RingsHaveOneProducer`, `ConnectionsAreSound`,
`DroppedRingsHaveNoName`.
One producer: exclusive creation always makes a new object, `made + 1`, and no owner's object is
greater than `made`. Soundness of connections needs two more facts. `Untouched`: slots the creator has
yet to initialise, and all slots of objects not made yet, are zero as ftruncate leaves them; so a slot
that a reader took is never initialised again. `Seen`: a reader that scans has seen every header word,
and headers only grow. `SizedInv`: a creator that fills an object, and a reader past `Map`, have one
that ftruncate has given memory to.

**MasterRegistry** (`MasterAssumption`): `MasterTypeCorrect`, `QueuesHaveOwners`,
`HealthAlwaysCurrent`, `TradeAnswersCoherent`, each inductive given those before it. The
refresh that precedes each request is a lemma of its own (it changes statuses only), and so are
releasing and announcing queues, the two ways in which a registration touches other
actors' addresses.

**GatewayLoop** (`LoopAssumption`: interval and retries fit into the timeout): `GatewayStaysHealthy`,
`LoopTypeCorrect`, `LoopUsesMaster`.
For the first, the inductive invariant says how old a heartbeat can be at each place of the loop (at most the
interval when polling, one unit more for every attempt), and that the record the master has of the
gateway, if any, carries that heartbeat. The steps of the master cite lemmas about its refresh.
`LoopUsesMaster` is the refinement `Spec => Master!Spec`: every step of loop, listener and strategy is a
request of `MasterRegistry`, a tick or restart of it, or leaves it alone. So the theorems about the master hold
of it here; its types are what `LoopTypeCorrect` takes from there.

**StrategyTimers** (`TimersAssumption`: any intervals, timers and events, a clock below `MaxClock`):
`TimersTyped`, `TimersKept`, `CancelsFinal`, `EventsApart`. The last, an action property, is the hardest:
when a timer's event is handled, its batch was collected earlier, and the timer may be gone by then.
`NextIsFar` says that the next time of a timer is at least an interval after its last event,
or saturated; `BatchOK` that what is in the batch is due at the batch's time, that no timer is in it
twice, and that one that is still set has been moved on already; `HistoryOK` relates the histories
to the ids given out. `SwapRemoveKeeps` is the lemma about `swap_remove`: what it leaves is
all but the one removed, each once.

**MarketRunner** (`RunnerAssumption`: any instruments, requests, starts, heartbeat interval and timeout):
`RunnerTypeCorrect`, `AnswersAreOwn`, `LoopKeepsResponding`, `UnsubscribedIsQuiet`. `Numbered`: requests
pass through socket, channel and actor in the order of their numbers, so none is there twice.
`Answering`: the socket answers an open request only, and an open request that met no other is the only
one open, so the answer is to it. `Delays` gives each stage the time a call may have taken by then, which is
what bounds `wait` and `sigAge`. `Rounds`: a book published after the unsubscription is no longer
in the round.

**MarketFlow** (`MarketAssumption`: any instruments, subscriptions, ring capacity, reader slots, rings,
starts and books): `MarketTypeCorrect`, `NoSlotForgotten`, `ViewIsLatestRead`. The invariant falls into what
the gateway's variables say (`GatewayHalf`) and what the strategy's do (`StrategyHalf`). A step of the gateway
touches the second half only through `books`, and there `BooksGrow`: what has been committed stays, so what a
source has read stays what it was. `StartInv`: the sources are the first subscriptions, in order, so two sources
are of two subscriptions, and no view exists before all are connected. A poll moves
one source on by one book, the largest number it has read, and the view of its instrument with it; an instrument
whose source falls a capacity behind leaves `clean` for the rest of that run.

**TradeFlow** (`TradeFlowAssumption`, `FillWindowAssumption`: any batches of intents, any window of at least one
trade id, any bounds): `FlowTypeCorrect`, for any strategies; `PositionIsAccounted` and `QuietMeansSettled`,
for one (`OneStrategy`; with two both are wrong, which is finding 3). Nearly everything a handler does is a fold:
over the intents of a batch (`Execute`), the actions (`Recorded`), the batches (`Callbacks`), the orders
(`EffectivePosition`), the trades (`Total`). The community modules define folds by a chosen function on sets; its
existence, and that a fold stays in a set that each step stays in, are proved first, by a least counterexample
among the subsets of a finite set (the library's theorems on well-founded relations, which take no
operator). What follows from it:

* `CallbacksKeep`: whatever the callbacks of a handler submit, they touch neither the ledger, nor the events
  seen, nor an order that was finished before; and the orders they send carry fresh ids, in increasing order
  (`Numbered`);
* `OrderEventApplied`, `TradeApplied`: what one event changes; `RememberedTyped`: the window;
* `TotalSplits`: a total is that of the rest and the one item, whichever item is taken out.

Neither property is inductive. `Consistent` relates the books of the strategy, the three queues and the history:
an action that waits has a larger id than all that were executed (`IdsAgree`), trade ids grow along the trade
queue and into the outbox, and after the report that an order is filled there is nothing on the way about it but
a cancellation (`StreamsOrdered`); a trade on its way is newer than everything in the window, and an order whose
events are on their way has not been seen filled (`StillNews`); an executed order is finished, or its report is on
its way (`Finishing`). So the window never takes a trade for a repetition, whatever its size, and the
set of events seen never swallows the report of a fill. `Joined` says that no action waits and nothing was
executed before the strategy reads both event queues, which is why no event misses it. Each handler's lemma is
about values, not variables (`ConsistentAfterOrderEvent` and the like), so an event and the callbacks after it
compose. The invariant was checked on the run `flow` (171 000 states, four actions, no outage) before it was
proved; it claims nothing after the gateway went down, as the properties do not.

Only model-checked, because out of this prover's reach: liveness (`ReadReturns`, `ToldQueueIsRead`, `KnownOrEnds`,
`StartEnds`, `OrderSettles`, `ConnectsToRunningGateway`, `TimersServed`, `LoneClientAnswered`,
`SubscribedIsPublished`). Every invariant and action property of a passing run is a theorem.

## 6. Not modelled

Address parsing (no state), the master client's encoding, logging, clocks other than the runners', data
layouts, latency statistics and price generation. Of the Python bindings, the rest: they convert objects and
call the same runners; the trade simulator in Python does what the modelled one does. The reactor's own
timers and its external channel, which nothing uses. Average prices in the ledger: nothing branches on
them. More than one instrument in the order flow: instruments share nothing but the order ids, the event
set and the window. More than one gateway per strategy: a runner has at most one. A strategy that runs as an
`Actor` of a reactor instead of by `run`: the same handlers, but errors of its start are ignored.
Reconnection of a strategy to a market gateway that was replaced: the documentation promises it and no
code does it, so there is no behaviour to check.

## 7. Plan

Done so far, in this order: the ring and its refinement, the master, the order flow, the life of
names, the gateway's loop, the market flow, the timers, the control channel and the market gateway
process on top of it; the proofs of every safety property, and that the gateway's loop uses the master as
specified. Next:

1. An abstract account (orders accepted, traded, booked) that `TradeFlow` implements for one strategy, the
   position being what is booked.
2. What remains of the position after an outage: the trades the former gateway had yet to publish are lost, and
   the successor numbers its trades from 1 again.
3. The strategy as an `Actor`: which state a failed start leaves it in.
