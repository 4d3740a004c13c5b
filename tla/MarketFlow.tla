------------------------------- MODULE MarketFlow -------------------------------
(***************************************************************************)
(* Market data from a simulated gateway (MarketSimulator in                *)
(* crates/nnxt-gateway/src/gateway.rs) to the market view of a strategy    *)
(* (StrategyRunner in crates/nnxt-strategy/src/runner.rs): the gateway's   *)
(* life, its rounds over the subscribed instruments and its heartbeats;    *)
(* the strategy's subscriptions, each of which opens a reader of its own,  *)
(* and the handler that keeps the books of one instrument.                 *)
(*                                                                         *)
(* A book is its instrument and its number in its ring.  A reader that     *)
(* the writer is a capacity ahead of may see the cell that is being        *)
(* overwritten (RapidRing): instrument and figures are then each the old   *)
(* or the new one.  A ring whose creation is not finished is one that      *)
(* connect rejects (ShmLifecycle).  Of the master only matters whether it  *)
(* is there to answer, and whether it lists the gateway.                   *)
(*                                                                         *)
(* Time is counted in rounds: run sleeps once after each.                  *)
(***************************************************************************)
EXTENDS Integers, Sequences, FiniteSets, SequencesExt, FiniteSetsExt, Functions

CONSTANTS
  Instruments,
  Wanted,      \* the instruments the strategy subscribes to in on_start, in order
  Capacity,    \* of the gateway's ring
  MaxReaders,  \* header.max_readers
  Interval,    \* heartbeat_interval, in rounds
  Retries,     \* MAX_QUEUE_RETRIES
  MaxRings,    \* bound: gateways that get as far as creating their ring
  MaxStarts,   \* bound: starts of the strategy
  MaxBooks     \* bound: books in all rings together

\* One subscription for an instrument: a second one would handle every book again.
ASSUME MarketAssumption ==
  /\ Wanted \in Seq(Instruments) /\ IsInjective(Wanted)
  /\ Capacity \in Nat \ {0}
  /\ MaxReaders \in Nat
  /\ Interval \in Nat
  /\ Retries \in Nat \ {0}
  /\ MaxRings \in Nat
  /\ MaxStarts \in Nat
  /\ MaxBooks \in Nat

None  == 0
Rings == 1..MaxRings

VARIABLES
  \* shared memory
  name,      \* the ring the queue address names, or None
  made,      \* how many rings have been created
  whole,     \* the rings whose creation was finished
  books,     \* ring -> the instruments of the books committed to it
  taken,     \* ring -> reader slots in use
  \* the gateway
  phase,     \* down, creating, registering or up
  table,     \* SubscriptionManager.instruments
  turn,      \* the entry of the table that is next in this round; 0 between rounds
  writing,   \* whether the book of that entry is being stored in its cell
  age,       \* rounds since the last heartbeat, up to Interval
  \* the master
  known,     \* whether it lists the gateway's queue
  answers,   \* whether it is running
  \* the strategy
  stage,     \* off, resolving, connecting or running
  starts,
  attempts,  \* requests made for the current subscription, until one succeeds
  sources,   \* quote_sources: the instrument, its ring, where its reader began and is
  market,    \* state.market: instrument -> number of its latest book
  clean,     \* history: the instruments whose source never was a capacity behind
  leaked     \* history: ring -> slots of strategies that died

ringVars     == <<name, made, whole, books, taken>>
gatewayVars  == <<phase, table, turn, writing, age>>
masterVars   == <<known, answers>>
strategyVars == <<stage, starts, attempts, sources, market, clean, leaked>>
vars == <<ringVars, gatewayVars, masterVars, strategyVars>>

NoBooks == [i \in Instruments |-> 0]

Init ==
  /\ name = None
  /\ made = 0
  /\ whole = {}
  /\ books = [o \in Rings |-> <<>>]
  /\ taken = [o \in Rings |-> 0]
  /\ phase = "down"
  /\ table = <<>>
  /\ turn = 0
  /\ writing = FALSE
  /\ age = 0
  /\ known = FALSE
  /\ answers = TRUE
  /\ stage = "off"
  /\ starts = 0
  /\ attempts = 0
  /\ sources = <<>>
  /\ market = NoBooks
  /\ clean = {}
  /\ leaked = [o \in Rings |-> 0]

--------------------------------------------------------------------------------
(* The gateway.                                                            *)

\* MarketSimulator::new: create does not clean up first, and fails while the name
\* is there.
CreateQueue ==
  /\ phase = "down"
  /\ name = None
  /\ made < MaxRings
  /\ made' = made + 1
  /\ name' = made + 1
  /\ phase' = "creating"
  /\ UNCHANGED <<whole, books, taken, table, turn, writing, age, masterVars, strategyVars>>

\* The ring is ready; now the master is dialled.
FinishQueue ==
  /\ phase = "creating"
  /\ whole' = whole \cup {made}
  /\ phase' = "registering"
  /\ UNCHANGED <<name, made, books, taken, table, turn, writing, age, masterVars, strategyVars>>

\* register_with_master.
Register ==
  /\ phase = "registering"
  /\ answers
  /\ phase' = "up"
  /\ known' = TRUE
  /\ UNCHANGED <<ringVars, table, turn, writing, age, answers, strategyVars>>

\* Fault: an instrument that is subscribed already is added again.
SubscribeAgain(i) ==
  /\ phase = "up"
  /\ turn = 0
  /\ Len(table) < 2 * Cardinality(Instruments)
  /\ table' = Append(table, i)
  /\ UNCHANGED <<ringVars, phase, turn, writing, age, masterVars, strategyVars>>

Subscribe(i) ==
  /\ phase = "up"
  /\ turn = 0
  /\ ~ Contains(table, i)
  /\ table' = Append(table, i)
  /\ UNCHANGED <<ringVars, phase, turn, writing, age, masterVars, strategyVars>>

\* swap_remove: the last entry takes the place of the one that goes.
Unsubscribe(i) ==
  /\ phase = "up"
  /\ turn = 0
  /\ \E k \in DOMAIN table :
       /\ table[k] = i
       /\ table' = Front([table EXCEPT ![k] = Last(table)])
  /\ UNCHANGED <<ringVars, phase, turn, writing, age, masterVars, strategyVars>>

\* The process ends in order: dropping the Writer removes the name.
End ==
  /\ phase' = "down"
  /\ name' = None
  /\ table' = <<>>
  /\ turn' = 0
  /\ writing' = FALSE
  /\ age' = 0

\* Nobody can be dialled, the master refuses, or its answer is lost: new fails, and
\* takes the Writer with it.
RegisterFails ==
  /\ phase = "registering"
  /\ End
  /\ known' \in {known, answers}
  /\ UNCHANGED <<made, whole, books, taken, answers, strategyVars>>

\* Fault: the error of a heartbeat is ignored, as the gateway runners do.
BeginRoundRegardless ==
  /\ phase = "up"
  /\ turn = 0
  /\ age >= Interval => answers
  /\ turn' = 1
  /\ age' = IF age >= Interval THEN 0 ELSE age
  /\ UNCHANGED <<ringVars, phase, table, writing, masterVars, strategyVars>>

\* broadcast_once begins with maybe_send_heartbeat; an error, of a master that does
\* not know the gateway, ends run.  send and recv have no timeout: they wait for a
\* master that is down.
BeginRound ==
  /\ phase = "up"
  /\ turn = 0
  /\ age >= Interval => answers
  /\ IF age >= Interval /\ ~ known
     THEN End
     ELSE /\ turn' = 1
          /\ age' = IF age >= Interval THEN 0 ELSE age
          /\ UNCHANGED <<name, phase, table, writing>>
  /\ UNCHANGED <<made, whole, books, taken, masterVars, strategyVars>>

Published == Cardinality(UNION {{o} \X DOMAIN books[o] : o \in Rings})

\* Writer::write of the next subscribed instrument: the cell is stored ...
Store ==
  /\ phase = "up"
  /\ turn \in DOMAIN table
  /\ ~ writing
  /\ Published < MaxBooks
  /\ writing' = TRUE
  /\ UNCHANGED <<ringVars, phase, table, turn, age, masterVars, strategyVars>>

\* ... and committed.
Commit ==
  /\ writing
  /\ books' = [books EXCEPT ![made] = Append(@, table[turn])]
  /\ writing' = FALSE
  /\ turn' = turn + 1
  /\ UNCHANGED <<name, made, whole, taken, phase, table, age, masterVars, strategyVars>>

\* Every instrument has had its turn (or the model its number of books); run sleeps.
EndRound ==
  /\ phase = "up"
  /\ turn > Len(table) \/ (turn > 0 /\ ~ writing /\ Published = MaxBooks)
  /\ turn' = 0
  /\ age' = Min({age + 1, Interval})
  /\ UNCHANGED <<ringVars, phase, table, writing, masterVars, strategyVars>>

\* run looks for a shutdown between rounds.
Shutdown ==
  /\ phase = "up"
  /\ turn = 0
  /\ End
  /\ UNCHANGED <<made, whole, books, taken, masterVars, strategyVars>>

\* The process dies and leaves the name behind.
Crash ==
  /\ phase # "down"
  /\ phase' = "down"
  /\ table' = <<>>
  /\ turn' = 0
  /\ writing' = FALSE
  /\ age' = 0
  /\ UNCHANGED <<ringVars, masterVars, strategyVars>>

\* Somebody removes what a dead gateway left, as market_sim does before it creates.
CleanUp ==
  /\ phase = "down"
  /\ name # None
  /\ name' = None
  /\ UNCHANGED <<made, whole, books, taken, gatewayVars, masterVars, strategyVars>>

\* The master ends, and what it knows with it.
MasterStop ==
  /\ answers
  /\ answers' = FALSE
  /\ known' = FALSE
  /\ UNCHANGED <<ringVars, gatewayVars, strategyVars>>

MasterStart ==
  /\ ~ answers
  /\ answers' = TRUE
  /\ UNCHANGED <<ringVars, gatewayVars, known, strategyVars>>

--------------------------------------------------------------------------------
(* The strategy starts.                                                    *)

\* The strategy has registered, and on_start has subscribed; handle_pending connects
\* one subscription at a time.
Start ==
  /\ stage = "off"
  /\ answers
  /\ starts < MaxStarts
  /\ starts' = starts + 1
  /\ stage' = IF Wanted = <<>> THEN "running" ELSE "resolving"
  /\ attempts' = 1
  /\ UNCHANGED <<ringVars, gatewayVars, masterVars, sources, market, clean, leaked>>

SourcesOf(o) == {k \in DOMAIN sources : sources[k].ring = o}

\* The process ends in order, or with an error: every reader is dropped.
Leave ==
  /\ stage' = "off"
  /\ attempts' = 0
  /\ sources' = <<>>
  /\ market' = NoBooks
  /\ clean' = {}
  /\ taken' = [o \in Rings |-> taken[o] - Cardinality(SourcesOf(o))]

\* wait_for_queue_by_actor: ask the master, wait and ask again, or give up.  Here a
\* request to a master that is down has a timeout, which ends the start.
Resolve ==
  /\ stage = "resolving"
  /\ \/ /\ known
        /\ stage' = "connecting"
        /\ attempts' = 0
        /\ UNCHANGED <<taken, sources, market, clean>>
     \/ /\ answers
        /\ ~ known
        /\ attempts < Retries
        /\ attempts' = attempts + 1
        /\ UNCHANGED <<stage, taken, sources, market, clean>>
     \/ /\ ~ known
        /\ attempts = Retries \/ ~ answers
        /\ Leave
  /\ UNCHANGED <<name, made, whole, books, gatewayVars, masterVars, starts, leaked>>

\* What connect and the push to quote_sources do.
Add ==
  /\ taken' = [taken EXCEPT ![name] = @ + 1]
  /\ LET i  == Wanted[Len(sources) + 1]
         at == Len(books[name])
     IN  /\ sources' = Append(sources, [inst |-> i, ring |-> name, from |-> at, at |-> at])
         /\ clean' = clean \cup {i}
  /\ IF Len(sources) + 1 = Len(Wanted)
     THEN stage' = "running" /\ UNCHANGED attempts
     ELSE stage' = "resolving" /\ attempts' = 1
  /\ UNCHANGED market

\* connect finds a header that is complete, and a slot.
CanOpen == name \in whole /\ taken[name] < MaxReaders

\* Fault: every error is tried again, not only NotFound.
ConnectPatiently ==
  /\ stage = "connecting"
  /\ name # None
  /\ CanOpen
  /\ Add
  /\ UNCHANGED <<name, made, whole, books, gatewayVars, masterVars, starts, leaked>>

\* Fault: a start that fails forgets the readers it had.
ConnectLeaking ==
  /\ stage = "connecting"
  /\ name # None
  /\ IF CanOpen
     THEN Add
     ELSE /\ stage' = "off"
          /\ attempts' = 0
          /\ sources' = <<>>
          /\ market' = NoBooks
          /\ clean' = {}
          /\ UNCHANGED taken
  /\ UNCHANGED <<name, made, whole, books, gatewayVars, masterVars, starts, leaked>>

\* read_from_with_retry: while there is no such name it waits; every other error ends
\* the start.
Connect ==
  /\ stage = "connecting"
  /\ name # None
  /\ IF CanOpen THEN Add ELSE Leave
  /\ UNCHANGED <<name, made, whole, books, gatewayVars, masterVars, starts, leaked>>

--------------------------------------------------------------------------------
(* The strategy runs.                                                      *)

Behind(s) == Len(books[s.ring]) - s.at

\* The book that try_read skips to: the oldest one the ring still holds.
NextRead(s) == Max({s.at, Len(books[s.ring]) - Capacity}) + 1

\* Whether the cell of that book is being overwritten.
Overwritten(s, n) == writing /\ s.ring = made /\ n + Capacity = Len(books[made]) + 1

\* Fault: books of every instrument are kept.
OnOrderBookAny(i, book) == market' = [market EXCEPT ![book.inst] = book.number]

\* on_order_book: only books of the source's own instrument are kept.
OnOrderBook(i, book) ==
  market' = IF book.inst = i THEN [market EXCEPT ![i] = book.number] ELSE market

\* Reactor::poll serves the first source that has something.  The book is copied in
\* the same step; RapidRing has a writer overtake the reader in between.
Poll ==
  /\ stage = "running"
  /\ \E k \in DOMAIN sources :
       LET s == sources[k]
           n == NextRead(s)
       IN  /\ Behind(s) > 0
           /\ \A j \in 1..(k - 1) : Behind(sources[j]) = 0
           /\ sources' = [sources EXCEPT ![k].at = n]
           /\ \E inst \in {books[s.ring][n]} \cup (IF Overwritten(s, n) THEN {table[turn]} ELSE {}),
                 number \in {n} \cup (IF Overwritten(s, n) THEN {n + Capacity} ELSE {}) :
                OnOrderBook(s.inst, [inst |-> inst, number |-> number])
           /\ clean' = IF Behind(s) < Capacity THEN clean ELSE clean \ {s.inst}
  /\ UNCHANGED <<ringVars, gatewayVars, masterVars, stage, starts, attempts, leaked>>

\* A shutdown, at any time: the loops of a start look for one too.
Stop ==
  /\ stage # "off"
  /\ Leave
  /\ UNCHANGED <<name, made, whole, books, gatewayVars, masterVars, starts, leaked>>

\* The process dies, and its slots stay taken.
Die ==
  /\ stage # "off"
  /\ stage' = "off"
  /\ attempts' = 0
  /\ sources' = <<>>
  /\ market' = NoBooks
  /\ clean' = {}
  /\ leaked' = [o \in Rings |-> leaked[o] + Cardinality(SourcesOf(o))]
  /\ UNCHANGED <<ringVars, gatewayVars, masterVars, starts>>

--------------------------------------------------------------------------------
Next ==
  \/ CreateQueue \/ FinishQueue \/ Register \/ RegisterFails
  \/ \E i \in Instruments : Subscribe(i) \/ Unsubscribe(i)
  \/ BeginRound \/ Store \/ Commit \/ EndRound
  \/ Shutdown \/ Crash \/ CleanUp
  \/ MasterStop \/ MasterStart
  \/ Start \/ Resolve \/ Connect \/ Poll \/ Stop \/ Die

\* A gateway goes on with its start and its rounds, where it waits for the master once
\* that answers, and a strategy with its start.  Of each, one step at most is enabled.
Fairness ==
  /\ WF_vars(FinishQueue \/ Register \/ BeginRound \/ Store \/ Commit \/ EndRound)
  /\ WF_vars(Resolve \/ Connect)

Spec == Init /\ [][Next]_vars /\ Fairness

--------------------------------------------------------------------------------
(* Properties.                                                             *)

TypeOK ==
  /\ made \in 0..MaxRings
  /\ name \in {None, made}
  /\ whole \subseteq 1..made
  /\ books \in [Rings -> Seq(Instruments)]
  /\ taken \in [Rings -> 0..MaxReaders]
  /\ phase \in {"down", "creating", "registering", "up"}
  /\ table \in Seq(Instruments) /\ IsInjective(table)
  /\ turn \in 0..(Len(table) + 1)
  /\ writing \in BOOLEAN
  /\ age \in 0..Interval
  /\ known \in BOOLEAN
  /\ answers \in BOOLEAN
  /\ stage \in {"off", "resolving", "connecting", "running"}
  /\ starts \in 0..MaxStarts
  /\ attempts \in 0..Retries
  /\ \A k \in DOMAIN sources :
       /\ sources[k].inst = Wanted[k]
       /\ sources[k].ring \in 1..made
       /\ sources[k].from <= sources[k].at /\ sources[k].at <= Len(books[sources[k].ring])
  /\ market \in [Instruments -> Nat]
  /\ clean \subseteq Instruments
  /\ leaked \in [Rings -> 0..MaxReaders]

\* The market view of an instrument is the latest book of it that its own source has
\* read, whatever other sources of the same ring have read ahead or still have to
\* read, as long as that source never fell a capacity behind.
ViewFollowsSource ==
  \A k \in DOMAIN sources :
    LET s    == sources[k]
        read == {n \in (s.from + 1)..s.at : books[s.ring][n] = s.inst}
    IN  s.inst \in clean => market[s.inst] = Max(read \cup {0})

\* Reader slots are held by live sources or lost to crashes; a start that fails with
\* some subscriptions connected gives them back.
SlotsAccounted ==
  \A o \in Rings : taken[o] = Cardinality(SourcesOf(o)) + leaked[o]

\* A gateway that a master has forgotten does not go on unseen while that master
\* answers: it ends (to be started again), where a strategy that looks for it would
\* find nothing for good.
KnownOrEnds == (phase = "up" /\ ~ known) ~> (known \/ phase # "up" \/ ~ answers)

\* A start comes to an end, connected or not, unless the gateway that the master
\* still lists has taken its ring away.
StartEnds == stage \in {"resolving", "connecting"} ~> (stage \in {"off", "running"} \/ name = None)

================================================================================
