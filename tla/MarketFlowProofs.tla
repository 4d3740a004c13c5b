---------------------------- MODULE MarketFlowProofs ----------------------------
(***************************************************************************)
(* Proofs about market data from the gateway's ring to the strategy's      *)
(* view, for any instruments, subscriptions, capacity and reader slots,    *)
(* and for any bounds on rings, starts and books.                          *)
(***************************************************************************)
EXTENDS MarketFlow, FiniteSetTheorems, SequenceTheorems, TLAPS

--------------------------------------------------------------------------------
(* The invariant.                                                          *)

\* A process that runs has created a ring; one that does not has no subscription and
\* is in no round; only the cell of an instrument whose turn it is can be half written.
GatewayInv ==
  /\ phase # "down" => made > 0
  /\ phase # "up" => table = <<>> /\ turn = 0 /\ ~ writing
  /\ writing => turn \in DOMAIN table

Source == [inst : Instruments, ring : Nat, from : Nat, at : Nat]

\* Subscriptions are connected in the order of Wanted, one at a time, and nothing is
\* read before the last of them is.
StartInv ==
  /\ sources \in Seq(Source)
  /\ Len(sources) <= Len(Wanted)
  /\ stage \in {"resolving", "connecting"} => Len(sources) < Len(Wanted)
  /\ stage = "off" => sources = <<>>
  /\ stage # "running" => market = NoBooks

\* The two halves of TypeOK: what the gateway writes, and what the strategy does.
GatewayTypes ==
  /\ made \in 0..MaxRings
  /\ name \in {None, made}
  /\ whole \subseteq 1..made
  /\ books \in [Rings -> Seq(Instruments)]
  /\ phase \in {"down", "creating", "registering", "up"}
  /\ table \in Seq(Instruments) /\ IsInjective(table)
  /\ turn \in 0..(Len(table) + 1)
  /\ writing \in BOOLEAN
  /\ age \in 0..Interval
  /\ known \in BOOLEAN
  /\ answers \in BOOLEAN

StrategyTypes ==
  /\ taken \in [Rings -> 0..MaxReaders]
  /\ stage \in {"off", "resolving", "connecting", "running"}
  /\ starts \in 0..MaxStarts
  /\ attempts \in 0..Retries
  /\ \A k \in DOMAIN sources :
       /\ sources[k].inst = Wanted[k]
       /\ sources[k].ring \in 1..made
       /\ sources[k].from <= sources[k].at /\ sources[k].at <= Len(books[sources[k].ring])
  /\ market \in [Instruments -> Nat]
  /\ clean \subseteq Instruments
  /\ leaked \in [Rings -> 0..MaxReaders]

GatewayHalf  == GatewayTypes /\ GatewayInv
StrategyHalf == StrategyTypes /\ StartInv /\ SlotsAccounted /\ ViewFollowsSource

Inv == GatewayHalf /\ StrategyHalf

--------------------------------------------------------------------------------
(* Operators.                                                              *)

\* An element that no other one exceeds is the maximum.
LEMMA MaxIs ==
  ASSUME NEW S, NEW m \in S, S \subseteq Int, \A y \in S : y <= m
  PROVE  Max(S) = m
  <1>1. \A x \in S : x \in Int
    OBVIOUS
  <1>2. \A x \in S : (\A y \in S : x >= y) => x = m
    BY <1>1
  <1>3. \E x \in S : \A y \in S : x >= y
    BY <1>1
  <1>4. QED
    BY <1>2, <1>3 DEF Max

\* An instrument that is not in the table can be added.
LEMMA TableGrows ==
  ASSUME NEW seq \in Seq(Instruments), IsInjective(seq), NEW i \in Instruments,
         \A k \in DOMAIN seq : seq[k] # i
  PROVE  Append(seq, i) \in Seq(Instruments) /\ IsInjective(Append(seq, i))
  <1>1. \A k \in 1..(Len(seq) + 1) :
          Append(seq, i)[k] = IF k = Len(seq) + 1 THEN i ELSE seq[k]
    OBVIOUS
  <1>2. DOMAIN Append(seq, i) = 1..(Len(seq) + 1) /\ DOMAIN seq = 1..Len(seq)
    OBVIOUS
  <1>3. \A k, l \in 1..Len(seq) : seq[k] = seq[l] => k = l
    BY <1>2 DEF IsInjective
  <1>4. \A k, l \in 1..(Len(seq) + 1) : Append(seq, i)[k] = Append(seq, i)[l] => k = l
    BY <1>1, <1>2, <1>3
  <1>5. QED
    BY <1>2, <1>4 DEF IsInjective

\* Removing an entry by putting the last one in its place leaves the others distinct.
LEMMA TableShrinks ==
  ASSUME NEW seq \in Seq(Instruments), IsInjective(seq), NEW k \in DOMAIN seq
  PROVE  LET rest == Front([seq EXCEPT ![k] = Last(seq)])
         IN  rest \in Seq(Instruments) /\ IsInjective(rest)
  <1> DEFINE n    == Len(seq)
             all  == [seq EXCEPT ![k] = Last(seq)]
             rest == Front(all)
  <1>1. n \in Nat /\ n > 0 /\ k \in 1..n /\ DOMAIN seq = 1..n
    OBVIOUS
  <1>2. Last(seq) = seq[n] /\ seq[n] \in Instruments
    BY <1>1, ElementOfSeq DEF Last
  <1>3. /\ all \in Seq(Instruments)
        /\ Len(all) = n
        /\ \A j \in 1..n : all[j] = IF j = k THEN seq[n] ELSE seq[j]
    BY <1>1, <1>2, ExceptSeq
  <1>4. rest = SubSeq(all, 1, n - 1)
    BY <1>3 DEF Front
  <1> HIDE DEF n, all, rest
  <1>5. \A j \in 1..(n - 1) : all[j] \in Instruments
    BY <1>1, <1>3, ElementOfSeq
  <1>6. /\ rest \in Seq(Instruments)
        /\ Len(rest) = n - 1
        /\ \A j \in 1..(n - 1) : rest[j] = all[j]
    <2>1. 1 \in Int /\ n - 1 \in Int
      BY <1>1
    <2>2. /\ SubSeq(all, 1, n - 1) \in Seq(Instruments)
          /\ Len(SubSeq(all, 1, n - 1)) = IF 1 <= n - 1 THEN n - 1 - 1 + 1 ELSE 0
          /\ \A j \in 1..(n - 1 - 1 + 1) : SubSeq(all, 1, n - 1)[j] = all[1 + j - 1]
      BY <1>5, <2>1, SubSeqProperties
    <2>3. n - 1 - 1 + 1 = n - 1 /\ \A j \in 1..(n - 1) : 1 + j - 1 = j
      BY <1>1
    <2>4. QED
      BY <1>1, <1>4, <2>2, <2>3
  <1>7. \A j \in 1..(n - 1) : rest[j] = IF j = k THEN seq[n] ELSE seq[j]
    BY <1>1, <1>3, <1>6
  <1>8. DOMAIN rest = 1..(n - 1)
    BY <1>1, <1>6, LenProperties
  <1>9. \A j, l \in 1..n : seq[j] = seq[l] => j = l
    BY <1>1 DEF IsInjective
  <1>10. IsInjective(rest)
    BY <1>1, <1>7, <1>8, <1>9 DEF IsInjective
  <1>11. QED
    BY <1>6, <1>10 DEF n, all, rest

--------------------------------------------------------------------------------
(* The gateway.                                                            *)

\* Rings are only created, and books only appended.
BooksGrow ==
  /\ made <= made'
  /\ \A o \in Rings :
       /\ Len(books[o]) <= Len(books'[o])
       /\ \A n \in 1..Len(books[o]) : books'[o][n] = books[o][n]

\* The steps of the gateway, of who cleans up after it, and of the master.
GatewayStep ==
  \/ CreateQueue \/ FinishQueue \/ Register \/ RegisterFails
  \/ \E i \in Instruments : Subscribe(i) \/ Unsubscribe(i)
  \/ BeginRound \/ Store \/ Commit \/ EndRound
  \/ Shutdown \/ Crash \/ CleanUp
  \/ MasterStop \/ MasterStart

\* They keep the gateway's half of the invariant ...
LEMMA GatewayKeepsGateway ==
  ASSUME GatewayHalf, GatewayStep
  PROVE  GatewayHalf'
  <1> USE MarketAssumption DEF GatewayHalf
  <1>1. CASE CreateQueue
    <2>1. made' \in 1..MaxRings /\ made' = made + 1
      BY <1>1 DEF CreateQueue, GatewayTypes
    <2>2. whole' \subseteq 1..made'
      BY <1>1, <2>1 DEF CreateQueue, GatewayTypes
    <2>3. QED
      BY <1>1, <2>1, <2>2 DEF CreateQueue, masterVars, GatewayTypes, GatewayInv
  <1>2. CASE FinishQueue
    <2>1. made \in 1..made
      BY <1>2 DEF FinishQueue, GatewayTypes, GatewayInv
    <2>2. QED
      BY <1>2, <2>1 DEF FinishQueue, masterVars, GatewayTypes, GatewayInv
  <1>2a. CASE Register
    BY <1>2a DEF Register, ringVars, masterVars, GatewayTypes, GatewayInv
  <1>3. ASSUME NEW i \in Instruments, Subscribe(i) PROVE GatewayHalf'
    <2>1. \A k \in DOMAIN table : table[k] # i
      BY <1>3 DEF Subscribe, Contains, GatewayTypes
    <2>2. table' \in Seq(Instruments) /\ IsInjective(table')
      BY <1>3, <2>1, TableGrows DEF Subscribe, GatewayTypes
    <2>3. turn' \in 0..(Len(table') + 1) /\ writing' = FALSE
      BY <1>3, <2>2 DEF Subscribe, GatewayTypes, GatewayInv
    <2>4. QED
      BY <1>3, <2>2, <2>3 DEF Subscribe, ringVars, masterVars, GatewayTypes, GatewayInv
  <1>4. ASSUME NEW i \in Instruments, Unsubscribe(i) PROVE GatewayHalf'
    <2>1. table' \in Seq(Instruments) /\ IsInjective(table')
      BY <1>4, TableShrinks DEF Unsubscribe, GatewayTypes
    <2>2. turn' \in 0..(Len(table') + 1) /\ writing' = FALSE
      BY <1>4, <2>1 DEF Unsubscribe, GatewayTypes, GatewayInv
    <2>3. QED
      BY <1>4, <2>1, <2>2 DEF Unsubscribe, ringVars, masterVars, GatewayTypes, GatewayInv
  <1>5. ASSUME table' = <<>>, turn' = 0, writing' = FALSE, age' = 0, phase' = "down",
               name' \in {None, name}, known' \in BOOLEAN, answers' \in BOOLEAN, UNCHANGED <<made, whole, books>>
        PROVE  GatewayHalf'
    <2>1. table' \in Seq(Instruments) /\ Len(table') = 0 /\ DOMAIN table' = {}
      BY <1>5
    <2>2. IsInjective(table')
      BY <2>1 DEF IsInjective
    <2>3. turn' \in 0..(Len(table') + 1) /\ age' \in 0..Interval
      BY <1>5, <2>1
    <2>4. QED
      BY <1>5, <2>1, <2>2, <2>3 DEF GatewayTypes, GatewayInv
  <1>6. CASE BeginRound
    <2>1. CASE End
      BY <1>5, <1>6, <2>1 DEF BeginRound, End, masterVars, GatewayTypes
    <2>2. CASE /\ turn' = 1
               /\ age' \in {0, age}
               /\ UNCHANGED <<name, phase, table, writing>>
      <3>1. turn' \in 0..(Len(table) + 1)
        BY <2>2 DEF GatewayTypes
      <3>2. writing = FALSE
        BY <1>6 DEF BeginRound, masterVars, GatewayTypes, GatewayInv
      <3>3. QED
        BY <1>6, <2>2, <3>1, <3>2 DEF BeginRound, masterVars, GatewayTypes, GatewayInv
    <2>3. QED
      BY <1>6, <2>1, <2>2 DEF BeginRound
  <1>7. CASE Store
    BY <1>7 DEF Store, ringVars, masterVars, GatewayTypes, GatewayInv
  <1>8. CASE Commit
    <2>1. phase = "up" /\ turn \in 1..Len(table) /\ made \in Rings
      BY <1>8 DEF Commit, Rings, GatewayTypes, GatewayInv
    <2>2. table[turn] \in Instruments
      BY <2>1 DEF GatewayTypes
    <2>3. books' \in [Rings -> Seq(Instruments)]
      BY <1>8, <2>1, <2>2 DEF Commit, GatewayTypes
    <2>4. turn' \in 0..(Len(table) + 1)
      BY <1>8, <2>1 DEF Commit, GatewayTypes
    <2>5. QED
      BY <1>8, <2>1, <2>3, <2>4 DEF Commit, masterVars, GatewayTypes, GatewayInv
  <1>9. CASE EndRound
    <2>1. Min({age + 1, Interval}) \in {age + 1, Interval} /\ Min({age + 1, Interval}) <= Interval
      <3>1. age + 1 \in Nat /\ Interval \in Nat
        BY DEF GatewayTypes
      <3>2. \E x \in {age + 1, Interval} : \A y \in {age + 1, Interval} : x <= y
        BY <3>1
      <3>3. QED
        BY <3>1, <3>2 DEF Min
    <2>2. age' \in 0..Interval
      BY <1>9, <2>1 DEF EndRound, GatewayTypes
    <2>3. writing = FALSE
      BY <1>9 DEF EndRound, GatewayTypes, GatewayInv
    <2>4. QED
      BY <1>9, <2>2, <2>3 DEF EndRound, ringVars, masterVars, GatewayTypes, GatewayInv
  <1>10. CASE Shutdown
    BY <1>5, <1>10 DEF Shutdown, End, masterVars, GatewayTypes
  <1>10a. CASE RegisterFails
    BY <1>5, <1>10a DEF RegisterFails, End, GatewayTypes
  <1>11. CASE Crash
    BY <1>5, <1>11 DEF Crash, ringVars, masterVars, GatewayTypes
  <1>12. CASE CleanUp
    BY <1>12 DEF CleanUp, gatewayVars, masterVars, GatewayTypes, GatewayInv
  <1>13. CASE MasterStop \/ MasterStart
    <2>1. UNCHANGED <<ringVars, gatewayVars>> /\ known' \in BOOLEAN /\ answers' \in BOOLEAN
      BY <1>13 DEF MasterStop, MasterStart, GatewayTypes
    <2>2. QED
      BY <2>1 DEF ringVars, gatewayVars, GatewayTypes, GatewayInv
  <1>14. QED
    BY <1>1, <1>2, <1>2a, <1>3, <1>4, <1>6, <1>7, <1>8, <1>9, <1>10, <1>10a, <1>11, <1>12, <1>13
      DEF GatewayStep

\* ... and leave the strategy alone, but for books that are added.
LEMMA GatewayKeepsBooks ==
  ASSUME GatewayHalf, GatewayStep
  PROVE  BooksGrow /\ UNCHANGED <<taken, strategyVars>>
  <1>1. UNCHANGED <<taken, strategyVars>>
    BY DEF GatewayStep, CreateQueue, FinishQueue, Register, RegisterFails, Subscribe,
      Unsubscribe, BeginRound, Store, Commit, EndRound, Shutdown, Crash, CleanUp, MasterStop, MasterStart, ringVars
  <1>2. ASSUME Commit PROVE BooksGrow
    <2>1. made' = made /\ made \in Rings /\ turn \in 1..Len(table)
      BY <1>2, MarketAssumption DEF Commit, Rings, GatewayHalf, GatewayTypes, GatewayInv
    <2>2. books'[made] = Append(books[made], table[turn])
      BY <1>2, <2>1 DEF Commit, GatewayHalf, GatewayTypes
    <2>3. \A o \in Rings : o # made => books'[o] = books[o]
      BY <1>2 DEF Commit, GatewayHalf, GatewayTypes
    <2>4. \A o \in Rings : books[o] \in Seq(Instruments)
      BY DEF GatewayHalf, GatewayTypes
    <2>5. made \in Nat /\ table[turn] \in Instruments
      BY <2>1 DEF GatewayHalf, GatewayTypes
    <2>6. /\ Len(books[made]) <= Len(books'[made])
          /\ \A n \in 1..Len(books[made]) : books'[made][n] = books[made][n]
      BY <2>1, <2>2, <2>4, <2>5
    <2>7. \A o \in Rings : Len(books[o]) \in Nat
      BY <2>4
    <2>8. QED
      BY <2>1, <2>3, <2>5, <2>6, <2>7 DEF BooksGrow
  <1>3. ASSUME ~ Commit PROVE BooksGrow
    <2>1. books' = books /\ made' \in {made, made + 1}
      BY <1>3 DEF GatewayStep, CreateQueue, FinishQueue, Register, RegisterFails, Subscribe,
        Unsubscribe, BeginRound, Store, EndRound, Shutdown, Crash, CleanUp, MasterStop, MasterStart, ringVars
    <2>2. \A o \in Rings : Len(books[o]) \in Nat
      BY DEF GatewayHalf, GatewayTypes
    <2>3. QED
      BY <2>1, <2>2, MarketAssumption DEF BooksGrow, GatewayHalf, GatewayTypes
  <1>4. QED
    BY <1>1, <1>2, <1>3

--------------------------------------------------------------------------------
(* The strategy.                                                           *)

\* A source is connected to a ring that exists, and is not ahead of it.
LEMMA SourceFacts ==
  ASSUME GatewayHalf, StrategyTypes, StartInv, NEW k \in DOMAIN sources
  PROVE  /\ k \in 1..Len(sources) /\ k \in 1..Len(Wanted)
         /\ sources[k] \in Source
         /\ sources[k].inst = Wanted[k]
         /\ sources[k].ring \in Rings
         /\ books[sources[k].ring] \in Seq(Instruments)
         /\ sources[k].from \in Nat /\ sources[k].at \in Nat
         /\ sources[k].from <= sources[k].at
         /\ sources[k].at <= Len(books[sources[k].ring])
  <1>1. k \in 1..Len(sources) /\ sources[k] \in Source
    BY DEF StartInv
  <1>2. k \in 1..Len(Wanted)
    BY <1>1, MarketAssumption DEF StartInv
  <1>3. sources[k].ring \in Rings
    BY MarketAssumption DEF Rings, GatewayHalf, GatewayTypes, StrategyTypes
  <1>4. QED
    BY <1>1, <1>2, <1>3 DEF Source, GatewayHalf, GatewayTypes, StrategyTypes

\* Different sources are for different instruments.
LEMMA SourcesDiffer ==
  ASSUME GatewayHalf, StrategyTypes, StartInv, NEW j \in DOMAIN sources,
         NEW k \in DOMAIN sources, sources[j].inst = sources[k].inst
  PROVE  j = k
  <1>1. j \in DOMAIN Wanted /\ k \in DOMAIN Wanted /\ Wanted[j] = Wanted[k]
    BY SourceFacts, MarketAssumption
  <1>2. QED
    BY <1>1, MarketAssumption DEF IsInjective

\* A strategy that does nothing keeps its half of the invariant while books are added.
LEMMA StrategyUnmoved ==
  ASSUME Inv, BooksGrow, UNCHANGED <<taken, strategyVars>>, made' \in Nat
  PROVE  StrategyHalf'
  <1> USE DEF Inv, StrategyHalf
  <1>1. \A k \in DOMAIN sources :
          /\ Len(books[sources[k].ring]) \in Nat
          /\ sources[k].ring \in Rings
          /\ sources[k].from \in Nat /\ sources[k].at \in Nat
          /\ sources[k].at <= Len(books[sources[k].ring])
    BY SourceFacts
  <1>2. StrategyTypes'
    <2>1. made \in Nat /\ made <= made'
      BY DEF BooksGrow, GatewayHalf, GatewayTypes
    <2>2. ASSUME NEW k \in DOMAIN sources
          PROVE  /\ sources[k].inst = Wanted[k]
                 /\ sources[k].ring \in 1..made'
                 /\ sources[k].from <= sources[k].at
                 /\ sources[k].at <= Len(books'[sources[k].ring])
      <3>1. /\ sources[k].inst = Wanted[k]
            /\ sources[k].ring \in 1..made
            /\ sources[k].from <= sources[k].at
        BY DEF StrategyTypes
      <3>2. Len(books[sources[k].ring]) <= Len(books'[sources[k].ring])
        BY <1>1 DEF BooksGrow
      <3>3. QED
        BY <1>1, <2>1, <3>1, <3>2
    <2>3. QED
      BY <2>2 DEF StrategyTypes, strategyVars
  <1>3. StartInv'
    BY DEF StartInv, strategyVars
  <1>4. SlotsAccounted'
    BY DEF SlotsAccounted, SourcesOf, strategyVars
  <1>5. ViewFollowsSource'
    <2>1. ASSUME NEW k \in DOMAIN sources
          PROVE  {n \in (sources[k].from + 1)..sources[k].at :
                    books'[sources[k].ring][n] = sources[k].inst}
                 = {n \in (sources[k].from + 1)..sources[k].at :
                      books[sources[k].ring][n] = sources[k].inst}
      <3>1. ASSUME NEW n \in (sources[k].from + 1)..sources[k].at
            PROVE  books'[sources[k].ring][n] = books[sources[k].ring][n]
        <4>1. n \in 1..Len(books[sources[k].ring])
          BY <1>1
        <4>2. QED
          BY <1>1, <4>1 DEF BooksGrow
      <3>2. QED
        BY <3>1
    <2>2. QED
      BY <2>1 DEF ViewFollowsSource, strategyVars
  <1>6. QED
    BY <1>2, <1>3, <1>4, <1>5

\* The readers of a ring can be counted.
LEMMA SourcesCounted ==
  ASSUME StartInv, NEW o
  PROVE  IsFiniteSet(SourcesOf(o)) /\ Cardinality(SourcesOf(o)) \in Nat
  <1>1. DOMAIN sources = 1..Len(sources) /\ Len(sources) \in Nat
    BY DEF StartInv
  <1>2. IsFiniteSet(1..Len(sources))
    BY <1>1, FS_Interval
  <1>3. SourcesOf(o) \in SUBSET (1..Len(sources))
    BY <1>1 DEF SourcesOf
  <1>4. QED
    BY <1>2, <1>3, FS_Subset, FS_CardinalityType

\* A strategy that is off holds no reader and no book.
LEMMA OffHolds ==
  ASSUME Inv, stage' = "off", attempts' = 0, sources' = <<>>, market' = NoBooks, clean' = {},
         starts' = starts,
         \A o \in Rings : taken'[o] = leaked'[o],
         taken' \in [Rings -> 0..MaxReaders], leaked' \in [Rings -> 0..MaxReaders]
  PROVE  StrategyHalf'
  <1>1. sources' \in Seq(Source) /\ Len(sources') = 0 /\ DOMAIN sources' = {}
    OBVIOUS
  <1>2. market' \in [Instruments -> Nat]
    BY DEF NoBooks
  <1>3. StrategyTypes'
    BY <1>1, <1>2, MarketAssumption DEF Inv, StrategyHalf, StrategyTypes
  <1>4. StartInv'
    <2>1. Len(Wanted) \in Nat
      BY MarketAssumption
    <2>2. QED
      BY <1>1, <2>1 DEF StartInv, NoBooks
  <1>5. SlotsAccounted'
    <2>1. ASSUME NEW o \in Rings
          PROVE  taken'[o] = Cardinality({k \in DOMAIN sources' : sources'[k].ring = o})
                             + leaked'[o]
      <3>1. {k \in DOMAIN sources' : sources'[k].ring = o} = {}
        BY <1>1
      <3>2. taken'[o] = 0 + leaked'[o]
        OBVIOUS
      <3>3. QED
        BY <3>1, <3>2, FS_EmptySet
    <2>2. QED
      BY <2>1 DEF SlotsAccounted, SourcesOf
  <1>6. ViewFollowsSource'
    BY <1>1 DEF ViewFollowsSource
  <1>7. QED
    BY <1>3, <1>4, <1>5, <1>6 DEF StrategyHalf

\* Leaving gives every reader back.
LEMMA LeaveReturns ==
  ASSUME Inv, Leave, UNCHANGED <<starts, leaked>>
  PROVE  StrategyHalf'
  <1>1. taken' = [o \in Rings |-> taken[o] - Cardinality(SourcesOf(o))]
    BY DEF Leave
  <1>2. ASSUME NEW o \in Rings PROVE taken'[o] = leaked[o]
    <2>1. taken[o] = Cardinality(SourcesOf(o)) + leaked[o]
      BY DEF Inv, StrategyHalf, SlotsAccounted
    <2>2. Cardinality(SourcesOf(o)) \in Nat
      BY SourcesCounted DEF Inv, StrategyHalf
    <2>3. leaked[o] \in Nat
      BY MarketAssumption DEF Inv, StrategyHalf, StrategyTypes
    <2>4. QED
      BY <1>1, <2>1, <2>2, <2>3
  <1>3. leaked' = leaked /\ leaked \in [Rings -> 0..MaxReaders]
    BY DEF Inv, StrategyHalf, StrategyTypes
  <1>4. taken' \in [Rings -> 0..MaxReaders]
    BY <1>1, <1>2, <1>3
  <1>5. QED
    BY <1>2, <1>3, <1>4, OffHolds DEF Leave

\* Dying loses them.
LEMMA DieLoses ==
  ASSUME Inv, Die
  PROVE  StrategyHalf'
  <1>1. leaked' = [o \in Rings |-> leaked[o] + Cardinality(SourcesOf(o))]
    BY DEF Die
  <1>2. ASSUME NEW o \in Rings PROVE leaked'[o] = taken[o]
    <2>1. taken[o] = Cardinality(SourcesOf(o)) + leaked[o]
      BY DEF Inv, StrategyHalf, SlotsAccounted
    <2>2. Cardinality(SourcesOf(o)) \in Nat
      BY SourcesCounted DEF Inv, StrategyHalf
    <2>3. leaked[o] \in Nat
      BY MarketAssumption DEF Inv, StrategyHalf, StrategyTypes
    <2>4. QED
      BY <1>1, <2>1, <2>2, <2>3
  <1>3. taken' = taken /\ taken \in [Rings -> 0..MaxReaders]
    BY DEF Die, ringVars, Inv, StrategyHalf, StrategyTypes
  <1>4. leaked' \in [Rings -> 0..MaxReaders]
    BY <1>1, <1>2, <1>3
  <1>5. QED
    BY <1>2, <1>3, <1>4, OffHolds DEF Die

\* A connection opens one reader, at the end of the ring, for an instrument that has
\* none yet.
LEMMA AddOpens ==
  ASSUME Inv, stage = "connecting", CanOpen, Add, UNCHANGED <<name, made, books, starts, leaked>>
  PROVE  StrategyHalf'
  <1> DEFINE size == Len(sources)
             new  == [inst |-> Wanted[size + 1], ring |-> name, from |-> Len(books[name]),
                      at |-> Len(books[name])]
  <1>1. size \in Nat /\ DOMAIN sources = 1..size /\ size + 1 \in 1..Len(Wanted)
    BY MarketAssumption DEF Inv, StrategyHalf, StartInv
  <1>2. Wanted[size + 1] \in Instruments
    BY <1>1, MarketAssumption
  <1>3. name \in 1..made /\ name \in Rings /\ made \in Nat
    BY MarketAssumption DEF CanOpen, Rings, Inv, GatewayHalf, GatewayTypes
  <1>4. Len(books[name]) \in Nat
    BY <1>3 DEF Inv, GatewayHalf, GatewayTypes
  <1>5. new \in Source
    BY <1>2, <1>3, <1>4 DEF Source, Rings
  <1>6. /\ sources' = Append(sources, new)
        /\ clean' = clean \cup {Wanted[size + 1]}
        /\ market' = market
        /\ taken' = [taken EXCEPT ![name] = taken[name] + 1]
    BY DEF Add
  <1>7. \/ size + 1 = Len(Wanted) /\ stage' = "running" /\ attempts' = attempts
        \/ size + 1 # Len(Wanted) /\ stage' = "resolving" /\ attempts' = 1
    BY DEF Add
  <1>8. market = NoBooks
    BY DEF Inv, StrategyHalf, StartInv
  <1>9. new.inst = Wanted[size + 1] /\ new.ring = name /\ new.from = new.at
        /\ new.at = Len(books[name])
    OBVIOUS
  <1> HIDE DEF new
  <1>10. /\ sources' \in Seq(Source)
         /\ Len(sources') = size + 1
         /\ DOMAIN sources' = 1..(size + 1)
         /\ sources'[size + 1] = new
         /\ \A k \in 1..size : sources'[k] = sources[k]
    BY <1>5, <1>6 DEF Inv, StrategyHalf, StartInv
  <1> HIDE DEF size
  <1>11. taken' \in [Rings -> 0..MaxReaders]
    <2>1. taken[name] + 1 \in 0..MaxReaders
      BY <1>3, MarketAssumption DEF CanOpen, Inv, StrategyHalf, StrategyTypes
    <2>2. QED
      BY <1>6, <2>1 DEF Inv, StrategyHalf, StrategyTypes
  <1>12. StrategyTypes'
    <2>1. \A k \in DOMAIN sources' :
            /\ sources'[k].inst = Wanted[k]
            /\ sources'[k].ring \in 1..made
            /\ sources'[k].from <= sources'[k].at
            /\ sources'[k].at <= Len(books[sources'[k].ring])
      <3>1. \A k \in 1..size :
              /\ sources[k].inst = Wanted[k]
              /\ sources[k].ring \in 1..made
              /\ sources[k].from <= sources[k].at
              /\ sources[k].at <= Len(books[sources[k].ring])
        BY <1>1 DEF Inv, StrategyHalf, StrategyTypes
      <3>2. \A k \in 1..(size + 1) : k = size + 1 \/ k \in 1..size
        BY <1>1
      <3>3. QED
        BY <1>3, <1>4, <1>9, <1>10, <3>1, <3>2
    <2>2. attempts' \in 0..Retries /\ stage' \in {"running", "resolving"}
      BY <1>7, MarketAssumption DEF Inv, StrategyHalf, StrategyTypes
    <2>3. clean' \subseteq Instruments
      BY <1>2, <1>6 DEF Inv, StrategyHalf, StrategyTypes
    <2>4. QED
      BY <1>6, <1>11, <2>1, <2>2, <2>3 DEF Inv, StrategyHalf, StrategyTypes
  <1>13. StartInv'
    <2>1. Len(Wanted) \in Nat
      BY MarketAssumption
    <2>2. QED
      BY <1>1, <1>6, <1>7, <1>8, <1>10, <2>1 DEF StartInv, NoBooks
  <1>14. SlotsAccounted'
    <2> SUFFICES ASSUME NEW o \in Rings
                 PROVE  taken'[o]
                        = Cardinality({k \in DOMAIN sources' : sources'[k].ring = o}) + leaked[o]
      BY DEF SlotsAccounted, SourcesOf
    <2> DEFINE after == {k \in DOMAIN sources' : sources'[k].ring = o}
    <2>1. taken[o] = Cardinality(SourcesOf(o)) + leaked[o]
      BY DEF Inv, StrategyHalf, SlotsAccounted
    <2>2. IsFiniteSet(SourcesOf(o)) /\ Cardinality(SourcesOf(o)) \in Nat
      BY SourcesCounted DEF Inv, StrategyHalf
    <2>3. leaked[o] \in Nat
      BY MarketAssumption DEF Inv, StrategyHalf, StrategyTypes
    <2>4. taken'[o] = IF o = name THEN taken[o] + 1 ELSE taken[o]
      BY <1>6 DEF Inv, StrategyHalf, StrategyTypes
    <2>5. CASE o = name
      <3>1. after = SourcesOf(o) \cup {size + 1}
        BY <1>1, <1>9, <1>10, <2>5 DEF SourcesOf
      <3>2. size + 1 \notin SourcesOf(o)
        BY <1>1 DEF SourcesOf
      <3>3. Cardinality(after) = Cardinality(SourcesOf(o)) + 1
        BY <2>2, <3>1, <3>2, FS_AddElement
      <3>4. QED
        BY <2>1, <2>2, <2>3, <2>4, <2>5, <3>3
    <2>6. CASE o # name
      <3>1. after = SourcesOf(o)
        BY <1>1, <1>9, <1>10, <2>6 DEF SourcesOf
      <3>2. QED
        BY <2>1, <2>4, <2>6, <3>1
    <2>7. QED
      BY <2>5, <2>6
  <1>15. ViewFollowsSource'
    <2> SUFFICES ASSUME NEW k \in 1..(size + 1), sources'[k].inst \in clean'
                 PROVE  market[sources'[k].inst] =
                          Max({n \in (sources'[k].from + 1)..sources'[k].at :
                                 books[sources'[k].ring][n] = sources'[k].inst} \cup {0})
      BY <1>6, <1>10 DEF ViewFollowsSource
    <2>1. CASE k = size + 1
      <3>1. {n \in (sources'[k].from + 1)..sources'[k].at :
               books[sources'[k].ring][n] = sources'[k].inst} = {}
        BY <1>4, <1>9, <1>10, <2>1
      <3>2. Max({} \cup {0}) = 0
        BY MaxIs
      <3>3. market[sources'[k].inst] = 0
        BY <1>2, <1>8, <1>9, <1>10, <2>1 DEF NoBooks
      <3>4. QED
        BY <3>1, <3>2, <3>3
    <2>2. CASE k \in 1..size
      <3>1. sources'[k] = sources[k] /\ k \in DOMAIN sources
        BY <1>1, <1>10, <2>2
      <3>2. sources[k].inst # Wanted[size + 1]
        <4>1. sources[k].inst = Wanted[k] /\ k \in 1..Len(Wanted) /\ k # size + 1
          BY <1>1, <2>2, <3>1, SourceFacts DEF Inv, StrategyHalf
        <4>2. QED
          BY <1>1, <4>1, MarketAssumption DEF IsInjective
      <3>3. sources[k].inst \in clean
        BY <1>6, <3>1, <3>2
      <3>4. QED
        BY <3>1, <3>3 DEF Inv, StrategyHalf, ViewFollowsSource
    <2>3. QED
      BY <1>1, <2>1, <2>2
  <1>16. QED
    BY <1>12, <1>13, <1>14, <1>15 DEF StrategyHalf

\* The book read next is one that is there; it is the next in line unless the writer
\* has gone a capacity ahead.
LEMMA NextReadFacts ==
  ASSUME GatewayHalf, StrategyTypes, StartInv, NEW k \in DOMAIN sources,
         Behind(sources[k]) > 0
  PROVE  /\ NextRead(sources[k]) \in (sources[k].at + 1)..Len(books[sources[k].ring])
         /\ Behind(sources[k]) < Capacity => NextRead(sources[k]) = sources[k].at + 1
  <1> DEFINE at     == sources[k].at
             length == Len(books[sources[k].ring])
  <1>1. at \in Nat /\ length \in Nat /\ Capacity \in Nat \ {0}
    BY SourceFacts, MarketAssumption
  <1>2. length - at > 0
    BY DEF Behind
  <1>3. NextRead(sources[k]) = Max({at, length - Capacity}) + 1
    BY DEF NextRead
  <1>4. Behind(sources[k]) = length - at
    BY DEF Behind
  <1> HIDE DEF at, length
  <1>5. CASE at >= length - Capacity
    <2>1. Max({at, length - Capacity}) = at
      BY <1>1, <1>5, MaxIs
    <2>2. NextRead(sources[k]) \in (at + 1)..length
      BY <1>1, <1>2, <1>3, <2>1
    <2>3. NextRead(sources[k]) = at + 1
      BY <1>3, <2>1
    <2>4. QED
      BY <2>2, <2>3 DEF at, length
  <1>6. CASE at < length - Capacity
    <2>1. Max({at, length - Capacity}) = length - Capacity
      BY <1>1, <1>6, MaxIs
    <2>2. NextRead(sources[k]) \in (at + 1)..length
      BY <1>1, <1>2, <1>3, <1>6, <2>1
    <2>3. ~ (Behind(sources[k]) < Capacity)
      BY <1>1, <1>4, <1>6
    <2>4. QED
      BY <2>2, <2>3 DEF at, length
  <1>7. QED
    BY <1>1, <1>5, <1>6

\* Reading a book moves one source on, and the view of its instrument with it; what a
\* torn cell shows goes only to a source that has fallen behind.
LEMMA PollFollows ==
  ASSUME Inv, Poll
  PROVE  StrategyHalf'
  <1>1. PICK k \in DOMAIN sources :
          /\ Behind(sources[k]) > 0
          /\ sources' = [sources EXCEPT ![k].at = NextRead(sources[k])]
          /\ \E inst \in {books[sources[k].ring][NextRead(sources[k])]}
                          \cup (IF Overwritten(sources[k], NextRead(sources[k]))
                                THEN {table[turn]} ELSE {}),
                number \in {NextRead(sources[k])}
                            \cup (IF Overwritten(sources[k], NextRead(sources[k]))
                                  THEN {NextRead(sources[k]) + Capacity} ELSE {}) :
               OnOrderBook(sources[k].inst, [inst |-> inst, number |-> number])
          /\ clean' = IF Behind(sources[k]) < Capacity THEN clean
                      ELSE clean \ {sources[k].inst}
    BY DEF Poll
  <1>2. /\ stage = "running"
        /\ UNCHANGED <<ringVars, gatewayVars, masterVars, stage, starts, attempts, leaked>>
    BY DEF Poll
  <1> DEFINE s      == sources[k]
             n      == NextRead(s)
             i      == s.inst
             next   == books[s.ring][n]
             torn   == Overwritten(s, n)
             behind == Behind(s)
  <1>3. GatewayHalf /\ StrategyTypes /\ StartInv
    BY DEF Inv, StrategyHalf
  <1>4. /\ k \in 1..Len(sources) /\ DOMAIN sources = 1..Len(sources)
        /\ s \in Source /\ s.inst = Wanted[k] /\ s.ring \in Rings /\ s.from \in Nat /\ s.at \in Nat
        /\ s.from <= s.at
        /\ books[s.ring] \in Seq(Instruments)
    BY <1>3, SourceFacts DEF StartInv
  <1>5. n \in (s.at + 1)..Len(books[s.ring]) /\ (behind < Capacity => n = s.at + 1)
    BY <1>1, <1>3, NextReadFacts
  <1>6. n \in Nat /\ next \in Instruments
    BY <1>4, <1>5
  <1>7. behind = Len(books[s.ring]) - s.at
    BY DEF Behind
  <1>8. behind < Capacity => ~ torn
    <2>1. torn => s.ring = made /\ n + Capacity = Len(books[made]) + 1
      BY DEF Overwritten
    <2>2. Len(books[s.ring]) \in Nat /\ s.at \in Nat
      BY <1>4
    <2> HIDE DEF s, n, torn, behind
    <2>3. QED
      BY <1>5, <1>7, <2>1, <2>2, MarketAssumption
  <1>9. /\ sources' = [sources EXCEPT ![k].at = n]
        /\ clean' = IF behind < Capacity THEN clean ELSE clean \ {i}
    BY <1>1
  <1>10. \E inst \in {next} \cup (IF torn THEN {table[turn]} ELSE {}),
            number \in {n} \cup (IF torn THEN {n + Capacity} ELSE {}) :
           market' = IF inst = i THEN [market EXCEPT ![i] = number] ELSE market
    BY <1>1 DEF OnOrderBook
  <1> HIDE DEF s, n, i, next, torn, behind
  <1>11. i \in Instruments /\ n \in Nat /\ n > s.at /\ n <= Len(books[s.ring])
    BY <1>4, <1>5, <1>6 DEF i, Source
  <1>12. /\ sources' \in Seq(Source)
         /\ Len(sources') = Len(sources)
         /\ DOMAIN sources' = DOMAIN sources
         /\ \A j \in DOMAIN sources : j # k => sources'[j] = sources[j]
         /\ sources'[k] = [s EXCEPT !.at = n]
    <2>1. [s EXCEPT !.at = n] \in Source
      BY <1>4, <1>11 DEF Source
    <2>2. sources \in Seq(Source) /\ sources' = [sources EXCEPT ![k] = [s EXCEPT !.at = n]]
      BY <1>3, <1>9 DEF StartInv, s
    <2>3. QED
      BY <1>4, <2>1, <2>2, ExceptSeq
  <1>13. /\ sources'[k].inst = i /\ sources'[k].ring = s.ring
         /\ sources'[k].from = s.from /\ sources'[k].at = n
    BY <1>4, <1>12 DEF Source, i
  <1>14. /\ market' \in [Instruments -> Nat]
         /\ \A x \in Instruments : x # i => market'[x] = market[x]
    <2>1. market \in [Instruments -> Nat]
      BY <1>3 DEF StrategyTypes
    <2>2. \E number \in Nat : market' \in {market, [market EXCEPT ![i] = number]}
      BY <1>6, <1>10, MarketAssumption
    <2>3. QED
      BY <1>11, <2>1, <2>2
  <1>15. ~ torn => market'[i] = IF next = i THEN n ELSE market[i]
    BY <1>3, <1>10, <1>11 DEF StrategyTypes
  <1>16. books' = books /\ made' = made /\ taken' = taken /\ leaked' = leaked
    BY <1>2 DEF ringVars
  <1>17. StrategyTypes'
    <2>1. \A j \in DOMAIN sources' :
            /\ sources'[j].inst = Wanted[j]
            /\ sources'[j].ring \in 1..made
            /\ sources'[j].from <= sources'[j].at
            /\ sources'[j].at <= Len(books[sources'[j].ring])
      <3>1. \A j \in DOMAIN sources :
              /\ sources[j].inst = Wanted[j]
              /\ sources[j].ring \in 1..made
              /\ sources[j].from <= sources[j].at
              /\ sources[j].at <= Len(books[sources[j].ring])
        BY <1>3 DEF StrategyTypes
      <3>2. /\ sources'[k].inst = Wanted[k]
            /\ sources'[k].ring \in 1..made
            /\ sources'[k].from <= sources'[k].at
            /\ sources'[k].at <= Len(books[sources'[k].ring])
        <4>1. s.ring \in 1..made
          BY <3>1 DEF s
        <4>2. QED
          BY <1>4, <1>11, <1>13, <4>1 DEF i
      <3>3. QED
        BY <1>12, <3>1, <3>2
    <2>2. clean' \subseteq Instruments
      BY <1>3, <1>9 DEF StrategyTypes
    <2>3. QED
      BY <1>2, <1>3, <1>14, <1>16, <2>1, <2>2 DEF StrategyTypes
  <1>18. StartInv'
    BY <1>2, <1>3, <1>12 DEF StartInv
  <1>19. SlotsAccounted'
    <2> SUFFICES ASSUME NEW o \in Rings
                 PROVE  taken[o]
                        = Cardinality({j \in DOMAIN sources' : sources'[j].ring = o}) + leaked[o]
      BY <1>16 DEF SlotsAccounted, SourcesOf
    <2>1. {j \in DOMAIN sources' : sources'[j].ring = o} = SourcesOf(o)
      BY <1>12, <1>13 DEF SourcesOf, s
    <2>2. QED
      BY <2>1 DEF Inv, StrategyHalf, SlotsAccounted
  <1>20. ViewFollowsSource'
    <2> DEFINE Read(source) == {m \in (source.from + 1)..source.at :
                                  books[source.ring][m] = source.inst}
    <2> SUFFICES ASSUME NEW j \in DOMAIN sources, sources'[j].inst \in clean'
                 PROVE  market'[sources'[j].inst] = Max(Read(sources'[j]) \cup {0})
      BY <1>12, <1>16 DEF ViewFollowsSource
    <2>1. \A l \in DOMAIN sources :
            sources[l].inst \in clean => market[sources[l].inst] = Max(Read(sources[l]) \cup {0})
      BY DEF Inv, StrategyHalf, ViewFollowsSource
    <2>2. CASE j # k
      <3>1. sources'[j] = sources[j]
        BY <1>12, <2>2
      <3>2. sources[j].inst # i
        BY <1>3, <2>2, SourcesDiffer DEF i, s
      <3>3. sources[j].inst \in Instruments
        BY <1>3, SourceFacts DEF Source
      <3>4. sources[j].inst \in clean
        BY <1>9, <3>1
      <3>5. QED
        BY <1>14, <2>1, <3>1, <3>2, <3>3, <3>4
    <2>3. CASE j = k
      <3>1. behind < Capacity /\ i \in clean
        BY <1>9, <1>13, <2>3
      <3>2. n = s.at + 1 /\ market'[i] = IF next = i THEN n ELSE market[i]
        BY <1>5, <1>8, <1>15, <3>1 DEF behind, n
      <3>3. market[i] = Max(Read(s) \cup {0})
        BY <2>1, <3>1 DEF i, s
      <3>4. Read(sources'[k]) = {m \in (s.from + 1)..(s.at + 1) : books[s.ring][m] = i}
        BY <1>13, <3>2
      <3>5. Read(s) = {m \in (s.from + 1)..s.at : books[s.ring][m] = i}
        BY DEF i
      <3>6. books[s.ring][s.at + 1] = next
        BY <3>2 DEF next
      <3> HIDE DEF Read
      <3>7. CASE next = i
        <4>1. n \in Read(sources'[k]) \cup {0}
          BY <1>4, <3>2, <3>4, <3>6, <3>7
        <4>2. Read(sources'[k]) \cup {0} \subseteq Int
          BY <1>4, <3>4
        <4>3. \A m \in Read(sources'[k]) \cup {0} : m <= n
          BY <1>4, <1>11, <3>2, <3>4
        <4>4. Max(Read(sources'[k]) \cup {0}) = n
          BY <4>1, <4>2, <4>3, MaxIs
        <4>5. QED
          BY <1>13, <2>3, <3>2, <3>7, <4>4
      <3>8. CASE next # i
        <4>1. Read(sources'[k]) = Read(s)
          BY <1>4, <3>4, <3>5, <3>6, <3>8
        <4>2. QED
          BY <1>13, <2>3, <3>2, <3>3, <3>8, <4>1
      <3>9. QED
        BY <3>7, <3>8
    <2>4. QED
      BY <2>2, <2>3
  <1>21. QED
    BY <1>17, <1>18, <1>19, <1>20 DEF StrategyHalf

\* A strategy's step leaves the gateway's half alone.
LEMMA StrategyKeepsGateway ==
  ASSUME GatewayHalf, Start \/ Resolve \/ Connect \/ Poll \/ Stop \/ Die
  PROVE  GatewayHalf'
  <1>1. UNCHANGED <<name, made, whole, books, gatewayVars, masterVars>>
    BY DEF Start, Resolve, Connect, Poll, Stop, Die, ringVars
  <1>2. QED
    BY <1>1 DEF gatewayVars, masterVars, GatewayHalf, GatewayTypes, GatewayInv

\* Asking the master, and beginning to, opens nothing.
LEMMA StartsClean ==
  ASSUME Inv, Start \/ (Resolve /\ ~ Leave)
  PROVE  StrategyHalf'
  <1>1. UNCHANGED <<name, made, whole, books, taken, sources, market, clean, leaked>>
    BY DEF Start, Resolve, ringVars
  <1>2. /\ stage' \in {"running", "resolving", "connecting"}
        /\ starts' \in 0..MaxStarts
        /\ attempts' \in 0..Retries
    BY MarketAssumption DEF Start, Resolve, Inv, StrategyHalf, StrategyTypes
  <1>3. StrategyTypes'
    BY <1>1, <1>2 DEF Inv, StrategyHalf, StrategyTypes
  <1>4. StartInv'
    <2>1. CASE Start
      <3>1. Wanted # <<>> => Len(Wanted) > 0
        BY MarketAssumption
      <3>2. sources = <<>> /\ market = NoBooks
        BY <2>1 DEF Start, Inv, StrategyHalf, StartInv
      <3>3. sources' \in Seq(Source) /\ Len(sources') = 0 /\ Len(Wanted) \in Nat
        BY <1>1, <3>2, MarketAssumption
      <3>4. QED
        BY <1>1, <2>1, <3>1, <3>2, <3>3 DEF Start, StartInv, NoBooks
    <2>2. CASE Resolve /\ ~ Leave
      BY <1>1, <2>2 DEF Resolve, Inv, StrategyHalf, StartInv, NoBooks
    <2>3. QED
      BY <2>1, <2>2
  <1>5. SlotsAccounted' /\ ViewFollowsSource'
    BY <1>1 DEF Inv, StrategyHalf, SlotsAccounted, SourcesOf, ViewFollowsSource
  <1>6. QED
    BY <1>3, <1>4, <1>5 DEF StrategyHalf

--------------------------------------------------------------------------------
(* Both together.                                                          *)

\* Every step keeps the invariant.
LEMMA InvStep ==
  ASSUME Inv, [Next]_vars
  PROVE  Inv'
  <1>1. CASE GatewayStep
    <2>1. GatewayHalf' /\ BooksGrow /\ UNCHANGED <<taken, strategyVars>>
      BY <1>1, GatewayKeepsGateway, GatewayKeepsBooks DEF Inv
    <2>2. made' \in Nat
      BY <2>1, MarketAssumption DEF GatewayHalf, GatewayTypes
    <2>3. QED
      BY <2>1, <2>2, StrategyUnmoved DEF Inv
  <1>2. ASSUME Start \/ Resolve \/ Connect \/ Poll \/ Stop \/ Die PROVE Inv'
    <2>1. GatewayHalf'
      BY <1>2, StrategyKeepsGateway DEF Inv
    <2>2. CASE Start \/ (Resolve /\ ~ Leave)
      BY <2>1, <2>2, StartsClean DEF Inv
    <2>3. CASE (Resolve /\ Leave) \/ Stop
      BY <2>1, <2>3, LeaveReturns DEF Resolve, Stop, Inv
    <2>4. CASE Connect
      BY <2>1, <2>4, LeaveReturns, AddOpens DEF Connect, Inv
    <2>5. CASE Poll
      BY <2>1, <2>5, PollFollows DEF Inv
    <2>6. CASE Die
      BY <2>1, <2>6, DieLoses DEF Inv
    <2>7. QED
      BY <1>2, <2>2, <2>3, <2>4, <2>5, <2>6
  <1>3. CASE UNCHANGED vars
    <2>1. GatewayHalf'
      BY <1>3 DEF vars, ringVars, gatewayVars, masterVars, Inv, GatewayHalf, GatewayTypes, GatewayInv
    <2>2. BooksGrow /\ made' \in Nat
      <3>1. books' = books /\ made' = made
        BY <1>3 DEF vars, ringVars
      <3>2. made \in Nat /\ \A o \in Rings : Len(books[o]) \in Nat
        BY MarketAssumption DEF Inv, GatewayHalf, GatewayTypes
      <3>3. QED
        BY <3>1, <3>2 DEF BooksGrow
    <2>3. QED
      BY <1>3, <2>1, <2>2, StrategyUnmoved DEF vars, ringVars, Inv
  <1>4. QED
    BY <1>1, <1>2, <1>3 DEF Next, GatewayStep

\* It holds at the start.
LEMMA InvInit ==
  ASSUME Init
  PROVE  Inv
  <1> USE MarketAssumption DEF Init
  <1>1. IsInjective(table) /\ table \in Seq(Instruments) /\ Len(table) = 0
    BY DEF IsInjective
  <1>2. sources \in Seq(Source) /\ Len(sources) = 0 /\ DOMAIN sources = {}
    OBVIOUS
  <1>3. books \in [Rings -> Seq(Instruments)]
    <2>1. <<>> \in Seq(Instruments)
      OBVIOUS
    <2>2. QED
      BY <2>1
  <1>4. GatewayHalf
    <2>1. turn \in 0..(Len(table) + 1) /\ age \in 0..Interval /\ made \in 0..MaxRings
      BY <1>1
    <2>2. whole \subseteq 1..made /\ name \in {None, made} /\ known \in BOOLEAN
          /\ answers \in BOOLEAN
      OBVIOUS
    <2>3. phase \in {"down", "creating", "registering", "up"} /\ writing \in BOOLEAN
      OBVIOUS
    <2>4. GatewayTypes
      BY <1>1, <1>3, <2>1, <2>2, <2>3 DEF GatewayTypes
    <2>5. GatewayInv
      BY DEF GatewayInv
    <2>6. QED
      BY <2>4, <2>5 DEF GatewayHalf
  <1>5. StrategyTypes
    BY <1>2 DEF StrategyTypes, NoBooks
  <1>6. StartInv
    <2>1. Len(Wanted) \in Nat
      OBVIOUS
    <2>2. QED
      BY <1>2, <2>1 DEF StartInv
  <1>7. SlotsAccounted
    <2>1. ASSUME NEW o \in Rings PROVE taken[o] = Cardinality(SourcesOf(o)) + leaked[o]
      <3>1. SourcesOf(o) = {}
        BY <1>2 DEF SourcesOf
      <3>2. QED
        BY <3>1, FS_EmptySet
    <2>2. QED
      BY <2>1 DEF SlotsAccounted
  <1>8. ViewFollowsSource
    BY <1>2 DEF ViewFollowsSource
  <1>9. QED
    BY <1>4, <1>5, <1>6, <1>7, <1>8 DEF Inv, StrategyHalf

\* The two halves are the whole type.
LEMMA Halves == Inv => TypeOK
  BY DEF Inv, GatewayHalf, StrategyHalf, GatewayTypes, StrategyTypes, TypeOK

\* The table never lists an instrument twice, half a round never points past it, no
\* reader is ahead of its ring, and the slots in use stay within max_readers: for any
\* instruments, subscriptions, capacity and number of reader slots.
THEOREM MarketTypeCorrect == Spec => []TypeOK
  <1>1. Init => Inv
    BY InvInit
  <1>2. Inv /\ [Next]_vars => Inv'
    BY InvStep
  <1>3. QED
    BY <1>1, <1>2, Halves, PTL DEF Spec

\* No reader slot is lost but to a strategy that dies: whatever a start got through
\* before it failed, and however often gateway and strategy come and go.
THEOREM NoSlotForgotten == Spec => []SlotsAccounted
  <1>1. Init => Inv
    BY InvInit
  <1>2. Inv /\ [Next]_vars => Inv'
    BY InvStep
  <1>3. Inv => SlotsAccounted
    BY DEF Inv, StrategyHalf
  <1>4. QED
    BY <1>1, <1>2, <1>3, PTL DEF Spec

\* The view of an instrument is the latest book of it that its own source has read,
\* torn cells and other sources of the same ring notwithstanding, as long as the
\* source never fell a capacity behind: for any capacity and any subscriptions.
THEOREM ViewIsLatestRead == Spec => []ViewFollowsSource
  <1>1. Init => Inv
    BY InvInit
  <1>2. Inv /\ [Next]_vars => Inv'
    BY InvStep
  <1>3. Inv => ViewFollowsSource
    BY DEF Inv, StrategyHalf
  <1>4. QED
    BY <1>1, <1>2, <1>3, PTL DEF Spec

================================================================================
