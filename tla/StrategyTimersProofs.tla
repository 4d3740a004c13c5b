-------------------------- MODULE StrategyTimersProofs --------------------------
(***************************************************************************)
(* Proofs about a strategy's timers, for every choice of intervals and     *)
(* however late the loop is: the runner has exactly the timers that are    *)
(* set, their events keep their distance, and a cancellation is final.     *)
(***************************************************************************)
EXTENDS StrategyTimers, TLAPS

--------------------------------------------------------------------------------
(* The invariant.                                                          *)

\* The earliest time stamp the next event of a timer may have.
Earliest(i) == asked[i].interval + (IF stamp[i] = None THEN asked[i].at ELSE stamp[i])

\* What the histories say of ids in and out of use.
HistoryOK ==
  /\ \A i \in Ids : i >= nextId => gone[i] = None /\ stamp[i] = None
  /\ \A i \in Ids : stamp[i] <= ctxNow
  /\ CancelIsFinal

\* A timer in the vector knows when it may fire next.
NextIsFar ==
  \A k \in DOMAIN timers :
    /\ timers[k].interval = asked[timers[k].id].interval
    /\ timers[k].next >= SaturatingAdd(Earliest(timers[k].id), 0)

\* An event that waits in the batch may be handled: it is the only one of its timer,
\* which had to wait until the time of this tick, and will have to again.
BatchOK ==
  /\ DOMAIN batch # {} => stage = "ticking"
  /\ \A j, k \in DOMAIN batch : batch[j] = batch[k] => j = k
  /\ \A k \in DOMAIN batch :
       /\ batch[k] < nextId
       /\ ctxNow >= Earliest(batch[k])
       /\ gone[batch[k]] # None => gone[batch[k]] = ctxNow
       /\ \A j \in DOMAIN timers :
            timers[j].id = batch[k] =>
              timers[j].next >= SaturatingAdd(ctxNow, asked[batch[k]].interval)

\* The types of what every step of the loop changes.
LoopTyped ==
  /\ now \in Times
  /\ pending \in 0..MaxPending
  /\ stage \in {"off", "starting", "polling", "event", "handled", "ticking",
                "stopping", "stopped"}
  /\ ctxNow \in 0..now
  /\ calling \in Ids \cup {None}

TimersInv == TypeOK /\ TimersAccounted /\ HistoryOK /\ NextIsFar /\ BatchOK

\* What the fields of a timer are.
LEMMA TimerFields ==
  ASSUME NEW t \in Timer
  PROVE  t.id \in Ids /\ t.interval \in Nat /\ t.next \in Nat
  <1>1. \A d \in 0..MaxClock : d \in Nat
    BY TimersAssumption
  <1>2. t.id \in Ids /\ t.interval \in 0..MaxClock /\ t.next \in 0..MaxClock
    BY TimersAssumption DEF Timer
  <1>3. QED
    BY <1>1, <1>2

--------------------------------------------------------------------------------
(* The vector.                                                             *)

\* Where the k-th element of SwapRemove(s, i) was.
Before(s, i, k) == IF k = i THEN Len(s) ELSE k

\* SwapRemove(s, i) holds every element of s but the i-th, each in one place.
AllButOne(S, s, i) ==
  /\ SwapRemove(s, i) \in Seq(S)
  /\ DOMAIN SwapRemove(s, i) = 1..(Len(s) - 1)
  /\ \A k \in 1..(Len(s) - 1) :
       /\ Before(s, i, k) \in DOMAIN s \ {i}
       /\ SwapRemove(s, i)[k] = s[Before(s, i, k)]
  /\ \A p \in DOMAIN s \ {i} :
       \E k \in 1..(Len(s) - 1) : SwapRemove(s, i)[k] = s[p]

\* swap_remove keeps every element but the i-th, and each in one place.
LEMMA SwapRemoveKeeps ==
  ASSUME NEW S, NEW s \in Seq(S), NEW i \in DOMAIN s
  PROVE  AllButOne(S, s, i)
  <1>1. Len(s) \in Nat /\ DOMAIN s = 1..Len(s) /\ i \in 1..Len(s)
    OBVIOUS
  <1>2. \A k \in 1..(Len(s) - 1) :
          /\ Before(s, i, k) \in DOMAIN s \ {i}
          /\ SwapRemove(s, i)[k] = s[Before(s, i, k)]
    BY <1>1 DEF SwapRemove, Before
  <1>3. SwapRemove(s, i) \in Seq(S)
    <2>1. Len(s) - 1 \in Nat
      BY <1>1
    <2>2. \A k \in 1..(Len(s) - 1) : SwapRemove(s, i)[k] \in S
      BY <1>1, <1>2
    <2>3. SwapRemove(s, i) = [k \in 1..(Len(s) - 1) |-> SwapRemove(s, i)[k]]
      BY DEF SwapRemove
    <2>4. QED
      BY <2>1, <2>2, <2>3
  <1>4. ASSUME NEW p \in DOMAIN s \ {i}
        PROVE  \E k \in 1..(Len(s) - 1) : SwapRemove(s, i)[k] = s[p]
    <2>1. CASE p = Len(s)
      <3>1. i \in 1..(Len(s) - 1) /\ SwapRemove(s, i)[i] = s[p]
        BY <1>1, <2>1 DEF SwapRemove
      <3>2. QED
        BY <3>1
    <2>2. CASE p # Len(s)
      <3>1. p \in 1..(Len(s) - 1) /\ SwapRemove(s, i)[p] = s[p]
        BY <1>1, <2>2 DEF SwapRemove
      <3>2. QED
        BY <3>1
    <2>3. QED
      BY <2>1, <2>2
  <1>5. QED
    BY <1>2, <1>3, <1>4 DEF SwapRemove, AllButOne

--------------------------------------------------------------------------------
(* The steps.                                                              *)

LEMMA InitTimers == Init => TimersInv
  <1>1. SUFFICES ASSUME Init PROVE TimersInv
    OBVIOUS
  <1>2. TypeOK
    BY <1>1, TimersAssumption DEF Init, TypeOK, Times, Timer, None, Ids
  <1>3. TimersAccounted
    BY <1>1 DEF Init, TimersAccounted, Ids
  <1>4. HistoryOK /\ NextIsFar /\ BatchOK
    BY <1>1 DEF Init, HistoryOK, CancelIsFinal, NextIsFar, BatchOK, None
  <1>5. QED
    BY <1>2, <1>3, <1>4 DEF TimersInv

\* A step that leaves timers and histories alone, lets time pass and changes stage
\* only while no event waits, keeps the invariant.
LEMMA IdleKeeps ==
  ASSUME TimersInv, LoopTyped', UNCHANGED <<managerVars, history>>, ctxNow' >= ctxNow,
         DOMAIN batch = {} \/ UNCHANGED <<stage, ctxNow>>
  PROVE  TimersInv'
  <1>1. TimersAccounted'
    BY DEF TimersInv, TimersAccounted, managerVars, history
  <1>2. HistoryOK'
    <2>1. UNCHANGED <<nextId, gone, stamp>>
      BY DEF managerVars, history
    <2>2. \A i \in Ids : stamp[i] \in Int
      BY DEF TimersInv, TypeOK, Times, None
    <2>3. ctxNow \in Int /\ ctxNow' \in Int
      BY DEF TimersInv, TypeOK, LoopTyped
    <2>4. \A i \in Ids : stamp[i] <= ctxNow'
      BY <2>2, <2>3 DEF TimersInv, HistoryOK
    <2>5. QED
      BY <2>1, <2>4 DEF TimersInv, HistoryOK, CancelIsFinal
  <1>3. NextIsFar'
    BY DEF TimersInv, NextIsFar, Earliest, managerVars, history
  <1>4. BatchOK'
    BY DEF TimersInv, BatchOK, Earliest, managerVars, history
  <1>5. TypeOK'
    BY DEF TimersInv, TypeOK, LoopTyped, managerVars, history
  <1>6. QED
    BY <1>1, <1>2, <1>3, <1>4, <1>5 DEF TimersInv

LEMMA SetTimerKeeps ==
  ASSUME TimersInv, NEW d \in Intervals, SetTimer(d)
  PROVE  TimersInv'
  <1> DEFINE t == [id |-> nextId, interval |-> d, next |-> SaturatingAdd(ctxNow, d)]
  <1>1. /\ nextId \in Ids
        /\ t \in Timer
        /\ timers \in Seq(Timer)
    BY TimersAssumption DEF SetTimer, TimersInv, TypeOK, Ids, Timer, SaturatingAdd, Times
  <1>2. /\ timers' = Append(timers, t)
        /\ timers' \in Seq(Timer)
        /\ DOMAIN timers' = 1..(Len(timers) + 1)
        /\ \A k \in DOMAIN timers : timers'[k] = timers[k]
        /\ timers'[Len(timers) + 1] = t
        /\ DOMAIN timers = 1..Len(timers)
        /\ Len(timers) \in Nat
    BY <1>1 DEF SetTimer
  <1>3. TypeOK'
    <2>1. UNCHANGED <<now, pending, stage, ctxNow, calling, batch, stamp, gone>>
      BY DEF SetTimer, loopVars
    <2>2. ctxNow \in Times
      BY TimersAssumption DEF TimersInv, TypeOK, Times
    <2>3. asked' \in [Ids -> [at : Times, interval : {0} \cup Intervals]]
      BY <1>1, <2>2 DEF SetTimer, TimersInv, TypeOK
    <2>4. nextId' \in 0..MaxTimers
      BY TimersAssumption DEF SetTimer, TimersInv, TypeOK
    <2>5. QED
      BY <1>2, <2>1, <2>3, <2>4 DEF TimersInv, TypeOK
  <1>4. TimersAccounted'
    <2>1. \A k \in DOMAIN timers : timers[k].id < nextId
      BY DEF TimersInv, TimersAccounted, TypeOK
    <2>2. {timers'[k].id : k \in DOMAIN timers'}
            = {timers[k].id : k \in DOMAIN timers} \cup {nextId}
      BY <1>2
    <2>3. gone[nextId] = None
      BY <1>1 DEF TimersInv, HistoryOK, TypeOK
    <2>4. \A j, k \in DOMAIN timers' : timers'[j].id = timers'[k].id => j = k
      BY <1>2, <2>1 DEF TimersInv, TimersAccounted, TypeOK
    <2>5. {i \in Ids : i < nextId' /\ gone'[i] = None}
            = {i \in Ids : i < nextId /\ gone[i] = None} \cup {nextId}
      BY <1>1, <2>3 DEF SetTimer, Ids, TimersInv, TypeOK
    <2>6. QED
      BY <2>2, <2>4, <2>5 DEF TimersInv, TimersAccounted
  <1>5. HistoryOK'
    <2>1. UNCHANGED <<stamp, gone, ctxNow>> /\ nextId' = nextId + 1
      BY DEF SetTimer, loopVars
    <2>2. nextId \in Int /\ \A i \in Ids : i \in Int
      BY DEF TimersInv, TypeOK, Ids
    <2>3. QED
      BY <2>1, <2>2 DEF TimersInv, HistoryOK, CancelIsFinal
  <1>6. \A i \in Ids : i < nextId => Earliest(i)' = Earliest(i) /\ asked'[i] = asked[i]
    BY DEF SetTimer, TimersInv, TypeOK, Earliest
  <1>7. NextIsFar'
    <2>1. \A k \in DOMAIN timers : timers[k].id \in Ids /\ timers[k].id < nextId
      BY <1>1 DEF TimersInv, TimersAccounted, TypeOK, Timer
    <2>2. asked'[nextId].interval + (IF stamp'[nextId] = None THEN asked'[nextId].at
                                                               ELSE stamp'[nextId])
            = d + ctxNow
      <3>1. stamp'[nextId] = None
        BY <1>1 DEF SetTimer, TimersInv, TypeOK, HistoryOK
      <3>2. asked'[nextId] = [at |-> ctxNow, interval |-> d]
        BY <1>1 DEF SetTimer, TimersInv, TypeOK
      <3>3. QED
        BY <3>1, <3>2
    <2>3. t.next >= SaturatingAdd(d + ctxNow, 0)
      BY <1>1, TimersAssumption DEF SaturatingAdd, TimersInv, TypeOK, Times
    <2>4. ASSUME NEW k \in DOMAIN timers
          PROVE  timers'[k].next >= SaturatingAdd(Earliest(timers[k].id)', 0)
      <3>1. timers'[k] = timers[k]
        BY <1>2
      <3>2. asked'[timers[k].id] = asked[timers[k].id] /\ stamp' = stamp
        BY <1>6, <2>1 DEF SetTimer
      <3>3. QED
        BY <3>1, <3>2 DEF TimersInv, NextIsFar, Earliest
    <2>5. ASSUME NEW k \in DOMAIN timers', k \notin DOMAIN timers
          PROVE  timers'[k].next >= SaturatingAdd(Earliest(timers[k].id)', 0)
      <3>1. k = Len(timers) + 1 /\ timers'[k] = t /\ t.id = nextId
        BY <1>2, <2>5
      <3>2. QED
        BY <2>2, <2>3, <3>1 DEF Earliest
    <2>6. ASSUME NEW k \in DOMAIN timers'
          PROVE  timers'[k].interval = asked'[timers'[k].id].interval
      <3>1. CASE k \in DOMAIN timers
        BY <1>2, <1>6, <2>1, <3>1 DEF TimersInv, NextIsFar
      <3>2. CASE k \notin DOMAIN timers
        <4>1. timers'[k] = t
          BY <1>2, <3>2
        <4>2. asked'[nextId].interval = d
          BY <1>1 DEF SetTimer, TimersInv, TypeOK
        <4>3. QED
          BY <4>1, <4>2
      <3>3. QED
        BY <3>1, <3>2
    <2>7. QED
      BY <2>4, <2>5, <2>6 DEF NextIsFar
  <1>8. BatchOK'
    <2>1. \A k \in DOMAIN batch : batch[k] \in Ids /\ batch[k] < nextId
      BY DEF TimersInv, TypeOK, BatchOK
    <2>2. UNCHANGED <<batch, stage, ctxNow, gone>> /\ nextId' = nextId + 1
      BY DEF SetTimer, loopVars
    <2>3. ASSUME NEW k \in DOMAIN batch, NEW j \in DOMAIN timers', timers'[j].id = batch[k]
          PROVE  timers'[j].next >= SaturatingAdd(ctxNow, asked'[batch[k]].interval)
      <3>1. j \in DOMAIN timers /\ timers'[j] = timers[j]
        BY <1>2, <2>1, <2>3 DEF TimersInv, TypeOK
      <3>2. QED
        BY <1>6, <2>1, <2>3, <3>1 DEF TimersInv, BatchOK
    <2>4. ASSUME NEW k \in DOMAIN batch
          PROVE  Earliest(batch[k])' = Earliest(batch[k])
      <3>1. asked'[batch[k]] = asked[batch[k]] /\ stamp' = stamp
        BY <1>6, <2>1 DEF SetTimer
      <3>2. QED
        BY <2>2, <3>1 DEF Earliest
    <2>5. \A k \in DOMAIN batch : batch[k] < nextId'
      BY <2>1, <2>2 DEF TimersInv, TypeOK, Ids
    <2>6. QED
      BY <2>2, <2>3, <2>4, <2>5 DEF TimersInv, BatchOK
  <1>9. QED
    BY <1>3, <1>4, <1>5, <1>7, <1>8 DEF TimersInv

LEMMA CancelTimerKeeps ==
  ASSUME TimersInv, NEW i \in Ids, CancelTimer(i)
  PROVE  TimersInv'
  <1>1. PICK c \in DOMAIN timers : timers[c].id = i /\ timers' = SwapRemove(timers, c)
    BY DEF CancelTimer
  <1>2. timers \in Seq(Timer)
    BY DEF TimersInv, TypeOK
  <1>3. /\ timers' \in Seq(Timer)
        /\ \A k \in DOMAIN timers' : \E p \in DOMAIN timers \ {c} : timers'[k] = timers[p]
        /\ \A p \in DOMAIN timers \ {c} : \E k \in DOMAIN timers' : timers'[k] = timers[p]
        /\ \A j, k \in DOMAIN timers' : timers'[j].id = timers'[k].id => j = k
    <2>1. /\ timers' \in Seq(Timer)
          /\ DOMAIN timers' = 1..(Len(timers) - 1)
          /\ \A k \in 1..(Len(timers) - 1) :
               /\ Before(timers, c, k) \in DOMAIN timers \ {c}
               /\ timers'[k] = timers[Before(timers, c, k)]
          /\ \A p \in DOMAIN timers \ {c} :
               \E k \in 1..(Len(timers) - 1) : timers'[k] = timers[p]
      <3>1. AllButOne(Timer, timers, c)
        BY <1>2, SwapRemoveKeeps
      <3>2. QED
        BY <1>1, <3>1 DEF AllButOne
    <2>2. Len(timers) \in Nat
      BY <1>2
    <2>3. \A j, k \in DOMAIN timers' : timers'[j].id = timers'[k].id => j = k
      BY <2>1, <2>2 DEF TimersInv, TimersAccounted, Before
    <2>4. QED
      BY <2>1, <2>3
  <1>4. UNCHANGED <<now, pending, stage, ctxNow, calling, nextId, batch, asked, stamp>>
        /\ gone' = [gone EXCEPT ![i] = ctxNow]
    BY DEF CancelTimer, loopVars
  <1>5. ctxNow \in Times
    BY TimersAssumption DEF TimersInv, TypeOK, Times
  <1>6. i < nextId /\ gone[i] = None
    BY <1>1 DEF TimersInv, TimersAccounted
  <1>7. TypeOK'
    BY <1>3, <1>4, <1>5 DEF TimersInv, TypeOK
  <1>8. TimersAccounted'
    <2>1. {timers'[k].id : k \in DOMAIN timers'}
            = {timers[k].id : k \in DOMAIN timers} \ {i}
      BY <1>1, <1>3 DEF TimersInv, TimersAccounted
    <2>2. {x \in Ids : x < nextId' /\ gone'[x] = None}
            = {x \in Ids : x < nextId /\ gone[x] = None} \ {i}
      BY <1>4, <1>5 DEF TimersInv, TypeOK, Times, None
    <2>3. QED
      BY <1>3, <2>1, <2>2 DEF TimersInv, TimersAccounted
  <1>9. HistoryOK'
    BY <1>4, <1>6 DEF TimersInv, TypeOK, HistoryOK, CancelIsFinal, Ids
  <1>10. NextIsFar'
    BY <1>3, <1>4 DEF TimersInv, NextIsFar, Earliest
  <1>11. BatchOK'
    <2>1. \A k \in DOMAIN batch : gone'[batch[k]] # None => gone'[batch[k]] = ctxNow
      BY <1>4 DEF TimersInv, TypeOK, BatchOK
    <2>2. QED
      BY <1>3, <1>4, <2>1 DEF TimersInv, BatchOK, Earliest
  <1>12. QED
    BY <1>7, <1>8, <1>9, <1>10, <1>11 DEF TimersInv

\* The time a timer is given is a time a u64 holds.
LEMMA SaturatingAddOK ==
  ASSUME NEW a \in Nat, NEW b \in Nat
  PROVE  SaturatingAdd(a, b) \in 0..MaxClock
  BY TimersAssumption DEF SaturatingAdd

LEMMA TickKeeps ==
  ASSUME TimersInv, Tick, DOMAIN batch = {}
  PROVE  TimersInv'
  <1>1. /\ timers \in Seq(Timer)
        /\ now \in Nat /\ now < MaxClock /\ ctxNow \in 0..now
        /\ MaxClock \in Nat
    BY TimersAssumption DEF TimersInv, TypeOK, Times
  <1>2. /\ UNCHANGED <<now, pending, calling, nextId, asked, stamp, gone>>
        /\ stage = "handled" /\ stage' = "ticking" /\ ctxNow' = now
        /\ batch' = [k \in DueTimers |-> timers[k].id]
    BY DEF Tick, history
  <1>3. /\ DOMAIN timers' = DOMAIN timers
        /\ \A k \in DOMAIN timers : timers'[k] =
             IF k \in DueTimers
             THEN [timers[k] EXCEPT !.next = SaturatingAdd(now, timers[k].interval)]
             ELSE timers[k]
    BY DEF Tick
  <1>4. \A k \in DOMAIN timers :
          /\ timers'[k] \in Timer
          /\ timers'[k].id = timers[k].id
          /\ timers'[k].next >= timers[k].next
          /\ k \in DueTimers => timers'[k].next = SaturatingAdd(now, timers[k].interval)
    <2>1. SUFFICES ASSUME NEW k \in DOMAIN timers
                   PROVE  /\ timers'[k] \in Timer
                          /\ timers'[k].id = timers[k].id
                          /\ timers'[k].next >= timers[k].next
                          /\ k \in DueTimers =>
                               timers'[k].next = SaturatingAdd(now, timers[k].interval)
      OBVIOUS
    <2>2. timers[k] \in Timer
      BY <1>1
    <2>3. timers[k].interval \in Nat /\ timers[k].next \in Nat
      BY <2>2, TimerFields
    <2>4. /\ SaturatingAdd(now, timers[k].interval) \in 0..MaxClock
          /\ SaturatingAdd(now, timers[k].interval) >= now
      BY <1>1, <2>3 DEF SaturatingAdd
    <2>5. CASE k \in DueTimers
      <3>1. now >= timers[k].next
        BY <2>5 DEF DueTimers
      <3>2. QED
        BY <1>1, <1>3, <2>2, <2>3, <2>4, <2>5, <3>1 DEF Timer
    <2>6. CASE k \notin DueTimers
      BY <1>3, <2>2, <2>3, <2>6
    <2>7. QED
      BY <2>5, <2>6
  <1>5. timers' \in Seq(Timer)
    <2>1. timers' = [k \in 1..Len(timers) |-> timers'[k]]
      BY <1>1 DEF Tick
    <2>2. \A k \in 1..Len(timers) : timers'[k] \in Timer
      BY <1>1, <1>4
    <2>3. QED
      BY <1>1, <2>1, <2>2
  <1>6. \A k \in DOMAIN timers :
          /\ timers[k].id \in Ids
          /\ timers[k].interval \in Nat
          /\ timers[k].next \in Nat
    <2>1. \A k \in DOMAIN timers : timers[k] \in Timer
      BY <1>1
    <2>2. QED
      BY <2>1, TimerFields
  <1>7. TypeOK'
    <2>1. DOMAIN batch' = DueTimers /\ DueTimers \subseteq DOMAIN timers
      BY <1>2 DEF DueTimers
    <2>2. DOMAIN timers \subseteq Nat
      BY <1>1
    <2>3. \A k \in DOMAIN batch' : batch'[k] \in Ids
      BY <1>2, <1>6, <2>1
    <2>4. batch' \in [DOMAIN batch' -> Ids]
      BY <1>2, <1>6, <2>1
    <2>5. QED
      BY <1>1, <1>2, <1>5, <2>1, <2>2, <2>4 DEF TimersInv, TypeOK
  <1>8. TimersAccounted'
    <2>1. {timers'[k].id : k \in DOMAIN timers'} = {timers[k].id : k \in DOMAIN timers}
      BY <1>3, <1>4
    <2>2. QED
      BY <1>2, <1>3, <1>4, <2>1 DEF TimersInv, TimersAccounted
  <1>9. HistoryOK'
    <2>1. \A i \in Ids : stamp[i] \in Int
      BY DEF TimersInv, TypeOK, Times, None
    <2>2. \A i \in Ids : stamp[i] <= now
      BY <1>1, <2>1 DEF TimersInv, HistoryOK
    <2>3. QED
      BY <1>2, <2>2 DEF TimersInv, HistoryOK, CancelIsFinal
  <1>10. \A i \in Ids : Earliest(i) \in Int
    <2>1. SUFFICES ASSUME NEW i \in Ids PROVE Earliest(i) \in Int
      OBVIOUS
    <2>2. asked[i].interval \in {0} \cup Intervals /\ asked[i].at \in Times
      BY DEF TimersInv, TypeOK
    <2>3. stamp[i] \in Times \cup {None}
      BY DEF TimersInv, TypeOK
    <2>4. asked[i].interval \in Int
      <3>1. \A d \in {0} \cup Intervals : d \in Int
        BY TimersAssumption
      <3>2. QED
        BY <2>2, <3>1
    <2>5. QED
      BY <2>2, <2>3, <2>4, TimersAssumption DEF Earliest, Times, None
  <1>11. NextIsFar'
    <2>1. ASSUME NEW k \in DOMAIN timers
          PROVE  timers'[k].next >= SaturatingAdd(Earliest(timers[k].id), 0)
      <3>1. SaturatingAdd(Earliest(timers[k].id), 0) \in Int
        BY <1>1, <1>6, <1>10 DEF SaturatingAdd
      <3>2. timers'[k].next \in Int
        BY <1>4 DEF Timer
      <3>3. timers[k].next >= SaturatingAdd(Earliest(timers[k].id), 0)
        BY DEF TimersInv, NextIsFar
      <3>4. QED
        BY <1>4, <1>6, <3>1, <3>2, <3>3
    <2>2. ASSUME NEW k \in DOMAIN timers
          PROVE  /\ timers'[k].interval = asked[timers[k].id].interval
                 /\ Earliest(timers[k].id)' = Earliest(timers[k].id)
      <3>1. timers'[k].interval = timers[k].interval
        <4>1. timers[k] \in Timer
          BY <1>1
        <4>2. QED
          BY <1>3, <4>1 DEF Timer
      <3>2. timers[k].interval = asked[timers[k].id].interval
        BY DEF TimersInv, NextIsFar
      <3>3. timers'[k].id = timers[k].id
        BY <1>4
      <3>4. QED
        BY <1>2, <3>1, <3>2, <3>3 DEF Earliest
    <2>3. QED
      BY <1>2, <1>3, <1>4, <2>1, <2>2 DEF NextIsFar
  <1>12. BatchOK'
    <2>1. DOMAIN batch' = DueTimers /\ DueTimers \subseteq DOMAIN timers
      BY <1>2 DEF DueTimers
    <2>2. ASSUME NEW j \in DueTimers, NEW k \in DueTimers, batch'[j] = batch'[k]
          PROVE  j = k
      BY <1>2, <2>1, <2>2 DEF TimersInv, TimersAccounted
    <2>3. ASSUME NEW k \in DueTimers
          PROVE  /\ batch'[k] = timers[k].id
                 /\ timers[k].id < nextId
                 /\ gone[timers[k].id] = None
                 /\ now >= Earliest(timers[k].id)
      <3>1. timers[k].id < nextId /\ gone[timers[k].id] = None
        BY <2>1 DEF TimersInv, TimersAccounted
      <3>2. now >= timers[k].next
        BY DEF DueTimers
      <3>3. timers[k].next >= SaturatingAdd(Earliest(timers[k].id), 0)
        BY <2>1 DEF TimersInv, NextIsFar
      <3>4. Earliest(timers[k].id) \in Int
        BY <1>6, <1>10, <2>1
      <3>5. now >= Earliest(timers[k].id)
        BY <1>1, <1>6, <2>1, <3>2, <3>3, <3>4 DEF SaturatingAdd
      <3>6. QED
        BY <1>2, <3>1, <3>5
    <2>4. ASSUME NEW k \in DueTimers, NEW j \in DOMAIN timers, timers[j].id = timers[k].id
          PROVE  timers'[j].next >= SaturatingAdd(now, asked[timers[k].id].interval)
      <3>1. j = k
        BY <2>1, <2>4 DEF TimersInv, TimersAccounted
      <3>2. timers'[k].next = SaturatingAdd(now, timers[k].interval)
        BY <1>4, <2>1
      <3>3. timers[k].interval = asked[timers[k].id].interval
        BY <2>1 DEF TimersInv, NextIsFar
      <3>4. SaturatingAdd(now, timers[k].interval) \in 0..MaxClock
        BY <1>1, <1>6, <2>1, SaturatingAddOK
      <3>5. QED
        BY <3>1, <3>2, <3>3, <3>4
    <2>5. QED
      BY <1>2, <1>3, <1>4, <2>1, <2>2, <2>3, <2>4 DEF BatchOK, Earliest
  <1>13. QED
    BY <1>7, <1>8, <1>9, <1>11, <1>12 DEF TimersInv

LEMMA NextEventKeeps ==
  ASSUME TimersInv, NextEvent
  PROVE  TimersInv'
  <1>1. PICK f \in DOMAIN batch :
          /\ calling' = batch[f]
          /\ batch' = [j \in DOMAIN batch \ {f} |-> batch[j]]
          /\ stamp' = [stamp EXCEPT ![batch[f]] = ctxNow]
    BY DEF NextEvent
  <1>2. UNCHANGED <<now, pending, stage, ctxNow, timers, nextId, asked, gone>>
    BY DEF NextEvent
  <1>3. batch[f] \in Ids /\ ctxNow \in Times
    BY TimersAssumption DEF TimersInv, TypeOK, Times
  <1>4. DOMAIN batch' = DOMAIN batch \ {f} /\ \A j \in DOMAIN batch' : batch'[j] = batch[j]
    BY <1>1
  <1>5. TypeOK'
    <2>1. batch' \in [DOMAIN batch' -> Ids] /\ DOMAIN batch' \subseteq Nat
      BY <1>1, <1>4 DEF TimersInv, TypeOK
    <2>2. stamp' \in [Ids -> Times \cup {None}]
      BY <1>1, <1>3 DEF TimersInv, TypeOK
    <2>3. QED
      BY <1>1, <1>2, <1>3, <2>1, <2>2 DEF TimersInv, TypeOK
  <1>6. TimersAccounted'
    BY <1>2 DEF TimersInv, TimersAccounted
  <1>7. HistoryOK'
    <2>1. batch[f] < nextId /\ (gone[batch[f]] # None => gone[batch[f]] = ctxNow)
      BY DEF TimersInv, BatchOK
    <2>2. \A i \in Ids : stamp'[i] = IF i = batch[f] THEN ctxNow ELSE stamp[i]
      BY <1>1 DEF TimersInv, TypeOK
    <2>3. ctxNow \in Int /\ nextId \in Int /\ batch[f] \in Int
      BY <1>3 DEF TimersInv, TypeOK, Times, Ids
    <2>4. QED
      BY <1>2, <2>1, <2>2, <2>3 DEF TimersInv, HistoryOK, CancelIsFinal
  <1>8. \A i \in Ids : i # batch[f] => stamp'[i] = stamp[i]
    BY <1>1 DEF TimersInv, TypeOK
  <1>9. NextIsFar'
    <2>1. SUFFICES ASSUME NEW k \in DOMAIN timers
                   PROVE  /\ timers[k].interval = asked[timers[k].id].interval
                          /\ timers[k].next >= SaturatingAdd(Earliest(timers[k].id)', 0)
      BY <1>2 DEF NextIsFar
    <2>2. timers[k].id \in Ids /\ timers[k].interval \in Nat
      <3>1. timers[k] \in Timer
        BY DEF TimersInv, TypeOK
      <3>2. QED
        BY <3>1, TimerFields
    <2>3. timers[k].interval = asked[timers[k].id].interval
      BY DEF TimersInv, NextIsFar
    <2>4. CASE timers[k].id # batch[f]
      BY <1>2, <1>8, <2>2, <2>3, <2>4 DEF TimersInv, NextIsFar, Earliest
    <2>5. CASE timers[k].id = batch[f]
      <3>1. timers[k].next >= SaturatingAdd(ctxNow, asked[batch[f]].interval)
        BY <2>5 DEF TimersInv, BatchOK
      <3>2. stamp'[batch[f]] = ctxNow /\ ctxNow # None
        BY <1>1, <1>3 DEF TimersInv, TypeOK, Times, None
      <3>3. ctxNow \in Int /\ asked[batch[f]].interval \in Int
        BY <1>3, <2>2, <2>3, <2>5 DEF Times
      <3>4. QED
        BY <1>2, <2>3, <2>5, <3>1, <3>2, <3>3 DEF Earliest, SaturatingAdd
    <2>6. QED
      BY <2>3, <2>4, <2>5
  <1>10. BatchOK'
    <2>1. \A k \in DOMAIN batch' : batch[k] # batch[f] /\ batch[k] \in Ids
      BY <1>4 DEF TimersInv, TypeOK, BatchOK
    <2>2. ASSUME NEW k \in DOMAIN batch'
          PROVE  batch'[k] = batch[k] /\ Earliest(batch[k])' = Earliest(batch[k])
      <3>1. batch'[k] = batch[k] /\ stamp'[batch[k]] = stamp[batch[k]]
        BY <1>4, <1>8, <2>1
      <3>2. QED
        BY <1>2, <3>1 DEF Earliest
    <2>3. QED
      BY <1>2, <1>4, <2>2 DEF TimersInv, BatchOK
  <1>11. QED
    BY <1>5, <1>6, <1>7, <1>9, <1>10 DEF TimersInv

\* Outside a tick no event waits.
LEMMA NothingWaits ==
  ASSUME TimersInv, stage # "ticking"
  PROVE  DOMAIN batch = {}
  BY DEF TimersInv, BatchOK

LEMMA StepKeeps == TimersInv /\ [Next]_vars => TimersInv'
  <1>1. SUFFICES ASSUME TimersInv, [Next]_vars PROVE TimersInv'
    OBVIOUS
  <1>2. LoopTyped
    <2>1. TypeOK
      BY <1>1 DEF TimersInv
    <2>2. QED
      BY <2>1 DEF TypeOK, LoopTyped
  <1>3. CASE Start \/ Shutdown
    <2>1. LoopTyped' /\ ctxNow' >= ctxNow
      BY <1>2, <1>3, TimersAssumption DEF LoopTyped, Times, Start, Shutdown
    <2>2. QED
      BY <1>1, <1>3, <2>1, NothingWaits, IdleKeeps DEF Start, Shutdown
  <1>4. CASE EndCallback
    <2>1. LoopTyped' /\ ctxNow' >= ctxNow
      BY <1>2, <1>4, TimersAssumption DEF LoopTyped, Times, EndCallback
    <2>2. QED
      BY <1>1, <1>4, <2>1, NothingWaits, IdleKeeps DEF EndCallback
  <1>5. CASE Poll
    <2>1. LoopTyped' /\ ctxNow' >= ctxNow
      BY <1>2, <1>5, TimersAssumption DEF LoopTyped, Times, Poll
    <2>2. QED
      BY <1>1, <1>5, <2>1, NothingWaits, IdleKeeps DEF Poll
  <1>6. CASE EndTick
    <2>1. LoopTyped' /\ ctxNow' >= ctxNow
      BY <1>2, <1>6, TimersAssumption DEF LoopTyped, Times, EndTick
    <2>2. QED
      BY <1>1, <1>6, <2>1, IdleKeeps DEF EndTick
  <1>7. CASE Arrive \/ Advance
    <2>1. LoopTyped' /\ ctxNow' >= ctxNow
      BY <1>2, <1>7, TimersAssumption DEF LoopTyped, Times, Arrive, Advance, loopVars
    <2>2. QED
      BY <1>1, <1>7, <2>1, IdleKeeps DEF Arrive, Advance, loopVars
  <1>8. CASE UNCHANGED vars
    <2>1. LoopTyped' /\ ctxNow' >= ctxNow
      BY <1>2, <1>8, TimersAssumption DEF LoopTyped, Times, vars, loopVars
    <2>2. QED
      BY <1>1, <1>8, <2>1, IdleKeeps DEF vars, loopVars
  <1>9. CASE Tick
    BY <1>1, <1>9, NothingWaits, TickKeeps DEF Tick
  <1>10. QED
    BY <1>1, <1>3, <1>4, <1>5, <1>6, <1>7, <1>8, <1>9,
       SetTimerKeeps, CancelTimerKeeps, NextEventKeeps DEF Next

\* Only the first event of a batch leaves a time stamp, and it was due long enough.
LEMMA StampsApart ==
  ASSUME TimersInv, [Next]_vars, NEW i \in Ids, stamp'[i] # stamp[i]
  PROVE  stamp'[i] >= Earliest(i)
  <1>1. CASE NextEvent
    <2>1. PICK f \in DOMAIN batch : stamp' = [stamp EXCEPT ![batch[f]] = ctxNow]
      BY <1>1 DEF NextEvent
    <2>2. i = batch[f] /\ stamp'[i] = ctxNow
      BY <2>1 DEF TimersInv, TypeOK
    <2>3. QED
      BY <2>2 DEF TimersInv, BatchOK
  <1>2. CASE ~NextEvent
    BY <1>2 DEF Next, vars, history, Start, SetTimer, CancelTimer, EndCallback, Poll, Tick,
                EndTick, Shutdown, Arrive, Advance
  <1>3. QED
    BY <1>1, <1>2

--------------------------------------------------------------------------------
(* The theorems.                                                           *)

LEMMA TimersInvariant == Spec => []TimersInv
  BY InitTimers, StepKeeps, PTL DEF Spec

\* The variables keep their types; a timer's next time fits the clock.
THEOREM TimersTyped == Spec => []TypeOK
  <1>1. TimersInv => TypeOK
    BY DEF TimersInv
  <1>2. QED
    BY <1>1, TimersInvariant, PTL

\* The runner has the timers that were set and not cancelled, each once, for any number
\* of timers and in whatever order swap_remove left them.
THEOREM TimersKept == Spec => []TimersAccounted
  <1>1. TimersInv => TimersAccounted
    BY DEF TimersInv
  <1>2. QED
    BY <1>1, TimersInvariant, PTL

\* No event of a cancelled timer is younger than the cancellation.
THEOREM CancelsFinal == Spec => []CancelIsFinal
  <1>1. TimersInv => CancelIsFinal
    BY DEF TimersInv, HistoryOK
  <1>2. QED
    BY <1>1, TimersInvariant, PTL

\* The events of a timer are its interval apart, for every interval and any delay of
\* the loop.
THEOREM EventsApart == Spec => CallsApart
  <1>1. TimersInv /\ [Next]_vars =>
          [\A i \in Ids : stamp'[i] # stamp[i] =>
             stamp'[i] >= asked[i].interval
                            + (IF stamp[i] = None THEN asked[i].at ELSE stamp[i])]_vars
    BY StampsApart DEF Earliest
  <1>2. QED
    BY <1>1, TimersInvariant, PTL DEF Spec, CallsApart

================================================================================
