------------------------------- MODULE RapidRing -------------------------------
(***************************************************************************)
(* The shared-memory ring of crates/nnxt-rapid/src/ring.rs once it has     *)
(* been created: one Writer, many Readers, no lock and no back-pressure.   *)
(* A message is identified by its sequence number; the bytes of a cell are *)
(* a set of Words that the writer fills and a reader copies one by one,    *)
(* because T is a plain struct written and read without synchronisation.   *)
(*                                                                         *)
(* A step is one access to a shared location that another process can      *)
(* observe.  The stores a reader makes to its own slot after it loaded     *)
(* write_seq are one step: nobody else reads an owned slot except the      *)
(* compare_exchange of connect, which only tests it against FREE_READER.   *)
(***************************************************************************)
EXTENDS Integers

CONSTANTS
  Readers,     \* reader handles (a process that connects again is reused)
  Words,       \* the machine words of one element T
  Capacity,    \* header.capacity
  MaxReaders,  \* header.max_readers
  MaxSeq       \* bound: how many messages the writer commits

ASSUME RingAssumption ==
  /\ Capacity \in Nat \ {0}     \* layout_for rejects 0
  /\ MaxReaders \in Nat
  /\ MaxSeq \in Nat

Free   == -1   \* FREE_READER (u64::MAX), never a sequence number
Zeroed == -1   \* the content of a cell nothing was written to

Slots == 0..(MaxReaders - 1)
Cells == 0..(Capacity - 1)

VARIABLES
  writeSeq,    \* header.write_seq
  slots,       \* the reader table: slot -> read sequence or Free
  data,        \* cell -> word -> number of the message the word belongs to
  writer,      \* "up", "dropped" (Drop ran, name unlinked) or "crashed"
  pendingSeq,  \* Writer.pending_seq
  hasPending,  \* Writer.has_pending
  unfilled,    \* words of the prepared cell the caller has yet to write
  pc,          \* where each reader is
  loaded,      \* the write_seq a reader loaded in the call it is in
  slot,        \* Reader.read_slot; while connecting, the index to try next
  at,          \* sequence whose cell the reader holds a reference to
  toCopy,      \* words of that cell it has yet to read
  copy         \* words it has read

writerVars == <<writer, pendingSeq, hasPending, unfilled>>
readerVars == <<pc, loaded, slot, at, toCopy, copy>>
vars == <<writeSeq, slots, data, writerVars, readerVars>>

Calls == {"try_read", "read", "read_timeout"}

Init ==
  /\ writeSeq = 0
  /\ slots = [i \in Slots |-> Free]
  /\ data = [c \in Cells |-> [w \in Words |-> Zeroed]]
  /\ writer = "up"
  /\ pendingSeq = 0
  /\ hasPending = FALSE
  /\ unfilled = {}
  /\ pc = [r \in Readers |-> "off"]
  /\ loaded = [r \in Readers |-> 0]
  /\ slot = [r \in Readers |-> 0]
  /\ at = [r \in Readers |-> 0]
  /\ toCopy = [r \in Readers |-> {}]
  /\ copy = [r \in Readers |-> [w \in Words |-> Zeroed]]

--------------------------------------------------------------------------------
(* The writer.                                                             *)

\* Fault: prepare counts on from an uncommitted prepare instead of reloading.
PrepareAhead ==
  /\ writer = "up"
  /\ writeSeq < MaxSeq
  /\ pendingSeq' = IF hasPending THEN pendingSeq + 1 ELSE writeSeq
  /\ hasPending' = TRUE
  /\ unfilled' = Words
  /\ UNCHANGED <<writeSeq, slots, data, writer, readerVars>>

\* prepare: returns a reference to the cell of the next sequence number, which
\* the caller overwrites in place.  A second prepare hands out the same cell.
Prepare ==
  /\ writer = "up"
  /\ writeSeq < MaxSeq
  /\ pendingSeq' = writeSeq
  /\ hasPending' = TRUE
  /\ unfilled' = Words
  /\ UNCHANGED <<writeSeq, slots, data, writer, readerVars>>

\* Fault: the reference prepare returned is one cell off.
FillNextCell(w) ==
  /\ writer = "up"
  /\ hasPending
  /\ w \in unfilled
  /\ data' = [data EXCEPT ![(pendingSeq + 1) % Capacity][w] = pendingSeq]
  /\ unfilled' = unfilled \ {w}
  /\ UNCHANGED <<writeSeq, slots, writer, pendingSeq, hasPending, readerVars>>

\* The caller stores one word through the reference prepare returned.
Fill(w) ==
  /\ writer = "up"
  /\ hasPending
  /\ w \in unfilled
  /\ data' = [data EXCEPT ![pendingSeq % Capacity][w] = pendingSeq]
  /\ unfilled' = unfilled \ {w}
  /\ UNCHANGED <<writeSeq, slots, writer, pendingSeq, hasPending, readerVars>>

\* Fault: write_seq becomes visible before the element is written.
CommitEarly ==
  /\ writer = "up"
  /\ hasPending
  /\ writeSeq' = pendingSeq + 1
  /\ hasPending' = FALSE
  /\ UNCHANGED <<slots, data, writer, pendingSeq, unfilled, readerVars>>

\* commit, by a caller that has written the whole element (as write does).
Commit ==
  /\ writer = "up"
  /\ hasPending
  /\ unfilled = {}
  /\ writeSeq' = pendingSeq + 1
  /\ hasPending' = FALSE
  /\ UNCHANGED <<slots, data, writer, pendingSeq, unfilled, readerVars>>

\* Drop for Writer unlinks the name; readers keep the mapping they have.
DropWriter ==
  /\ writer = "up"
  /\ writer' = "dropped"
  /\ UNCHANGED <<writeSeq, slots, data, pendingSeq, hasPending, unfilled, readerVars>>

\* The writer's process dies: nothing is unlinked, a cell may be half filled.
CrashWriter ==
  /\ writer = "up"
  /\ writer' = "crashed"
  /\ UNCHANGED <<writeSeq, slots, data, pendingSeq, hasPending, unfilled, readerVars>>

--------------------------------------------------------------------------------
(* Connecting.                                                             *)

\* connect opens the object under its name ...
Open(r) ==
  /\ pc[r] = "off"
  /\ writer # "dropped"
  /\ pc' = [pc EXCEPT ![r] = "opened"]
  /\ UNCHANGED <<writeSeq, slots, data, writerVars, loaded, slot, at, toCopy, copy>>

\* ... maps it, or fails to ...
OpenFails(r) ==
  /\ pc[r] = "opened"
  /\ pc' = [pc EXCEPT ![r] = "off"]
  /\ UNCHANGED <<writeSeq, slots, data, writerVars, loaded, slot, at, toCopy, copy>>

\* ... and loads write_seq, whether or not the writer has gone meanwhile: the object
\* outlives its name.
LoadWriteSeq(r) ==
  /\ pc[r] = "opened"
  /\ pc' = [pc EXCEPT ![r] = "connecting"]
  /\ loaded' = [loaded EXCEPT ![r] = writeSeq]
  /\ slot' = [slot EXCEPT ![r] = 0]
  /\ UNCHANGED <<writeSeq, slots, data, writerVars, at, toCopy, copy>>

\* Fault: the slot is stored to without comparing.
ClaimUnchecked(r) ==
  /\ pc[r] = "connecting"
  /\ slot[r] \in Slots
  /\ slots' = [slots EXCEPT ![slot[r]] = loaded[r]]
  /\ pc' = [pc EXCEPT ![r] = "idle"]
  /\ UNCHANGED <<writeSeq, data, writerVars, loaded, slot, at, toCopy, copy>>

\* One compare_exchange(FREE_READER, write_seq) of the scan that succeeds ...
Claim(r) ==
  /\ pc[r] = "connecting"
  /\ slot[r] \in Slots
  /\ slots[slot[r]] = Free
  /\ slots' = [slots EXCEPT ![slot[r]] = loaded[r]]
  /\ pc' = [pc EXCEPT ![r] = "idle"]
  /\ UNCHANGED <<writeSeq, data, writerVars, loaded, slot, at, toCopy, copy>>

\* ... or fails, and the scan goes on with the next slot ...
Probe(r) ==
  /\ pc[r] = "connecting"
  /\ slot[r] \in Slots
  /\ slots[slot[r]] # Free
  /\ slot' = [slot EXCEPT ![r] = @ + 1]
  /\ UNCHANGED <<writeSeq, slots, data, writerVars, pc, loaded, at, toCopy, copy>>

\* ... until none is left: ReaderSlotsFull.
SlotsFull(r) ==
  /\ pc[r] = "connecting"
  /\ slot[r] \notin Slots
  /\ pc' = [pc EXCEPT ![r] = "off"]
  /\ UNCHANGED <<writeSeq, slots, data, writerVars, loaded, slot, at, toCopy, copy>>

--------------------------------------------------------------------------------
(* Reading.                                                                *)

readSeq(r) == slots[slot[r]]

\* A call of try_read, read or read_timeout begins: it loads write_seq.
Load(r, call) ==
  /\ pc[r] = "idle"
  /\ pc' = [pc EXCEPT ![r] = call]
  /\ loaded' = [loaded EXCEPT ![r] = writeSeq]
  /\ UNCHANGED <<writeSeq, slots, data, writerVars, slot, at, toCopy, copy>>

\* try_read tests for inequality, the two blocking calls for greater-than.
HasNews(r) ==
  IF pc[r] = "try_read" THEN loaded[r] # readSeq(r) ELSE loaded[r] > readSeq(r)

\* Faults: a lagging reader goes back by Capacity, jumps past the newest message,
\* or jumps to the newest one.
ReadFromBehind(r) ==
  IF loaded[r] - readSeq(r) > Capacity THEN readSeq(r) - Capacity ELSE readSeq(r)

ReadFromEnd(r) ==
  IF loaded[r] - readSeq(r) > Capacity THEN loaded[r] ELSE readSeq(r)

ReadFromNewest(r) ==
  IF loaded[r] - readSeq(r) > Capacity THEN loaded[r] - 1 ELSE readSeq(r)

\* Where the call reads: a reader that lags by more than Capacity jumps.
ReadFrom(r) ==
  IF loaded[r] - readSeq(r) > Capacity THEN loaded[r] - Capacity ELSE readSeq(r)

\* The call moves the slot past the message and only then returns a reference
\* to its cell.
Take(r) ==
  /\ pc[r] \in Calls
  /\ HasNews(r)
  /\ at' = [at EXCEPT ![r] = ReadFrom(r)]
  /\ slots' = [slots EXCEPT ![slot[r]] = ReadFrom(r) + 1]
  /\ toCopy' = [toCopy EXCEPT ![r] = Words]
  /\ copy' = [copy EXCEPT ![r] = [w \in Words |-> Zeroed]]
  /\ pc' = [pc EXCEPT ![r] = "holding"]
  /\ UNCHANGED <<writeSeq, data, writerVars, loaded, slot>>

\* try_read, or read_timeout out of time, returns None.
NoNews(r) ==
  /\ pc[r] \in {"try_read", "read_timeout"}
  /\ ~HasNews(r)
  /\ pc' = [pc EXCEPT ![r] = "idle"]
  /\ UNCHANGED <<writeSeq, slots, data, writerVars, loaded, slot, at, toCopy, copy>>

\* Fault: the load of write_seq is hoisted out of the loop.
SpinHoisted(r) ==
  /\ pc[r] \in {"read", "read_timeout"}
  /\ ~HasNews(r)
  /\ UNCHANGED vars

\* read, or read_timeout with time left, spins: it loads write_seq again.
Spin(r) ==
  /\ pc[r] \in {"read", "read_timeout"}
  /\ ~HasNews(r)
  /\ loaded' = [loaded EXCEPT ![r] = writeSeq]
  /\ UNCHANGED <<writeSeq, slots, data, writerVars, pc, slot, at, toCopy, copy>>

\* The caller reads one word through the reference.
Copy(r, w) ==
  /\ pc[r] = "holding"
  /\ w \in toCopy[r]
  /\ copy' = [copy EXCEPT ![r][w] = data[at[r] % Capacity][w]]
  /\ toCopy' = [toCopy EXCEPT ![r] = @ \ {w}]
  /\ UNCHANGED <<writeSeq, slots, data, writerVars, pc, loaded, slot, at>>

\* The caller has its copy and lets go of the reference.
Release(r) ==
  /\ pc[r] = "holding"
  /\ toCopy[r] = {}
  /\ pc' = [pc EXCEPT ![r] = "idle"]
  /\ UNCHANGED <<writeSeq, slots, data, writerVars, loaded, slot, at, toCopy, copy>>

\* Drop for Reader gives the slot back.
Disconnect(r) ==
  /\ pc[r] = "idle"
  /\ slots' = [slots EXCEPT ![slot[r]] = Free]
  /\ pc' = [pc EXCEPT ![r] = "off"]
  /\ UNCHANGED <<writeSeq, data, writerVars, loaded, slot, at, toCopy, copy>>

Connected(r) == pc[r] \in {"idle", "holding"} \cup Calls

\* The reader's process dies holding its slot, which nothing ever frees.
CrashReader(r) ==
  /\ Connected(r)
  /\ pc' = [pc EXCEPT ![r] = "dead"]
  /\ UNCHANGED <<writeSeq, slots, data, writerVars, loaded, slot, at, toCopy, copy>>

--------------------------------------------------------------------------------
ReaderStep(r) ==
  \/ Claim(r) \/ Probe(r) \/ SlotsFull(r)
  \/ Take(r) \/ NoNews(r) \/ Spin(r)
  \/ \E w \in Words : Copy(r, w)
  \/ Release(r)

Next ==
  \/ Prepare
  \/ \E w \in Words : Fill(w)
  \/ Commit
  \/ DropWriter
  \/ CrashWriter
  \/ \E r \in Readers :
       \/ Open(r)
       \/ OpenFails(r)
       \/ LoadWriteSeq(r)
       \/ \E call \in Calls : Load(r, call)
       \/ ReaderStep(r)
       \/ Disconnect(r)
       \/ CrashReader(r)

Spec == Init /\ [][Next]_vars

\* The scheduler keeps running a reader that is inside a call.
Fairness == \A r \in Readers : WF_vars(ReaderStep(r))

FairSpec == Spec /\ Fairness

--------------------------------------------------------------------------------
(* Properties.                                                             *)

Message == Nat \cup {Zeroed}

TypeOK ==
  /\ writeSeq \in Nat
  /\ slots \in [Slots -> Nat \cup {Free}]
  /\ data \in [Cells -> [Words -> Message]]
  /\ writer \in {"up", "dropped", "crashed"}
  /\ pendingSeq \in Nat
  /\ hasPending \in BOOLEAN
  /\ unfilled \in SUBSET Words
  /\ pc \in [Readers -> {"off", "opened", "connecting", "idle", "holding", "dead"} \cup Calls]
  /\ loaded \in [Readers -> Nat]
  /\ slot \in [Readers -> 0..MaxReaders]
  /\ at \in [Readers -> Nat]
  /\ toCopy \in [Readers -> SUBSET Words]
  /\ copy \in [Readers -> [Words -> Message]]

\* A reader that holds a slot of the table, alive or not.
Holds(r) == Connected(r) \/ pc[r] = "dead"

\* Slots are handed out exclusively and are all accounted for: two readers never
\* share one, whatever the interleaving of their compare_exchange scans, and a
\* slot is taken exactly when some reader (perhaps a dead one) holds it.
SlotOwnership ==
  /\ \A r \in Readers : Holds(r) => slot[r] \in Slots
  /\ \A r, q \in Readers : Holds(r) /\ Holds(q) /\ slot[r] = slot[q] => r = q
  /\ \A i \in Slots : slots[i] # Free <=> \E r \in Readers : Holds(r) /\ slot[r] = i

\* No reader is ever ahead of the writer, nor of the write_seq it acts on: this
\* is what lets try_read test for inequality where read tests for greater-than,
\* and lag subtract the two.
CursorBehindWriter ==
  \A r \in Readers :
    /\ Holds(r) => readSeq(r) <= writeSeq
    /\ pc[r] \in {"connecting"} \cup Calls => loaded[r] <= writeSeq
    /\ pc[r] \in Calls => readSeq(r) <= loaded[r]
    /\ pc[r] = "holding" => at[r] < writeSeq

\* The writer has come round to the cell of message s again: message s + Capacity
\* is at least prepared.
Lapped(s) == writeSeq > s + Capacity \/ (writeSeq = s + Capacity /\ hasPending)

\* What the ring retains: the cell of each committed message holds every word of
\* it, or of a later one once it was lapped - so the last Capacity messages are
\* there whole, except the oldest while the writer is preparing the next.
CellsHold ==
  \A s \in 0..(writeSeq - 1) : \A w \in Words :
    /\ data[s % Capacity][w] >= s
    /\ data[s % Capacity][w] % Capacity = s % Capacity
    /\ data[s % Capacity][w] # s => Lapped(s)

\* What a reference can show: every word read through it belongs to the message
\* asked for or to a later message of the same cell, never to an earlier one or
\* to zeroed memory.
NeverStale ==
  \A r \in Readers : \A w \in Words :
    pc[r] = "holding" /\ w \notin toCopy[r] =>
      /\ copy[r][w] >= at[r]
      /\ copy[r][w] % Capacity = at[r] % Capacity

\* When it shows the right thing: a word differs from the message asked for only
\* if the writer has lapped that message.  A reader that stays less than Capacity
\* behind the writer copies exactly what was written.
IntactUnlessLapped ==
  \A r \in Readers : \A w \in Words :
    pc[r] = "holding" /\ w \notin toCopy[r] /\ copy[r][w] # at[r] => Lapped(at[r])

\* A blocking read returns once a message is there for it (unless its process
\* dies), however fast the writer goes on.
ReadReturns ==
  \A r \in Readers :
    (pc[r] = "read" /\ writeSeq > readSeq(r)) ~> pc[r] # "read"

Unjoined == -2   \* the position of a handle that has opened the object

\* Where a handle stands in the channel: it joins when connect loads write_seq, and
\* then its position is the content of its slot.
Position(r) ==
  IF pc[r] = "opened" THEN Unjoined
  ELSE IF pc[r] = "connecting" THEN loaded[r]
  ELSE IF Connected(r) THEN readSeq(r) ELSE Free

\* What the call a handle is in saw of write_seq.
AsOf(r) == IF pc[r] \in Calls THEN loaded[r] ELSE Free

Channel == INSTANCE Broadcast WITH
  Retention <- Capacity,
  Away <- Free,
  Found <- Unjoined,
  open <- (writer # "dropped"),
  published <- writeSeq,
  position <- [r \in Readers |-> Position(r)],
  asOf <- [r \in Readers |-> AsOf(r)]

\* The ring implements the broadcast channel as to the numbers of the messages it
\* refers readers to: they start from the write_seq that connect loaded and increase,
\* and none is skipped but those that were no longer among the last Capacity when the
\* call looked - also when the writer drops the queue while a reader connects.  What a
\* reader copies from the cell it is referred to is the subject of NeverStale and
\* IntactUnlessLapped, and is less.
ImplementsBroadcast == Channel!Spec

--------------------------------------------------------------------------------
(* What the safety properties rest on; their conjunction is inductive.     *)

\* A prepared cell is the next one, and the words stored so far are in it.
PreparedCell ==
  hasPending =>
    /\ pendingSeq = writeSeq
    /\ \A w \in Words \ unfilled : data[pendingSeq % Capacity][w] = pendingSeq

RingInv ==
  /\ TypeOK
  /\ SlotOwnership
  /\ CursorBehindWriter
  /\ PreparedCell
  /\ CellsHold
  /\ NeverStale
  /\ IntactUnlessLapped

================================================================================
