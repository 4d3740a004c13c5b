---------------------------- MODULE RapidRingProofs ----------------------------
(***************************************************************************)
(* Proofs about the shared-memory ring, for any number of readers, slots,  *)
(* words and cells.                                                        *)
(***************************************************************************)
EXTENDS RapidRing, TLAPS

--------------------------------------------------------------------------------
(* Arithmetic of cells: numbers that share a cell are Capacity apart.      *)

\* Division with remainder.
LEMMA DivMod ==
  ASSUME NEW C \in Nat \ {0}, NEW s \in Nat
  PROVE  /\ s \div C \in Nat
         /\ s % C \in 0..(C - 1)
         /\ s = C * (s \div C) + (s % C)
  <1>1. s % C \in 0..(C - 1)
    OBVIOUS
  <1>2. s = C * (s \div C) + (s % C)
    OBVIOUS
  <1>3. s \div C \in Nat
    OBVIOUS
  <1> QED
    BY <1>1, <1>2, <1>3

\* A positive multiple of C is at least C.
LEMMA MultipleAtLeast ==
  ASSUME NEW C \in Nat \ {0}, NEW k \in Nat, k >= 1
  PROVE  C * k >= C
  OBVIOUS

\* Multiplication distributes over subtraction.
LEMMA Distributes ==
  ASSUME NEW C \in Nat, NEW k \in Int, NEW m \in Int
  PROVE  C * (k - m) = C * k - C * m
  OBVIOUS

\* Of two different numbers with the same remainder, the larger is at least C more.
LEMMA SameCell ==
  ASSUME NEW C \in Nat \ {0}, NEW s \in Nat, NEW t \in Nat, s < t, s % C = t % C
  PROVE  s + C <= t
  <1> DEFINE qs == s \div C
             qt == t \div C
  <1>1. /\ qs \in Nat
        /\ qt \in Nat
        /\ s % C \in 0..(C - 1)
        /\ s = C * qs + (s % C)
        /\ t = C * qt + (s % C)
    BY DivMod
  <1> HIDE DEF qs, qt
  <1>2. t - s = C * (qt - qs)
    BY <1>1, Distributes
  <1>3. qt - qs >= 1
    <2>1. SUFFICES ASSUME qt - qs <= 0 PROVE FALSE
      BY <1>1
    <2>2. C * (qs - qt) >= 0
      BY <1>1, <2>1
    <2>3. QED
      BY <2>2, <1>1, <1>2, Distributes
  <1>4. C * (qt - qs) >= C
    BY <1>1, <1>3, MultipleAtLeast
  <1> QED
    BY <1>1, <1>2, <1>4

--------------------------------------------------------------------------------
(* Type correctness.                                                       *)

\* The cell of a sequence number is a cell of the ring.
LEMMA CellOf ==
  ASSUME NEW s \in Nat
  PROVE  s % Capacity \in Cells
  BY DivMod, RingAssumption DEF Cells

\* Every step keeps the types.  The step that needs more than types is the one
\* that computes with the content of a slot, which an owned slot holds.
LEMMA TypeStep ==
  ASSUME TypeOK, SlotOwnership, CursorBehindWriter, [Next]_vars
  PROVE  TypeOK'
  <1>1. CASE Prepare
    BY <1>1 DEF Prepare, writerVars, readerVars, TypeOK
  <1>2. CASE Commit
    <2>1. writeSeq' \in Nat
      BY <1>2 DEF Commit, TypeOK
    <2>2. QED
      BY <1>2, <2>1 DEF Commit, TypeOK, readerVars
  <1>3. CASE DropWriter
    BY <1>3 DEF DropWriter, writerVars, readerVars, TypeOK
  <1>4. CASE CrashWriter
    BY <1>4 DEF CrashWriter, writerVars, readerVars, TypeOK
  <1>5. ASSUME NEW w \in Words, Fill(w) PROVE TypeOK'
    BY <1>5 DEF Fill, writerVars, readerVars, TypeOK, Message
  <1>6. ASSUME NEW r \in Readers, Open(r) PROVE TypeOK'
    BY <1>6 DEF Open, writerVars, readerVars, TypeOK
  <1>6a. ASSUME NEW r \in Readers, OpenFails(r) PROVE TypeOK'
    BY <1>6a DEF OpenFails, writerVars, readerVars, TypeOK
  <1>6b. ASSUME NEW r \in Readers, LoadWriteSeq(r) PROVE TypeOK'
    BY <1>6b, RingAssumption DEF LoadWriteSeq, writerVars, readerVars, TypeOK
  <1>7. ASSUME NEW r \in Readers, Claim(r) PROVE TypeOK'
    BY <1>7 DEF Claim, writerVars, readerVars, TypeOK
  <1>8. ASSUME NEW r \in Readers, Probe(r) PROVE TypeOK'
    BY <1>8, RingAssumption DEF Probe, writerVars, readerVars, TypeOK, Slots
  <1>9. ASSUME NEW r \in Readers, SlotsFull(r) PROVE TypeOK'
    BY <1>9 DEF SlotsFull, writerVars, readerVars, TypeOK
  <1>10. ASSUME NEW r \in Readers, NEW call \in Calls, Load(r, call) PROVE TypeOK'
    BY <1>10 DEF Load, writerVars, readerVars, TypeOK, Calls
  <1>11. ASSUME NEW r \in Readers, Take(r) PROVE TypeOK'
    <2>1. /\ slots[slot[r]] \in Nat
          /\ loaded[r] \in Nat
      BY <1>11 DEF Take, TypeOK, SlotOwnership, Holds, Connected
    <2>2. ReadFrom(r) \in Nat /\ ReadFrom(r) + 1 \in Nat
      BY <2>1, RingAssumption DEF ReadFrom, readSeq
    <2>3. [w \in Words |-> Zeroed] \in [Words -> Message]
      BY DEF Message
    <2>4. slots' \in [Slots -> Nat \cup {Free}]
      BY <1>11, <2>2 DEF Take, TypeOK
    <2>5. /\ at' \in [Readers -> Nat]
          /\ toCopy' \in [Readers -> SUBSET Words]
          /\ copy' \in [Readers -> [Words -> Message]]
      BY <1>11, <2>2, <2>3 DEF Take, TypeOK
    <2>6. QED
      BY <1>11, <2>4, <2>5 DEF Take, TypeOK, writerVars
  <1>12. ASSUME NEW r \in Readers, NoNews(r) PROVE TypeOK'
    BY <1>12 DEF NoNews, writerVars, readerVars, TypeOK
  <1>13. ASSUME NEW r \in Readers, Spin(r) PROVE TypeOK'
    BY <1>13 DEF Spin, writerVars, readerVars, TypeOK
  <1>14. ASSUME NEW r \in Readers, NEW w \in Words, Copy(r, w) PROVE TypeOK'
    <2>1. data[at[r] % Capacity][w] \in Message
      BY CellOf DEF TypeOK
    <2>2. copy' \in [Readers -> [Words -> Message]]
      BY <1>14, <2>1 DEF Copy, TypeOK
    <2>3. QED
      BY <1>14, <2>2 DEF Copy, TypeOK, writerVars
  <1>15. ASSUME NEW r \in Readers, Release(r) PROVE TypeOK'
    BY <1>15 DEF Release, writerVars, readerVars, TypeOK
  <1>16. ASSUME NEW r \in Readers, Disconnect(r) PROVE TypeOK'
    BY <1>16 DEF Disconnect, writerVars, readerVars, TypeOK
  <1>17. ASSUME NEW r \in Readers, CrashReader(r) PROVE TypeOK'
    BY <1>17 DEF CrashReader, writerVars, readerVars, TypeOK
  <1>18. CASE UNCHANGED vars
    BY <1>18 DEF vars, writerVars, readerVars, TypeOK
  <1> QED
    BY <1>1, <1>2, <1>3, <1>4, <1>5, <1>6, <1>6a, <1>6b, <1>7, <1>8, <1>9, <1>10, <1>11,
       <1>12, <1>13, <1>14, <1>15, <1>16, <1>17, <1>18 DEF Next, ReaderStep

--------------------------------------------------------------------------------
(* The slot table.                                                         *)

\* Every step keeps ownership exclusive and accounted for: a slot changes hands
\* only through Claim, which finds it free, and Disconnect, which frees it.
LEMMA OwnershipStep ==
  ASSUME TypeOK, SlotOwnership, CursorBehindWriter, TypeOK', [Next]_vars
  PROVE  SlotOwnership'
  <1>1. CASE Prepare
    BY <1>1
      DEF Prepare, writerVars, readerVars, SlotOwnership, Holds, Connected, Calls
  <1>2. CASE Commit
    BY <1>2
      DEF Commit, writerVars, readerVars, SlotOwnership, Holds, Connected, Calls
  <1>3. CASE DropWriter
    BY <1>3
      DEF DropWriter, writerVars, readerVars, SlotOwnership, Holds, Connected, Calls
  <1>4. CASE CrashWriter
    BY <1>4
      DEF CrashWriter, writerVars, readerVars, SlotOwnership, Holds, Connected, Calls
  <1>5. ASSUME NEW w \in Words, Fill(w) PROVE SlotOwnership'
    BY <1>5 DEF Fill, writerVars, readerVars, SlotOwnership, Holds, Connected, Calls
  <1>6. ASSUME NEW r \in Readers, Open(r) PROVE SlotOwnership'
    BY <1>6
      DEF Open, writerVars, readerVars, SlotOwnership, Holds, Connected, Calls, TypeOK
  <1>6a. ASSUME NEW r \in Readers, OpenFails(r) PROVE SlotOwnership'
    BY <1>6a
      DEF OpenFails, writerVars, readerVars, SlotOwnership, Holds, Connected, Calls, TypeOK
  <1>6b. ASSUME NEW r \in Readers, LoadWriteSeq(r) PROVE SlotOwnership'
    BY <1>6b
      DEF LoadWriteSeq, writerVars, readerVars, SlotOwnership, Holds, Connected, Calls, TypeOK
  <1>7. ASSUME NEW r \in Readers, Claim(r) PROVE SlotOwnership'
    <2>1. \A q \in Readers : Holds(q)' <=> Holds(q) \/ q = r
      BY <1>7 DEF Claim, Holds, Connected, Calls, TypeOK
    <2>2. \A q \in Readers : Holds(q) => slot[q] # slot[r]
      BY <1>7 DEF Claim, SlotOwnership
    <2>3. \A i \in Slots : slots'[i] # Free <=> slots[i] # Free \/ i = slot[r]
      BY <1>7 DEF Claim, TypeOK, Free
    <2>4. slot' = slot /\ slot[r] \in Slots /\ ~Holds(r)
      BY <1>7 DEF Claim, Holds, Connected, Calls
    <2>5. QED
      BY <2>1, <2>2, <2>3, <2>4 DEF SlotOwnership
  <1>8. ASSUME NEW r \in Readers, Probe(r) PROVE SlotOwnership'
    BY <1>8
      DEF Probe, writerVars, readerVars, SlotOwnership, Holds, Connected, Calls, TypeOK
  <1>9. ASSUME NEW r \in Readers, SlotsFull(r) PROVE SlotOwnership'
    BY <1>9
      DEF SlotsFull, writerVars, readerVars, SlotOwnership, Holds, Connected, Calls,
         TypeOK
  <1>10. ASSUME NEW r \in Readers, NEW call \in Calls, Load(r, call) PROVE SlotOwnership'
    BY <1>10
      DEF Load, writerVars, readerVars, SlotOwnership, Holds, Connected, Calls, TypeOK
  <1>11. ASSUME NEW r \in Readers, Take(r) PROVE SlotOwnership'
    <2>1. \A q \in Readers : Holds(q)' <=> Holds(q)
      BY <1>11 DEF Take, Holds, Connected, Calls, TypeOK
    <2>2. Holds(r) /\ slot' = slot
      BY <1>11 DEF Take, Holds, Connected
    <2>3. slots'[slot[r]] # Free
      <3>1. slots'[slot[r]] = ReadFrom(r) + 1
        BY <1>11, <2>2 DEF Take, TypeOK, SlotOwnership
      <3>2. at'[r] = ReadFrom(r) /\ at'[r] \in Nat
        BY <1>11 DEF Take, TypeOK
      <3>3. QED
        BY <3>1, <3>2 DEF Free
    <2>4. \A i \in Slots : slots'[i] # Free <=> slots[i] # Free
      BY <1>11, <2>2, <2>3 DEF Take, TypeOK, SlotOwnership
    <2>5. QED
      BY <2>1, <2>2, <2>4 DEF SlotOwnership
  <1>12. ASSUME NEW r \in Readers, NoNews(r) PROVE SlotOwnership'
    BY <1>12
      DEF NoNews, writerVars, readerVars, SlotOwnership, Holds, Connected, Calls, TypeOK
  <1>13. ASSUME NEW r \in Readers, Spin(r) PROVE SlotOwnership'
    BY <1>13 DEF Spin, writerVars, readerVars, SlotOwnership, Holds, Connected, Calls
  <1>14. ASSUME NEW r \in Readers, NEW w \in Words, Copy(r, w) PROVE SlotOwnership'
    BY <1>14 DEF Copy, writerVars, readerVars, SlotOwnership, Holds, Connected, Calls
  <1>15. ASSUME NEW r \in Readers, Release(r) PROVE SlotOwnership'
    BY <1>15
      DEF Release, writerVars, readerVars, SlotOwnership, Holds, Connected, Calls,
         TypeOK
  <1>16. ASSUME NEW r \in Readers, Disconnect(r) PROVE SlotOwnership'
    <2>1. \A q \in Readers : Holds(q)' <=> Holds(q) /\ q # r
      BY <1>16 DEF Disconnect, Holds, Connected, Calls, TypeOK
    <2>2. Holds(r) /\ slot' = slot
      BY <1>16 DEF Disconnect, Holds, Connected
    <2>3. \A i \in Slots : slots'[i] # Free <=> slots[i] # Free /\ i # slot[r]
      BY <1>16, <2>2 DEF Disconnect, TypeOK, SlotOwnership
    <2>4. QED
      BY <2>1, <2>2, <2>3 DEF SlotOwnership
  <1>17. ASSUME NEW r \in Readers, CrashReader(r) PROVE SlotOwnership'
    BY <1>17
      DEF CrashReader, writerVars, readerVars, SlotOwnership, Holds, Connected, Calls,
         TypeOK
  <1>18. CASE UNCHANGED vars
    BY <1>18 DEF vars, writerVars, readerVars, SlotOwnership, Holds, Connected, Calls
  <1> QED
    BY <1>1, <1>2, <1>3, <1>4, <1>5, <1>6, <1>6a, <1>6b, <1>7, <1>8, <1>9, <1>10, <1>11,
       <1>12, <1>13, <1>14, <1>15, <1>16, <1>17, <1>18 DEF Next, ReaderStep

--------------------------------------------------------------------------------
(* Cursors.                                                                *)

\* Every step keeps readers behind the writer: write_seq only grows, and a reader
\* moves to at most the value of write_seq it loaded.
LEMMA CursorStep ==
  ASSUME TypeOK, SlotOwnership, CursorBehindWriter, PreparedCell, TypeOK', [Next]_vars
  PROVE  CursorBehindWriter'
  <1>1. CASE Prepare
    BY <1>1
      DEF Prepare, writerVars, readerVars, CursorBehindWriter, readSeq, Holds,
         Connected, Calls
  <1>2. CASE Commit
    <2>1. writeSeq' = writeSeq + 1
      BY <1>2 DEF Commit, PreparedCell
    <2>2. \A r \in Readers : Holds(r) => readSeq(r) \in Nat
      BY DEF SlotOwnership, TypeOK, readSeq
    <2>3. QED
      BY <1>2, <2>1, <2>2 DEF Commit, readerVars, CursorBehindWriter, readSeq, Holds, Connected,
        TypeOK
  <1>3. CASE DropWriter
    BY <1>3
      DEF DropWriter, writerVars, readerVars, CursorBehindWriter, readSeq, Holds,
         Connected, Calls
  <1>4. CASE CrashWriter
    BY <1>4
      DEF CrashWriter, writerVars, readerVars, CursorBehindWriter, readSeq, Holds,
         Connected, Calls
  <1>5. ASSUME NEW w \in Words, Fill(w) PROVE CursorBehindWriter'
    BY <1>5
      DEF Fill, writerVars, readerVars, CursorBehindWriter, readSeq, Holds, Connected,
         Calls
  <1>6. ASSUME NEW r \in Readers, Open(r) PROVE CursorBehindWriter'
    BY <1>6
      DEF Open, writerVars, readerVars, CursorBehindWriter, readSeq, Holds, Connected,
         Calls, TypeOK
  <1>6a. ASSUME NEW r \in Readers, OpenFails(r) PROVE CursorBehindWriter'
    BY <1>6a
      DEF OpenFails, writerVars, readerVars, CursorBehindWriter, readSeq, Holds, Connected,
         Calls, TypeOK
  <1>6b. ASSUME NEW r \in Readers, LoadWriteSeq(r) PROVE CursorBehindWriter'
    BY <1>6b
      DEF LoadWriteSeq, writerVars, readerVars, CursorBehindWriter, readSeq, Holds, Connected,
         Calls, TypeOK
  <1>7. ASSUME NEW r \in Readers, Claim(r) PROVE CursorBehindWriter'
    <2>1. \A q \in Readers : q # r => Holds(q)' = Holds(q) /\ pc'[q] = pc[q]
      BY <1>7 DEF Claim, Holds, Connected, Calls, TypeOK
    <2>2. \A q \in Readers : q # r /\ Holds(q) => readSeq(q)' = readSeq(q)
      BY <1>7 DEF Claim, SlotOwnership, TypeOK, readSeq
    <2>3. pc'[r] = "idle" /\ readSeq(r)' = loaded[r] /\ loaded[r] <= writeSeq
      BY <1>7 DEF Claim, CursorBehindWriter, TypeOK, readSeq
    <2>4. UNCHANGED <<loaded, at, writeSeq>>
      BY <1>7 DEF Claim
    <2>5. QED
      BY <2>1, <2>2, <2>3, <2>4 DEF CursorBehindWriter, Holds, Connected, Calls
  <1>8. ASSUME NEW r \in Readers, Probe(r) PROVE CursorBehindWriter'
    BY <1>8
      DEF Probe, writerVars, readerVars, CursorBehindWriter, readSeq, Holds, Connected,
         Calls, TypeOK
  <1>9. ASSUME NEW r \in Readers, SlotsFull(r) PROVE CursorBehindWriter'
    BY <1>9
      DEF SlotsFull, writerVars, readerVars, CursorBehindWriter, readSeq, Holds,
         Connected, Calls, TypeOK
  <1>10. ASSUME NEW r \in Readers, NEW call \in Calls, Load(r, call) PROVE CursorBehindWriter'
    BY <1>10
      DEF Load, writerVars, readerVars, CursorBehindWriter, readSeq, Holds, Connected,
         Calls, TypeOK
  <1>11. ASSUME NEW r \in Readers, Take(r) PROVE CursorBehindWriter'
    <2>1. \A q \in Readers : q # r => Holds(q)' = Holds(q) /\ pc'[q] = pc[q] /\ at'[q] = at[q]
      BY <1>11 DEF Take, Holds, Connected, Calls, TypeOK
    <2>2. \A q \in Readers : q # r /\ Holds(q) => readSeq(q)' = readSeq(q)
      BY <1>11 DEF Take, SlotOwnership, Holds, Connected, TypeOK, readSeq
    <2>3. /\ pc'[r] = "holding"
          /\ readSeq(r)' = ReadFrom(r) + 1
          /\ at'[r] = ReadFrom(r)
      BY <1>11 DEF Take, SlotOwnership, Holds, Connected, TypeOK, readSeq
    <2>4. ReadFrom(r) < loaded[r] /\ loaded[r] <= writeSeq
      <3>1. Holds(r)
        BY <1>11 DEF Take, Holds, Connected
      <3>2. /\ readSeq(r) \in Nat
            /\ loaded[r] \in Nat
        BY <3>1 DEF SlotOwnership, TypeOK, readSeq
      <3>3. /\ readSeq(r) <= loaded[r]
            /\ loaded[r] <= writeSeq
        BY <1>11 DEF Take, CursorBehindWriter
      <3>4. readSeq(r) # loaded[r]
        BY <1>11, <3>2 DEF Take, HasNews
      <3>5. QED
        BY <3>2, <3>3, <3>4, RingAssumption DEF ReadFrom
    <2>5. UNCHANGED <<loaded, writeSeq>> /\ loaded[r] \in Nat /\ writeSeq \in Nat /\ at'[r] \in Nat
      BY <1>11 DEF Take, TypeOK
    <2>6. readSeq(r)' <= writeSeq' /\ at'[r] < writeSeq'
      BY <2>3, <2>4, <2>5
    <2>7. ASSUME NEW q \in Readers, q # r
          PROVE  /\ Holds(q)' => readSeq(q)' <= writeSeq'
                 /\ pc'[q] \in {"connecting"} \cup Calls => loaded'[q] <= writeSeq'
                 /\ pc'[q] \in Calls => readSeq(q)' <= loaded'[q]
                 /\ pc'[q] = "holding" => at'[q] < writeSeq'
      BY <2>1, <2>2, <2>5, <2>7 DEF CursorBehindWriter, Holds, Connected
    <2>8. QED
      BY <2>3, <2>6, <2>7 DEF CursorBehindWriter, Calls
  <1>12. ASSUME NEW r \in Readers, NoNews(r) PROVE CursorBehindWriter'
    BY <1>12
      DEF NoNews, writerVars, readerVars, CursorBehindWriter, readSeq, Holds, Connected,
         Calls, TypeOK
  <1>13. ASSUME NEW r \in Readers, Spin(r) PROVE CursorBehindWriter'
    BY <1>13
      DEF Spin, writerVars, readerVars, CursorBehindWriter, readSeq, Holds, Connected,
         Calls, TypeOK
  <1>14. ASSUME NEW r \in Readers, NEW w \in Words, Copy(r, w) PROVE CursorBehindWriter'
    BY <1>14
      DEF Copy, writerVars, readerVars, CursorBehindWriter, readSeq, Holds, Connected,
         Calls, TypeOK
  <1>15. ASSUME NEW r \in Readers, Release(r) PROVE CursorBehindWriter'
    BY <1>15
      DEF Release, writerVars, readerVars, CursorBehindWriter, readSeq, Holds,
         Connected, Calls, TypeOK
  <1>16. ASSUME NEW r \in Readers, Disconnect(r) PROVE CursorBehindWriter'
    <2>1. \A q \in Readers : q # r => Holds(q)' = Holds(q) /\ pc'[q] = pc[q]
      BY <1>16 DEF Disconnect, Holds, Connected, Calls, TypeOK
    <2>2. \A q \in Readers : q # r /\ Holds(q) => readSeq(q)' = readSeq(q)
      BY <1>16 DEF Disconnect, SlotOwnership, Holds, Connected, TypeOK, readSeq
    <2>3. pc'[r] = "off" /\ UNCHANGED <<loaded, at, writeSeq>>
      BY <1>16 DEF Disconnect, TypeOK
    <2>4. QED
      BY <2>1, <2>2, <2>3 DEF CursorBehindWriter, Holds, Connected, Calls
  <1>17. ASSUME NEW r \in Readers, CrashReader(r) PROVE CursorBehindWriter'
    BY <1>17
      DEF CrashReader, writerVars, readerVars, CursorBehindWriter, readSeq, Holds,
         Connected, Calls, TypeOK
  <1>18. CASE UNCHANGED vars
    BY <1>18
      DEF vars, writerVars, readerVars, CursorBehindWriter, readSeq, Holds, Connected,
         Calls
  <1> QED
    BY <1>1, <1>2, <1>3, <1>4, <1>5, <1>6, <1>6a, <1>6b, <1>7, <1>8, <1>9, <1>10, <1>11,
       <1>12, <1>13, <1>14, <1>15, <1>16, <1>17, <1>18 DEF Next, ReaderStep

--------------------------------------------------------------------------------
(* The cells.                                                              *)

\* Whatever a reader does, the message area and the writer are as before.
LEMMA ReadersDoNotWrite ==
  ASSUME NEW r \in Readers,
         \/ Open(r) \/ OpenFails(r) \/ LoadWriteSeq(r)
         \/ (\E call \in Calls : Load(r, call)) \/ ReaderStep(r)
         \/ Disconnect(r) \/ CrashReader(r)
  PROVE  UNCHANGED <<writeSeq, data, writerVars>>
  BY DEF Open, OpenFails, LoadWriteSeq, Load, ReaderStep, Claim, Probe, SlotsFull, Take, NoNews,
    Spin, Copy, Release, Disconnect, CrashReader

\* Every step keeps the cells: the only word that is overwritten belongs to the
\* cell of the prepared message, and the messages that shared that cell are at
\* least Capacity older.
LEMMA CellsStep ==
  ASSUME TypeOK, PreparedCell, CellsHold, TypeOK', [Next]_vars
  PROVE  PreparedCell' /\ CellsHold'
  <1> USE RingAssumption
  <1>1. CASE Prepare
    <2>1. PreparedCell'
      BY <1>1 DEF Prepare, PreparedCell
    <2>2. CellsHold'
      <3>1. \A s : Lapped(s) => Lapped(s)'
        BY <1>1 DEF Prepare, Lapped
      <3>2. QED
        BY <1>1, <3>1 DEF Prepare, CellsHold
    <2>3. QED
      BY <2>1, <2>2
  <1>2. ASSUME NEW w \in Words, Fill(w) PROVE PreparedCell' /\ CellsHold'
    <2> DEFINE cell == pendingSeq % Capacity
    <2>1. cell \in Cells /\ pendingSeq = writeSeq /\ writeSeq \in Nat
      BY <1>2, CellOf DEF Fill, PreparedCell, TypeOK
    <2>2. data'[cell][w] = pendingSeq
      BY <1>2, <2>1 DEF Fill, TypeOK
    <2>3. \A c \in Cells, v \in Words : c # cell \/ v # w => data'[c][v] = data[c][v]
      BY <1>2, <2>1 DEF Fill, TypeOK
    <2>4. UNCHANGED <<writeSeq, pendingSeq, hasPending>> /\ unfilled' = unfilled \ {w}
      BY <1>2 DEF Fill
    <2> HIDE DEF cell
    <2>5. PreparedCell'
      BY <2>1, <2>2, <2>3, <2>4 DEF PreparedCell, cell
    <2>6. ASSUME NEW s \in 0..(writeSeq - 1), NEW v \in Words
          PROVE  /\ data'[s % Capacity][v] >= s
                 /\ data'[s % Capacity][v] % Capacity = s % Capacity
                 /\ data'[s % Capacity][v] # s => Lapped(s)'
      <3>1. s \in Nat /\ s < writeSeq /\ s % Capacity \in Cells
        BY CellOf, <2>1
      <3>2. CASE s % Capacity = cell /\ v = w
        <4>1. data'[s % Capacity][v] = writeSeq
          BY <2>1, <2>2, <3>2
        <4>2. s + Capacity <= writeSeq
          BY <2>1, <3>1, <3>2, SameCell DEF cell
        <4>3. Lapped(s)'
          BY <1>2, <2>1, <2>4, <3>1, <4>2 DEF Lapped, Fill
        <4>4. QED
          BY <2>1, <3>1, <3>2, <4>1, <4>3 DEF cell
      <3>3. CASE ~(s % Capacity = cell /\ v = w)
        <4>1. data'[s % Capacity][v] = data[s % Capacity][v]
          BY <2>3, <3>1, <3>3
        <4>2. Lapped(s)' = Lapped(s)
          BY <2>4 DEF Lapped
        <4>3. QED
          BY <4>1, <4>2, <2>6 DEF CellsHold
      <3>4. QED
        BY <3>2, <3>3
    <2>7. QED
      BY <2>4, <2>5, <2>6 DEF CellsHold
  <1>3. CASE Commit
    <2>1. /\ writeSeq' = writeSeq + 1
          /\ data' = data
          /\ hasPending' = FALSE
          /\ writeSeq \in Nat
      BY <1>3 DEF Commit, PreparedCell, TypeOK
    <2>2. \A w \in Words : data[writeSeq % Capacity][w] = writeSeq
      BY <1>3 DEF Commit, PreparedCell
    <2>3. ASSUME NEW s \in 0..writeSeq, NEW w \in Words
          PROVE  /\ data[s % Capacity][w] >= s
                 /\ data[s % Capacity][w] % Capacity = s % Capacity
                 /\ data[s % Capacity][w] # s => Lapped(s)'
      <3>1. CASE s = writeSeq
        BY <2>1, <2>2, <3>1
      <3>2. CASE s \in 0..(writeSeq - 1)
        <4>1. Lapped(s) => Lapped(s)'
          BY <2>1, <3>2 DEF Lapped
        <4>2. QED
          BY <3>2, <4>1 DEF CellsHold
      <3>3. QED
        BY <2>1, <3>1, <3>2
    <2>4. QED
      BY <2>1, <2>3 DEF CellsHold, PreparedCell
  <1>4. CASE UNCHANGED <<writeSeq, data, pendingSeq, hasPending, unfilled>>
    BY <1>4 DEF PreparedCell, CellsHold, Lapped
  <1>5. QED
    BY <1>1, <1>2, <1>3, <1>4, ReadersDoNotWrite
      DEF Next, DropWriter, CrashWriter, vars, writerVars

--------------------------------------------------------------------------------
(* What readers copy.                                                      *)

\* A message that has been lapped stays lapped.
LEMMA LappedForever ==
  ASSUME TypeOK, PreparedCell, [Next]_vars, NEW s \in Nat, Lapped(s)
  PROVE  Lapped(s)'
  <1>1. CASE Commit
    BY <1>1, RingAssumption DEF Commit, PreparedCell, Lapped, TypeOK
  <1>2. CASE Prepare
    BY <1>2 DEF Prepare, Lapped
  <1>3. CASE UNCHANGED <<writeSeq, hasPending>>
    BY <1>3 DEF Lapped
  <1>4. QED
    BY <1>1, <1>2, <1>3, ReadersDoNotWrite
      DEF Next, Fill, DropWriter, CrashWriter, vars, writerVars

\* Every step keeps what readers hold: a word is copied from the cell of the
\* message, which by CellsHold has that message or a later one.
LEMMA CopyStep ==
  ASSUME TypeOK, CursorBehindWriter, PreparedCell, CellsHold, NeverStale, IntactUnlessLapped,
         TypeOK', [Next]_vars
  PROVE  NeverStale' /\ IntactUnlessLapped'
  <1> DEFINE Fine(r, w) == /\ copy[r][w] >= at[r]
                           /\ copy[r][w] % Capacity = at[r] % Capacity
                           /\ copy[r][w] # at[r] => Lapped(at[r])
  <1>1. ASSUME NEW r \in Readers, NEW w \in Words, pc'[r] = "holding", w \notin toCopy'[r]
        PROVE  Fine(r, w)'
    <2>1. CASE pc[r] = "holding" /\ w \notin toCopy[r] /\ UNCHANGED <<at[r], copy[r][w]>>
      <3>1. Fine(r, w) /\ at[r] \in Nat
        BY <2>1 DEF NeverStale, IntactUnlessLapped, TypeOK
      <3>2. Lapped(at[r]) => Lapped(at[r])'
        <4>1. SUFFICES ASSUME Lapped(at[r]) PROVE Lapped(at[r])'
          OBVIOUS
        <4>2. \A s \in Nat : Lapped(s) => Lapped(s)'
          BY LappedForever
        <4>3. QED
          BY <2>1, <3>1, <4>1, <4>2 DEF Lapped
      <3>3. QED
        BY <2>1, <3>1, <3>2
    <2>2. CASE Copy(r, w)
      <3>1. /\ at[r] \in 0..(writeSeq - 1)
            /\ UNCHANGED <<at, writeSeq, hasPending>>
        BY <2>2 DEF Copy, CursorBehindWriter, TypeOK, writerVars
      <3>2. copy'[r][w] = data[at[r] % Capacity][w]
        BY <2>2 DEF Copy, TypeOK
      <3>3. QED
        BY <3>1, <3>2 DEF CellsHold, Lapped
    <2>3. \/ pc[r] = "holding" /\ w \notin toCopy[r] /\ UNCHANGED <<at[r], copy[r][w]>>
          \/ Copy(r, w)
      <3>1. CASE \E q \in Readers : Take(q)
        BY <1>1, <3>1 DEF Take, TypeOK
      <3>2. CASE \E q \in Readers, v \in Words : Copy(q, v)
        <4>1. PICK q \in Readers, v \in Words : Copy(q, v)
          BY <3>2
        <4>2. CASE q = r /\ v = w
          BY <4>1, <4>2
        <4>3. CASE q = r /\ v # w
          BY <1>1, <4>1, <4>3 DEF Copy, TypeOK
        <4>4. CASE q # r
          BY <1>1, <4>1, <4>4 DEF Copy, TypeOK
        <4>5. QED
          BY <4>2, <4>3, <4>4
      <3>3. CASE \E q \in Readers : \/ Open(q) \/ OpenFails(q) \/ LoadWriteSeq(q)
                                    \/ (\E call \in Calls : Load(q, call)) \/ Claim(q) \/ Probe(q) \/ SlotsFull(q)
                                    \/ NoNews(q) \/ Spin(q) \/ Release(q)
                                    \/ Disconnect(q) \/ CrashReader(q)
        BY <1>1, <3>3 DEF Open, OpenFails, LoadWriteSeq, Load, Claim, Probe, SlotsFull, NoNews, Spin,
          Release, Disconnect, CrashReader, Calls, TypeOK
      <3>4. CASE UNCHANGED readerVars
        BY <1>1, <3>4 DEF readerVars
      <3>5. QED
        BY <3>1, <3>2, <3>3, <3>4
          DEF Next, ReaderStep, Prepare, Fill, Commit, DropWriter, CrashWriter, vars
    <2>4. QED
      BY <2>1, <2>2, <2>3
  <1>2. QED
    BY <1>1 DEF NeverStale, IntactUnlessLapped

--------------------------------------------------------------------------------
(* The theorems.                                                           *)

\* The conjunction of the above is an invariant of the ring.
THEOREM RingInvariant == Spec => []RingInv
  <1>1. Init => RingInv
    <2>1. Init => TypeOK
      <3>1. [w \in Words |-> Zeroed] \in [Words -> Message] /\ 0 \in 0..MaxReaders
        BY RingAssumption DEF Message
      <3>2. ASSUME Init PROVE slots \in [Slots -> Nat \cup {Free}]
        BY <3>2 DEF Init
      <3>3. ASSUME Init
            PROVE  /\ data \in [Cells -> [Words -> Message]]
                   /\ copy \in [Readers -> [Words -> Message]]
                   /\ slot \in [Readers -> 0..MaxReaders]
        BY <3>1, <3>3 DEF Init
      <3>4. ASSUME Init
            PROVE  /\ pc \in [Readers -> {"off", "opened", "connecting", "idle", "holding",
                                            "dead"} \cup Calls]
                   /\ loaded \in [Readers -> Nat]
                   /\ at \in [Readers -> Nat]
                   /\ toCopy \in [Readers -> SUBSET Words]
        BY <3>4 DEF Init
      <3>5. ASSUME Init
            PROVE  /\ writeSeq \in Nat
                   /\ writer \in {"up", "dropped", "crashed"}
                   /\ pendingSeq \in Nat
                   /\ hasPending \in BOOLEAN
                   /\ unfilled \in SUBSET Words
        BY <3>5 DEF Init
      <3>6. QED
        BY <3>2, <3>3, <3>4, <3>5 DEF TypeOK
    <2>2. Init => SlotOwnership /\ CursorBehindWriter
      BY DEF Init, SlotOwnership, CursorBehindWriter, Holds, Connected, Calls
    <2>3. Init => PreparedCell /\ CellsHold /\ NeverStale /\ IntactUnlessLapped
      BY DEF Init, PreparedCell, CellsHold, NeverStale, IntactUnlessLapped
    <2>4. QED
      BY <2>1, <2>2, <2>3 DEF RingInv
  <1>2. RingInv /\ [Next]_vars => RingInv'
    BY TypeStep, OwnershipStep, CursorStep, CellsStep, CopyStep DEF RingInv
  <1>3. QED
    BY <1>1, <1>2, PTL DEF Spec

\* The variables keep their types: the writer and the readers only ever store
\* sequence numbers and FREE_READER, inside the table and the data area.
THEOREM TypeCorrect == Spec => []TypeOK
  BY RingInvariant, PTL DEF RingInv

\* Whatever the interleaving of connect, Drop and crashes, no two readers share a
\* slot of the table and no slot is lost or freed behind its holder's back.
THEOREM SlotsAreExclusive == Spec => []SlotOwnership
  BY RingInvariant, PTL DEF RingInv

\* No reader ever gets ahead of write_seq.
THEOREM ReadersStayBehind == Spec => []CursorBehindWriter
  BY RingInvariant, PTL DEF RingInv

\* The last Capacity messages are in their cells, whole, the oldest of them only
\* until its cell is prepared again.
THEOREM RingRetains == Spec => []CellsHold
  BY RingInvariant, PTL DEF RingInv

\* The zero-copy references returned by try_read, read and read_timeout show the
\* message asked for or a later one, never an earlier one nor zeroed memory.
THEOREM ReferencesNeverStale == Spec => []NeverStale
  BY RingInvariant, PTL DEF RingInv

\* A reference shows exactly the message asked for unless the writer has lapped
\* it while, or before, the caller reads through it.
THEOREM ReferencesIntactUnlessLapped == Spec => []IntactUnlessLapped
  BY RingInvariant, PTL DEF RingInv

--------------------------------------------------------------------------------
(* The ring implements the broadcast channel.                              *)

\* A handle changes its place in the channel only itself: what others do to the table
\* of readers does not touch the slot it owns.
LEMMA OthersStay ==
  ASSUME RingInv, NEW r \in Readers,
         \/ Open(r) \/ OpenFails(r) \/ LoadWriteSeq(r) \/ (\E call \in Calls : Load(r, call))
         \/ ReaderStep(r) \/ Disconnect(r) \/ CrashReader(r),
         NEW q \in Readers, q # r
  PROVE  Position(q)' = Position(q) /\ AsOf(q)' = AsOf(q)
  <1>1. /\ pc'[q] = pc[q]
        /\ slot'[q] = slot[q]
        /\ loaded'[q] = loaded[q]
    BY DEF Open, OpenFails, LoadWriteSeq, Load, ReaderStep, Claim, Probe, SlotsFull, Take, NoNews,
      Spin, Copy, Release, Disconnect, CrashReader, RingInv, TypeOK
  <1>2. CASE slots' = slots
    BY <1>1, <1>2 DEF Position, AsOf, Connected, readSeq
  <1>3. CASE Claim(r)
    <2>1. Connected(q) => slots'[slot[q]] = slots[slot[q]]
      BY <1>3 DEF Claim, RingInv, SlotOwnership, Holds, TypeOK
    <2>2. QED
      BY <1>1, <2>1 DEF Position, AsOf, Connected, readSeq
  <1>4. CASE Take(r) \/ Disconnect(r)
    <2>1. Connected(q) => slots'[slot[q]] = slots[slot[q]]
      BY <1>4 DEF Take, Disconnect, RingInv, SlotOwnership, Holds, Connected, TypeOK
    <2>2. QED
      BY <1>1, <2>1 DEF Position, AsOf, Connected, readSeq
  <1>5. QED
    BY <1>2, <1>3, <1>4
      DEF Open, OpenFails, LoadWriteSeq, Load, ReaderStep, Probe, SlotsFull, NoNews, Spin, Copy,
        Release, CrashReader

\* Steps of the writer leave every handle where it is.
LEMMA WriterMovesNobody ==
  ASSUME UNCHANGED <<slots, readerVars>>
  PROVE  \A r \in Readers : Position(r)' = Position(r) /\ AsOf(r)' = AsOf(r)
  BY DEF readerVars, Position, AsOf, Connected, readSeq

\* A connected handle has a position, in its slot and not beyond what it loaded.
LEMMA ConnectedPosition ==
  ASSUME RingInv, NEW r \in Readers, Connected(r)
  PROVE  /\ Position(r) = readSeq(r)
         /\ readSeq(r) \in Nat
         /\ slot[r] \in Slots
         /\ loaded[r] \in Nat
         /\ pc[r] \in Calls => AsOf(r) = loaded[r] /\ readSeq(r) <= loaded[r]
         /\ pc[r] \notin Calls => AsOf(r) = Free
  <1>1. Position(r) = readSeq(r)
    BY DEF Position, Connected, Calls
  <1>2. readSeq(r) \in Nat /\ slot[r] \in Slots /\ loaded[r] \in Nat
    BY DEF RingInv, TypeOK, SlotOwnership, Holds, readSeq
  <1>3. QED
    BY <1>1, <1>2 DEF AsOf, RingInv, CursorBehindWriter

\* Every step of the ring is a step of the channel or leaves it as it was.
LEMMA StepSimulation ==
  ASSUME RingInv, [Next]_vars
  PROVE  [Channel!Next]_(Channel!vars)
  <1> DEFINE pos == [q \in Readers |-> Position(q)]
             asOf == [q \in Readers |-> AsOf(q)]
             opened == writer # "dropped"
  <1>1. CASE Commit
    <2>1. writeSeq' = writeSeq + 1 /\ opened /\ opened'
      BY <1>1 DEF Commit, RingInv, PreparedCell
    <2>2. pos' = pos /\ asOf' = asOf
      BY <1>1, WriterMovesNobody DEF Commit
    <2>3. QED
      BY <2>1, <2>2 DEF Channel!Next, Channel!Publish
  <1>2. CASE DropWriter
    <2>1. pos' = pos /\ asOf' = asOf
      BY <1>2, WriterMovesNobody DEF DropWriter
    <2>2. QED
      BY <1>2, <2>1 DEF DropWriter, Channel!Next, Channel!Close
  <1>3. CASE Prepare \/ (\E w \in Words : Fill(w)) \/ CrashWriter \/ UNCHANGED vars
    <2>1. pos' = pos /\ asOf' = asOf
      BY <1>3, WriterMovesNobody DEF Prepare, Fill, CrashWriter, vars
    <2>2. writeSeq' = writeSeq /\ opened' = opened
      BY <1>3 DEF Prepare, Fill, CrashWriter, vars, writerVars
    <2>3. QED
      BY <2>1, <2>2 DEF Channel!vars
  <1>4. ASSUME NEW r \in Readers, Open(r)
        PROVE  [Channel!Next]_(Channel!vars)
    <2>1. pos[r] = Free /\ Position(r)' = Unjoined /\ AsOf(r) = Free /\ AsOf(r)' = Free
      BY <1>4 DEF Open, Position, AsOf, Connected, Calls, RingInv, TypeOK
    <2>2. pos' = [pos EXCEPT ![r] = Unjoined] /\ asOf' = asOf
      BY <1>4, <2>1, OthersStay
    <2>3. QED
      BY <1>4, <2>1, <2>2 DEF Open, writerVars, Channel!Next, Channel!Find
  <1>5. ASSUME NEW r \in Readers, LoadWriteSeq(r)
        PROVE  [Channel!Next]_(Channel!vars)
    <2>1. pos[r] = Unjoined /\ Position(r)' = writeSeq /\ AsOf(r) = Free /\ AsOf(r)' = Free
      BY <1>5 DEF LoadWriteSeq, Position, AsOf, Connected, Calls, RingInv, TypeOK
    <2>2. pos' = [pos EXCEPT ![r] = writeSeq] /\ asOf' = asOf
      BY <1>5, <2>1, OthersStay
    <2>3. QED
      BY <1>5, <2>1, <2>2 DEF LoadWriteSeq, writerVars, Channel!Next, Channel!Join
  <1>6. ASSUME NEW r \in Readers, OpenFails(r) \/ SlotsFull(r) \/ Disconnect(r) \/ CrashReader(r)
        PROVE  [Channel!Next]_(Channel!vars)
    <2>1. pos[r] # Free
      <3>1. CASE Connected(r)
        BY <3>1, ConnectedPosition DEF Free
      <3>2. CASE OpenFails(r) \/ SlotsFull(r)
        BY <3>2 DEF OpenFails, SlotsFull, Position, Free, Unjoined, RingInv, TypeOK
      <3>3. QED
        BY <1>6, <3>1, <3>2 DEF Disconnect, CrashReader, Connected
    <2>2. Position(r)' = Free /\ AsOf(r)' = Free
      BY <1>6 DEF OpenFails, SlotsFull, Disconnect, CrashReader, Position, AsOf, Connected, Calls,
        RingInv, TypeOK
    <2>3. pos' = [pos EXCEPT ![r] = Free] /\ asOf' = [asOf EXCEPT ![r] = Free]
      BY <1>6, <2>2, OthersStay DEF ReaderStep
    <2>4. QED
      BY <1>6, <2>1, <2>3
        DEF OpenFails, SlotsFull, Disconnect, CrashReader, writerVars, Channel!Next, Channel!Leave
  <1>7. ASSUME NEW r \in Readers, (\E call \in Calls : Load(r, call)) \/ Spin(r)
        PROVE  [Channel!Next]_(Channel!vars)
    <2>1. Connected(r) /\ slots' = slots /\ UNCHANGED <<writeSeq, writerVars>>
      BY <1>7 DEF Load, Spin, Connected, Calls
    <2>2. pos[r] \notin {Free, Unjoined} /\ Position(r)' = Position(r)
      BY <1>7, <2>1, ConnectedPosition
        DEF Load, Spin, Position, Connected, Calls, readSeq, Free, Unjoined, RingInv, TypeOK
    <2>3. AsOf(r)' = writeSeq
      BY <1>7 DEF Load, Spin, AsOf, Calls, RingInv, TypeOK
    <2>4. pos' = pos /\ asOf' = [asOf EXCEPT ![r] = writeSeq]
      BY <1>7, <2>2, <2>3, OthersStay DEF ReaderStep
    <2>5. QED
      BY <2>1, <2>2, <2>4 DEF writerVars, Channel!Next, Channel!Look, Channel!Joined
  <1>8. ASSUME NEW r \in Readers, NoNews(r)
        PROVE  [Channel!Next]_(Channel!vars)
    <2>1. Connected(r) /\ pc[r] \in Calls /\ slots' = slots /\ UNCHANGED <<writeSeq, writerVars>>
      BY <1>8 DEF NoNews, Connected, Calls
    <2>2. AsOf(r) # Free /\ asOf[r] - pos[r] = 0
      BY <1>8, <2>1, ConnectedPosition DEF NoNews, HasNews, Free
    <2>3. Position(r)' = Position(r) /\ AsOf(r)' = Free
      BY <1>8, <2>1 DEF NoNews, Position, AsOf, Connected, Calls, readSeq, RingInv, TypeOK
    <2>4. pos' = pos /\ asOf' = [asOf EXCEPT ![r] = Free]
      BY <1>8, <2>3, OthersStay DEF ReaderStep
    <2>5. QED
      BY <2>1, <2>2, <2>4 DEF writerVars, Channel!Next, Channel!Nothing, Channel!Waiting
  <1>9. ASSUME NEW r \in Readers, Take(r)
        PROVE  [Channel!Next]_(Channel!vars)
    <2>1. Connected(r) /\ pc[r] \in Calls /\ UNCHANGED <<writeSeq, writerVars>>
      BY <1>9 DEF Take, Connected
    <2>2. AsOf(r) # Free /\ asOf[r] - pos[r] > 0
      BY <1>9, <2>1, ConnectedPosition DEF Take, HasNews, Free
    <2>3. ReadFrom(r) = IF asOf[r] - pos[r] > Capacity THEN asOf[r] - Capacity ELSE pos[r]
      BY <2>1, ConnectedPosition DEF ReadFrom
    <2>4. Position(r)' = ReadFrom(r) + 1 /\ AsOf(r)' = Free
      <3>1. pc'[r] = "holding" /\ slot' = slot /\ slots'[slot[r]] = ReadFrom(r) + 1
        BY <1>9, <2>1, ConnectedPosition DEF Take, RingInv, TypeOK
      <3>2. QED
        BY <3>1 DEF Position, AsOf, Connected, Calls, readSeq
    <2>5. pos' = [pos EXCEPT ![r] = ReadFrom(r) + 1] /\ asOf' = [asOf EXCEPT ![r] = Free]
      BY <1>9, <2>4, OthersStay DEF ReaderStep
    <2>6. QED
      BY <2>1, <2>2, <2>3, <2>5 DEF writerVars, Channel!Next, Channel!Receive, Channel!Waiting
  <1>10. ASSUME NEW r \in Readers, Claim(r) \/ Probe(r) \/ (\E w \in Words : Copy(r, w)) \/ Release(r)
         PROVE  [Channel!Next]_(Channel!vars)
    <2>1. Position(r)' = Position(r) /\ AsOf(r)' = AsOf(r)
      BY <1>10
        DEF Claim, Probe, Copy, Release, Position, AsOf, Connected, Calls, readSeq, RingInv, TypeOK
    <2>2. pos' = pos /\ asOf' = asOf
      BY <1>10, <2>1, OthersStay DEF ReaderStep
    <2>3. UNCHANGED <<writeSeq, writer>>
      BY <1>10 DEF Claim, Probe, Copy, Release, writerVars
    <2>4. QED
      BY <2>2, <2>3 DEF Channel!vars
  <1>11. QED
    BY <1>1, <1>2, <1>3, <1>4, <1>5, <1>6, <1>7, <1>8, <1>9, <1>10 DEF Next, ReaderStep

\* As to the numbers of the messages it refers readers to, the ring is a lossy
\* broadcast channel: they start from the write_seq that connect loaded and increase,
\* none is skipped but those that were not among the last Capacity when the call
\* looked, and a call that comes back with nothing had nothing to
\* hand out - for any number of readers and slots, with crashes on either side and a
\* writer that drops the queue while readers connect.
THEOREM RingImplementsBroadcast == Spec => ImplementsBroadcast
  <1>1. Init => Channel!Init
    BY DEF Init, Channel!Init, Position, AsOf, Connected, Calls
  <1>2. RingInv /\ [Next]_vars => [Channel!Next]_(Channel!vars)
    BY StepSimulation
  <1>3. QED
    BY <1>1, <1>2, RingInvariant, PTL DEF Spec, ImplementsBroadcast, Channel!Spec

================================================================================
