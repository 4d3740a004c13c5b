--------------------------- MODULE ShmLifecycleProofs --------------------------
(***************************************************************************)
(* Proofs about the life of a queue address, for any number of creators,   *)
(* readers, slots and objects.                                             *)
(***************************************************************************)
EXTENDS ShmLifecycle, TLAPS

--------------------------------------------------------------------------------
(* The invariant.                                                          *)

\* The types the arguments need.
Typed ==
  /\ made \in Nat
  /\ name \in 0..made
  /\ header \in [Objects -> SUBSET Words]
  /\ table \in [Objects -> [Slots -> {"zero", "free", "taken"}]]
  /\ wpc \in [Writers -> {"off", "cleaned", "sizing", "filling", "up"}]
  /\ wobj \in [Writers -> 0..made]
  /\ blank \in [Writers -> SUBSET Slots]
  /\ rpc \in [Readers -> {"off", "opened", "checking", "scanning", "connected", "failed"}]
  /\ robj \in [Readers -> 0..made]
  /\ at \in [Readers -> Nat]

\* An object in use is one that was made.
OwnedExist ==
  /\ made <= MaxObjects
  /\ \A w \in Writers : Owns(w) => wobj[w] # None
  /\ \A r \in Readers : rpc[r] # "off" => robj[r] # None

\* What a creator has yet to initialise is as ftruncate left it, and so is what has
\* no creator yet.
Untouched ==
  /\ \A o \in Objects, i \in Slots : o > made => table[o][i] = "zero"
  /\ \A w \in Writers, i \in Slots :
       \/ wpc[w] = "sizing"
       \/ wpc[w] = "filling" /\ i \in blank[w]
       => table[wobj[w]][i] = "zero"

\* How much of the header a reader has seen.
Seen ==
  \A r \in Readers :
    /\ rpc[r] = "checking" =>
         /\ at[r] \in 1..Len(Fields)
         /\ \A i \in 1..Len(Fields) : i < at[r] => Fields[i] \in header[robj[r]]
    /\ rpc[r] = "scanning" => at[r] >= 1 /\ Words \subseteq header[robj[r]]

ShmInv ==
  /\ Typed
  /\ OwnedExist
  /\ SingleProducer
  /\ Untouched
  /\ Seen
  /\ ConnectedSound

--------------------------------------------------------------------------------
(* Each part is kept.                                                      *)

\* The header has four words.
LEMMA FourFields ==
  /\ Len(Fields) = 4
  /\ Words = {Fields[1], Fields[2], Fields[3], Fields[4]}
  <1>1. Len(Fields) = 4
    BY DEF Fields
  <1>2. 1..4 = {1, 2, 3, 4}
    OBVIOUS
  <1> HIDE DEF Fields
  <1>3. QED
    BY <1>1, <1>2 DEF Words

\* Every step keeps the types.
LEMMA TypedStep ==
  ASSUME Typed, OwnedExist, [Next]_vars
  PROVE  Typed'
  <1>1. ASSUME NEW w \in Writers, Cleanup(w) PROVE Typed'
    BY <1>1 DEF Cleanup, Unlink, Typed, objectVars, readerVars, None
  <1>2. ASSUME NEW w \in Writers, Create(w) PROVE Typed'
    <2>1. CASE name = None
      <3>1. /\ made' \in {made, made + 1}
            /\ name' \in {name, made'}
            /\ wobj' \in [Writers -> 0..made']
        BY <1>2 DEF Create, Typed, None
      <3>2. robj \in [Readers -> 0..made']
        BY <3>1 DEF Typed
      <3>3. QED
        BY <1>2, <3>1, <3>2 DEF Create, Typed, readerVars, None
    <2>2. CASE name # None
      BY <1>2, <2>2 DEF Create, Typed, readerVars
    <2>3. QED
      BY <2>1, <2>2
  <1>3. ASSUME NEW w \in Writers, Size(w) PROVE Typed'
    <2>1. /\ name' \in 0..made
          /\ wpc' \in [Writers -> {"off", "cleaned", "sizing", "filling", "up"}]
          /\ blank' \in [Writers -> SUBSET Slots]
      BY <1>3 DEF Size, Unlink, Typed, None
    <2>2. QED
      BY <1>3, <2>1 DEF Size, Typed, readerVars
  <1>4. ASSUME NEW w \in Writers, Created(w) PROVE Typed'
    BY <1>4 DEF Created, Typed, objectVars, readerVars
  <1>5. ASSUME NEW w \in Writers, DropWriter(w) PROVE Typed'
    BY <1>5 DEF DropWriter, Unlink, Typed, None, objectVars, readerVars
  <1>6. ASSUME NEW w \in Writers, CrashWriter(w) PROVE Typed'
    BY <1>6 DEF CrashWriter, Typed, objectVars, readerVars
  <1>7. ASSUME NEW w \in Writers, NEW word \in Words, StoreWord(w, word) PROVE Typed'
    BY <1>7 DEF StoreWord, Typed, writerVars, readerVars
  <1>8. ASSUME NEW w \in Writers, NEW i \in Slots, StoreSlot(w, i) PROVE Typed'
    BY <1>8 DEF StoreSlot, Typed, readerVars
  <1>9. ASSUME NEW r \in Readers, Open(r) PROVE Typed'
    BY <1>9 DEF Open, Typed, objectVars, writerVars
  <1>10. ASSUME NEW r \in Readers, Map(r) PROVE Typed'
    BY <1>10 DEF Map, Fail, Typed, objectVars, writerVars
  <1>11. ASSUME NEW r \in Readers, Check(r) PROVE Typed'
    <2>1. at' \in [Readers -> Nat]
      <3>1. at' \in {at, [at EXCEPT ![r] = 1], [at EXCEPT ![r] = at[r] + 1]}
        BY <1>11, Zenon DEF Check, Fail
      <3>2. at \in [Readers -> Nat] /\ at[r] + 1 \in Nat /\ 1 \in Nat
        BY DEF Typed
      <3>3. QED
        BY <3>1, <3>2
    <2>2. rpc' \in [Readers -> {"off", "opened", "checking", "scanning", "connected", "failed"}]
      <3>1. rpc' \in {rpc, [rpc EXCEPT ![r] = "scanning"], [rpc EXCEPT ![r] = "failed"]}
        BY <1>11, Zenon DEF Check, Fail
      <3>2. QED
        BY <3>1 DEF Typed
    <2>3. QED
      BY <1>11, <2>1, <2>2 DEF Check, Typed, objectVars, writerVars
  <1>12. ASSUME NEW r \in Readers, Scan(r) PROVE Typed'
    <2>1. at' \in [Readers -> Nat]
      BY <1>12 DEF Scan, Fail, Typed
    <2>2. rpc' \in [Readers -> {"off", "opened", "checking", "scanning", "connected", "failed"}]
      BY <1>12 DEF Scan, Fail, Typed
    <2>3. table' \in [Objects -> [Slots -> {"zero", "free", "taken"}]]
      BY <1>12 DEF Scan, Fail, Typed
    <2>4. QED
      BY <1>12, <2>1, <2>2, <2>3 DEF Scan, Typed, writerVars
  <1>13. ASSUME NEW r \in Readers, Disconnect(r) PROVE Typed'
    BY <1>13 DEF Disconnect, Typed, writerVars
  <1>14. CASE UNCHANGED vars
    BY <1>14 DEF vars, Typed, objectVars, writerVars, readerVars
  <1>15. QED
    BY <1>1, <1>2, <1>3, <1>4, <1>5, <1>6, <1>7, <1>8, <1>9, <1>10, <1>11, <1>12, <1>13, <1>14
    DEF Next

\* The objects of owners and readers stay what they are.
LEMMA OwnedStep ==
  ASSUME Typed, OwnedExist, [Next]_vars
  PROVE  OwnedExist'
  <1> USE DEF OwnedExist
  <1>1. ASSUME NEW w \in Writers, Cleanup(w) PROVE OwnedExist'
    BY <1>1 DEF Cleanup, Typed, Owns, objectVars, readerVars
  <1>2. ASSUME NEW w \in Writers, Create(w) PROVE OwnedExist'
    <2>1. made' <= MaxObjects
      BY <1>2, ShmAssumption DEF Create, Typed
    <2>2. \A v \in Writers : Owns(v)' => wobj'[v] # None
      BY <1>2 DEF Create, Typed, Owns, None
    <2>3. QED
      BY <1>2, <2>1, <2>2 DEF Create, readerVars
  <1>3. ASSUME NEW w \in Writers, Size(w) PROVE OwnedExist'
    BY <1>3 DEF Size, Typed, Owns, readerVars
  <1>4. ASSUME NEW w \in Writers, Created(w) PROVE OwnedExist'
    BY <1>4 DEF Created, Typed, Owns, objectVars, readerVars
  <1>5. ASSUME NEW w \in Writers, DropWriter(w) PROVE OwnedExist'
    BY <1>5 DEF DropWriter, Typed, Owns, objectVars, readerVars
  <1>6. ASSUME NEW w \in Writers, CrashWriter(w) PROVE OwnedExist'
    BY <1>6 DEF CrashWriter, Typed, Owns, objectVars, readerVars
  <1>7. ASSUME NEW w \in Writers, NEW word \in Words, StoreWord(w, word) PROVE OwnedExist'
    BY <1>7 DEF StoreWord, Owns, writerVars, readerVars
  <1>8. ASSUME NEW w \in Writers, NEW i \in Slots, StoreSlot(w, i) PROVE OwnedExist'
    BY <1>8 DEF StoreSlot, Owns, readerVars
  <1>9. ASSUME NEW r \in Readers, Open(r) PROVE OwnedExist'
    BY <1>9 DEF Open, Typed, Owns, objectVars, writerVars
  <1>10. ASSUME NEW r \in Readers, Map(r) PROVE OwnedExist'
    BY <1>10 DEF Map, Fail, Typed, Owns, objectVars, writerVars
  <1>11. ASSUME NEW r \in Readers, Check(r) PROVE OwnedExist'
    <2>1. \A q \in Readers : rpc[q] = "off" => rpc'[q] = "off"
      BY <1>11 DEF Check, Fail, Typed
    <2>2. QED
      BY <1>11, <2>1 DEF Check, Owns, objectVars, writerVars
  <1>12. ASSUME NEW r \in Readers, Scan(r) PROVE OwnedExist'
    <2>1. \A q \in Readers : rpc[q] = "off" => rpc'[q] = "off"
      BY <1>12 DEF Scan, Fail, Typed
    <2>2. QED
      BY <1>12, <2>1 DEF Scan, Owns, writerVars
  <1>13. ASSUME NEW r \in Readers, Disconnect(r) PROVE OwnedExist'
    BY <1>13 DEF Disconnect, Typed, Owns, writerVars
  <1>14. CASE UNCHANGED vars
    BY <1>14 DEF vars, Owns, objectVars, writerVars, readerVars
  <1>15. QED
    BY <1>1, <1>2, <1>3, <1>4, <1>5, <1>6, <1>7, <1>8, <1>9, <1>10, <1>11, <1>12, <1>13, <1>14
    DEF Next

\* Only Create makes an owner, and of an object nobody had before.
LEMMA ProducerStep ==
  ASSUME Typed, OwnedExist, SingleProducer, [Next]_vars
  PROVE  SingleProducer'
  <1>1. ASSUME NEW w \in Writers, Create(w) PROVE SingleProducer'
    <2>1. CASE name # None
      BY <1>1, <2>1 DEF Create, Typed, SingleProducer, Owns
    <2>2. CASE name = None
      <3>1. /\ wpc' = [wpc EXCEPT ![w] = "sizing"]
            /\ wobj' = [wobj EXCEPT ![w] = made + 1]
        BY <1>1, <2>2 DEF Create
      <3>2. \A v \in Writers : wobj[v] # made + 1
        BY DEF Typed
      <3>3. QED
        BY <3>1, <3>2 DEF Typed, SingleProducer, Owns
    <2>3. QED
      BY <2>1, <2>2
  <1>2. ASSUME wobj' = wobj, \A w \in Writers : Owns(w)' => Owns(w) PROVE SingleProducer'
    BY <1>2 DEF SingleProducer
  <1>3. ASSUME NEW w \in Writers, Cleanup(w) PROVE SingleProducer'
    BY <1>2, <1>3 DEF Cleanup, Typed, Owns
  <1>4. ASSUME NEW w \in Writers, Size(w) PROVE SingleProducer'
    BY <1>2, <1>4 DEF Size, Typed, Owns
  <1>5. ASSUME NEW w \in Writers, Created(w) PROVE SingleProducer'
    BY <1>2, <1>5 DEF Created, Typed, Owns
  <1>6. ASSUME NEW w \in Writers, DropWriter(w) PROVE SingleProducer'
    BY <1>2, <1>6 DEF DropWriter, Typed, Owns
  <1>7. ASSUME NEW w \in Writers, CrashWriter(w) PROVE SingleProducer'
    BY <1>2, <1>7 DEF CrashWriter, Typed, Owns
  <1>8. CASE UNCHANGED <<wpc, wobj>>
    BY <1>8 DEF SingleProducer, Owns
  <1>9. ASSUME NEW w \in Writers, NEW word \in Words, StoreWord(w, word) PROVE SingleProducer'
    BY <1>8, <1>9 DEF StoreWord, writerVars
  <1>10. ASSUME NEW w \in Writers, NEW i \in Slots, StoreSlot(w, i) PROVE SingleProducer'
    BY <1>8, <1>10 DEF StoreSlot
  <1>11. ASSUME NEW r \in Readers, Open(r) \/ Map(r) \/ Check(r) \/ Scan(r) \/ Disconnect(r)
         PROVE  SingleProducer'
    BY <1>8, <1>11 DEF Open, Map, Check, Scan, Disconnect, writerVars
  <1>12. CASE UNCHANGED vars
    BY <1>8, <1>12 DEF vars, writerVars
  <1>13. QED
    BY <1>1, <1>3, <1>4, <1>5, <1>6, <1>7, <1>9, <1>10, <1>11, <1>12 DEF Next

\* Slots are written by their creator, or were not zero any more.
LEMMA UntouchedStep ==
  ASSUME Typed, OwnedExist, SingleProducer, Untouched, ConnectedSound, [Next]_vars
  PROVE  Untouched'
  <1>1. ASSUME table' = table, made' = made, wobj' = wobj,
               \A w \in Writers : wpc'[w] \in {"sizing", "filling"} =>
                 wpc'[w] = wpc[w] /\ blank'[w] = blank[w]
        PROVE  Untouched'
    BY <1>1 DEF Untouched
  <1>2. ASSUME NEW w \in Writers, Cleanup(w) PROVE Untouched'
    BY <1>1, <1>2 DEF Cleanup, Typed, objectVars
  <1>3. ASSUME NEW w \in Writers, Create(w) PROVE Untouched'
    <2>1. CASE name # None
      BY <1>1, <1>3, <2>1 DEF Create, Typed
    <2>2. CASE name = None
      <3>1. /\ made' = made + 1
            /\ wpc' = [wpc EXCEPT ![w] = "sizing"]
            /\ wobj' = [wobj EXCEPT ![w] = made + 1]
            /\ UNCHANGED <<table, blank>>
            /\ made + 1 \in Objects
        BY <1>3, <2>2, ShmAssumption DEF Create, Typed, Objects
      <3>2. \A o \in Objects, i \in Slots : o > made' => table'[o][i] = "zero"
        BY <3>1 DEF Untouched, Typed, Objects
      <3>3. \A i \in Slots : table[made + 1][i] = "zero"
        BY <3>1 DEF Untouched, Typed
      <3>4. QED
        BY <3>1, <3>2, <3>3 DEF Untouched, Typed
    <2>3. QED
      BY <2>1, <2>2
  <1>4. ASSUME NEW w \in Writers, Size(w) PROVE Untouched'
    <2>1. CASE wpc' = [wpc EXCEPT ![w] = "off"] /\ blank' = blank
      BY <1>1, <1>4, <2>1 DEF Size, Typed
    <2>2. CASE wpc' = [wpc EXCEPT ![w] = "filling"] /\ blank' = [blank EXCEPT ![w] = Slots]
      BY <1>4, <2>2 DEF Size, Typed, Untouched
    <2>3. QED
      BY <1>4, <2>1, <2>2 DEF Size
  <1>5. ASSUME NEW w \in Writers, Created(w) PROVE Untouched'
    BY <1>1, <1>5 DEF Created, Typed, objectVars
  <1>6. ASSUME NEW w \in Writers, DropWriter(w) PROVE Untouched'
    BY <1>1, <1>6 DEF DropWriter, Typed, objectVars
  <1>7. ASSUME NEW w \in Writers, CrashWriter(w) PROVE Untouched'
    BY <1>1, <1>7 DEF CrashWriter, Typed, objectVars
  <1>8. ASSUME NEW w \in Writers, NEW word \in Words, StoreWord(w, word) PROVE Untouched'
    BY <1>1, <1>8 DEF StoreWord, writerVars
  <1>9. ASSUME NEW w \in Writers, NEW i \in Slots, StoreSlot(w, i) PROVE Untouched'
    <2>1. /\ wpc[w] = "filling"
          /\ blank' = [blank EXCEPT ![w] = @ \ {i}]
          /\ table' = [table EXCEPT ![wobj[w]][i] = "free"]
          /\ UNCHANGED <<made, wpc, wobj>>
      BY <1>9 DEF StoreSlot
    <2>2. wobj[w] \in Objects /\ ~ (wobj[w] > made)
      BY <2>1, ShmAssumption DEF Typed, OwnedExist, Owns, Objects, None
    <2>3. \A o \in Objects, j \in Slots : o > made => table'[o][j] = "zero"
      BY <2>1, <2>2 DEF Untouched, Typed
    <2>4. ASSUME NEW v \in Writers, NEW j \in Slots,
                 wpc[v] = "sizing" \/ (wpc[v] = "filling" /\ j \in blank'[v])
          PROVE  table'[wobj[v]][j] = "zero"
      <3>1. wobj[v] \in Objects
        BY <2>4, ShmAssumption DEF Typed, OwnedExist, Owns, Objects, None
      <3>2. table[wobj[v]][j] = "zero"
        BY <2>1, <2>4 DEF Untouched, Typed
      <3>3. v = w => j # i
        BY <2>1, <2>4 DEF Typed
      <3>4. v # w => wobj[v] # wobj[w]
        BY <2>1, <2>4 DEF SingleProducer, Owns
      <3>5. QED
        BY <2>1, <2>2, <3>1, <3>2, <3>3, <3>4 DEF Typed
    <2>5. QED
      BY <2>1, <2>3, <2>4 DEF Untouched
  <1>10. ASSUME NEW r \in Readers, Open(r) \/ Map(r) \/ Check(r) PROVE Untouched'
    BY <1>1, <1>10 DEF Open, Map, Check, objectVars, writerVars
  <1>11. ASSUME NEW o \in Objects, NEW i \in Slots, NEW s, table[o][i] # "zero",
                table' = [table EXCEPT ![o][i] = s], UNCHANGED <<made, writerVars>>
         PROVE  Untouched'
    <2>1. \A p \in Objects, j \in Slots : table[p][j] = "zero" => table'[p][j] = "zero"
      BY <1>11 DEF Typed
    <2>2. \A w \in Writers : wpc[w] \in {"sizing", "filling"} => wobj[w] \in Objects
      BY ShmAssumption DEF Typed, OwnedExist, Owns, Objects, None
    <2>3. QED
      BY <1>11, <2>1, <2>2 DEF Untouched, writerVars
  <1>12. ASSUME NEW r \in Readers, Scan(r) PROVE Untouched'
    <2>1. robj[r] \in Objects
      BY <1>12, ShmAssumption DEF Scan, Typed, OwnedExist, Objects, None
    <2>2. CASE table' = table
      BY <1>1, <1>12, <2>2 DEF Scan, writerVars
    <2>3. CASE /\ at[r] \in Slots
               /\ table[robj[r]][at[r]] = "free"
               /\ table' = [table EXCEPT ![robj[r]][at[r]] = "taken"]
      BY <1>11, <1>12, <2>1, <2>3 DEF Scan
    <2>4. QED
      BY <1>12, <2>2, <2>3 DEF Scan
  <1>13. ASSUME NEW r \in Readers, Disconnect(r) PROVE Untouched'
    <2>1. robj[r] \in Objects
      BY <1>13, ShmAssumption DEF Disconnect, Typed, OwnedExist, Objects, None
    <2>2. at[r] \in Slots /\ table[robj[r]][at[r]] = "taken"
      BY <1>13 DEF Disconnect, ConnectedSound
    <2>3. QED
      BY <1>11, <1>13, <2>1, <2>2 DEF Disconnect
  <1>14. CASE UNCHANGED vars
    BY <1>1, <1>14 DEF vars, objectVars, writerVars
  <1>15. QED
    BY <1>2, <1>3, <1>4, <1>5, <1>6, <1>7, <1>8, <1>9, <1>10, <1>12, <1>13, <1>14 DEF Next

\* Headers only grow.
LEMMA HeadersGrow ==
  ASSUME Typed, [Next]_vars
  PROVE  \A o \in Objects : header[o] \subseteq header'[o]
  <1>1. ASSUME NEW w \in Writers, NEW word \in Words, StoreWord(w, word)
        PROVE  \A o \in Objects : header[o] \subseteq header'[o]
    BY <1>1 DEF StoreWord, Typed
  <1>2. CASE header' = header
    BY <1>2
  <1>3. QED
    BY <1>1, <1>2 DEF Next, vars, objectVars, Cleanup, Create, Size, Created, StoreSlot, DropWriter,
       CrashWriter, Open, Map, Check, Scan, Disconnect

\* A reader starts at the first word and goes on only from a word that is there.
LEMMA SeenStep ==
  ASSUME Typed, OwnedExist, Seen, [Next]_vars
  PROVE  Seen'
  <1>1. \A o \in Objects : header[o] \subseteq header'[o]
    BY HeadersGrow
  <1>2. ASSUME NEW r \in Readers,
               rpc[r] \in {"checking", "scanning"},
               rpc'[r] = rpc[r], robj'[r] = robj[r], at'[r] = at[r]
        PROVE  /\ rpc'[r] = "checking" =>
                    /\ at'[r] \in 1..Len(Fields)
                    /\ \A i \in 1..Len(Fields) : i < at'[r] => Fields[i] \in header'[robj'[r]]
               /\ rpc'[r] = "scanning" => at'[r] >= 1 /\ Words \subseteq header'[robj'[r]]
    <2>1. robj[r] \in Objects
      BY <1>2, ShmAssumption DEF Typed, OwnedExist, Objects, None
    <2>2. QED
      BY <1>1, <1>2, <2>1 DEF Seen
  <1>3. ASSUME \A r \in Readers : rpc'[r] \in {"checking", "scanning"} =>
                 rpc'[r] = rpc[r] /\ robj'[r] = robj[r] /\ at'[r] = at[r]
        PROVE  Seen'
    BY <1>2, <1>3 DEF Seen
  <1>4. CASE UNCHANGED readerVars
    BY <1>3, <1>4 DEF readerVars
  <1>5. ASSUME NEW r \in Readers, Open(r) PROVE Seen'
    BY <1>3, <1>5 DEF Open, Typed
  <1>6. ASSUME NEW r \in Readers, Map(r) PROVE Seen'
    <2>1. CASE robj[r] \notin sized
      BY <1>3, <1>6, <2>1 DEF Map, Fail, Typed
    <2>2. CASE robj[r] \in sized
      <3>1. /\ at' = [at EXCEPT ![r] = 1]
            /\ rpc' = [rpc EXCEPT ![r] = "checking"]
            /\ robj' = robj
        BY <1>6, <2>2 DEF Map
      <3>2. 1 \in 1..Len(Fields) /\ \A i \in 1..Len(Fields) : ~ (i < 1)
        BY FourFields
      <3>3. header' = header
        BY <1>6 DEF Map, objectVars
      <3>4. QED
        BY <3>1, <3>2, <3>3 DEF Seen, Typed
    <2>3. QED
      BY <2>1, <2>2
  <1>7. ASSUME NEW r \in Readers, Check(r) PROVE Seen'
    <2>1. header' = header /\ robj' = robj /\ rpc[r] = "checking"
      BY <1>7 DEF Check, objectVars
    <2>2. CASE Fields[at[r]] \notin header[robj[r]]
      BY <1>3, <1>7, <2>2 DEF Check, Fail, Typed
    <2>3. CASE Fields[at[r]] \in header[robj[r]] /\ at[r] < Len(Fields)
      <3>1. at' = [at EXCEPT ![r] = at[r] + 1] /\ rpc' = rpc
        BY <1>7, <2>3 DEF Check
      <3>2. at[r] + 1 \in 1..Len(Fields)
        BY <2>1, <2>3, FourFields DEF Seen, Typed
      <3>3. \A i \in 1..Len(Fields) : i < at[r] + 1 => Fields[i] \in header[robj[r]]
        BY <2>1, <2>3, FourFields DEF Seen
      <3>4. QED
        BY <2>1, <3>1, <3>2, <3>3 DEF Seen, Typed
    <2>4. CASE Fields[at[r]] \in header[robj[r]] /\ ~ (at[r] < Len(Fields))
      <3>1. at' = [at EXCEPT ![r] = 1] /\ rpc' = [rpc EXCEPT ![r] = "scanning"]
        BY <1>7, <2>4 DEF Check
      <3>2. at[r] = 4
        BY <2>1, <2>4, FourFields DEF Seen
      <3>3. Words \subseteq header[robj[r]]
        BY <2>1, <2>4, <3>2, FourFields DEF Seen
      <3>4. QED
        BY <2>1, <3>1, <3>3 DEF Seen, Typed
    <2>5. QED
      BY <2>2, <2>3, <2>4
  <1>8. ASSUME NEW r \in Readers, Scan(r) PROVE Seen'
    <2>1. header' = header /\ robj' = robj /\ rpc[r] = "scanning"
      BY <1>8 DEF Scan
    <2>2. CASE rpc' = rpc /\ at' = [at EXCEPT ![r] = at[r] + 1]
      BY <2>1, <2>2 DEF Seen, Typed
    <2>3. CASE at' = at /\ rpc' \in {[rpc EXCEPT ![r] = "failed"], [rpc EXCEPT ![r] = "connected"]}
      BY <1>3, <2>1, <2>3 DEF Typed
    <2>4. QED
      BY <1>8, <2>2, <2>3 DEF Scan, Fail
  <1>9. ASSUME NEW r \in Readers, Disconnect(r) PROVE Seen'
    BY <1>3, <1>9 DEF Disconnect, Typed
  <1>10. QED
    BY <1>4, <1>5, <1>6, <1>7, <1>8, <1>9 DEF Next, vars, Cleanup, Create, Size, Created,
       StoreWord, StoreSlot, DropWriter, CrashWriter

\* A slot handed out was free, its creator is done with it, and its header complete.
LEMMA ConnectedStep ==
  ASSUME Typed, OwnedExist, Untouched, Seen, ConnectedSound, [Next]_vars
  PROVE  ConnectedSound'
  <1>1. \A o \in Objects : header[o] = Words => header'[o] = Words
    <2>1. header' \in [Objects -> SUBSET Words]
      BY TypedStep DEF Typed
    <2>2. QED
      BY <2>1, HeadersGrow
  <1>2. \A r \in Readers : rpc[r] # "off" => robj[r] \in Objects
    BY ShmAssumption DEF Typed, OwnedExist, Objects, None
  <1>3. ASSUME \A r \in Readers : rpc'[r] = "connected" =>
                 /\ rpc[r] = "connected"
                 /\ robj'[r] = robj[r]
                 /\ at'[r] = at[r]
                 /\ table'[robj[r]][at[r]] = "taken"
        PROVE  ConnectedSound'
    BY <1>1, <1>2, <1>3 DEF ConnectedSound
  <1>4. CASE UNCHANGED <<table, readerVars>>
    BY <1>3, <1>4 DEF readerVars, ConnectedSound
  <1>5. ASSUME NEW w \in Writers, NEW i \in Slots, StoreSlot(w, i) PROVE ConnectedSound'
    <2>1. wobj[w] \in Objects
      BY <1>5, ShmAssumption DEF StoreSlot, Typed, OwnedExist, Owns, Objects, None
    <2>2. table[wobj[w]][i] = "zero"
      BY <1>5 DEF StoreSlot, Untouched
    <2>3. table' = [table EXCEPT ![wobj[w]][i] = "free"] /\ UNCHANGED readerVars
      BY <1>5 DEF StoreSlot
    <2>4. \A o \in Objects, j \in Slots : table[o][j] = "taken" => table'[o][j] = "taken"
      BY <2>1, <2>2, <2>3 DEF Typed
    <2>5. QED
      BY <1>2, <1>3, <2>3, <2>4 DEF readerVars, ConnectedSound
  <1>6. ASSUME NEW r \in Readers, Open(r) PROVE ConnectedSound'
    BY <1>3, <1>6 DEF Open, Typed, objectVars, ConnectedSound
  <1>7. ASSUME NEW r \in Readers, Map(r) PROVE ConnectedSound'
    BY <1>3, <1>7 DEF Map, Fail, Typed, objectVars, ConnectedSound
  <1>8. ASSUME NEW r \in Readers, Check(r) PROVE ConnectedSound'
    <2>1. /\ rpc[r] = "checking"
          /\ UNCHANGED <<table, robj>>
          /\ \A q \in Readers : q # r => rpc'[q] = rpc[q] /\ at'[q] = at[q]
          /\ rpc'[r] # "connected"
      BY <1>8 DEF Check, Fail, Typed, objectVars
    <2>2. QED
      BY <1>3, <2>1 DEF ConnectedSound
  <1>9. ASSUME NEW r \in Readers, Scan(r) PROVE ConnectedSound'
    <2>1. rpc[r] = "scanning" /\ UNCHANGED <<header, robj>>
      BY <1>9 DEF Scan
    <2>2. CASE /\ table' = table
               /\ rpc' \in {rpc, [rpc EXCEPT ![r] = "failed"]}
               /\ at' \in {at, [at EXCEPT ![r] = at[r] + 1]}
      <3>1. \A q \in Readers : q # r => rpc'[q] = rpc[q] /\ at'[q] = at[q]
        BY <2>2 DEF Typed
      <3>2. rpc'[r] # "connected"
        BY <2>1, <2>2 DEF Typed
      <3>3. QED
        BY <1>3, <2>1, <2>2, <3>1, <3>2 DEF ConnectedSound
    <2>3. CASE /\ at[r] \in Slots
               /\ table[robj[r]][at[r]] = "free"
               /\ table' = [table EXCEPT ![robj[r]][at[r]] = "taken"]
               /\ rpc' = [rpc EXCEPT ![r] = "connected"]
               /\ at' = at
      <3>1. robj[r] \in Objects
        BY <1>2, <2>1
      <3>2. header[robj[r]] = Words
        BY <2>1, <3>1 DEF Seen, Typed
      <3>3. \A o \in Objects, i \in Slots :
              table'[o][i] = IF o = robj[r] /\ i = at[r] THEN "taken" ELSE table[o][i]
        BY <2>3, <3>1 DEF Typed
      <3>4. \A q \in Readers : q # r => rpc'[q] = rpc[q]
        BY <2>3 DEF Typed
      <3>5. ASSUME NEW q \in Readers, rpc'[q] = "connected"
            PROVE  /\ header'[robj'[q]] = Words
                   /\ at'[q] \in Slots
                   /\ table'[robj'[q]][at'[q]] = "taken"
                   /\ q # r => ~ (robj[q] = robj[r] /\ at[q] = at[r])
        <4>1. CASE q = r
          BY <2>1, <2>3, <3>1, <3>2, <3>3, <4>1
        <4>2. CASE q # r
          <5>1. rpc[q] = "connected"
            BY <3>4, <3>5, <4>2
          <5>2. /\ header[robj[q]] = Words
                /\ at[q] \in Slots
                /\ table[robj[q]][at[q]] = "taken"
            BY <5>1 DEF ConnectedSound
          <5>3. robj[q] \in Objects
            BY <1>2, <5>1
          <5>4. QED
            BY <2>1, <2>3, <3>3, <5>2, <5>3
        <4>3. QED
          BY <4>1, <4>2
      <3>6. \A q, p \in Readers :
              rpc'[q] = "connected" /\ rpc'[p] = "connected" /\ robj'[q] = robj'[p] /\ at'[q] = at'[p]
              => q = p
        BY <2>1, <2>3, <3>4, <3>5 DEF ConnectedSound
      <3>7. QED
        BY <3>5, <3>6 DEF ConnectedSound
    <2>4. QED
      BY <1>9, <2>2, <2>3 DEF Scan, Fail
  <1>10. ASSUME NEW r \in Readers, Disconnect(r) PROVE ConnectedSound'
    <2>1. /\ rpc[r] = "connected"
          /\ table' = [table EXCEPT ![robj[r]][at[r]] = "free"]
          /\ rpc' = [rpc EXCEPT ![r] = "off"]
          /\ UNCHANGED <<robj, at>>
      BY <1>10 DEF Disconnect
    <2>2. ASSUME NEW q \in Readers, rpc'[q] = "connected"
          PROVE  rpc[q] = "connected" /\ table'[robj[q]][at[q]] = "taken"
      <3>1. q # r /\ rpc[q] = "connected"
        BY <2>1, <2>2 DEF Typed
      <3>2. ~ (robj[q] = robj[r] /\ at[q] = at[r])
        BY <2>1, <3>1 DEF ConnectedSound
      <3>3. table[robj[q]][at[q]] = "taken" /\ at[q] \in Slots /\ robj[q] \in Objects
        BY <1>2, <3>1 DEF ConnectedSound
      <3>4. QED
        BY <2>1, <3>1, <3>2, <3>3 DEF Typed
    <2>3. QED
      BY <1>3, <2>1, <2>2
  <1>11. CASE UNCHANGED vars
    BY <1>4, <1>11 DEF vars, objectVars
  <1>12. QED
    BY <1>4, <1>5, <1>6, <1>7, <1>8, <1>9, <1>10, <1>11
    DEF Next, objectVars, Cleanup, Create, Size, Created, StoreWord, DropWriter, CrashWriter

\* An object's name is given once, when it is made, and goes before the object does.
NameInv ==
  /\ gone \subseteq 1..made
  /\ NameNotGone

LEMMA NameStep ==
  ASSUME Typed, OwnedExist, NameInv, [Next]_vars
  PROVE  NameInv'
  <1>1. ASSUME NEW w \in Writers, Create(w) PROVE NameInv'
    <2>1. made' \in {made, made + 1} /\ gone' = gone
      BY <1>1 DEF Create
    <2>2. name' \in {name, made + 1}
      BY <1>1 DEF Create
    <2>3. QED
      BY <2>1, <2>2 DEF NameInv, NameNotGone, Typed
  <1>2. ASSUME name' \in {name, None}, made' = made, gone' = gone PROVE NameInv'
    BY <1>2 DEF NameInv, NameNotGone, Typed, None
  <1>3. ASSUME NEW w \in Writers, DropWriter(w) PROVE NameInv'
    <2>1. /\ name' = None
          /\ gone' = gone \cup {wobj[w]}
          /\ made' = made
      BY <1>3 DEF DropWriter, Unlink, objectVars
    <2>2. wobj[w] \in 1..made
      <3>1. wpc[w] = "up"
        BY <1>3 DEF DropWriter
      <3>2. wobj[w] # 0
        BY <3>1 DEF OwnedExist, Owns, None
      <3>3. QED
        BY <3>2 DEF Typed
    <2>3. gone' \subseteq 1..made'
      BY <2>1, <2>2 DEF NameInv
    <2>4. QED
      BY <2>1, <2>3 DEF NameInv, NameNotGone, None
  <1>4. ASSUME NEW w \in Writers, Cleanup(w) PROVE NameInv'
    BY <1>2, <1>4 DEF Cleanup, Unlink, objectVars
  <1>5. ASSUME NEW w \in Writers, Size(w) PROVE NameInv'
    BY <1>2, <1>5 DEF Size, Unlink
  <1>6. CASE UNCHANGED <<name, made, gone>>
    BY <1>2, <1>6
  <1>7. QED
    BY <1>1, <1>3, <1>4, <1>5, <1>6 DEF Next, vars, objectVars, Created, StoreWord, StoreSlot,
       CrashWriter, Open, Map, Check, Scan, Disconnect

\* What ftruncate has not given memory to is untouched, and out of use.
SizedInv ==
  /\ sized \subseteq Objects
  /\ \A o \in Objects \ sized : header[o] = {} /\ \A i \in Slots : table[o][i] = "zero"
  /\ \A r \in Readers : rpc[r] \in {"checking", "scanning", "connected"} => robj[r] \in sized
  /\ \A w \in Writers : wpc[w] = "filling" => wobj[w] \in sized

LEMMA SizedStep ==
  ASSUME Typed, OwnedExist, ConnectedSound, SizedInv, [Next]_vars
  PROVE  SizedInv'
  <1>1. ASSUME sized' = sized,
               \A o \in Objects \ sized : header'[o] = header[o] /\ table'[o] = table[o],
               \A r \in Readers : rpc'[r] \in {"checking", "scanning", "connected"} =>
                 robj'[r] \in sized,
               \A w \in Writers : wpc'[w] = "filling" => wpc[w] = "filling" /\ wobj'[w] = wobj[w]
        PROVE  SizedInv'
    BY <1>1 DEF SizedInv
  <1>2. ASSUME NEW w \in Writers, Cleanup(w) \/ Created(w) \/ DropWriter(w) \/ CrashWriter(w)
        PROVE  SizedInv'
    <2>1. UNCHANGED <<objectVars, wobj, readerVars>>
      BY <1>2 DEF Cleanup, Created, DropWriter, CrashWriter
    <2>2. wpc' \in {[wpc EXCEPT ![w] = c] : c \in {"cleaned", "up", "off"}}
      BY <1>2 DEF Cleanup, Created, DropWriter, CrashWriter
    <2>3. \A v \in Writers : wpc'[v] = "filling" => wpc[v] = "filling"
      BY <2>2 DEF Typed
    <2>4. QED
      BY <1>1, <2>1, <2>3 DEF SizedInv, objectVars, readerVars
  <1>3. ASSUME NEW w \in Writers, Create(w) PROVE SizedInv'
    <2>1. UNCHANGED <<sized, header, table, rpc, robj>>
      BY <1>3 DEF Create, readerVars
    <2>2. \A v \in Writers : wpc'[v] = "filling" => wpc[v] = "filling" /\ wobj'[v] = wobj[v]
      BY <1>3 DEF Create, Typed
    <2>3. QED
      BY <1>1, <2>1, <2>2 DEF SizedInv
  <1>4. ASSUME NEW w \in Writers, Size(w) PROVE SizedInv'
    <2>1. UNCHANGED <<header, table, wobj, rpc, robj>>
      BY <1>4 DEF Size, readerVars
    <2>2. wobj[w] \in Objects
      BY <1>4, ShmAssumption DEF Size, Typed, OwnedExist, Owns, Objects, None
    <2>3. CASE sized' = sized /\ wpc' = [wpc EXCEPT ![w] = "off"]
      BY <1>1, <2>1, <2>3 DEF SizedInv, Typed
    <2>4. CASE /\ sized' = sized \cup {wobj[w]}
               /\ wpc' \in {[wpc EXCEPT ![w] = "off"], [wpc EXCEPT ![w] = "filling"]}
      <3>1. \A v \in Writers : wpc'[v] = "filling" => v = w \/ wpc[v] = "filling"
        BY <2>4 DEF Typed
      <3>2. QED
        BY <2>1, <2>2, <2>4, <3>1 DEF SizedInv
    <2>5. QED
      BY <1>4, <2>3, <2>4 DEF Size
  <1>5. ASSUME NEW w \in Writers, NEW word \in Words, StoreWord(w, word) PROVE SizedInv'
    <2>1. /\ wobj[w] \in sized
          /\ header' = [header EXCEPT ![wobj[w]] = @ \cup {word}]
          /\ UNCHANGED <<sized, table, wpc, wobj, rpc, robj>>
      BY <1>5 DEF StoreWord, SizedInv, writerVars, readerVars
    <2>2. \A o \in Objects \ sized : header'[o] = header[o]
      BY <2>1 DEF Typed
    <2>3. QED
      BY <1>1, <2>1, <2>2 DEF SizedInv
  <1>6. ASSUME NEW o \in sized, NEW i \in Slots, NEW s,
               table' = [table EXCEPT ![o][i] = s], UNCHANGED <<sized, header, wpc, wobj, robj>>,
               \A r \in Readers : rpc'[r] \in {"checking", "scanning", "connected"} =>
                 rpc[r] \in {"checking", "scanning", "connected"}
        PROVE  SizedInv'
    <2>1. \A p \in Objects \ sized : table'[p] = table[p]
      BY <1>6 DEF Typed
    <2>2. QED
      BY <1>1, <1>6, <2>1 DEF SizedInv
  <1>7. ASSUME NEW w \in Writers, NEW i \in Slots, StoreSlot(w, i) PROVE SizedInv'
    BY <1>6, <1>7 DEF StoreSlot, SizedInv, readerVars
  <1>8. ASSUME NEW r \in Readers, Open(r) PROVE SizedInv'
    <2>1. /\ rpc' = [rpc EXCEPT ![r] = "opened"]
          /\ robj' = [robj EXCEPT ![r] = name]
          /\ UNCHANGED <<sized, header, table, wpc, wobj>>
      BY <1>8 DEF Open, objectVars, writerVars
    <2>2. \A q \in Readers : rpc'[q] \in {"checking", "scanning", "connected"} =>
            robj'[q] \in sized
      BY <2>1 DEF SizedInv, Typed
    <2>3. QED
      BY <1>1, <2>1, <2>2
  <1>9. ASSUME NEW r \in Readers, Map(r) PROVE SizedInv'
    <2>1. UNCHANGED <<sized, header, table, wpc, wobj, robj>>
      BY <1>9 DEF Map, objectVars, writerVars
    <2>2. \A q \in Readers : rpc'[q] \in {"checking", "scanning", "connected"} =>
            robj'[q] \in sized
      BY <1>9 DEF Map, Fail, SizedInv, Typed
    <2>3. QED
      BY <1>1, <2>1, <2>2
  <1>10. ASSUME NEW r \in Readers, Check(r) PROVE SizedInv'
    <2>1. rpc[r] = "checking" /\ UNCHANGED <<sized, header, table, wpc, wobj, robj>>
      BY <1>10 DEF Check, objectVars, writerVars
    <2>2. rpc' \in {rpc, [rpc EXCEPT ![r] = "scanning"], [rpc EXCEPT ![r] = "failed"]}
      BY <1>10, Zenon DEF Check, Fail
    <2>3. \A q \in Readers : rpc'[q] \in {"checking", "scanning", "connected"} =>
            robj'[q] \in sized
      BY <2>1, <2>2 DEF SizedInv, Typed
    <2>4. QED
      BY <1>1, <2>1, <2>3
  <1>11. ASSUME NEW r \in Readers, Scan(r) PROVE SizedInv'
    <2>1. /\ rpc[r] = "scanning" /\ robj[r] \in sized
          /\ UNCHANGED <<sized, header, wpc, wobj, robj>>
      BY <1>11 DEF Scan, SizedInv, writerVars
    <2>2. rpc' \in {rpc, [rpc EXCEPT ![r] = "connected"], [rpc EXCEPT ![r] = "failed"]}
      BY <1>11 DEF Scan, Fail
    <2>3. \A q \in Readers : rpc'[q] \in {"checking", "scanning", "connected"} =>
            rpc[q] \in {"checking", "scanning", "connected"}
      BY <2>1, <2>2 DEF Typed
    <2>4. CASE table' = table
      BY <1>1, <2>1, <2>3, <2>4 DEF SizedInv
    <2>5. CASE at[r] \in Slots /\ table' = [table EXCEPT ![robj[r]][at[r]] = "taken"]
      BY <1>6, <2>1, <2>3, <2>5
    <2>6. QED
      BY <1>11, <2>4, <2>5 DEF Scan
  <1>12. ASSUME NEW r \in Readers, Disconnect(r) PROVE SizedInv'
    <2>1. /\ rpc[r] = "connected" /\ robj[r] \in sized /\ at[r] \in Slots
          /\ table' = [table EXCEPT ![robj[r]][at[r]] = "free"]
          /\ rpc' = [rpc EXCEPT ![r] = "off"]
          /\ UNCHANGED <<sized, header, wpc, wobj, robj>>
      BY <1>12 DEF Disconnect, ConnectedSound, SizedInv, writerVars
    <2>2. \A q \in Readers : rpc'[q] \in {"checking", "scanning", "connected"} =>
            rpc[q] \in {"checking", "scanning", "connected"}
      BY <2>1 DEF Typed
    <2>3. QED
      BY <1>6, <2>1, <2>2
  <1>13. CASE UNCHANGED vars
    BY <1>1, <1>13 DEF SizedInv, vars, objectVars, writerVars, readerVars
  <1>14. QED
    BY <1>2, <1>3, <1>4, <1>5, <1>7, <1>8, <1>9, <1>10, <1>11, <1>12, <1>13 DEF Next

--------------------------------------------------------------------------------
(* Theorems.                                                               *)

LEMMA ShmInit ==
  ASSUME Init
  PROVE  ShmInv /\ NameInv /\ SizedInv
  <1>1. Typed
    BY ShmAssumption DEF Init, Typed, None
  <1>2. OwnedExist
    BY ShmAssumption DEF Init, OwnedExist, Owns, None
  <1>3. SingleProducer /\ Seen /\ ConnectedSound
    BY DEF Init, SingleProducer, Owns, Seen, ConnectedSound
  <1>4. Untouched
    BY DEF Init, Untouched
  <1>5. NameInv
    BY DEF Init, NameInv, NameNotGone
  <1>6. SizedInv
    BY DEF Init, SizedInv
  <1>7. QED
    BY <1>1, <1>2, <1>3, <1>4, <1>5, <1>6 DEF ShmInv

\* The invariant: what holds of every object, its creator and its readers while an
\* address is created, cleaned up, dropped and connected to in any interleaving.
THEOREM ShmInvariant == Spec => [](ShmInv /\ NameInv /\ SizedInv)
  <1>1. Init => ShmInv /\ NameInv /\ SizedInv
    BY ShmInit
  <1>2. ShmInv /\ NameInv /\ SizedInv /\ [Next]_vars => (ShmInv /\ NameInv /\ SizedInv)'
    BY TypedStep, OwnedStep, ProducerStep, UntouchedStep, SeenStep, ConnectedStep, NameStep,
       SizedStep DEF ShmInv
  <1>3. QED
    BY <1>1, <1>2, PTL DEF Spec

\* The type invariant: nothing is written to, or looked at, where ftruncate has put no
\* memory yet.
THEOREM ShmTypeCorrect == Spec => []TypeOK
  <1>1. ShmInv /\ NameInv /\ SizedInv => TypeOK
    <2>1. Typed /\ OwnedExist /\ NameInv /\ SizedInv => TypeOK
      BY ShmAssumption DEF Typed, OwnedExist, NameInv, SizedInv, TypeOK, Objects
    <2>2. QED
      BY <2>1 DEF ShmInv
  <1>2. QED
    BY <1>1, ShmInvariant, PTL

\* create: no two processes ever initialise or write the same ring object, whatever
\* clean-ups, failures and crashes come between them.
THEOREM RingsHaveOneProducer == Spec => []SingleProducer
  <1>1. ShmInv => SingleProducer
    BY DEF ShmInv
  <1>2. QED
    BY <1>1, ShmInvariant, PTL

\* connect: a reader that got through has a complete header and a slot of its own,
\* although the stores of create reach it in any order.
THEOREM ConnectionsAreSound == Spec => []ConnectedSound
  <1>1. ShmInv => ConnectedSound
    BY DEF ShmInv
  <1>2. QED
    BY <1>1, ShmInvariant, PTL

\* Drop for Writer: an address never leads to a ring whose Writer was dropped.
THEOREM DroppedRingsHaveNoName == Spec => []NameNotGone
  <1>1. NameInv => NameNotGone
    BY DEF NameInv
  <1>2. QED
    BY <1>1, ShmInvariant, PTL

================================================================================
