----------------------------- MODULE ShmLifecycle -----------------------------
(***************************************************************************)
(* One queue address from creation to removal: Writer::create, Drop for    *)
(* Writer, cleanup and Reader::connect of crates/nnxt-rapid/src/ring.rs,   *)
(* as ActorContext::write_to and read_from call them.  An address names    *)
(* at most one shared-memory object at a time, but a process that mapped   *)
(* an object keeps it when the name goes elsewhere.                        *)
(*                                                                         *)
(* A step is one system call, or one access to the mapped memory.  create  *)
(* initialises the object with plain stores after everybody can open it;   *)
(* nothing orders them for a process that looks meanwhile, so they happen  *)
(* in any order.  Whether the object is a POSIX one or, where shm_open     *)
(* rejects the name, a file makes no difference here.                      *)
(***************************************************************************)
EXTENDS Integers, Sequences

CONSTANTS
  Writers,     \* processes that create the queue, one after another or at once
  Readers,     \* processes that connect to it
  MaxReaders,  \* header.max_readers
  MaxObjects   \* bound: how many objects are ever created

ASSUME ShmAssumption ==
  /\ MaxReaders \in Nat
  /\ MaxObjects \in Nat

None    == 0                     \* no object
Objects == 1..MaxObjects
Slots   == 1..MaxReaders

\* The words of the header in the order in which connect looks at them: magic and
\* version, element_size, capacity, max_readers (write_seq starts as the 0 it is).
Fields == <<"magic", "element_size", "capacity", "max_readers">>
Words  == {Fields[i] : i \in 1..Len(Fields)}

VARIABLES
  name,    \* the object the address names, or None
  made,    \* how many objects have been created
  sized,   \* the objects that have been given their size
  header,  \* object -> the words of its header that are written
  table,   \* object -> slot -> zero (as truncated), free or taken
  gone,    \* history: the objects whose Writer was dropped
  wpc,     \* writer: off, cleaned, sizing, filling or up
  wobj,    \* writer -> its object
  blank,   \* writer -> the slots it has yet to initialise
  rpc,     \* reader: off, opened, checking, scanning, connected or failed
  robj,    \* reader -> the object it opened
  at       \* reader -> the next header word or slot it looks at; then its slot

objectVars == <<made, sized, header, table>>
writerVars == <<wpc, wobj, blank>>
readerVars == <<rpc, robj, at>>
vars == <<name, gone, objectVars, writerVars, readerVars>>

Init ==
  /\ name = None
  /\ made = 0
  /\ sized = {}
  /\ header = [o \in Objects |-> {}]
  /\ table = [o \in Objects |-> [i \in Slots |-> "zero"]]
  /\ gone = {}
  /\ wpc = [w \in Writers |-> "off"]
  /\ wobj = [w \in Writers |-> None]
  /\ blank = [w \in Writers |-> {}]
  /\ rpc = [r \in Readers |-> "off"]
  /\ robj = [r \in Readers |-> None]
  /\ at = [r \in Readers |-> 1]

--------------------------------------------------------------------------------
(* Creating and removing.                                                  *)

\* unlink: the name goes, whichever object it leads to by now.
Unlink == name' = None

\* write_to cleans up first: the name goes, whoever uses it.
Cleanup(w) ==
  /\ wpc[w] = "off"
  /\ Unlink
  /\ wpc' = [wpc EXCEPT ![w] = "cleaned"]
  /\ UNCHANGED <<gone, objectVars, wobj, blank, readerVars>>

\* Fault: an object that exists is opened instead (no O_EXCL).
CreateShared(w) ==
  /\ wpc[w] \in {"off", "cleaned"}
  /\ IF name # None
     THEN /\ wpc' = [wpc EXCEPT ![w] = "sizing"]
          /\ wobj' = [wobj EXCEPT ![w] = name]
          /\ UNCHANGED <<name, made>>
     ELSE /\ made < MaxObjects
          /\ made' = made + 1
          /\ name' = made + 1
          /\ wobj' = [wobj EXCEPT ![w] = made + 1]
          /\ wpc' = [wpc EXCEPT ![w] = "sizing"]
  /\ UNCHANGED <<gone, sized, header, table, blank, readerVars>>

\* open_create_shm, exclusively; without write_to there was no cleanup before.
Create(w) ==
  /\ wpc[w] \in {"off", "cleaned"}
  /\ \/ /\ name # None                                   \* AddressInUse
        /\ wpc' = [wpc EXCEPT ![w] = "off"]
        /\ UNCHANGED <<name, made, wobj>>
     \/ /\ name = None
        /\ made < MaxObjects
        /\ made' = made + 1
        /\ name' = made + 1
        /\ wobj' = [wobj EXCEPT ![w] = made + 1]
        /\ wpc' = [wpc EXCEPT ![w] = "sizing"]
  /\ UNCHANGED <<gone, sized, header, table, blank, readerVars>>

\* Fault: the result of ftruncate is not looked at.
SizeUnchecked(w) ==
  /\ wpc[w] = "sizing"
  /\ \E grown \in {{}, {wobj[w]}} : sized' = sized \cup grown
  /\ wpc' = [wpc EXCEPT ![w] = "filling"]
  /\ blank' = [blank EXCEPT ![w] = Slots]
  /\ UNCHANGED <<name, gone, made, header, table, wobj, readerVars>>

\* ftruncate and mmap.  The object is left behind under its name when the first
\* fails; when the second does, the name goes, whoever it belongs to by then.
Size(w) ==
  /\ wpc[w] = "sizing"
  /\ \/ /\ wpc' = [wpc EXCEPT ![w] = "off"]              \* TruncateFailed
        /\ UNCHANGED <<name, sized, blank>>
     \/ /\ sized' = sized \cup {wobj[w]}                 \* MmapFailed
        /\ Unlink
        /\ wpc' = [wpc EXCEPT ![w] = "off"]
        /\ UNCHANGED blank
     \/ /\ sized' = sized \cup {wobj[w]}
        /\ wpc' = [wpc EXCEPT ![w] = "filling"]
        /\ blank' = [blank EXCEPT ![w] = Slots]
        /\ UNCHANGED name
  /\ UNCHANGED <<gone, made, header, table, wobj, readerVars>>

\* One store of create: a word of the header ...
StoreWord(w, word) ==
  /\ wpc[w] = "filling"
  /\ word \notin header[wobj[w]]
  /\ header' = [header EXCEPT ![wobj[w]] = @ \cup {word}]
  /\ UNCHANGED <<name, gone, made, sized, table, writerVars, readerVars>>

\* ... or FREE_READER into a slot.
StoreSlot(w, i) ==
  /\ wpc[w] = "filling"
  /\ i \in blank[w]
  /\ blank' = [blank EXCEPT ![w] = @ \ {i}]
  /\ table' = [table EXCEPT ![wobj[w]][i] = "free"]
  /\ UNCHANGED <<name, gone, made, sized, header, wpc, wobj, readerVars>>

\* create returns the Writer.
Created(w) ==
  /\ wpc[w] = "filling"
  /\ header[wobj[w]] = Words
  /\ blank[w] = {}
  /\ wpc' = [wpc EXCEPT ![w] = "up"]
  /\ UNCHANGED <<name, gone, objectVars, wobj, blank, readerVars>>

\* Fault: a POSIX unlink is tried although the object is a file, and fails.
DropKeepsName(w) ==
  /\ wpc[w] = "up"
  /\ gone' = gone \cup {wobj[w]}
  /\ wpc' = [wpc EXCEPT ![w] = "off"]
  /\ UNCHANGED <<name, objectVars, wobj, blank, readerVars>>

\* Drop for Writer unlinks the name, whichever object it names by then.
DropWriter(w) ==
  /\ wpc[w] = "up"
  /\ Unlink
  /\ gone' = gone \cup {wobj[w]}
  /\ wpc' = [wpc EXCEPT ![w] = "off"]
  /\ UNCHANGED <<objectVars, wobj, blank, readerVars>>

\* The process dies, at any point, and another one takes its place.
CrashWriter(w) ==
  /\ wpc[w] # "off"
  /\ wpc' = [wpc EXCEPT ![w] = "off"]
  /\ UNCHANGED <<name, gone, objectVars, wobj, blank, readerVars>>

--------------------------------------------------------------------------------
(* Connecting.                                                             *)

Fail(r) == rpc' = [rpc EXCEPT ![r] = "failed"]

\* open_existing_shm.  While there is no such name (NotFound) the caller tries
\* again; every other error below is final.
Open(r) ==
  /\ rpc[r] = "off"
  /\ name # None
  /\ robj' = [robj EXCEPT ![r] = name]
  /\ rpc' = [rpc EXCEPT ![r] = "opened"]
  /\ UNCHANGED <<name, gone, objectVars, writerVars, at>>

\* fstat and mmap: an object without a size cannot be mapped.
Map(r) ==
  /\ rpc[r] = "opened"
  /\ at' = [at EXCEPT ![r] = 1]
  /\ IF robj[r] \in sized THEN rpc' = [rpc EXCEPT ![r] = "checking"] ELSE Fail(r)
  /\ UNCHANGED <<name, gone, objectVars, writerVars, robj>>

\* The next word of the header: InvalidHeader, SizeMismatch, CapacityTooSmall or
\* ReaderSlotsFull when it is not there yet.
Check(r) ==
  /\ rpc[r] = "checking"
  /\ IF Fields[at[r]] \in header[robj[r]]
     THEN IF at[r] < Len(Fields)
          THEN at' = [at EXCEPT ![r] = @ + 1] /\ UNCHANGED rpc
          ELSE at' = [at EXCEPT ![r] = 1] /\ rpc' = [rpc EXCEPT ![r] = "scanning"]
     ELSE Fail(r) /\ UNCHANGED at
  /\ UNCHANGED <<name, gone, objectVars, writerVars, robj>>

\* Fault: a slot as ftruncate left it counts as free (FREE_READER were 0).
ScanZero(r) ==
  /\ rpc[r] = "scanning"
  /\ \/ /\ at[r] \notin Slots
        /\ Fail(r)
        /\ UNCHANGED <<table, at>>
     \/ /\ at[r] \in Slots
        /\ table[robj[r]][at[r]] \in {"zero", "free"}
        /\ table' = [table EXCEPT ![robj[r]][at[r]] = "taken"]
        /\ rpc' = [rpc EXCEPT ![r] = "connected"]
        /\ UNCHANGED at
     \/ /\ at[r] \in Slots
        /\ table[robj[r]][at[r]] = "taken"
        /\ at' = [at EXCEPT ![r] = @ + 1]
        /\ UNCHANGED <<table, rpc>>
  /\ UNCHANGED <<name, gone, made, sized, header, writerVars, robj>>

\* The scan of the reader table, one compare_exchange a step; ReaderSlotsFull at
\* its end.
Scan(r) ==
  /\ rpc[r] = "scanning"
  /\ \/ /\ at[r] \notin Slots
        /\ Fail(r)
        /\ UNCHANGED <<table, at>>
     \/ /\ at[r] \in Slots
        /\ table[robj[r]][at[r]] = "free"
        /\ table' = [table EXCEPT ![robj[r]][at[r]] = "taken"]
        /\ rpc' = [rpc EXCEPT ![r] = "connected"]
        /\ UNCHANGED at
     \/ /\ at[r] \in Slots
        /\ table[robj[r]][at[r]] # "free"
        /\ at' = [at EXCEPT ![r] = @ + 1]
        /\ UNCHANGED <<table, rpc>>
  /\ UNCHANGED <<name, gone, made, sized, header, writerVars, robj>>

\* Drop for Reader.
Disconnect(r) ==
  /\ rpc[r] = "connected"
  /\ table' = [table EXCEPT ![robj[r]][at[r]] = "free"]
  /\ rpc' = [rpc EXCEPT ![r] = "off"]
  /\ UNCHANGED <<name, gone, made, sized, header, writerVars, robj, at>>

--------------------------------------------------------------------------------
Next ==
  \/ \E w \in Writers :
       \/ Cleanup(w) \/ Create(w) \/ Size(w) \/ Created(w)
       \/ \E word \in Words : StoreWord(w, word)
       \/ \E i \in Slots : StoreSlot(w, i)
       \/ DropWriter(w) \/ CrashWriter(w)
  \/ \E r \in Readers : Open(r) \/ Map(r) \/ Check(r) \/ Scan(r) \/ Disconnect(r)

Spec == Init /\ [][Next]_vars

--------------------------------------------------------------------------------
(* Properties.                                                             *)

TypeOK ==
  /\ name \in 0..made
  /\ made \in 0..MaxObjects
  /\ sized \subseteq Objects
  /\ header \in [Objects -> SUBSET Words]
  /\ table \in [Objects -> [Slots -> {"zero", "free", "taken"}]]
  /\ gone \subseteq Objects
  /\ wpc \in [Writers -> {"off", "cleaned", "sizing", "filling", "up"}]
  /\ wobj \in [Writers -> 0..made]
  /\ blank \in [Writers -> SUBSET Slots]
  /\ rpc \in [Readers -> {"off", "opened", "checking", "scanning", "connected", "failed"}]
  /\ robj \in [Readers -> 0..made]
  /\ at \in [Readers -> Nat]
  \* memory is written and looked at only where ftruncate has put some
  /\ \A o \in Objects \ sized : header[o] = {} /\ \A i \in Slots : table[o][i] = "zero"
  /\ \A r \in Readers : rpc[r] \in {"checking", "scanning", "connected"} => robj[r] \in sized

Owns(w) == wpc[w] \in {"sizing", "filling", "up"}

\* A ring has a single producer, as its comment on Send assumes: however creators
\* of one address clean up after each other, fail or come back, no two of them
\* ever initialise or write the same object.
SingleProducer ==
  \A w, v \in Writers : Owns(w) /\ Owns(v) /\ wobj[w] = wobj[v] => w = v

\* A reader that got through connect has a usable ring, also when it raced with
\* create: the header it looked at is complete, and the slot it was given is its
\* own and is not initialised away under it.
ConnectedSound ==
  \A r \in Readers : rpc[r] = "connected" =>
    /\ header[robj[r]] = Words
    /\ at[r] \in Slots
    /\ table[robj[r]][at[r]] = "taken"
    /\ \A q \in Readers :
         rpc[q] = "connected" /\ robj[q] = robj[r] /\ at[q] = at[r] => q = r

\* An address never leads to a ring its Writer has taken down: Drop leaves no name
\* behind, and no clean-up or failure of another creator brings the old ring back.
NameNotGone == name \notin gone

================================================================================
