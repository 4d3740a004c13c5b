------------------------------- MODULE Broadcast -------------------------------
(***************************************************************************)
(* Which messages the shared-memory queue of nnxt-rapid hands out, without *)
(* cells, slots or pointers.  A writer publishes messages numbered 0, 1,   *)
(* 2, ...; a reader that joins is given the numbers published from then    *)
(* on, increasing.  A call that hands one out gives the first number       *)
(* wanted or, if more than Retention were waiting at the moment the call   *)
(* last looked, the oldest of the last Retention as of that moment; a call *)
(* comes back with nothing only if nothing was waiting then.               *)
(*                                                                         *)
(* It is about numbers: what is found in the cell of a number that is      *)
(* handed out, the channel does not say.                                   *)
(***************************************************************************)
EXTENDS Integers

CONSTANTS
  Readers,    \* the reader handles
  Retention,  \* how many of the latest messages the channel keeps
  Away,       \* the position of a reader that has not joined ...
  Found       \* ... or has the channel, but no position in it yet

VARIABLES
  open,       \* FALSE once the writer has removed the channel's name
  published,  \* how many messages have been published
  position,   \* reader -> number of the next message it wants, Away or Found
  asOf        \* reader -> what was published when its call last looked, or Away

vars == <<open, published, position, asOf>>

Init ==
  /\ open = TRUE
  /\ published = 0
  /\ position = [r \in Readers |-> Away]
  /\ asOf = [r \in Readers |-> Away]

Publish ==
  /\ open
  /\ published' = published + 1
  /\ UNCHANGED <<open, position, asOf>>

\* After this, only readers that have found the channel before still join.
Close ==
  /\ open
  /\ open' = FALSE
  /\ UNCHANGED <<published, position, asOf>>

Find(r) ==
  /\ open
  /\ position[r] = Away
  /\ position' = [position EXCEPT ![r] = Found]
  /\ UNCHANGED <<open, published, asOf>>

\* A reader joins at the end of what is published.
Join(r) ==
  /\ position[r] = Found
  /\ position' = [position EXCEPT ![r] = published]
  /\ UNCHANGED <<open, published, asOf>>

Joined(r) == position[r] \notin {Away, Found}

\* A call begins, or looks again.
Look(r) ==
  /\ Joined(r)
  /\ asOf' = [asOf EXCEPT ![r] = published]
  /\ UNCHANGED <<open, published, position>>

Waiting(r) == asOf[r] - position[r]

\* The call hands out the oldest message there was for the reader when it looked.
Receive(r) ==
  /\ asOf[r] # Away
  /\ Waiting(r) > 0
  /\ LET given == IF Waiting(r) > Retention THEN asOf[r] - Retention ELSE position[r]
     IN  position' = [position EXCEPT ![r] = given + 1]
  /\ asOf' = [asOf EXCEPT ![r] = Away]
  /\ UNCHANGED <<open, published>>

\* The call comes back with nothing.
Nothing(r) ==
  /\ asOf[r] # Away
  /\ Waiting(r) = 0
  /\ asOf' = [asOf EXCEPT ![r] = Away]
  /\ UNCHANGED <<open, published, position>>

Leave(r) ==
  /\ position[r] # Away
  /\ position' = [position EXCEPT ![r] = Away]
  /\ asOf' = [asOf EXCEPT ![r] = Away]
  /\ UNCHANGED <<open, published>>

Next ==
  \/ Publish
  \/ Close
  \/ \E r \in Readers :
       Find(r) \/ Join(r) \/ Look(r) \/ Receive(r) \/ Nothing(r) \/ Leave(r)

Spec == Init /\ [][Next]_vars
================================================================================
