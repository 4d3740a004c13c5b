----------------------------- MODULE ControlChannel -----------------------------
(***************************************************************************)
(* The control channel of an actor: a Rep0 socket that two threads share.  *)
(* The listener thread of the reactor (ensure_control_listener in          *)
(* crates/nnxt-actors/src/reactor.rs) receives from it and puts the        *)
(* messages into a channel; the actor takes them from the channel (poll)   *)
(* and answers on the socket (reply_control in context.rs).                *)
(*                                                                         *)
(* The socket is nng's, modelled as it behaves: it answers the sender of   *)
(* the message received last, and refuses an answer when that one has been *)
(* answered.  The channel holds messages only, not their senders.          *)
(*                                                                         *)
(* A request is named by its number in the order of sending.               *)
(***************************************************************************)
EXTENDS Integers, Sequences

CONSTANTS
  Commands,     \* what clients send
  Results,      \* what the actor answers
  MaxRequests   \* bound: requests sent in a run

VARIABLES
  asked,    \* the commands sent, by request
  inbox,    \* requests that reached the socket and are not received
  owner,    \* the request that the socket will answer, or None
  rx,       \* requests in the channel between the listener and the actor
  handled,  \* the request the actor has taken and not yet answered, or None
  answers,  \* the answer each request's sender has got, or NoAnswer
  left,     \* requests whose sender has closed its socket
  crossed   \* history: requests received while others were unanswered, and those others

channelVars == <<asked, inbox, owner, rx, handled, answers, left, crossed>>

None     == 0
NoAnswer == "none"
Requests == 1..MaxRequests

Init ==
  /\ asked = <<>>
  /\ inbox = <<>>
  /\ owner = None
  /\ rx = <<>>
  /\ handled = None
  /\ answers = [r \in Requests |-> NoAnswer]
  /\ left = {}
  /\ crossed = {}

--------------------------------------------------------------------------------
(* Clients: a Req0 socket each.                                            *)

\* A client sends a command and waits.
Send(c) ==
  /\ Len(asked) < MaxRequests
  /\ asked' = Append(asked, c)
  /\ inbox' = Append(inbox, Len(asked'))
  /\ UNCHANGED <<owner, rx, handled, answers, left, crossed>>

\* forward_command of the master sends and closes its socket at once: the answer is
\* never awaited, and the command itself may be lost.
SendAndLeave(c) ==
  /\ Len(asked) < MaxRequests
  /\ asked' = Append(asked, c)
  /\ left' = left \cup {Len(asked')}
  /\ inbox' \in {inbox, Append(inbox, Len(asked'))}
  /\ UNCHANGED <<owner, rx, handled, answers, crossed>>

--------------------------------------------------------------------------------
(* The actor's two threads.                                                *)

\* Requests received that the actor has not done with.
Open == {rx[n] : n \in DOMAIN rx} \cup ({handled} \ {None})

\* The listener receives a request and puts the message into the channel.
Receive ==
  /\ inbox # <<>>
  /\ inbox' = Tail(inbox)
  /\ owner' = Head(inbox)
  /\ rx' = Append(rx, Head(inbox))
  /\ crossed' = crossed \cup (IF Open = {} THEN {} ELSE Open \cup {Head(inbox)})
  /\ UNCHANGED <<asked, handled, answers, left>>

\* poll returns the next message as Event::Control.
Take ==
  /\ rx # <<>>
  /\ rx' = Tail(rx)
  /\ handled' = Head(rx)
  /\ UNCHANGED <<asked, inbox, owner, answers, left, crossed>>

\* reply_control: the answer goes to whom the socket received from last; to one that
\* has left it is sent in vain.  With nobody to answer the socket refuses it.
Reply(x) ==
  /\ IF owner \in {None} \cup left
     THEN UNCHANGED answers
     ELSE answers' = [answers EXCEPT ![owner] = x]
  /\ owner' = None
  /\ handled' = None
  /\ UNCHANGED <<asked, inbox, rx, left, crossed>>

\* The process ends: its socket closes and its channel goes.
Close ==
  /\ inbox' = <<>>
  /\ rx' = <<>>
  /\ handled' = None
  /\ owner' = None
  /\ left' = left \cup {r \in Requests : r <= Len(asked)}
  /\ UNCHANGED <<asked, answers, crossed>>

--------------------------------------------------------------------------------

TypeOK ==
  /\ asked \in Seq(Commands) /\ Len(asked) <= MaxRequests
  /\ inbox \in Seq(Requests)
  /\ rx \in Seq(Requests)
  /\ owner \in Requests \cup {None}
  /\ handled \in Requests \cup {None}
  /\ answers \in [Requests -> Results \cup {NoAnswer}]
  /\ left \subseteq Requests
  /\ crossed \subseteq Requests

================================================================================
