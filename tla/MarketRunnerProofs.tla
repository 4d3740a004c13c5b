--------------------------- MODULE MarketRunnerProofs ---------------------------
(***************************************************************************)
(* Proofs about a market gateway's process, for any instruments, requests, *)
(* starts, heartbeat interval and timeout: who gets which answer, how long *)
(* the master can hold the loop up, and what is published after an         *)
(* unsubscription.                                                         *)
(***************************************************************************)
EXTENDS MarketRunner, TLAPS

--------------------------------------------------------------------------------
(* The invariant.                                                          *)

Increasing(s) == \A m, n \in DOMAIN s : m < n => s[m] < s[n]

\* Requests pass through the channel in the order of their numbers.
Numbered ==
  /\ Increasing(inbox)
  /\ Increasing(rx)
  /\ \A n \in DOMAIN inbox : inbox[n] <= Len(asked)
  /\ \A m \in DOMAIN rx : rx[m] <= Len(asked)
  /\ \A m \in DOMAIN rx, n \in DOMAIN inbox : rx[m] < inbox[n]
  /\ handled <= Len(asked)
  /\ \A m \in DOMAIN rx : handled < rx[m]
  /\ \A n \in DOMAIN inbox : handled < inbox[n]

AnswerTo(r) == IF Fails(asked[r]) THEN "error" ELSE "ok"

\* The socket will answer an open request; one that met no other is the only one.
Answering ==
  /\ stage = "replying" <=> handled # Channel!None
  /\ stage = "replying" => result = AnswerTo(handled)
  /\ owner # Channel!None => owner \in Channel!Open
  /\ \A r \in Channel!Open \ crossed : Channel!Open = {r}
  /\ \A r \in Channel!Requests : answers[r] # Channel!NoAnswer => r <= Len(asked)
  /\ AnswerIsOwn

\* What a call to the master may have taken by now.
Budget ==
  IF stage = "replying" THEN 0
  ELSE IF stage = "sending" THEN spent
  ELSE IF stage = "receiving" THEN Timeout + spent
  ELSE 2 * Timeout

Delays ==
  /\ rx # <<>> => wait <= Budget
  /\ sigAge <= Budget
  /\ ~signal => sigAge = 0
  /\ stage = "off" => ~signal /\ rx = <<>>

\* A book of an instrument that is not subscribed is in the round at most once.
Rounds ==
  \A i \in Instruments :
    late[i] = 0 \/ (late[i] = 1 /\ i \notin subs /\ i \notin todo)

RunnerInv == TypeOK /\ Numbered /\ Answering /\ Delays /\ Rounds

--------------------------------------------------------------------------------
(* Sequences.                                                              *)

Elements(s) == {s[n] : n \in DOMAIN s}

\* What a sequence gains by Append.
LEMMA AppendFacts ==
  ASSUME NEW S, NEW s \in Seq(S), NEW e \in S
  PROVE  /\ Append(s, e) \in Seq(S)
         /\ Len(Append(s, e)) = Len(s) + 1
         /\ DOMAIN Append(s, e) = 1..(Len(s) + 1)
         /\ \A n \in 1..Len(s) : Append(s, e)[n] = s[n]
         /\ Append(s, e)[Len(s) + 1] = e
         /\ Elements(Append(s, e)) = Elements(s) \cup {e}
  <1>1. /\ Append(s, e) \in Seq(S)
        /\ Len(Append(s, e)) = Len(s) + 1
        /\ DOMAIN Append(s, e) = 1..(Len(s) + 1)
        /\ \A n \in 1..Len(s) : Append(s, e)[n] = s[n]
        /\ Append(s, e)[Len(s) + 1] = e
        /\ Len(s) \in Nat /\ DOMAIN s = 1..Len(s)
    OBVIOUS
  <1>2. Elements(Append(s, e)) = Elements(s) \cup {e}
    BY <1>1 DEF Elements
  <1>3. QED
    BY <1>1, <1>2

\* What Head and Tail are.
LEMMA HeadTailFacts ==
  ASSUME NEW S, NEW s \in Seq(S), s # <<>>
  PROVE  /\ Head(s) \in S /\ Head(s) = s[1] /\ 1 \in DOMAIN s
         /\ Tail(s) \in Seq(S)
         /\ \A n \in DOMAIN Tail(s) : n \in Nat \ {0} /\ n + 1 \in DOMAIN s /\ Tail(s)[n] = s[n + 1]
         /\ Elements(s) = Elements(Tail(s)) \cup {Head(s)}
  <1>1. /\ Head(s) \in S /\ Head(s) = s[1] /\ 1 \in DOMAIN s
        /\ Tail(s) \in Seq(S)
        /\ DOMAIN s = 1..Len(s) /\ Len(s) \in Nat \ {0}
        /\ DOMAIN Tail(s) = 1..(Len(s) - 1)
        /\ \A n \in 1..(Len(s) - 1) : Tail(s)[n] = s[n + 1]
    OBVIOUS
  <1>2. ASSUME NEW m \in DOMAIN s, m # 1
        PROVE  s[m] \in Elements(Tail(s))
    <2>1. m - 1 \in DOMAIN Tail(s) /\ Tail(s)[m - 1] = s[m]
      BY <1>1, <1>2
    <2>2. QED
      BY <2>1 DEF Elements
  <1>3. Elements(s) = Elements(Tail(s)) \cup {Head(s)}
    BY <1>1, <1>2 DEF Elements
  <1>4. QED
    BY <1>1, <1>3

\* What is left of an increasing sequence increases, and is above what was taken.
LEMMA TailIncreases ==
  ASSUME NEW s \in Seq(Nat), s # <<>>, Increasing(s)
  PROVE  Increasing(Tail(s)) /\ \A n \in DOMAIN Tail(s) : Head(s) < Tail(s)[n]
  <1>1. /\ Head(s) = s[1] /\ 1 \in DOMAIN s
        /\ \A n \in DOMAIN Tail(s) : n \in Nat \ {0} /\ n + 1 \in DOMAIN s /\ Tail(s)[n] = s[n + 1]
    BY HeadTailFacts
  <1>2. \A m, n \in DOMAIN s : m < n => s[m] < s[n]
    BY DEF Increasing
  <1>3. ASSUME NEW n \in DOMAIN Tail(s)
        PROVE  Head(s) < Tail(s)[n]
    BY <1>1, <1>2
  <1>4. ASSUME NEW m \in DOMAIN Tail(s), NEW n \in DOMAIN Tail(s), m < n
        PROVE  Tail(s)[m] < Tail(s)[n]
    <2>1. m \in Nat /\ n \in Nat /\ m + 1 < n + 1
      BY <1>1, <1>4
    <2>2. QED
      BY <1>1, <1>2, <2>1
  <1>5. QED
    BY <1>3, <1>4 DEF Increasing

\* An increasing sequence grows by an element above the others.
LEMMA AppendIncreases ==
  ASSUME NEW s \in Seq(Nat), NEW e \in Nat, Increasing(s), \A n \in DOMAIN s : s[n] < e
  PROVE  /\ Increasing(Append(s, e))
         /\ \A n \in DOMAIN Append(s, e) :
              Append(s, e)[n] = e \/ (n \in DOMAIN s /\ Append(s, e)[n] = s[n])
  <1>1. /\ DOMAIN Append(s, e) = 1..(Len(s) + 1)
        /\ \A n \in 1..Len(s) : Append(s, e)[n] = s[n]
        /\ Append(s, e)[Len(s) + 1] = e
        /\ DOMAIN s = 1..Len(s) /\ Len(s) \in Nat
    BY AppendFacts
  <1>2. \A n \in DOMAIN Append(s, e) : n \in DOMAIN s \/ n = Len(s) + 1
    BY <1>1
  <1>3. ASSUME NEW m \in DOMAIN Append(s, e), NEW n \in DOMAIN Append(s, e), m < n
        PROVE  Append(s, e)[m] < Append(s, e)[n]
    <2>1. m \in DOMAIN s
      BY <1>1, <1>3
    <2>2. CASE n \in DOMAIN s
      BY <1>1, <1>3, <2>1, <2>2 DEF Increasing
    <2>3. CASE n = Len(s) + 1
      BY <1>1, <2>1, <2>3
    <2>4. QED
      BY <1>2, <2>2, <2>3
  <1>4. QED
    BY <1>1, <1>2, <1>3 DEF Increasing

--------------------------------------------------------------------------------
(* Types.                                                                  *)

LEMMA Constants ==
  /\ Channel!None = 0 /\ Channel!NoAnswer = "none"
  /\ Channel!Requests = 1..MaxRequests
  /\ MaxRequests \in Nat /\ Timeout \in Nat \ {0} /\ Interval \in Nat \ {0}
  /\ MaxStarts \in Nat /\ Configured \subseteq Instruments
  BY RunnerAssumption DEF Channel!None, Channel!NoAnswer, Channel!Requests

\* Most steps leave the channel alone.
LEMMA ChannelSteps ==
  ASSUME [Next]_vars
  PROVE  \/ UNCHANGED <<channelVars, result>>
         \/ Listener \/ HandleCommand \/ ReplyControl \/ Exit \/ Crash \/ ClientSends
  BY DEF Next, vars, channelVars, runnerVars, Start, RequestLeaves, MasterAnswers,
         CallTimesOut, OnStart, PollEmpty, OnStop, OnStopReturns, Look, PublishOne,
         Sleep, Wake, Interrupt, Tick

LEMMA ChannelTyped ==
  ASSUME TypeOK, [Next]_vars
  PROVE  Channel!TypeOK'
  <1> USE Constants
  <1>1. Channel!TypeOK
    BY DEF TypeOK
  <1>2. CASE UNCHANGED <<channelVars, result>>
    BY <1>1, <1>2 DEF channelVars, Channel!TypeOK
  <1>3. CASE Listener
    <2>1. Channel!Receive
      BY <1>3 DEF Listener
    <2>2. /\ Head(inbox) \in Channel!Requests /\ Tail(inbox) \in Seq(Channel!Requests)
          /\ Append(rx, Head(inbox)) \in Seq(Channel!Requests)
      BY <1>1, <2>1, HeadTailFacts, AppendFacts DEF Channel!Receive, Channel!TypeOK
    <2>3. Channel!Open \subseteq Channel!Requests
      BY <1>1 DEF Channel!Open, Channel!TypeOK
    <2>4. crossed' \subseteq Channel!Requests
      BY <1>1, <2>1, <2>2, <2>3 DEF Channel!Receive, Channel!TypeOK
    <2>5. QED
      BY <1>1, <2>1, <2>2, <2>4 DEF Channel!Receive, Channel!TypeOK
  <1>4. CASE HandleCommand
    <2>1. Channel!Take
      BY <1>4 DEF HandleCommand
    <2>2. Head(rx) \in Channel!Requests /\ Tail(rx) \in Seq(Channel!Requests)
      BY <1>1, <2>1, HeadTailFacts DEF Channel!Take, Channel!TypeOK
    <2>3. QED
      BY <1>1, <2>1, <2>2 DEF Channel!Take, Channel!TypeOK
  <1>5. CASE ReplyControl
    <2>1. Channel!Reply(result) /\ result \in Results \cup {Channel!NoAnswer}
      BY <1>5 DEF ReplyControl, TypeOK
    <2>2. QED
      BY <1>1, <2>1 DEF Channel!Reply, Channel!TypeOK
  <1>6. CASE Exit \/ Crash
    <2>1. Channel!Close
      BY <1>6 DEF Exit, Crash, EndOfProcess
    <2>2. left' \subseteq Channel!Requests
      BY <1>1, <2>1 DEF Channel!Close, Channel!TypeOK
    <2>3. /\ inbox' = <<>> /\ rx' = <<>> /\ handled' = Channel!None /\ owner' = Channel!None
          /\ UNCHANGED <<asked, answers, crossed>>
      BY <2>1 DEF Channel!Close
    <2>4. QED
      BY <1>1, <2>2, <2>3 DEF Channel!TypeOK
  <1>7. CASE ClientSends
    <2>1. PICK c \in Commands : Channel!Send(c) \/ Channel!SendAndLeave(c)
      BY <1>7 DEF ClientSends
    <2>2. /\ Len(asked) < MaxRequests /\ asked' = Append(asked, c)
          /\ inbox' \in {inbox, Append(inbox, Len(asked'))}
          /\ left' \in {left, left \cup {Len(asked')}}
          /\ UNCHANGED <<owner, rx, handled, answers, crossed>>
      BY <2>1 DEF Channel!Send, Channel!SendAndLeave
    <2>3. asked' \in Seq(Commands) /\ Len(asked') = Len(asked) + 1 /\ Len(asked) \in Nat
      BY <1>1, <2>2, AppendFacts DEF Channel!TypeOK
    <2>4. Len(asked') \in Channel!Requests
      BY <2>2, <2>3
    <2>5. inbox' \in Seq(Channel!Requests)
      <3>1. inbox \in Seq(Channel!Requests)
        BY <1>1 DEF Channel!TypeOK
      <3>2. Append(inbox, Len(asked')) \in Seq(Channel!Requests)
        BY <3>1, <2>4, AppendFacts
      <3>3. QED
        BY <2>2, <3>1, <3>2
    <2>6. QED
      BY <1>1, <2>2, <2>3, <2>4, <2>5 DEF Channel!TypeOK
  <1>8. QED
    BY <1>2, <1>3, <1>4, <1>5, <1>6, <1>7, ChannelSteps

\* The types of what the steps change apart from the channel.
ProcessTyped ==
  /\ stage \in {"off", "sending", "receiving", "starting", "polling", "replying",
                "stopping", "stopped"}
  /\ call \in {"register", "heartbeat", "none"}
  /\ starts \in 0..MaxStarts
  /\ beat \in 0..Interval
  /\ spent \in 0..Timeout
  /\ result \in Results \cup {Channel!NoAnswer}
  /\ wait \in Nat
  /\ signal \in BOOLEAN
  /\ sigAge \in Nat
  /\ name \in BOOLEAN

SimTyped ==
  /\ subs \subseteq Instruments
  /\ running \in BOOLEAN
  /\ thread \in {"none", "looking", "publishing", "sleeping", "done"}
  /\ todo \subseteq Instruments
  /\ late \in [Instruments -> Nat]

LEMMA TypeParts == TypeOK <=> Channel!TypeOK /\ ProcessTyped /\ SimTyped
  BY DEF TypeOK, ProcessTyped, SimTyped

LEMMA ProcessTypes ==
  ASSUME ProcessTyped, [Next]_vars
  PROVE  ProcessTyped'
  <1> USE Constants DEF ProcessTyped, channelVars, runnerVars, surroundings, processVars, simVars
  <1>1. CASE Start
    BY <1>1 DEF Start, CallMaster
  <1>2. CASE RequestLeaves
    BY <1>2 DEF RequestLeaves
  <1>3. CASE MasterAnswers
    BY <1>3 DEF MasterAnswers, EndOfCall
  <1>4. CASE CallTimesOut
    BY <1>4 DEF CallTimesOut, EndOfCall
  <1>5. CASE OnStart
    BY <1>5 DEF OnStart, InitWriter
  <1>6. CASE Listener
    BY <1>6 DEF Listener
  <1>7. CASE HandleCommand
    BY <1>7 DEF HandleCommand, Results
  <1>8. CASE ReplyControl
    BY <1>8 DEF ReplyControl, MaybeHeartbeat, CallMaster
  <1>9. CASE PollEmpty
    BY <1>9 DEF PollEmpty, MaybeHeartbeat, CallMaster
  <1>10. CASE OnStop \/ OnStopReturns
    BY <1>10 DEF OnStop, OnStopReturns
  <1>11. CASE Exit \/ Crash
    <2>1. EndOfProcess
      BY <1>11 DEF Exit, Crash
    <2>2. name' \in BOOLEAN
      BY <1>11 DEF Exit, Crash
    <2>3. signal' \in BOOLEAN
      BY <2>1 DEF EndOfProcess
    <2>4. /\ stage' = "off" /\ call' = "none" /\ beat' = 0 /\ spent' = 0
          /\ result' = Channel!NoAnswer /\ wait' = 0 /\ sigAge' = 0 /\ starts' = starts
      BY <2>1 DEF EndOfProcess
    <2>5. QED
      BY <2>2, <2>3, <2>4
  <1>12. CASE Look \/ PublishOne \/ Sleep \/ Wake \/ ClientSends \/ UNCHANGED vars
    BY <1>12 DEF Look, PublishOne, Sleep, Wake, ClientSends, vars
  <1>13. CASE Interrupt
    BY <1>13 DEF Interrupt
  <1>14. CASE Tick
    BY <1>14 DEF Tick, Waiting, Idle
  <1>15. QED
    BY <1>1, <1>2, <1>3, <1>4, <1>5, <1>6, <1>7, <1>8, <1>9, <1>10, <1>11, <1>12,
       <1>13, <1>14 DEF Next

\* A request in the channel is one that was sent.
LEMMA Requested ==
  ASSUME Channel!TypeOK, Numbered, rx # <<>>
  PROVE  /\ Head(rx) \in 1..Len(asked)
         /\ asked[Head(rx)].op # "other" => asked[Head(rx)].instrument \in Instruments
  <1>1. Head(rx) \in Channel!Requests /\ Head(rx) <= Len(asked) /\ Len(asked) \in Nat
    BY HeadTailFacts DEF Channel!TypeOK, Numbered
  <1>2. Head(rx) \in 1..Len(asked)
    BY <1>1, Constants
  <1>3. asked[Head(rx)] \in Commands
    BY <1>2 DEF Channel!TypeOK
  <1>4. QED
    BY <1>2, <1>3 DEF Commands

LEMMA SimTypes ==
  ASSUME TypeOK, Numbered, [Next]_vars
  PROVE  SimTyped'
  <1> USE Constants DEF SimTyped, channelVars, runnerVars, surroundings, processVars, simVars
  <1>1. SimTyped /\ Channel!TypeOK
    BY TypeParts
  <1>2. CASE OnStart
    BY <1>1, <1>2 DEF OnStart
  <1>3. CASE HandleCommand
    <2>1. Head(rx) \in Channel!Requests /\ UNCHANGED <<running, thread, todo>>
      BY <1>1, <1>3, HeadTailFacts DEF HandleCommand, Channel!Take, Channel!TypeOK
    <2>2. CASE UNCHANGED <<subs, late>>
      BY <1>1, <2>1, <2>2
    <2>3. CASE \E i \in Instruments : Subscribe(i) \/ Unsubscribe(i)
      BY <1>1, <2>1, <2>3 DEF Subscribe, Unsubscribe
    <2>4. QED
      <3>1. asked[Head(rx)].op # "other" => asked[Head(rx)].instrument \in Instruments
        BY Requested, <1>1, <1>3 DEF HandleCommand, Channel!Take
      <3>2. QED
        BY <3>1, <1>3, <2>2, <2>3 DEF HandleCommand
  <1>4. CASE OnStop
    BY <1>1, <1>4 DEF OnStop
  <1>5. CASE Exit \/ Crash
    <2>1. EndOfProcess
      BY <1>5 DEF Exit, Crash
    <2>2. QED
      BY <2>1 DEF EndOfProcess
  <1>6. CASE Look
    BY <1>1, <1>6 DEF Look
  <1>7. CASE PublishOne
    BY <1>1, <1>7 DEF PublishOne, Publish
  <1>8. CASE Sleep \/ Wake
    BY <1>1, <1>8 DEF Sleep, Wake
  <1>9. CASE UNCHANGED simVars
    BY <1>1, <1>9
  <1>10. QED
    BY <1>2, <1>3, <1>4, <1>5, <1>6, <1>7, <1>8, <1>9
    DEF Next, vars, Start, RequestLeaves, MasterAnswers, CallTimesOut, Listener,
        ReplyControl, PollEmpty, OnStopReturns, ClientSends, Interrupt, Tick

--------------------------------------------------------------------------------
(* The channel.                                                            *)

\* What a client's sending does to the channel.
Sent(c) ==
  /\ asked' = Append(asked, c)
  /\ inbox' \in {inbox, Append(inbox, Len(asked) + 1)}
  /\ UNCHANGED <<owner, rx, handled, answers, crossed>>

LEMMA Sending ==
  ASSUME Channel!TypeOK, ClientSends
  PROVE  \E c \in Commands : Sent(c)
  <1>1. PICK c \in Commands : Channel!Send(c) \/ Channel!SendAndLeave(c)
    BY DEF ClientSends
  <1>2. asked' = Append(asked, c) /\ UNCHANGED <<owner, rx, handled, answers, crossed>>
    BY <1>1 DEF Channel!Send, Channel!SendAndLeave
  <1>3. Len(asked') = Len(asked) + 1
    BY <1>2, AppendFacts DEF Channel!TypeOK
  <1>4. inbox' \in {inbox, Append(inbox, Len(asked) + 1)}
    BY <1>1, <1>3 DEF Channel!Send, Channel!SendAndLeave
  <1>5. QED
    BY <1>2, <1>4 DEF Sent

\* Numbers in the channel are naturals.
LEMMA Naturals ==
  ASSUME Channel!TypeOK
  PROVE  /\ \A n \in DOMAIN inbox : inbox[n] \in Nat \ {0}
         /\ \A n \in DOMAIN rx : rx[n] \in Nat \ {0}
         /\ handled \in Nat /\ Len(asked) \in Nat
         /\ DOMAIN inbox = 1..Len(inbox) /\ Len(inbox) \in Nat
         /\ DOMAIN rx = 1..Len(rx) /\ Len(rx) \in Nat
  BY Constants DEF Channel!TypeOK

LEMMA NumberedStep ==
  ASSUME TypeOK, Numbered, [Next]_vars
  PROVE  Numbered'
  <1>1. Channel!TypeOK
    BY DEF TypeOK
  <1> USE Constants, Naturals
  <1>2. inbox \in Seq(Nat) /\ rx \in Seq(Nat)
    BY <1>1 DEF Channel!TypeOK
  <1>3. CASE UNCHANGED <<channelVars, result>>
    BY <1>3 DEF channelVars, Numbered, Increasing
  <1>4. CASE Listener
    <2>1. Channel!Receive
      BY <1>4 DEF Listener
    <2>2. /\ inbox # <<>> /\ inbox' = Tail(inbox) /\ rx' = Append(rx, Head(inbox))
          /\ UNCHANGED <<asked, handled>>
      BY <2>1 DEF Channel!Receive
    <2>3. /\ Head(inbox) = inbox[1] /\ 1 \in DOMAIN inbox
          /\ \A n \in DOMAIN inbox' : n \in Nat \ {0} /\ n + 1 \in DOMAIN inbox /\ inbox'[n] = inbox[n + 1]
      BY <1>1, <2>2, HeadTailFacts DEF Channel!TypeOK
    <2>4. Increasing(inbox') /\ (\A n \in DOMAIN inbox' : inbox[1] < inbox'[n])
      BY <1>2, <2>2, <2>3, TailIncreases DEF Numbered
    <2>5. inbox[1] \in Nat /\ \A m \in DOMAIN rx : rx[m] < inbox[1]
      BY <1>2, <2>3 DEF Numbered
    <2>6. /\ Increasing(rx')
          /\ \A m \in DOMAIN rx' : rx'[m] = inbox[1] \/ (m \in DOMAIN rx /\ rx'[m] = rx[m])
      BY <1>2, <2>2, <2>3, <2>5, AppendIncreases DEF Numbered
    <2>7. \A m \in DOMAIN rx', n \in DOMAIN inbox' : rx'[m] < inbox'[n]
      BY <1>1, <2>3, <2>4, <2>6 DEF Numbered
    <2>8. \A m \in DOMAIN rx' : handled' < rx'[m] /\ rx'[m] <= Len(asked')
      BY <1>1, <2>2, <2>3, <2>6 DEF Numbered
    <2>9. \A n \in DOMAIN inbox' : handled' < inbox'[n] /\ inbox'[n] <= Len(asked')
      BY <1>1, <2>2, <2>3 DEF Numbered
    <2>10. QED
      BY <2>2, <2>4, <2>6, <2>7, <2>8, <2>9 DEF Numbered
  <1>5. CASE HandleCommand
    <2>1. /\ rx # <<>> /\ rx' = Tail(rx) /\ handled' = Head(rx)
          /\ UNCHANGED <<asked, inbox>>
      BY <1>5 DEF HandleCommand, Channel!Take
    <2>2. /\ Head(rx) = rx[1] /\ 1 \in DOMAIN rx
          /\ \A n \in DOMAIN rx' : n \in Nat \ {0} /\ n + 1 \in DOMAIN rx /\ rx'[n] = rx[n + 1]
      BY <1>1, <2>1, HeadTailFacts DEF Channel!TypeOK
    <2>3. Increasing(rx') /\ (\A n \in DOMAIN rx' : rx[1] < rx'[n])
      BY <1>2, <2>1, <2>2, TailIncreases DEF Numbered
    <2>4. QED
      BY <1>1, <2>1, <2>2, <2>3 DEF Numbered
  <1>6. CASE ReplyControl
    <2>1. handled' = 0 /\ UNCHANGED <<asked, inbox, rx>>
      BY <1>6 DEF ReplyControl, Channel!Reply
    <2>2. QED
      BY <1>1, <2>1 DEF Numbered, Increasing
  <1>7. CASE Exit \/ Crash
    <2>1. inbox' = <<>> /\ rx' = <<>> /\ handled' = 0 /\ asked' = asked
      BY <1>7 DEF Exit, Crash, EndOfProcess, Channel!Close
    <2>2. QED
      BY <1>1, <2>1 DEF Numbered, Increasing
  <1>8. CASE ClientSends
    <2>1. PICK c \in Commands : Sent(c)
      BY <1>1, <1>8, Sending
    <2>2. Len(asked') = Len(asked) + 1 /\ UNCHANGED <<rx, handled>>
      BY <1>1, <2>1, AppendFacts DEF Sent, Channel!TypeOK
    <2>3. CASE inbox' = inbox
      BY <1>1, <2>2, <2>3 DEF Numbered, Increasing
    <2>4. CASE inbox' = Append(inbox, Len(asked) + 1)
      <3>1. Len(asked) + 1 \in Nat
        BY <1>1
      <3>2. \A n \in DOMAIN inbox : inbox[n] < Len(asked) + 1
        BY <1>1, <1>2 DEF Numbered
      <3>3. /\ Increasing(inbox')
            /\ \A n \in DOMAIN inbox' :
                 inbox'[n] = Len(asked) + 1 \/ (n \in DOMAIN inbox /\ inbox'[n] = inbox[n])
        BY <1>2, <2>4, <3>1, <3>2, AppendIncreases DEF Numbered
      <3>4. QED
        BY <1>1, <2>2, <3>3 DEF Numbered
    <2>5. QED
      BY <2>1, <2>3, <2>4 DEF Sent
  <1>9. QED
    BY <1>3, <1>4, <1>5, <1>6, <1>7, <1>8, ChannelSteps


\* What is open, as the elements of the channel.
LEMMA OpenElements ==
  Channel!Open = Elements(rx) \cup ({handled} \ {Channel!None})
  BY DEF Channel!Open, Elements

\* A step outside the channel, which neither takes nor answers a command.
LEMMA AnsweringUnchanged ==
  ASSUME Answering, UNCHANGED <<channelVars, result>>,
         stage' = "replying" <=> stage = "replying"
  PROVE  Answering'
  <1>1. /\ UNCHANGED <<asked, owner, rx, handled, answers, crossed, result>>
        /\ stage' = "replying" <=> stage = "replying"
    BY DEF channelVars
  <1>2. Channel!Open' = Channel!Open
    BY <1>1 DEF Channel!Open
  <1>3. AnswerIsOwn' /\ AnswerTo(handled)' = AnswerTo(handled)
    BY <1>1 DEF Answering, AnswerIsOwn, AnswerTo, Fails
  <1>4. QED
    BY <1>1, <1>2, <1>3 DEF Answering

LEMMA AnsweringStep ==
  ASSUME TypeOK, Numbered, Answering, [Next]_vars
  PROVE  Answering'
  <1>1. Channel!TypeOK
    BY DEF TypeOK
  <1>2. CASE UNCHANGED <<channelVars, result>>
    <2>1. CASE ReplyControl \/ Exit \/ Crash
      <3>1. handled' = Channel!None /\ stage' # "replying"
        BY <2>1 DEF ReplyControl, Channel!Reply, MaybeHeartbeat, CallMaster, Exit, Crash,
                    EndOfProcess, Channel!Close
      <3>2. stage # "replying"
        BY <1>2, <3>1 DEF channelVars, Answering
      <3>3. QED
        BY <1>2, <3>1, <3>2, AnsweringUnchanged
    <2>2. CASE ~(ReplyControl \/ Exit \/ Crash)
      <3>1. CASE HandleCommand
        <4>1. rx # <<>> /\ rx' = Tail(rx) /\ rx' = rx
          BY <1>2, <3>1 DEF HandleCommand, Channel!Take, channelVars
        <4>2. rx \in Seq(Channel!Requests)
          BY <1>1 DEF Channel!TypeOK
        <4>3. Tail(rx) # rx
          BY <4>1, <4>2
        <4>4. QED
          BY <4>1, <4>3
      <3>2. CASE ~HandleCommand
        <4>1. stage' = "replying" <=> stage = "replying"
          BY <1>2, <2>2, <3>2
          DEF Next, vars, channelVars, runnerVars, Start, RequestLeaves, MasterAnswers,
              CallTimesOut, OnStart, Listener, PollEmpty, OnStop, OnStopReturns, Look,
              PublishOne, Sleep, Wake, ClientSends, Interrupt, Tick, CallMaster,
              MaybeHeartbeat
        <4>2. QED
          BY <1>2, <4>1, AnsweringUnchanged
      <3>3. QED
        BY <3>1, <3>2
    <2>3. QED
      BY <2>1, <2>2
  <1>3. CASE Listener
    <2>1. /\ inbox # <<>> /\ rx' = Append(rx, Head(inbox)) /\ owner' = Head(inbox)
          /\ crossed' = crossed \cup (IF Channel!Open = {} THEN {}
                                      ELSE Channel!Open \cup {Head(inbox)})
          /\ UNCHANGED <<asked, handled, answers, result, stage>>
      BY <1>3 DEF Listener, Channel!Receive, runnerVars
    <2>2. Head(inbox) \in Channel!Requests
      BY <1>1, <2>1, HeadTailFacts DEF Channel!TypeOK
    <2>3. Channel!Open' = Channel!Open \cup {Head(inbox)}
      <3>1. Elements(rx') = Elements(rx) \cup {Head(inbox)}
        BY <1>1, <2>1, <2>2, AppendFacts DEF Channel!TypeOK
      <3>2. Channel!Open' = Elements(rx') \cup ({handled'} \ {Channel!None})
        BY DEF Channel!Open, Elements
      <3>3. QED
        BY <2>1, <3>1, <3>2, OpenElements
    <2>4. \A r \in Channel!Open' \ crossed' : Channel!Open' = {r}
      BY <2>1, <2>3
    <2>5. AnswerIsOwn'
      BY <2>1 DEF Answering, AnswerIsOwn, Fails
    <2>6. QED
      BY <2>1, <2>3, <2>4, <2>5 DEF Answering, AnswerTo
  <1>4. CASE HandleCommand
    <2>1. /\ rx # <<>> /\ rx' = Tail(rx) /\ handled' = Head(rx)
          /\ stage = "polling" /\ stage' = "replying"
          /\ UNCHANGED <<asked, owner, answers, crossed>>
      BY <1>4 DEF HandleCommand, Channel!Take
    <2>2. Head(rx) \in 1..Len(asked) /\ Head(rx) # Channel!None
      BY <1>1, <2>1, Requested, Constants
    <2>3. handled = Channel!None
      BY <2>1 DEF Answering
    <2>4. Channel!Open' = Channel!Open
      <3>1. Elements(rx) = Elements(rx') \cup {Head(rx)}
        BY <1>1, <2>1, HeadTailFacts DEF Channel!TypeOK
      <3>2. Channel!Open' = Elements(rx') \cup ({handled'} \ {Channel!None})
        BY DEF Channel!Open, Elements
      <3>3. QED
        BY <2>1, <2>2, <2>3, <3>1, <3>2, OpenElements
    <2>5. result' = AnswerTo(handled)'
      <3>1. result' = IF Fails(asked[Head(rx)]) THEN "error" ELSE "ok"
        BY <1>4 DEF HandleCommand, Fails, Subscribe
      <3>2. QED
        BY <2>1, <3>1 DEF AnswerTo, Fails
    <2>6. AnswerIsOwn'
      BY <2>1 DEF Answering, AnswerIsOwn, Fails
    <2>7. QED
      BY <2>1, <2>2, <2>4, <2>5, <2>6 DEF Answering
  <1>5. CASE ReplyControl
    <2>1. /\ stage = "replying" /\ stage' # "replying"
          /\ handled' = Channel!None /\ owner' = Channel!None
          /\ answers' = answers \/ (owner # Channel!None /\ answers' = [answers EXCEPT ![owner] = result])
          /\ UNCHANGED <<asked, rx, crossed>>
      BY <1>5 DEF ReplyControl, Channel!Reply, MaybeHeartbeat, CallMaster
    <2>2. handled \in Channel!Open /\ result = AnswerTo(handled)
      BY <2>1, OpenElements DEF Answering
    <2>3. Channel!Open' = Elements(rx) /\ Elements(rx) \subseteq Channel!Open
      <3>1. Channel!Open' = Elements(rx') \cup ({handled'} \ {Channel!None})
        BY DEF Channel!Open, Elements
      <3>2. QED
        BY <2>1, <3>1, OpenElements
    <2>4. handled \notin Elements(rx)
      BY <1>1, Naturals DEF Numbered, Elements
    <2>5. \A r \in Channel!Open' \ crossed' : Channel!Open' = {r}
      BY <2>1, <2>2, <2>3, <2>4 DEF Answering
    <2>6. owner # Channel!None => owner <= Len(asked)
      BY <1>1, <2>1, OpenElements, Naturals DEF Answering, Numbered, Elements
    <2>7. \A r \in Channel!Requests : answers'[r] # Channel!NoAnswer => r <= Len(asked')
      BY <1>1, <2>1, <2>6 DEF Answering, Channel!TypeOK
    <2>8. owner # Channel!None /\ owner \notin crossed => owner = handled
      BY <2>2 DEF Answering
    <2>9. AnswerIsOwn'
      <3>1. ASSUME NEW r \in Channel!Requests, answers'[r] # answers[r]
            PROVE  r = owner /\ answers'[r] = result /\ owner # Channel!None
        BY <1>1, <2>1, <3>1 DEF Channel!TypeOK
      <3>2. ASSUME NEW r \in Channel!Requests, answers'[r] # Channel!NoAnswer, r \notin crossed
            PROVE  answers'[r] = AnswerTo(r)
        <4>1. CASE answers'[r] = answers[r]
          BY <3>2, <4>1 DEF Answering, AnswerIsOwn, AnswerTo, Fails
        <4>2. CASE answers'[r] # answers[r]
          BY <2>2, <2>8, <3>1, <3>2, <4>2
        <4>3. QED
          BY <4>1, <4>2
      <3>3. QED
        BY <2>1, <3>2 DEF AnswerIsOwn, AnswerTo, Fails
    <2>10. QED
      BY <2>1, <2>5, <2>7, <2>9 DEF Answering
  <1>6. CASE Exit \/ Crash
    <2>1. /\ stage' = "off" /\ rx' = <<>> /\ handled' = Channel!None /\ owner' = Channel!None
          /\ UNCHANGED <<asked, answers, crossed>>
      BY <1>6 DEF Exit, Crash, EndOfProcess, Channel!Close
    <2>2. Channel!Open' = {}
      BY <2>1 DEF Channel!Open
    <2>3. QED
      BY <2>1, <2>2 DEF Answering, AnswerIsOwn, Fails
  <1>7. CASE ClientSends
    <2>1. PICK c \in Commands : Sent(c)
      BY <1>1, <1>7, Sending
    <2>2. UNCHANGED <<owner, rx, handled, answers, crossed, stage, result>>
      BY <1>7, <2>1 DEF ClientSends, Sent, runnerVars
    <2>3. Len(asked') = Len(asked) + 1 /\ \A r \in 1..Len(asked) : asked'[r] = asked[r]
      BY <1>1, <2>1, AppendFacts DEF Sent, Channel!TypeOK
    <2>4. Channel!Open' = Channel!Open
      BY <2>2 DEF Channel!Open
    <2>5. \A r \in Channel!Requests : answers[r] # Channel!NoAnswer => r \in 1..Len(asked)
      BY <1>1, Naturals, Constants DEF Answering
    <2>6. AnswerIsOwn'
      BY <2>2, <2>3, <2>5 DEF Answering, AnswerIsOwn, Fails
    <2>7. handled # Channel!None => handled \in 1..Len(asked)
      BY <1>1, Naturals, Constants DEF Numbered
    <2>8. stage' = "replying" => result' = AnswerTo(handled)'
      BY <2>2, <2>3, <2>7 DEF Answering, AnswerTo
    <2>9. \A r \in Channel!Requests : answers'[r] # Channel!NoAnswer => r <= Len(asked')
      BY <1>1, <2>2, <2>3, <2>5, Naturals
    <2>10. QED
      BY <2>2, <2>4, <2>6, <2>8, <2>9 DEF Answering
  <1>8. QED
    BY <1>2, <1>3, <1>4, <1>5, <1>6, <1>7, ChannelSteps


--------------------------------------------------------------------------------
(* Time.                                                                   *)

LEMMA DelaysStep ==
  ASSUME TypeOK, Delays, [Next]_vars
  PROVE  Delays'
  <1> USE Constants DEF Delays, Budget, channelVars, runnerVars, surroundings, processVars, simVars
  <1>1. /\ spent \in 0..Timeout /\ wait \in Nat /\ sigAge \in Nat
        /\ rx \in Seq(Channel!Requests)
    BY DEF TypeOK, Channel!TypeOK
  <1>2. CASE Start
    BY <1>1, <1>2 DEF Start, CallMaster
  <1>3. CASE RequestLeaves
    BY <1>1, <1>3 DEF RequestLeaves
  <1>4. CASE MasterAnswers
    BY <1>1, <1>4 DEF MasterAnswers, EndOfCall
  <1>5. CASE CallTimesOut
    BY <1>1, <1>5 DEF CallTimesOut, EndOfCall
  <1>6. CASE OnStart
    BY <1>1, <1>6 DEF OnStart, InitWriter
  <1>7. CASE Listener
    BY <1>1, <1>7 DEF Listener, InLoop
  <1>8. CASE HandleCommand
    BY <1>1, <1>8 DEF HandleCommand
  <1>9. CASE ReplyControl
    BY <1>1, <1>9 DEF ReplyControl, Channel!Reply, MaybeHeartbeat, CallMaster
  <1>10. CASE PollEmpty
    BY <1>1, <1>10 DEF PollEmpty, MaybeHeartbeat, CallMaster
  <1>11. CASE OnStop \/ OnStopReturns
    BY <1>1, <1>11 DEF OnStop, OnStopReturns
  <1>12. CASE Exit \/ Crash
    BY <1>1, <1>12 DEF Exit, Crash, EndOfProcess, Channel!Close
  <1>13. CASE Look \/ PublishOne \/ Sleep \/ Wake \/ UNCHANGED vars
    BY <1>1, <1>13 DEF Look, PublishOne, Sleep, Wake, vars
  <1>14. CASE ClientSends
    <2>1. UNCHANGED <<rx, runnerVars, surroundings>>
      BY <1>14 DEF ClientSends, Channel!Send, Channel!SendAndLeave
    <2>2. QED
      BY <1>1, <2>1
  <1>15. CASE Interrupt
    BY <1>1, <1>15 DEF Interrupt, Listening
  <1>16. CASE Tick
    BY <1>1, <1>16 DEF Tick, Waiting, Idle
  <1>17. QED
    BY <1>2, <1>3, <1>4, <1>5, <1>6, <1>7, <1>8, <1>9, <1>10, <1>11, <1>12, <1>13,
       <1>14, <1>15, <1>16 DEF Next

--------------------------------------------------------------------------------
(* The publishing thread.                                                  *)

LEMMA RoundsStep ==
  ASSUME TypeOK, Rounds, [Next]_vars
  PROVE  Rounds'
  <1> USE DEF Rounds, channelVars, runnerVars, surroundings, processVars, simVars
  <1>1. late \in [Instruments -> Nat]
    BY DEF TypeOK
  <1>2. CASE HandleCommand
    <2>1. CASE UNCHANGED <<subs, late, todo>>
      BY <2>1
    <2>2. CASE \E c : (Subscribe(c) \/ Unsubscribe(c)) /\ todo' = todo
      BY <1>1, <2>2 DEF Subscribe, Unsubscribe
    <2>3. QED
      BY <1>2, <2>1, <2>2 DEF HandleCommand
  <1>3. CASE Look
    BY <1>1, <1>3 DEF Look
  <1>4. CASE PublishOne
    BY <1>1, <1>4 DEF PublishOne, Publish
  <1>5. CASE Exit \/ Crash
    <2>1. \A i \in Instruments : late'[i] = 0
      BY <1>5 DEF Exit, Crash, EndOfProcess
    <2>2. QED
      BY <2>1
  <1>6. CASE UNCHANGED <<late, subs, todo>>
    BY <1>6
  <1>7. QED
    BY <1>2, <1>3, <1>4, <1>5, <1>6
    DEF Next, vars, Start, RequestLeaves, MasterAnswers, CallTimesOut, OnStart, Listener,
        ReplyControl, PollEmpty, OnStop, OnStopReturns, Sleep, Wake, ClientSends,
        Interrupt, Tick

--------------------------------------------------------------------------------
(* The theorems.                                                           *)

LEMMA InitRunner == Init => RunnerInv
  <1> SUFFICES ASSUME Init PROVE RunnerInv
    OBVIOUS
  <1> USE Constants
  <1>1. Channel!TypeOK
    BY DEF Init, Channel!Init, Channel!TypeOK
  <1>2. ProcessTyped
    <2>1. name \in BOOLEAN /\ signal \in BOOLEAN
      BY DEF Init
    <2>2. QED
      BY <2>1 DEF Init, ProcessTyped
  <1>3. SimTyped
    <2>1. running \in BOOLEAN /\ late \in [Instruments -> Nat]
      BY DEF Init
    <2>2. QED
      BY <2>1 DEF Init, SimTyped
  <1>4. Numbered
    BY DEF Init, Channel!Init, Numbered, Increasing
  <1>5. Answering
    BY DEF Init, Channel!Init, Answering, AnswerIsOwn, Channel!Open
  <1>6. Delays /\ Rounds
    BY DEF Init, Channel!Init, Delays, Budget, Rounds
  <1>7. QED
    BY <1>1, <1>2, <1>3, <1>4, <1>5, <1>6, TypeParts DEF RunnerInv

LEMMA RunnerStep == RunnerInv /\ [Next]_vars => RunnerInv'
  <1> SUFFICES ASSUME RunnerInv, [Next]_vars PROVE RunnerInv'
    OBVIOUS
  <1>1. TypeOK'
    <2>1. ProcessTyped
      BY TypeParts DEF RunnerInv
    <2>2. Channel!TypeOK' /\ ProcessTyped' /\ SimTyped'
      BY <2>1, ChannelTyped, ProcessTypes, SimTypes DEF RunnerInv
    <2>3. QED
      BY <2>2 DEF TypeOK, ProcessTyped, SimTyped
  <1>2. QED
    BY <1>1, NumberedStep, AnsweringStep, DelaysStep, RoundsStep DEF RunnerInv

THEOREM RunnerInvariant == Spec => []RunnerInv
  BY InitRunner, RunnerStep, PTL DEF Spec

\* The type invariant of a market gateway's process.
THEOREM RunnerTypeCorrect == Spec => []TypeOK
  BY RunnerInvariant, PTL DEF RunnerInv

\* Whoever meets no other client on the control channel is answered for its own command.
THEOREM AnswersAreOwn == Spec => []AnswerIsOwn
  <1>1. RunnerInv => AnswerIsOwn
    BY DEF RunnerInv, Answering
  <1>2. QED
    BY <1>1, RunnerInvariant, PTL

\* A silent master delays a command, and the shutdown, by two timeouts at the most.
THEOREM LoopKeepsResponding == Spec => []LoopResponds
  <1>1. RunnerInv => LoopResponds
    BY Constants DEF RunnerInv, TypeOK, Delays, Budget, LoopResponds
  <1>2. QED
    BY <1>1, RunnerInvariant, PTL

\* After an unsubscription at most one more book is published.
THEOREM UnsubscribedIsQuiet == Spec => []QuietAfterUnsubscribe
  <1>1. RunnerInv => QuietAfterUnsubscribe
    <2>1. ASSUME RunnerInv, NEW i \in Instruments PROVE late[i] <= 1
      <3>1. late[i] = 0 \/ late[i] = 1
        BY <2>1 DEF RunnerInv, Rounds
      <3>2. QED
        BY <3>1
    <2>2. QED
      BY <2>1 DEF QuietAfterUnsubscribe
  <1>2. QED
    BY <1>1, RunnerInvariant, PTL

================================================================================
