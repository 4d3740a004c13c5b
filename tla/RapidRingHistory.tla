--------------------------- MODULE RapidRingHistory ---------------------------
(***************************************************************************)
(* The ring with a memory of what each reader has obtained, to compare     *)
(* consecutive deliveries.                                                 *)
(***************************************************************************)
EXTENDS RapidRing

VARIABLE seen  \* reader -> the last whole message it obtained since connecting

historyVars == <<vars, seen>>

\* All words of the copy belong to one message.
Whole(r) == \A v, w \in Words : copy[r][v] = copy[r][w]

Obtained(r) == copy[r][CHOOSE w \in Words : TRUE]

HistoryInit == Init /\ seen = [r \in Readers |-> Zeroed]

HistoryNext ==
  /\ Next
  /\ seen' = [r \in Readers |->
       IF pc'[r] = "off" THEN Zeroed
       ELSE IF pc[r] = "holding" /\ pc'[r] = "idle" /\ Whole(r) THEN Obtained(r)
       ELSE seen[r]]

HistorySpec == HistoryInit /\ [][HistoryNext]_historyVars

\* What a reader obtains from one queue is strictly ordered, as the semantics
\* page of the documentation says: each whole message it copies was written after
\* the one it obtained before.
StrictlyOrdered ==
  \A r \in Readers :
    pc[r] = "holding" /\ toCopy[r] = {} /\ Whole(r) => Obtained(r) > seen[r]

================================================================================
