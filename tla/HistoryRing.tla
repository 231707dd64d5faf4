---------------------------- MODULE HistoryRing ----------------------------
(***************************************************************************)
(* The history of message_queues/chat_common_room/src/server.c: an array   *)
(* of MAX_HISTORY entries used as a ring.  push_history adds an entry and  *)
(* overwrites the oldest one when the ring is full; send_history_to_client *)
(* reads it from the oldest entry on.                                      *)
(***************************************************************************)
EXTENDS Integers, Sequences

CONSTANTS Entries,      \* the messages that can be pushed
          NoEntry,      \* an array element that was never written
          MAX_HISTORY

ASSUME HistoryAssumption == MAX_HISTORY \in Nat \ {0}

VARIABLES history, history_start, history_count

ringVars == <<history, history_start, history_count>>

InitHistory ==
  /\ history = [i \in 0 .. MAX_HISTORY - 1 |-> NoEntry]
  /\ history_start = 0
  /\ history_count = 0

(* Where the i-th oldest entry is: send_history_to_client's idx. *)
Index(i) == (history_start + i) % MAX_HISTORY

(* push_history: idx, history_start and history_count after the call. *)
EvictNewest ==  \* mutant: the start of a full ring does not move
  /\ history_start' = history_start
  /\ UNCHANGED history_count

Evict ==
  /\ history_start' = (history_start + 1) % MAX_HISTORY
  /\ UNCHANGED history_count

Push(e) ==
  \/ /\ history_count = MAX_HISTORY
     /\ Evict
     /\ history' = [history EXCEPT
                      ![(history_start' + history_count - 1) % MAX_HISTORY] = e]
  \/ /\ history_count < MAX_HISTORY
     /\ history_count' = history_count + 1
     /\ history' = [history EXCEPT ![Index(history_count)] = e]
     /\ UNCHANGED history_start

PushAny == \E e \in Entries : Push(e)

RingSpec == InitHistory /\ [][PushAny]_ringVars

-----------------------------------------------------------------------------
(* The array, start and count stay in range. *)
RingTypeOK ==
  /\ history \in [0 .. MAX_HISTORY - 1 -> Entries \cup {NoEntry}]
  /\ history_start \in 0 .. MAX_HISTORY - 1
  /\ history_count \in 0 .. MAX_HISTORY

(* What send_history_to_client replays, oldest first. *)
Replay == [i \in 1 .. history_count |-> history[Index(i - 1)]]

(* push_history keeps the last MAX_HISTORY messages in order ("add         *)
(* message, del older"): the ring implements BoundedLog.                   *)
Log == INSTANCE BoundedLog WITH window <- Replay, Capacity <- MAX_HISTORY
RingImplementsLog == Log!Spec
=============================================================================
