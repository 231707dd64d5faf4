------------------------------ MODULE ShmChat ------------------------------
(***************************************************************************)
(* shared_memory/chat_common_room: clients that share one shm_chat_t, an   *)
(* array of messages that only grows, guarded by a process-shared mutex    *)
(* and a condition variable.  The server process initialises the segment   *)
(* and then only pauses; behaviours start after that.                      *)
(*                                                                         *)
(* A client is two threads: the main thread (client_core_start, the input  *)
(* loop, client_core_stop) and shm_reader_thread, which copies messages it *)
(* has not seen to its display and keeps the Clients window.  The critical *)
(* sections of the main thread are one step each; the reader holds the     *)
(* lock over several steps, one per message.                               *)
(***************************************************************************)
EXTENDS Integers, Sequences, FiniteSets

CONSTANTS
  Users,               \* client processes
  MAX_MESSAGES_TOTAL,  \* size of the array of messages
  MAX_CLIENTS,
  MAX_DISPLAY_LINES,
  MaxTexts,            \* bound: texts typed in one behaviour
  ThreadsMayFail       \* whether pthread_create may fail

ASSUME SizeAssumption == /\ MAX_MESSAGES_TOTAL \in Nat
                         /\ MAX_CLIENTS \in Nat
                         /\ MAX_DISPLAY_LINES \in Nat \ {0}
                         /\ MaxTexts \in Nat
ASSUME FlagAssumption == ThreadsMayFail \in BOOLEAN

Nobody  == "nobody"
Overrun == "overrun"
ASSUME UserAssumption == Users \cap {Nobody, Overrun} = {}

VARIABLES
  messages,      \* shm: messages[0 .. msg_count - 1]
  client_count,  \* shm
  lock,          \* shm: the reader that holds the mutex, Nobody or Overrun
  main, reader,  \* control points of the two threads of each client
  stop,          \* [Users -> stop_requested]
  last_msg,      \* [Users -> number of messages the reader has handled]
  lines,         \* [Users -> the displayed lines]
  clients,       \* [Users -> the names of the Clients window]
  texts          \* number of texts typed

shmVars    == <<messages, client_count, lock>>
readerVars == <<last_msg, lines, clients>>
vars == <<shmVars, main, reader, stop, readerVars, texts>>

Msg(kind, u, t) == [sender |-> IF kind = "text" THEN "Client" ELSE "SERVER",
                    kind |-> kind, user |-> u, text |-> t]
Messages == {Msg(k, u, 0) : k \in {"joined", "left"}, u \in Users}
              \cup {Msg("text", u, t) : u \in Users, t \in 1 .. MaxTexts}

msg_count == Len(messages)

-----------------------------------------------------------------------------
Init ==
  /\ messages = <<>>
  /\ client_count = 0
  /\ lock = Nobody
  /\ main = [u \in Users |-> "off"]
  /\ reader = [u \in Users |-> "off"]
  /\ stop = [u \in Users |-> FALSE]
  /\ last_msg = [u \in Users |-> 0]
  /\ lines = [u \in Users |-> <<>>]
  /\ clients = [u \in Users |-> <<>>]
  /\ texts = 0

(* messages[msg_count++] = m.  Past the end of the array the write lands on *)
(* msg_count itself; nothing of what follows is modelled, so the lock is    *)
(* never seen free again.                                                   *)
Post(m) ==
  \/ /\ msg_count < MAX_MESSAGES_TOTAL
     /\ messages' = Append(messages, m)
     /\ UNCHANGED lock
  \/ /\ msg_count = MAX_MESSAGES_TOTAL
     /\ lock' = Overrun
     /\ UNCHANGED messages

(* pthread_cond_broadcast: every reader that waits will test again. *)
Signal ==  \* mutant: pthread_cond_signal wakes one of them
  LET W == {u \in Users : reader[u] = "waiting"} IN
  IF W = {} THEN UNCHANGED reader
  ELSE \E w \in W : reader' = [reader EXCEPT ![w] = "lock"]
Broadcast ==
  reader' = [u \in Users |-> IF reader[u] = "waiting" THEN "lock" ELSE reader[u]]

-----------------------------------------------------------------------------
(***************************************************************************)
(* The main thread of client u.                                            *)
(***************************************************************************)

(* client_core_start up to the unlock. *)
Join(u) ==
  /\ main[u] = "off"
  /\ lock = Nobody
  /\ IF client_count < MAX_CLIENTS
     THEN client_count' = client_count + 1 /\ Post(Msg("joined", u, 0))
     ELSE UNCHANGED <<client_count, messages, lock>>
  /\ Broadcast
  /\ main' = [main EXCEPT ![u] = "create"]
  /\ UNCHANGED <<stop, readerVars, texts>>

(* pthread_create; when it fails the client exits at once. *)
CreateReader(u) ==
  /\ main[u] = "create"
  /\ \/ /\ reader' = [reader EXCEPT ![u] = "check"]
        /\ main' = [main EXCEPT ![u] = "ui"]
     \/ /\ ThreadsMayFail
        /\ main' = [main EXCEPT ![u] = "exited"]
        /\ UNCHANGED reader
  /\ UNCHANGED <<shmVars, stop, readerVars, texts>>

(* client_send_text, called by ui_handle_input_loop. *)
SendText(u) ==
  /\ main[u] = "ui"
  /\ texts < MaxTexts
  /\ lock = Nobody
  /\ Post(Msg("text", u, texts + 1))
  /\ Broadcast
  /\ texts' = texts + 1
  /\ UNCHANGED <<client_count, main, stop, readerVars>>

(* /quit in the input loop; client_core_stop sets the same flag again. *)
Quit(u) ==
  /\ main[u] = "ui"
  /\ stop' = [stop EXCEPT ![u] = TRUE]
  /\ main' = [main EXCEPT ![u] = "leave"]
  /\ UNCHANGED <<shmVars, reader, readerVars, texts>>

(* client_core_stop's critical section. *)
LeaveSilently(u) ==  \* mutant: the readers are woken but there is no message
  /\ main[u] = "leave"
  /\ lock = Nobody
  /\ Broadcast
  /\ main' = [main EXCEPT ![u] = "pthread_join"]
  /\ UNCHANGED <<shmVars, stop, readerVars, texts>>

Leave(u) ==
  /\ main[u] = "leave"
  /\ lock = Nobody
  /\ Post(Msg("left", u, 0))
  /\ Broadcast
  /\ main' = [main EXCEPT ![u] = "pthread_join"]
  /\ UNCHANGED <<client_count, stop, readerVars, texts>>

JoinReader(u) ==
  /\ main[u] = "pthread_join"
  /\ reader[u] = "exited"
  /\ main' = [main EXCEPT ![u] = "exited"]
  /\ UNCHANGED <<shmVars, reader, stop, readerVars, texts>>

-----------------------------------------------------------------------------
(***************************************************************************)
(* shm_reader_thread of client u.                                          *)
(***************************************************************************)
ReaderCheck(u) ==
  /\ reader[u] = "check"
  /\ reader' = [reader EXCEPT ![u] = IF stop[u] THEN "exited" ELSE "lock"]
  /\ UNCHANGED <<shmVars, main, stop, readerVars, texts>>

(* The lock is free and the test of pthread_cond_wait's loop is made. *)
ReaderLock(u) ==
  /\ reader[u] = "lock"
  /\ lock = Nobody
  /\ \/ /\ last_msg[u] >= msg_count
        /\ reader' = [reader EXCEPT ![u] = "waiting"]
        /\ UNCHANGED lock
     \/ /\ last_msg[u] < msg_count
        /\ reader' = [reader EXCEPT ![u] = "drain"]
        /\ lock' = u
  /\ UNCHANGED <<messages, client_count, main, stop, readerVars, texts>>

(* pthread_cond_wait may return although nothing was posted. *)
SpuriousWakeup(u) ==
  /\ reader[u] = "waiting"
  /\ reader' = [reader EXCEPT ![u] = "lock"]
  /\ UNCHANGED <<shmVars, main, stop, readerVars, texts>>

(* The display buffer: memmove when it is full. *)
ShowUnbounded(ls, m) == Append(ls, m)  \* mutant: no test of lines_count
ShowOverLast(ls, m) ==  \* mutant: the newest line is overwritten, not shifted
  IF Len(ls) < MAX_DISPLAY_LINES THEN Append(ls, m)
  ELSE [ls EXCEPT ![MAX_DISPLAY_LINES] = m]
Show(ls, m) == IF Len(ls) < MAX_DISPLAY_LINES THEN Append(ls, m)
               ELSE Append(Tail(ls), m)

(* The Clients window: st->clients after message m. *)
Has(cs, u) == \E i \in DOMAIN cs : cs[i] = u
First(cs, u) == CHOOSE i \in DOMAIN cs : cs[i] = u /\ \A j \in 1 .. i - 1 : cs[j] # u
Without(cs, u) ==  \* the first match goes, the rest is shifted
  [i \in 1 .. Len(cs) - 1 |-> IF i < First(cs, u) THEN cs[i] ELSE cs[i + 1]]
UpdateClientsPop(cs, m) ==  \* mutant: clients_count-- without the shift
  CASE m.kind = "joined" /\ ~Has(cs, m.user) /\ Len(cs) < MAX_CLIENTS
          -> Append(cs, m.user)
    [] m.kind = "left" /\ Has(cs, m.user) -> SubSeq(cs, 1, Len(cs) - 1)
    [] OTHER -> cs
UpdateClients(cs, m) ==
  CASE m.kind = "joined" /\ ~Has(cs, m.user) /\ Len(cs) < MAX_CLIENTS
          -> Append(cs, m.user)
    [] m.kind = "left" /\ Has(cs, m.user) -> Without(cs, m.user)
    [] OTHER -> cs

ReaderShow(u) ==
  /\ reader[u] = "drain"
  /\ last_msg[u] < msg_count
  /\ LET m == messages[last_msg[u] + 1] IN
       /\ clients' = [clients EXCEPT ![u] = UpdateClients(@, m)]
       /\ lines' = [lines EXCEPT ![u] = Show(@, m)]
  /\ last_msg' = [last_msg EXCEPT ![u] = @ + 1]
  /\ UNCHANGED <<shmVars, main, reader, stop, texts>>

ReaderUnlock(u) ==
  /\ reader[u] = "drain"
  /\ last_msg[u] >= msg_count
  /\ lock' = Nobody
  /\ reader' = [reader EXCEPT ![u] = "check"]
  /\ UNCHANGED <<messages, client_count, main, stop, readerVars, texts>>

-----------------------------------------------------------------------------
MainStep(u) == CreateReader(u) \/ Leave(u) \/ JoinReader(u)
ReaderStep(u) == ReaderCheck(u) \/ ReaderLock(u) \/ ReaderShow(u) \/ ReaderUnlock(u)
UserStep(u) == Join(u) \/ SendText(u) \/ Quit(u)

Next == \E u \in Users : \/ MainStep(u) \/ ReaderStep(u)
                        \/ UserStep(u) \/ SpuriousWakeup(u)

Spec == Init /\ [][Next]_vars

(* Every thread that can run does; no user is obliged to type anything. *)
FairSpec == /\ Spec
            /\ \A u \in Users : WF_vars(MainStep(u)) /\ WF_vars(ReaderStep(u))

-----------------------------------------------------------------------------
(* Every variable stays in its type, no display outgrows its buffer, no     *)
(* reader is ahead of the messages, and the mutex is held by exactly the    *)
(* reader that is draining.                                                 *)
TypeOK ==
  /\ messages \in Seq(Messages) /\ msg_count <= MAX_MESSAGES_TOTAL
  /\ client_count \in 0 .. MAX_CLIENTS
  /\ lock \in Users \cup {Nobody, Overrun}
  /\ main \in [Users -> {"off", "create", "ui", "leave", "pthread_join", "exited"}]
  /\ reader \in [Users -> {"off", "check", "lock", "waiting", "drain", "exited"}]
  /\ stop \in [Users -> BOOLEAN]
  /\ last_msg \in [Users -> Nat]
  /\ lines \in [Users -> Seq(Messages)]
  /\ clients \in [Users -> Seq(Users)]
  /\ texts \in 0 .. MaxTexts
  /\ \A u \in Users : /\ last_msg[u] <= msg_count
                      /\ Len(lines[u]) <= MAX_DISPLAY_LINES
                      /\ reader[u] = "drain" <=> lock = u

(* A reader never sleeps on messages it has not shown: no wakeup is lost    *)
(* between a post and the test that precedes pthread_cond_wait.             *)
NoSleepOnUnread ==
  \A u \in Users : reader[u] = "waiting" => last_msg[u] = msg_count

LastN(s, n) == IF Len(s) <= n THEN s ELSE SubSeq(s, Len(s) - n + 1, Len(s))
Seen(u) == SubSeq(messages, 1, last_msg[u])

(* Everybody sees the same conversation: a display is the most recent part  *)
(* of the messages the reader has handled, nothing twice, nothing skipped.  *)
DisplayIsRecent == \A u \in Users : lines[u] = LastN(Seen(u), MAX_DISPLAY_LINES)

(* The Clients window lists each user whose joining was shown and whose     *)
(* leaving was not, and lists it once.                                      *)
Told(u, m) == \E i \in DOMAIN Seen(u) : Seen(u)[i] = m
RosterFollowsMessages ==
  \A u \in Users :
     /\ \A i, j \in DOMAIN clients[u] : clients[u][i] = clients[u][j] => i = j
     /\ \A v \in Users : Has(clients[u], v) <=>
           Told(u, Msg("joined", v, 0)) /\ ~Told(u, Msg("left", v, 0))

(* A user who types /quit gets out: pthread_join does not wait for a reader *)
(* that sleeps for ever, because client_core_stop's own message wakes it.   *)
(* (Not once the array of messages has overflowed.)                         *)
QuitExits ==
  \A u \in Users : (main[u] = "leave") ~> (main[u] = "exited" \/ lock = Overrun)

(* Every text reaches the display of every client that does not quit.       *)
TextsAreDelivered ==
  \A u \in Users : \A t \in 1 .. MaxTexts :
     (texts >= t /\ main[u] = "ui")
        ~> (\/ stop[u] \/ lock = Overrun
            \/ \E i \in DOMAIN Seen(u) : Seen(u)[i].text = t)

-----------------------------------------------------------------------------
(* What the declarations and the user interface say and the code does not do. *)

(* common.h:10 and 29: "message_t messages[MAX_MESSAGES_TOTAL]".  No message  *)
(* is written past the end of the array.                                      *)
MessagesFit == lock # Overrun
=============================================================================
