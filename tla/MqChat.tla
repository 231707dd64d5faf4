------------------------------- MODULE MqChat -------------------------------
(***************************************************************************)
(* message_queues/chat_common_room: a server and its clients talk through  *)
(* POSIX message queues.  The server's queue carries JOIN, MSG and LEAVE;  *)
(* each client has a queue of its own on which the server broadcasts.      *)
(* Every mq_send and mq_receive blocks: on a full queue, on an empty one.  *)
(*                                                                         *)
(* A client is two threads: the main thread (client_core_start, the input  *)
(* loop, client_core_stop) and mq_reader_thread.  The server is a single   *)
(* thread, so its two mutexes never block it.                              *)
(*                                                                         *)
(* A line is what the server sends and a client displays.  Text t is the   *)
(* t-th text typed; the texts of LongTexts are those of 1016 or 1017 bytes *)
(* less the digits of the pid: "MSG:<pid>:<text>" fits a queue message of  *)
(* MAX_MSG_SIZE bytes, "Client_<pid>:<text>" does not.  Texts two bytes    *)
(* and more longer fail in the sender's mq_send and change nothing.        *)
(***************************************************************************)
EXTENDS HistoryRing, FiniteSets, Functions

CONSTANTS
  Users,             \* client processes
  SERVER_MESSAGES,   \* mq_maxmsg of the server's queue (server.c)
  CLIENT_MESSAGES,   \* mq_maxmsg of a client's queue (client.h)
  MAX_DISPLAY_LINES,
  MaxTexts,          \* bound: texts typed in one behaviour
  LongTexts,         \* the texts that do not fit when relayed
  Quitters,          \* the users who may type /quit
  ServerMayStop      \* whether SIGINT may be sent to the server

ASSUME RoomAssumption ==
  /\ SERVER_MESSAGES \in Nat /\ CLIENT_MESSAGES \in Nat
  /\ MAX_DISPLAY_LINES \in Nat \ {0}
  /\ MaxTexts \in Nat

VARIABLES
  sq,               \* the server's queue
  cq,               \* [Users -> the client's queue]
  linked,           \* [Users -> the queue's name exists]
  clients,          \* clients_head: newest first
  server,           \* control point of the server
  stop_requested,   \* the server's flag
  todo,             \* clients broadcast_message has not reached yet
  line,             \* what it is sending
  joiner,           \* the client of the JOIN being handled
  pos,              \* send_history_to_client's i
  main, reader,     \* control points of the two threads of each client
  stop,             \* [Users -> the client's stop_requested]
  closed,           \* [Users -> client_mqd has been closed]
  lines,            \* [Users -> the displayed lines]
  roster,           \* [Users -> the names of the Clients window]
  texts,            \* number of texts typed
  log,              \* history variable: all that push_history was given
  got               \* history variable: all that was put in a client's queue

serverVars == <<clients, history, history_start, history_count, server,
                stop_requested, todo, line, joiner, pos, log>>
clientVars == <<linked, main, reader, stop, closed, lines, roster, texts>>
vars == <<sq, cq, got, serverVars, clientVars>>

Nobody == "nobody"
Line(kind, u, t) == [sender |-> IF kind = "text" THEN "Client" ELSE "SERVER",
                     kind |-> kind, user |-> u, text |-> t]
Lines == {Line(k, u, 0) : k \in {"joined", "left"}, u \in Users}
           \cup {Line("text", u, t) : u \in Users, t \in 1 .. MaxTexts}
Requests == [kind : {"JOIN", "LEAVE"}, from : Users, text : {0}]
              \cup [kind : {"MSG"}, from : Users, text : 1 .. MaxTexts]

\* mq_send of this line to a client succeeds: it fits a queue message.
Fits(l) == l.text \notin LongTexts

\* What the history holds.
ASSUME EntriesAssumption == Entries = Lines
ASSUME NobodyAssumption == Nobody \notin Users

-----------------------------------------------------------------------------
Init ==
  /\ sq = <<>>
  /\ cq = [u \in Users |-> <<>>]
  /\ linked = [u \in Users |-> FALSE]
  /\ clients = <<>>
  /\ InitHistory
  /\ server = "check"
  /\ stop_requested = FALSE
  /\ todo = <<>>
  /\ line = NoEntry
  /\ joiner = Nobody
  /\ pos = 0
  /\ main = [u \in Users |-> "off"]
  /\ reader = [u \in Users |-> "off"]
  /\ stop = [u \in Users |-> FALSE]
  /\ closed = [u \in Users |-> FALSE]
  /\ lines = [u \in Users |-> <<>>]
  /\ roster = [u \in Users |-> {}]
  /\ texts = 0
  /\ log = <<>>
  /\ got = [u \in Users |-> <<>>]

-----------------------------------------------------------------------------
(***************************************************************************)
(* The server.                                                             *)
(***************************************************************************)

(* while (!stop_requested) *)
ServerCheck ==
  /\ server = "check"
  /\ ~stop_requested
  /\ server' = "receive"
  /\ UNCHANGED <<sq, cq, got, clientVars, clients, history, history_start,
                 history_count, stop_requested, todo, line, joiner, pos, log>>

(* cleanup, after the loop: the queue's name is gone, the queue itself      *)
(* stays for the clients that have it open.                                 *)
Cleanup ==
  /\ server = "check"
  /\ stop_requested
  /\ server' = "stopped"
  /\ clients' = <<>>
  /\ UNCHANGED <<sq, cq, got, clientVars, history, history_start,
                 history_count, stop_requested, todo, line, joiner, pos, log>>

(* push_history, then the start of broadcast_message to the clients cs. *)
PushAndBroadcast(l, cs) ==
  /\ Push(l)
  /\ log' = Append(log, l)
  /\ line' = l
  /\ todo' = cs
  /\ server' = "broadcast"

(* remove_client_by_name: the first entry with the name is unlinked. *)
First(cs, u) == CHOOSE i \in DOMAIN cs : cs[i] = u /\ \A j \in 1 .. i - 1 : cs[j] # u
Without(cs, u) ==
  IF u \notin Range(cs) THEN cs
  ELSE [i \in 1 .. Len(cs) - 1 |-> IF i < First(cs, u) THEN cs[i] ELSE cs[i + 1]]

(* JOIN: mq_open fails when the client is already gone. *)
HandleJoin(u) ==
  IF linked[u]
  THEN /\ clients' = IF u \in Range(clients) THEN clients ELSE <<u>> \o clients
       /\ joiner' = u
       /\ PushAndBroadcast(Line("joined", u, 0), clients')
  ELSE /\ server' = "check"
       /\ UNCHANGED <<clients, joiner, history, history_start, history_count,
                      line, todo, log>>

HandleMsg(u, t) ==
  /\ PushAndBroadcast(Line("text", u, t), clients)
  /\ UNCHANGED <<clients, joiner>>

HandleLeaveLast(u) ==  \* mutant: the client is not removed
  /\ PushAndBroadcast(Line("left", u, 0), clients)
  /\ UNCHANGED <<clients, joiner>>

HandleLeave(u) ==
  /\ clients' = Without(clients, u)
  /\ PushAndBroadcast(Line("left", u, 0), clients')
  /\ UNCHANGED joiner

ServerReceive ==
  /\ server = "receive"
  /\ sq # <<>>
  /\ sq' = Tail(sq)
  /\ LET r == Head(sq) IN
       \/ r.kind = "JOIN" /\ HandleJoin(r.from)
       \/ r.kind = "MSG" /\ HandleMsg(r.from, r.text)
       \/ r.kind = "LEAVE" /\ HandleLeave(r.from)
  /\ UNCHANGED <<cq, got, clientVars, stop_requested, pos>>

Room(u) == Len(cq[u]) < CLIENT_MESSAGES
Deliver(u, l) ==
  /\ cq' = [cq EXCEPT ![u] = Append(@, l)]
  /\ got' = [got EXCEPT ![u] = Append(@, l)]

(* One mq_send of broadcast_message; a line too long for the queue is      *)
(* reported on stderr and skipped.                                         *)
BroadcastSkipsFull ==  \* mutant: O_NONBLOCK, the line is lost on a full queue
  /\ server = "broadcast"
  /\ todo # <<>>
  /\ IF Fits(line) /\ Room(Head(todo)) THEN Deliver(Head(todo), line)
                                       ELSE UNCHANGED <<cq, got>>
  /\ todo' = Tail(todo)
  /\ UNCHANGED <<sq, clientVars, clients, history, history_start,
                 history_count, server, stop_requested, line, joiner, pos, log>>

BroadcastStep ==
  /\ server = "broadcast"
  /\ todo # <<>>
  /\ \/ Fits(line) /\ Room(Head(todo)) /\ Deliver(Head(todo), line)
     \/ ~Fits(line) /\ UNCHANGED <<cq, got>>
  /\ todo' = Tail(todo)
  /\ UNCHANGED <<sq, clientVars, clients, history, history_start,
                 history_count, server, stop_requested, line, joiner, pos, log>>

BroadcastDone ==
  /\ server = "broadcast"
  /\ todo = <<>>
  /\ server' = IF joiner = Nobody THEN "check" ELSE "replay"
  /\ pos' = 0
  /\ UNCHANGED <<sq, cq, got, clientVars, clients, history, history_start,
                 history_count, stop_requested, todo, line, joiner, log>>

(* send_history_to_client: stops at the end or at the first mq_send that   *)
(* fails.                                                                  *)
ReplayFrom(i) == history[Index(i)]
MoreToReplay == pos < history_count /\ Fits(ReplayFrom(pos))

ReplayStep ==
  /\ server = "replay"
  /\ MoreToReplay
  /\ Room(joiner)
  /\ Deliver(joiner, ReplayFrom(pos))
  /\ pos' = pos + 1
  /\ UNCHANGED <<sq, clientVars, clients, history, history_start,
                 history_count, server, stop_requested, todo, line, joiner, log>>


ReplayDone ==
  /\ server = "replay"
  /\ ~MoreToReplay
  /\ server' = "check"
  /\ joiner' = Nobody
  /\ UNCHANGED <<sq, cq, got, clientVars, clients, history, history_start,
                 history_count, stop_requested, todo, line, pos, log>>

(* sigint_handler.  A blocked mq_receive or mq_send fails with EINTR; a    *)
(* signal that comes just before the call does not stop it from blocking.  *)
Interrupt ==
  /\ ServerMayStop
  /\ server # "stopped"
  /\ stop_requested' = TRUE
  /\ \/ UNCHANGED <<server, todo, joiner>>
     \/ /\ server = "receive" /\ sq = <<>>
        /\ server' = "check"
        /\ UNCHANGED <<todo, joiner>>
     \/ /\ server = "broadcast" /\ todo # <<>> /\ Fits(line) /\ ~Room(Head(todo))
        /\ todo' = Tail(todo)
        /\ UNCHANGED <<server, joiner>>
     \/ /\ server = "replay" /\ MoreToReplay /\ ~Room(joiner)
        /\ server' = "check"
        /\ joiner' = Nobody
        /\ UNCHANGED todo
  /\ UNCHANGED <<sq, cq, got, clientVars, clients, history, history_start,
                 history_count, line, pos, log>>

-----------------------------------------------------------------------------
(***************************************************************************)
(* The main thread of client u.                                            *)
(***************************************************************************)
Request(kind, u, t) ==
  /\ Len(sq) < SERVER_MESSAGES
  /\ sq' = Append(sq, [kind |-> kind, from |-> u, text |-> t])

(* client_core_start up to pthread_create.  With the server's queue gone   *)
(* it undoes what it did and the client exits, as if never started.        *)
OpenQueues(u) ==
  /\ main[u] = "off"
  /\ server # "stopped"
  /\ linked' = [linked EXCEPT ![u] = TRUE]
  /\ reader' = [reader EXCEPT ![u] = "check"]
  /\ main' = [main EXCEPT ![u] = "join"]
  /\ UNCHANGED <<sq, cq, got, serverVars, stop, closed, lines, roster, texts>>

SendJoin(u) ==
  /\ main[u] = "join"
  /\ Request("JOIN", u, 0)
  /\ main' = [main EXCEPT ![u] = "ui"]
  /\ UNCHANGED <<cq, got, serverVars, linked, reader, stop, closed, lines,
                 roster, texts>>

(* client_send_text, called by ui_handle_input_loop. *)
SendText(u) ==
  /\ main[u] = "ui"
  /\ texts < MaxTexts
  /\ Request("MSG", u, texts + 1)
  /\ texts' = texts + 1
  /\ UNCHANGED <<cq, got, serverVars, linked, main, reader, stop, closed,
                 lines, roster>>

(* /quit in the input loop; client_core_stop sets the same flag again. *)
Quit(u) ==
  /\ u \in Quitters
  /\ main[u] = "ui"
  /\ stop' = [stop EXCEPT ![u] = TRUE]
  /\ main' = [main EXCEPT ![u] = "leave"]
  /\ UNCHANGED <<sq, cq, got, serverVars, linked, reader, closed, lines,
                 roster, texts>>

SendLeave(u) ==
  /\ main[u] = "leave"
  /\ Request("LEAVE", u, 0)
  /\ main' = [main EXCEPT ![u] = "close"]
  /\ UNCHANGED <<cq, got, serverVars, linked, reader, stop, closed, lines,
                 roster, texts>>

CloseQueue(u) ==
  /\ main[u] = "close"
  /\ closed' = [closed EXCEPT ![u] = TRUE]
  /\ main' = [main EXCEPT ![u] = "pthread_join"]
  /\ UNCHANGED <<sq, cq, got, serverVars, linked, reader, stop, lines, roster,
                 texts>>

(* pthread_join returns; mq_unlink. *)
JoinReader(u) ==
  /\ main[u] = "pthread_join"
  /\ reader[u] = "exited"
  /\ linked' = [linked EXCEPT ![u] = FALSE]
  /\ main' = [main EXCEPT ![u] = "exited"]
  /\ UNCHANGED <<sq, cq, got, serverVars, reader, stop, closed, lines, roster,
                 texts>>

-----------------------------------------------------------------------------
(***************************************************************************)
(* mq_reader_thread of client u.                                           *)
(***************************************************************************)
ReaderCheck(u) ==
  /\ reader[u] = "check"
  /\ reader' = [reader EXCEPT ![u] = IF stop[u] THEN "exited" ELSE "call"]
  /\ UNCHANGED <<sq, cq, got, serverVars, linked, main, stop, closed, lines,
                 roster, texts>>

(* The call of mq_receive.  It fails at once on a closed descriptor, but   *)
(* closing the descriptor does not wake a call that is already waiting.    *)
ReaderCall(u) ==
  /\ reader[u] = "call"
  /\ reader' = [reader EXCEPT ![u] = IF closed[u] THEN "check" ELSE "wait"]
  /\ UNCHANGED <<sq, cq, got, serverVars, linked, main, stop, closed, lines,
                 roster, texts>>

(* The display buffer: memmove when it is full. *)
ShowUnbounded(ls, l) == Append(ls, l)  \* mutant
ShowOverLast(ls, l) ==  \* mutant: the newest line is overwritten, not shifted
  IF Len(ls) < MAX_DISPLAY_LINES THEN Append(ls, l)
  ELSE [ls EXCEPT ![MAX_DISPLAY_LINES] = l]
Show(ls, l) == IF Len(ls) < MAX_DISPLAY_LINES THEN Append(ls, l)
               ELSE Append(Tail(ls), l)

(* The Clients window follows lines that start with "[SERVER]:User "; a    *)
(* line starts with its sender.  The name is scanned from offset 12, which *)
(* is the "r" of "User".                                                   *)
Announces(l) == l.sender = "[SERVER]"
ScannedName(l) == "r"
UpdateRoster(r, l) ==
  CASE Announces(l) /\ l.kind = "joined" -> r \cup {ScannedName(l)}
    [] Announces(l) /\ l.kind = "left"   -> r \ {ScannedName(l)}
    [] OTHER                             -> r

ReaderReceive(u) ==
  /\ reader[u] = "wait"
  /\ cq[u] # <<>>
  /\ cq' = [cq EXCEPT ![u] = Tail(@)]
  /\ lines' = [lines EXCEPT ![u] = Show(@, Head(cq[u]))]
  /\ roster' = [roster EXCEPT ![u] = UpdateRoster(@, Head(cq[u]))]
  /\ reader' = [reader EXCEPT ![u] = "check"]
  /\ UNCHANGED <<sq, got, serverVars, linked, main, stop, closed, texts>>

-----------------------------------------------------------------------------
ServerStep == \/ ServerCheck \/ ServerReceive \/ BroadcastStep
              \/ BroadcastDone \/ ReplayStep \/ ReplayDone \/ Cleanup
MainStep(u) == SendJoin(u) \/ SendLeave(u) \/ CloseQueue(u) \/ JoinReader(u)
ReaderStep(u) == ReaderCheck(u) \/ ReaderCall(u) \/ ReaderReceive(u)
UserStep(u) == OpenQueues(u) \/ SendText(u) \/ Quit(u)

Next == \/ ServerStep
        \/ Interrupt
        \/ \E u \in Users : MainStep(u) \/ ReaderStep(u) \/ UserStep(u)

Spec == Init /\ [][Next]_vars

(* Threads that can run do run.  mq_send wakes the longest waiting sender,  *)
(* so a sender that waits for room is not overtaken for ever: strong       *)
(* fairness for the threads that compete for the server's queue.           *)
FairSpec == /\ Spec
            /\ WF_vars(ServerStep)
            /\ \A u \in Users : SF_vars(MainStep(u)) /\ WF_vars(ReaderStep(u))

-----------------------------------------------------------------------------
(* Every variable stays in its type; no queue ever holds more than its      *)
(* mq_maxmsg and no display more than MAX_DISPLAY_LINES lines.              *)
TypeOK ==
  /\ sq \in Seq(Requests) /\ Len(sq) <= SERVER_MESSAGES
  /\ cq \in [Users -> Seq(Lines)] /\ \A u \in Users : Len(cq[u]) <= CLIENT_MESSAGES
  /\ linked \in [Users -> BOOLEAN]
  /\ clients \in Seq(Users) /\ todo \in Seq(Users)
  /\ RingTypeOK
  /\ server \in {"check", "receive", "broadcast", "replay", "stopped"}
  /\ stop_requested \in BOOLEAN
  /\ line \in Lines \cup {NoEntry}
  /\ joiner \in Users \cup {Nobody}
  /\ pos \in 0 .. MAX_HISTORY
  /\ main \in [Users -> {"off", "join", "ui", "leave", "close",
                         "pthread_join", "exited"}]
  /\ reader \in [Users -> {"off", "check", "call", "wait", "exited"}]
  /\ stop \in [Users -> BOOLEAN] /\ closed \in [Users -> BOOLEAN]
  /\ lines \in [Users -> Seq(Lines)]
  /\ \A u \in Users : Len(lines[u]) <= MAX_DISPLAY_LINES
  /\ roster \in [Users -> SUBSET {"r"}]
  /\ texts \in 0 .. MaxTexts
  /\ log \in Seq(Lines) /\ got \in [Users -> Seq(Lines)]

LastN(s, n) == IF Len(s) <= n THEN s ELSE SubSeq(s, Len(s) - n + 1, Len(s))
Segments(s) == {SubSeq(s, a, b) : a \in 1 .. Len(s) + 1, b \in 0 .. Len(s)}

(* Every client sees the room in the same order and without gaps: what it  *)
(* is sent is one unbroken stretch of the log, preceded by the broadcast   *)
(* of its own JOIN (which the history then repeats).  It holds across      *)
(* blocked sends, joins, leaves and SIGINT, as long as all that was said   *)
(* fits a queue message.                                                   *)
OrderedDelivery ==
  (\A i \in DOMAIN log : Fits(log[i])) => \A u \in Users :
     \/ got[u] \in Segments(log)
     \/ got[u] # <<>> /\ Head(got[u]) = Line("joined", u, 0)
                      /\ Tail(got[u]) \in Segments(log)

(* The display of a client is the most recent part of what was put in its  *)
(* queue and taken out again: nothing is shown twice, skipped or reordered *)
(* between the queue and the window, also after the buffer is full.        *)
Taken(u) == SubSeq(got[u], 1, Len(got[u]) - Len(cq[u]))
DisplayIsRecent == \A u \in Users : lines[u] = LastN(Taken(u), MAX_DISPLAY_LINES)

(* A client that sent LEAVE is never in the server's list again once its   *)
(* requests are handled, so the server does not go on filling its queue.   *)
LeftIsForgotten ==
  \A u \in Users :
     /\ main[u] \in {"close", "pthread_join", "exited"}
     /\ \A i \in DOMAIN sq : sq[i].from # u
     => u \notin Range(clients)

(* As long as nobody quits and the history still holds a text when a       *)
(* client joins, the text reaches the display of every client that joined, *)
(* by broadcast or by replay, although the server and the clients block on *)
(* each other's full queues.                                               *)
TextsAreDelivered ==
  \A u \in Users : \A t \in 1 .. MaxTexts :
     (texts >= t /\ main[u] = "ui") ~> (\E i \in DOMAIN Taken(u) : Taken(u)[i].text = t)

-----------------------------------------------------------------------------
(* What the program says of itself and does not do.                        *)

(* client_ui.c:104, the input window: "(type /quit to exit)".  A user who   *)
(* types /quit gets out of the client.                                      *)
QuitExits == \A u \in Users : (main[u] = "leave") ~> (main[u] = "exited")

(* server.c:73: "broadcast sending messages to all clients".  A broadcast   *)
(* comes to its end.                                                        *)
BroadcastCompletes == (server = "broadcast") ~> (server # "broadcast")
=============================================================================
