----------------------------- MODULE EchoServer -----------------------------
(***************************************************************************)
(* echo-client_echo-server: a server that sends each UDP message back with *)
(* the number of messages it had from that address, and its interactive    *)
(* clients.  All of them use raw sockets: the kernel gives every raw       *)
(* socket of the host a copy of every UDP packet, so that each program     *)
(* has to pick out its own.  All clients send from 127.0.0.1, port 12345.  *)
(***************************************************************************)
EXTENDS Integers, Sequences

CONSTANTS Clients,       \* client processes
          Others,        \* addresses, with other ports than these two, of other
                         \* programs that send to the server
          ClientAddr,    \* 127.0.0.1:12345
          ServerAddr,    \* 127.0.0.1:8080
          InitCapacity,  \* capacity of init_clients (16)
          MaxQueue,      \* packets a socket holds; the kernel drops others
          MaxSent        \* bound: messages sent

ASSUME EchoAssumption ==
  /\ InitCapacity \in Nat \ {0}
  /\ ServerAddr \notin Others \cup {ClientAddr}

Addrs == Others \cup {ClientAddr}

VARIABLES list,      \* clients_list up to count_of_clients
          capacity,
          server,    \* "recv", or "off" when it has left its loop
          srunning,  \* running of the server
          client,    \* where the main thread of a client is
          receiver,  \* its receiver thread: "on", in its last recvfrom, "off"
          socket,    \* packets waiting for the server and for the clients
          printed,   \* the reply a client printed last
          left,      \* history: how often an address has disconnected
          sent       \* bounded by MaxSent

vars == <<list, capacity, server, srunning, client, receiver, socket, printed, left, sent>>

Server == "server"
Packet(src, dst, text) == [src |-> src, dst |-> dst, text |-> text]

(* What a reply says: the counter.  epoch is history. *)
Reply(epoch, counter) == [kind |-> "reply", epoch |-> epoch, counter |-> counter]
Message == [kind |-> "message"]
Bye == [kind |-> "__CLIENT_DISCONNECT__"]

Init ==
  /\ list = <<>> /\ capacity = InitCapacity
  /\ server = "recv" /\ srunning = TRUE
  /\ client = [c \in Clients |-> "input"]
  /\ receiver = [c \in Clients |-> "on"]
  /\ socket = [p \in Clients \cup {Server} |-> <<>>]
  /\ printed = [c \in Clients |-> Reply(0, 0)]
  /\ left = [a \in Addrs |-> 0]
  /\ sent = 0

(* Sockets somebody still reads: what the others hold is never looked at. *)
IsRead(p) == IF p = Server THEN server # "off" ELSE receiver[p] # "off"

(* sendto: a copy for every socket that has room, given the queues q. *)
Deliver(packet, q) ==
  [p \in DOMAIN q |->
     IF IsRead(p) /\ Len(q[p]) < MaxQueue THEN Append(q[p], packet) ELSE q[p]]

Taken(p) == [socket EXCEPT ![p] = Tail(@)]

-----------------------------------------------------------------------------
(* The server's table. *)

Index(addr) == {i \in DOMAIN list : list[i].addr = addr}

(* Mutant: a full array is not expanded. *)
add_client_unchecked(addr) ==
  /\ list' = Append(list, [addr |-> addr, counter |-> 1])
  /\ UNCHANGED <<capacity, left>>

expand_clients == 2 * capacity

(* A new entry; a full array is expanded first. *)
add_client(addr) ==
  /\ list' = Append(list, [addr |-> addr, counter |-> 1])
  /\ capacity' = IF Len(list) = capacity THEN expand_clients ELSE capacity
  /\ UNCHANGED left

(* Mutant: the counter is taken down again by every second message. *)
count_backwards(i) ==
  /\ list' = [list EXCEPT ![i].counter = IF @ > 1 THEN @ - 1 ELSE @ + 1]
  /\ UNCHANGED <<capacity, left>>

count_message(i) ==
  /\ list' = [list EXCEPT ![i].counter = @ + 1]
  /\ UNCHANGED <<capacity, left>>

(* The entry of a client that says goodbye stays. *)
disconnect(i) ==
  /\ list' = [list EXCEPT ![i].counter = 0]
  /\ left' = [left EXCEPT ![list[i].addr] = @ + 1]
  /\ UNCHANGED capacity

(* find_or_add_client.  The first message of an address is not looked at.  *)
find_or_add_client(addr, text) ==
  \/ Index(addr) = {} /\ add_client(addr)
  \/ \E i \in Index(addr) :
       /\ \A j \in Index(addr) : i <= j
       /\ IF text = Bye THEN disconnect(i) ELSE count_message(i)

disconnected(addr, text) == text = Bye /\ Index(addr) # {}

-----------------------------------------------------------------------------
(* main of the server: one packet. *)

Leaving(running) == IF running THEN "recv" ELSE "off"

(* parse_udp turns down what is not for the server's port. *)
IgnorePacket ==
  /\ server = "recv" /\ socket[Server] # <<>>
  /\ Head(socket[Server]).dst # ServerAddr
  /\ socket' = Taken(Server)
  /\ server' = Leaving(srunning)
  /\ UNCHANGED <<list, capacity, srunning, client, receiver, printed, left, sent>>

(* build_packet: the text and the counter of the table l, to the sender. *)
ReplyTo(addr, l) ==
  LET i == CHOOSE j \in DOMAIN l : l[j].addr = addr
  IN  Packet(ServerAddr, addr, Reply(left[addr], l[i].counter))

Handle ==
  LET packet == Head(socket[Server])
  IN  /\ server = "recv" /\ socket[Server] # <<>>
      /\ packet.dst = ServerAddr
      /\ find_or_add_client(packet.src, packet.text)
      /\ IF disconnected(packet.src, packet.text) THEN socket' = Taken(Server)
         ELSE socket' = Deliver(ReplyTo(packet.src, list'), Taken(Server))
      /\ server' = Leaving(srunning)
      /\ UNCHANGED <<srunning, client, receiver, printed, sent>>

(* SIGINT: recvfrom is interrupted, or the signal came just before it and  *)
(* the server waits for one more packet.                                   *)
Stop ==
  /\ server = "recv" /\ srunning
  /\ srunning' = FALSE
  /\ server' \in {"recv", "off"}
  /\ UNCHANGED <<list, capacity, client, receiver, socket, printed, left, sent>>

-----------------------------------------------------------------------------
(* A client. *)

EndReceiver(c) ==
  /\ receiver' = [receiver EXCEPT ![c] = "off"]
  /\ socket' = [socket EXCEPT ![c] = <<>>]

(* The loop tests running, which a SIGINT that was missed has reset. *)
Again(c) == client' = [client EXCEPT ![c] = IF @ = "missed" THEN "leaving" ELSE "input"]

(* fgets returns an empty line, which is not sent. *)
TypeEmpty(c) ==
  /\ client[c] \in {"input", "missed"}
  /\ Again(c)
  /\ UNCHANGED <<list, capacity, server, srunning, receiver, socket, printed, left, sent>>

(* fgets returns a line, which is sent. *)
Type(c) ==
  /\ client[c] \in {"input", "missed"} /\ sent < MaxSent
  /\ socket' = Deliver(Packet(ClientAddr, ServerAddr, Message), socket)
  /\ Again(c)
  /\ sent' = sent + 1
  /\ UNCHANGED <<list, capacity, server, srunning, receiver, printed, left>>

(* SIGINT interrupts fgets, or hits the receiver thread or the moment      *)
(* before fgets, and the main thread waits for another line.               *)
Interrupt(c) ==
  /\ client[c] = "input"
  /\ \E m \in {"leaving", "missed"} : client' = [client EXCEPT ![c] = m]
  /\ \/ receiver' = [receiver EXCEPT ![c] = "last"] /\ UNCHANGED socket
     \/ EndReceiver(c)
  /\ UNCHANGED <<list, capacity, server, srunning, printed, left, sent>>

(* The disconnect message. *)
Leave(c) ==
  /\ client[c] = "leaving"
  /\ client' = [client EXCEPT ![c] = "cancel"]
  /\ socket' = Deliver(Packet(ClientAddr, ServerAddr, Bye), socket)
  /\ UNCHANGED <<list, capacity, server, srunning, receiver, printed, left, sent>>

(* pthread_cancel, pthread_join and close. *)
Terminate(c) ==
  /\ client[c] = "cancel"
  /\ client' = [client EXCEPT ![c] = "off"]
  /\ EndReceiver(c)
  /\ UNCHANGED <<list, capacity, server, srunning, printed, left, sent>>

(* receiver_thread: replies to port 12345 are printed, whoever asked.  The *)
(* code compares ports only; as no other address has one of the two ports, *)
(* that is to compare addresses.                                           *)
Receive(c) ==
  LET packet == Head(socket[c])
  IN  /\ receiver[c] # "off" /\ socket[c] # <<>>
      /\ printed' = IF packet.dst = ClientAddr /\ packet.src = ServerAddr
                    THEN [printed EXCEPT ![c] = packet.text] ELSE printed
      /\ IF receiver[c] = "last" THEN EndReceiver(c)
         ELSE socket' = Taken(c) /\ UNCHANGED receiver
      /\ UNCHANGED <<list, capacity, server, srunning, client, left, sent>>

(* Another program on the host. *)
OtherSends(a) ==
  /\ sent < MaxSent /\ sent' = sent + 1
  /\ socket' = Deliver(Packet(a, ServerAddr, Message), socket)
  /\ UNCHANGED <<list, capacity, server, srunning, client, receiver, printed, left>>

Next ==
  \/ IgnorePacket \/ Handle \/ Stop
  \/ \E c \in Clients : Type(c) \/ TypeEmpty(c) \/ Interrupt(c) \/ Leave(c)
                          \/ Terminate(c) \/ Receive(c)
  \/ \E a \in Others : OtherSends(a)

Spec == Init /\ [][Next]_vars

-----------------------------------------------------------------------------
(* Properties. *)

(* find_or_add_client: an address has one entry, however often its clients *)
(* leave and others come, and the entries fit into the array.              *)
TableIsConsistent ==
  /\ \A j, k \in DOMAIN list : list[j].addr = list[k].addr => j = k
  /\ Len(list) <= capacity

(* Packets may be lost, and other clients share the address, but a client  *)
(* never prints an older number after a newer one: the numbers grow until  *)
(* a goodbye from the address starts them again.                           *)
RepliesInOrder ==
  [][\A c \in Clients : printed'[c] # printed[c] =>
       \/ printed'[c].epoch > printed[c].epoch
       \/ printed'[c].epoch = printed[c].epoch /\ printed'[c].counter > printed[c].counter]_vars
=============================================================================
