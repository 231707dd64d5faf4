------------------------- MODULE EchoServerProofs -------------------------
(***************************************************************************)
(* The server's table is consistent, and every client prints its replies   *)
(* in order, for any number of clients and of other senders, any initial   *)
(* capacity and any size of the sockets' buffers.                          *)
(***************************************************************************)
EXTENDS EchoServer, TLAPS

Entries == [addr : Addrs, counter : Nat]
Replies == [kind : {"reply"}, epoch : Nat, counter : Nat]
Texts == {Message, Bye} \cup Replies

(* Only the server sends from its own address, replies and never to itself. *)
Packets ==
  {p \in [src : Addrs \cup {ServerAddr}, dst : Addrs \cup {ServerAddr}, text : Texts] :
     /\ p.dst = ServerAddr => p.src \in Addrs
     /\ p.src = ServerAddr => p.text \in Replies}

Sockets == [Clients \cup {Server} -> Seq(Packets)]

(* The inductive invariant. *)
EchoInv ==
  /\ list \in Seq(Entries)
  /\ capacity \in Nat \ {0}
  /\ left \in [Addrs -> Nat]
  /\ socket \in Sockets
  /\ TableIsConsistent

-----------------------------------------------------------------------------

(* sendto keeps the queues well formed. *)
LEMMA DeliverOK ==
  ASSUME NEW packet \in Packets, NEW q \in Sockets
  PROVE  Deliver(packet, q) \in Sockets
  BY DEF Deliver, Sockets

(* recvfrom keeps them well formed, and returns a packet. *)
LEMMA TakenOK ==
  ASSUME EchoInv, NEW p \in Clients \cup {Server}, socket[p] # <<>>
  PROVE  Taken(p) \in Sockets /\ Head(socket[p]) \in Packets
<1>1. socket[p] \in Seq(Packets)
  BY DEF EchoInv, Sockets
<1>2. Tail(socket[p]) \in Seq(Packets) /\ Head(socket[p]) \in Packets
  BY <1>1
<1> QED
  BY <1>2 DEF Taken, EchoInv, Sockets

(* The packets the programs build. *)
LEMMA MessagesOK ==
  ASSUME NEW a \in Addrs, NEW text \in {Message, Bye}
  PROVE  Packet(a, ServerAddr, text) \in Packets
<1>1. text \in Texts /\ a # ServerAddr
  BY EchoAssumption DEF Texts, Addrs
<1> QED
  BY <1>1 DEF Packet, Packets

(* The reply build_packet makes for a sender that is in the table. *)
LEMMA ReplyOK ==
  ASSUME NEW a \in Addrs, NEW l \in Seq(Entries), left \in [Addrs -> Nat],
         \E j \in DOMAIN l : l[j].addr = a
  PROVE  ReplyTo(a, l) \in Packets
<1> DEFINE i == CHOOSE j \in DOMAIN l : l[j].addr = a
           n == l[i].counter
           e == left[a]
<1>1. i \in DOMAIN l
  OBVIOUS
<1>2. n \in Nat /\ e \in Nat
  <2> HIDE DEF i
  <2>1. l[i] \in Entries
    BY <1>1
  <2> QED
    BY <2>1 DEF Entries
<1>3. ReplyTo(a, l) = Packet(ServerAddr, a, Reply(e, n))
  BY DEF ReplyTo
<1> HIDE DEF n, e
<1>4. Reply(e, n) \in Texts /\ Reply(e, n) \in Replies
  BY <1>2 DEF Reply, Texts, Replies
<1>5. a # ServerAddr
  BY EchoAssumption DEF Addrs
<1> QED
  BY <1>3, <1>4, <1>5 DEF Packet, Packets

(* find_or_add_client keeps the table consistent, and the address has an   *)
(* entry afterwards.                                                       *)
LEMMA TableStep ==
  ASSUME EchoInv, NEW addr \in Addrs, NEW text, find_or_add_client(addr, text)
  PROVE  /\ list' \in Seq(Entries)
         /\ capacity' \in Nat \ {0}
         /\ left' \in [Addrs -> Nat]
         /\ TableIsConsistent'
         /\ \E j \in DOMAIN list' : list'[j].addr = addr
<1> USE DEF EchoInv
<1>1. CASE Index(addr) = {} /\ add_client(addr)
  <2> DEFINE e == [addr |-> addr, counter |-> 1]
  <2>1. e \in Entries /\ e.addr = addr
    BY DEF Entries
  <2>2. list' = Append(list, e) /\ left' = left
    BY <1>1 DEF add_client
  <2>3. capacity' = IF Len(list) = capacity THEN 2 * capacity ELSE capacity
    BY <1>1 DEF add_client, expand_clients
  <2>4. \A i \in DOMAIN list : list[i].addr # addr
    BY <1>1 DEF Index
  <2> HIDE DEF e
  <2>5. /\ list' \in Seq(Entries) /\ Len(list') = Len(list) + 1
        /\ \A i \in 1 .. Len(list) : list'[i] = list[i]
        /\ list'[Len(list) + 1] = e
        /\ DOMAIN list' = 1 .. Len(list) + 1 /\ DOMAIN list = 1 .. Len(list)
    BY <2>1, <2>2
  <2>6. \A j, k \in DOMAIN list' : list'[j].addr = list'[k].addr => j = k
    <3> SUFFICES ASSUME NEW j \in 1 .. Len(list) + 1, NEW k \in 1 .. Len(list) + 1,
                        list'[j].addr = list'[k].addr
                 PROVE  j = k
      BY <2>5
    <3>1. CASE j \in 1 .. Len(list) /\ k \in 1 .. Len(list)
      BY <3>1, <2>5, Zenon DEF TableIsConsistent
    <3>2. CASE j = Len(list) + 1 \/ k = Len(list) + 1
      BY <3>2, <2>1, <2>4, <2>5
    <3> QED
      BY <3>1, <3>2
  <2>7. Len(list') <= capacity' /\ capacity' \in Nat \ {0}
    <3> DEFINE len == Len(list)
    <3>1. len \in Nat /\ len <= capacity /\ capacity \in Nat \ {0}
      BY DEF TableIsConsistent
    <3>2. Len(list') = len + 1
      BY <2>5
    <3>3. capacity' = IF len = capacity THEN 2 * capacity ELSE capacity
      BY <2>3
    <3> HIDE DEF len, EchoInv
    <3> QED
      BY <3>1, <3>2, <3>3
  <2>8. \E j \in DOMAIN list' : list'[j].addr = addr
    <3>1. Len(list) + 1 \in DOMAIN list'
      BY <2>5
    <3> QED
      BY <2>1, <2>5, <3>1
  <2>9. TableIsConsistent'
    BY <2>6, <2>7 DEF TableIsConsistent
  <2> QED
    BY <2>2, <2>5, <2>7, <2>8, <2>9
<1>2. ASSUME NEW i \in Index(addr), IF text = Bye THEN disconnect(i) ELSE count_message(i)
      PROVE  /\ list' \in Seq(Entries)
             /\ capacity' \in Nat \ {0}
             /\ left' \in [Addrs -> Nat]
             /\ TableIsConsistent'
             /\ \E j \in DOMAIN list' : list'[j].addr = addr
  <2>1. i \in 1 .. Len(list) /\ list[i].addr = addr /\ list[i] \in Entries
    BY DEF Index
  <2>2. PICK n \in Nat : list' = [list EXCEPT ![i].counter = n]
    <3>1. CASE text = Bye
      BY <1>2, <3>1, Zenon DEF disconnect
    <3>2. CASE text # Bye
      <4>1. list' = [list EXCEPT ![i].counter = list[i].counter + 1]
        BY <1>2, <3>2 DEF count_message
      <4>2. list[i].counter + 1 \in Nat
        BY <2>1 DEF Entries
      <4> QED
        BY <4>1, <4>2, Zenon
    <3> QED
      BY <3>1, <3>2
  <2>3. capacity' = capacity /\ left' \in [Addrs -> Nat]
    BY <1>2, <2>1 DEF disconnect, count_message
  <2>4. /\ list' \in Seq(Entries) /\ Len(list') = Len(list) /\ DOMAIN list' = DOMAIN list
        /\ \A j \in DOMAIN list : list'[j].addr = list[j].addr
    BY <2>1, <2>2 DEF Entries
  <2>5. TableIsConsistent'
    BY <2>3, <2>4 DEF TableIsConsistent
  <2>6. \E j \in DOMAIN list' : list'[j].addr = addr
    BY <2>1, <2>4
  <2> QED
    BY <2>3, <2>4, <2>5, <2>6
<1> QED
  BY <1>1, <1>2 DEF find_or_add_client

-----------------------------------------------------------------------------

(* The invariant holds at the start. *)
LEMMA EchoInit == Init => EchoInv
  BY EchoAssumption DEF Init, EchoInv, Sockets, TableIsConsistent

(* One packet of the server. *)
LEMMA HandleStep == EchoInv /\ Handle => EchoInv'
<1> SUFFICES ASSUME EchoInv, Handle
             PROVE  EchoInv'
  OBVIOUS
<1> DEFINE packet == Head(socket[Server])
<1>1. Taken(Server) \in Sockets /\ packet \in Packets
  BY TakenOK DEF Handle
<1>2. packet.src \in Addrs
  BY <1>1 DEF Handle, Packets
<1>3. /\ list' \in Seq(Entries)
      /\ capacity' \in Nat \ {0}
      /\ left' \in [Addrs -> Nat]
      /\ TableIsConsistent'
      /\ \E j \in DOMAIN list' : list'[j].addr = packet.src
  BY <1>2, TableStep DEF Handle
<1>4. socket' \in Sockets
  <2>1. socket' = Taken(Server) \/ socket' = Deliver(ReplyTo(packet.src, list'), Taken(Server))
    BY DEF Handle
  <2>2. left \in [Addrs -> Nat]
    BY DEF EchoInv
  <2>3. ReplyTo(packet.src, list') \in Packets
    BY <1>2, <1>3, <2>2, ReplyOK, Zenon
  <2> QED
    BY <1>1, <2>1, <2>3, DeliverOK
<1> QED
  BY <1>3, <1>4 DEF EchoInv

(* Every other step leaves the table alone. *)
LEMMA EchoInvStep == EchoInv /\ [Next]_vars => EchoInv'
<1> SUFFICES ASSUME EchoInv, [Next]_vars
             PROVE  EchoInv'
  OBVIOUS
<1>0. ASSUME UNCHANGED <<list, capacity, left>>, socket' \in Sockets
      PROVE  EchoInv'
  BY <1>0 DEF EchoInv, TableIsConsistent
<1>a. socket \in Sockets
  BY DEF EchoInv
<1>1. CASE Handle
  BY <1>1, HandleStep
<1>2. CASE IgnorePacket
  BY <1>0, <1>2, TakenOK DEF IgnorePacket
<1>3. CASE Stop
  BY <1>0, <1>3, <1>a DEF Stop
<1>b. ASSUME NEW c \in Clients, EndReceiver(c)
      PROVE  socket' \in Sockets
  BY <1>a, <1>b DEF EndReceiver, Sockets
<1>c. ClientAddr \in Addrs
  BY DEF Addrs
<1>4. ASSUME NEW c \in Clients, Type(c)
      PROVE  EchoInv'
  BY <1>0, <1>4, <1>a, <1>c, MessagesOK, DeliverOK DEF Type
<1>5. ASSUME NEW c \in Clients, TypeEmpty(c)
      PROVE  EchoInv'
  BY <1>0, <1>5, <1>a DEF TypeEmpty
<1>6. ASSUME NEW c \in Clients, Interrupt(c)
      PROVE  EchoInv'
  BY <1>0, <1>6, <1>a, <1>b DEF Interrupt
<1>7. ASSUME NEW c \in Clients, Leave(c)
      PROVE  EchoInv'
  BY <1>0, <1>7, <1>a, <1>c, MessagesOK, DeliverOK DEF Leave
<1>8. ASSUME NEW c \in Clients, Terminate(c)
      PROVE  EchoInv'
  BY <1>0, <1>8, <1>b DEF Terminate
<1>9. ASSUME NEW c \in Clients, Receive(c)
      PROVE  EchoInv'
  BY <1>0, <1>9, <1>b, TakenOK DEF Receive
<1>10. ASSUME NEW a \in Others, OtherSends(a)
       PROVE  EchoInv'
  <2>1. a \in Addrs
    BY DEF Addrs
  <2> QED
    BY <1>0, <1>10, <1>a, <2>1, MessagesOK, DeliverOK DEF OtherSends
<1>11. CASE UNCHANGED vars
  BY <1>0, <1>11, <1>a DEF vars
<1> QED
  BY <1>1, <1>2, <1>3, <1>4, <1>5, <1>6, <1>7, <1>8, <1>9, <1>10, <1>11 DEF Next

(* For every set of senders and every initial capacity, find_or_add_client *)
(* never makes a second entry for an address nor writes past the array.    *)
THEOREM TableStaysConsistent == Spec => []TableIsConsistent
<1>1. EchoInv => TableIsConsistent
  BY DEF EchoInv
<1> QED
  BY <1>1, EchoInit, EchoInvStep, PTL DEF Spec

-----------------------------------------------------------------------------
(* The numbers a client prints.                                            *)

(* A packet the receiver thread of a client prints. *)
Printable(p) == p.src = ServerAddr /\ p.dst = ClientAddr

(* s is a later number than r: of a later epoch, or greater in the same. *)
Later(r, s) ==
  \/ s.epoch > r.epoch
  \/ s.epoch = r.epoch /\ s.counter > r.counter

(* The table l has already come to the number r in the epoch e. *)
Given(r, l, e) ==
  \/ r.epoch < e
  \/ /\ r.epoch = e
     /\ \/ r.counter = 0
        \/ \E i \in DOMAIN l : l[i].addr = ClientAddr /\ r.counter <= l[i].counter

(* The replies in the queue q come in order, after the printed number r,   *)
(* and the table is not behind them.                                       *)
InOrder(q, r, l, e) ==
  /\ Given(r, l, e)
  /\ \A i \in DOMAIN q : Printable(q[i]) =>
       /\ Given(q[i].text, l, e) /\ Later(r, q[i].text)
       /\ \A j \in 1 .. i - 1 : Printable(q[j]) => Later(q[j].text, q[i].text)

OrderInv ==
  /\ EchoInv
  /\ printed \in [Clients -> Replies]
  /\ \A c \in Clients : InOrder(socket[c], printed[c], list, left[ClientAddr])

(* A packet from the queue: the rest stays in order, after it if printed. *)
LEMMA OrderTail ==
  ASSUME NEW q \in Seq(Packets), q # <<>>, NEW r, NEW l, NEW e, InOrder(q, r, l, e)
  PROVE  /\ InOrder(Tail(q), r, l, e)
         /\ Printable(Head(q)) =>
              /\ Later(r, Head(q).text) /\ Given(Head(q).text, l, e)
              /\ InOrder(Tail(q), Head(q).text, l, e)
<1> DEFINE t == Tail(q)
<1>1. /\ DOMAIN q = 1 .. Len(q) /\ Len(q) \in Nat \ {0} /\ Head(q) = q[1]
      /\ DOMAIN t = 1 .. Len(q) - 1
      /\ \A i \in 1 .. Len(q) - 1 : t[i] = q[i + 1]
  OBVIOUS
<1> HIDE DEF t
<1>2. ASSUME NEW i \in DOMAIN t, Printable(t[i])
      PROVE  /\ Given(t[i].text, l, e) /\ Later(r, t[i].text)
             /\ Printable(q[1]) => Later(q[1].text, t[i].text)
             /\ \A j \in 1 .. i - 1 : Printable(t[j]) => Later(t[j].text, t[i].text)
  <2>1. /\ i + 1 \in DOMAIN q /\ t[i] = q[i + 1] /\ 1 \in 1 .. (i + 1) - 1
        /\ \A j \in 1 .. i - 1 : j + 1 \in 1 .. (i + 1) - 1 /\ t[j] = q[j + 1]
    BY <1>1
  <2>2. /\ Given(q[i + 1].text, l, e) /\ Later(r, q[i + 1].text)
        /\ \A j \in 1 .. (i + 1) - 1 : Printable(q[j]) => Later(q[j].text, q[i + 1].text)
    BY <1>2, <2>1, Zenon DEF InOrder
  <2> QED BY <2>1, <2>2, Zenon
<1>3. InOrder(t, r, l, e)
  BY <1>2, Zenon DEF InOrder
<1>4. ASSUME Printable(q[1])
      PROVE  Later(r, q[1].text) /\ Given(q[1].text, l, e) /\ InOrder(t, q[1].text, l, e)
  <2>1. 1 \in DOMAIN q
    BY <1>1
  <2>2. Later(r, q[1].text) /\ Given(q[1].text, l, e)
    BY <1>4, <2>1, Zenon DEF InOrder
  <2> QED BY <1>2, <1>4, <2>2, Zenon DEF InOrder
<1> QED BY <1>1, <1>3, <1>4, Zenon DEF t

(* The table moves on from l, e to m, f, and what was given stays given. *)
LEMMA OrderKept ==
  ASSUME NEW q \in Seq(Packets), NEW r \in Replies, NEW l, NEW e, NEW m, NEW f,
         InOrder(q, r, l, e), \A x \in Replies : Given(x, l, e) => Given(x, m, f)
  PROVE  InOrder(q, r, m, f)
<1>1. ASSUME NEW i \in DOMAIN q, Printable(q[i]) PROVE q[i].text \in Replies
  <2>1. q[i] \in Packets
    OBVIOUS
  <2> QED BY <1>1, <2>1, Zenon DEF Packets, Printable
<1> QED BY <1>1, Zenon DEF InOrder

(* A packet comes in: if it is printed, it is later than all that was given. *)
LEMMA OrderAppend ==
  ASSUME NEW q \in Seq(Packets), NEW r \in Replies, NEW l, NEW e,
         InOrder(q, r, l, e), NEW p \in Packets,
         Printable(p) => /\ Given(p.text, l, e)
                         /\ Later(r, p.text)
                         /\ \A i \in DOMAIN q : Printable(q[i]) => Later(q[i].text, p.text)
  PROVE  InOrder(Append(q, p), r, l, e)
<1> DEFINE a == Append(q, p)
<1>1. /\ DOMAIN q = 1 .. Len(q) /\ Len(q) \in Nat
      /\ DOMAIN a = 1 .. Len(q) + 1 /\ a[Len(q) + 1] = p
      /\ \A i \in 1 .. Len(q) : a[i] = q[i]
  OBVIOUS
<1> HIDE DEF a
<1> SUFFICES ASSUME NEW i \in DOMAIN a, Printable(a[i])
             PROVE  /\ Given(a[i].text, l, e) /\ Later(r, a[i].text)
                    /\ \A j \in 1 .. i - 1 : Printable(a[j]) => Later(a[j].text, a[i].text)
  BY Zenon DEF InOrder, a
<1>2. CASE i \in DOMAIN q
  <2>1. a[i] = q[i] /\ \A j \in 1 .. i - 1 : a[j] = q[j]
    BY <1>1, <1>2
  <2> QED BY <1>2, <2>1, Zenon DEF InOrder
<1>3. CASE i = Len(q) + 1
  <2>1. a[i] = p /\ \A j \in 1 .. i - 1 : j \in DOMAIN q /\ a[j] = q[j]
    BY <1>1, <1>3
  <2> QED BY <2>1, Zenon
<1> QED BY <1>1, <1>2, <1>3

(* A message that is counted: no number goes down, the sender's goes up.   *)
LEMMA Counted ==
  ASSUME EchoInv, NEW addr \in Addrs, NEW text, find_or_add_client(addr, text),
         ~disconnected(addr, text)
  PROVE  /\ left' = left
         /\ \A j \in DOMAIN list : /\ j \in DOMAIN list' /\ list'[j].addr = list[j].addr
                                   /\ list'[j].counter >= list[j].counter
         /\ \E k \in DOMAIN list' :
              /\ list'[k].addr = addr /\ list'[k].counter > 0
              /\ \A j \in DOMAIN list :
                   list[j].addr = addr => list'[k].counter > list[j].counter
<1>1. list \in Seq(Entries) /\ DOMAIN list = 1 .. Len(list) /\ Len(list) \in Nat
  BY DEF EchoInv
<1>2. ASSUME NEW j \in DOMAIN list PROVE list[j].counter \in Nat
  <2>1. list[j] \in Entries
    BY <1>1
  <2> QED BY <2>1 DEF Entries
<1>3. CASE Index(addr) = {} /\ add_client(addr)
  <2> DEFINE e == [addr |-> addr, counter |-> 1]
  <2>1. e.addr = addr /\ e.counter = 1
    OBVIOUS
  <2>2. list' = Append(list, e) /\ left' = left
    BY <1>3 DEF add_client
  <2>3. \A j \in DOMAIN list : list[j].addr # addr
    BY <1>3 DEF Index
  <2> HIDE DEF e
  <2>4. /\ DOMAIN list' = 1 .. Len(list) + 1 /\ list'[Len(list) + 1] = e
        /\ \A j \in DOMAIN list : j \in DOMAIN list' /\ list'[j] = list[j]
    BY <1>1, <2>2
  <2>5. \A j \in DOMAIN list : list'[j].counter >= list[j].counter
    BY <1>2, <2>4
  <2>6. Len(list) + 1 \in DOMAIN list' /\ list'[Len(list) + 1].addr = addr
        /\ list'[Len(list) + 1].counter > 0
    BY <1>1, <2>1, <2>4
  <2> QED BY <2>2, <2>3, <2>4, <2>5, <2>6, Zenon
<1>4. ASSUME NEW i \in Index(addr), count_message(i)
      PROVE  /\ left' = left
             /\ \A j \in DOMAIN list : /\ j \in DOMAIN list' /\ list'[j].addr = list[j].addr
                                       /\ list'[j].counter >= list[j].counter
             /\ list'[i].counter > list[i].counter
  <2>1. i \in DOMAIN list /\ list[i] \in Entries /\ list[i].counter \in Nat
    BY <1>1, <1>2 DEF Index
  <2>2. left' = left /\ list' = [list EXCEPT ![i].counter = list[i].counter + 1]
    BY <1>4 DEF count_message
  <2>3. DOMAIN list' = DOMAIN list /\ \A j \in DOMAIN list : j # i => list'[j] = list[j]
    BY <2>1, <2>2
  <2>4. list'[i].addr = list[i].addr /\ list'[i].counter = list[i].counter + 1
    BY <2>1, <2>2 DEF Entries
  <2>5. \A j \in DOMAIN list : list'[j].counter >= list[j].counter
    BY <1>2, <2>1, <2>3, <2>4
  <2> QED BY <2>1, <2>2, <2>3, <2>4, <2>5
<1>5. ASSUME NEW i \in Index(addr), count_message(i)
      PROVE  \E k \in DOMAIN list' :
              /\ list'[k].addr = addr /\ list'[k].counter > 0
              /\ \A j \in DOMAIN list :
                   list[j].addr = addr => list'[k].counter > list[j].counter
  <2>1. i \in DOMAIN list /\ list[i].addr = addr
    BY DEF Index
  <2>2. \A j \in DOMAIN list : list[j].addr = addr => j = i
    BY <2>1 DEF EchoInv, TableIsConsistent
  <2>3. i \in DOMAIN list' /\ list'[i].addr = addr /\ list'[i].counter > list[i].counter
    BY <1>4, <1>5, <2>1
  <2>4. list'[i].counter > 0
    <3>1. list'[i].counter = list[i].counter + 1
      BY <1>1, <1>5, <2>1 DEF count_message, Entries
    <3> QED BY <1>2, <2>1, <3>1
  <2> QED BY <2>2, <2>3, <2>4
<1>6. \/ Index(addr) = {} /\ add_client(addr)
      \/ \E i \in Index(addr) : count_message(i)
  BY DEF find_or_add_client, disconnected
<1> QED BY <1>3, <1>4, <1>5, <1>6, Zenon

(* A goodbye starts a new epoch of its address, and of no other. *)
LEMMA Disconnected ==
  ASSUME EchoInv, NEW addr \in Addrs, NEW text, find_or_add_client(addr, text),
         disconnected(addr, text)
  PROVE  /\ left' = [left EXCEPT ![addr] = @ + 1]
         /\ DOMAIN list' = DOMAIN list
         /\ \A j \in DOMAIN list : list[j].addr # addr => list'[j] = list[j]
<1>1. PICK i \in Index(addr) : disconnect(i)
  BY DEF find_or_add_client, disconnected
<1>2. i \in DOMAIN list /\ list[i].addr = addr
  BY DEF Index
<1>3. left' = [left EXCEPT ![addr] = @ + 1] /\ list' = [list EXCEPT ![i].counter = 0]
  BY <1>1, <1>2 DEF disconnect
<1> QED BY <1>2, <1>3

(* What the table had given before a packet it has given afterwards. *)
LEMMA GivenKept ==
  ASSUME EchoInv, NEW addr \in Addrs, NEW text, find_or_add_client(addr, text),
         NEW r \in Replies, Given(r, list, left[ClientAddr])
  PROVE  Given(r, list', left'[ClientAddr])
<1>1. r.epoch \in Nat /\ r.counter \in Nat /\ ClientAddr \in Addrs
  BY DEF Replies, Addrs
<1>2. left[ClientAddr] \in Nat /\ left \in [Addrs -> Nat]
  BY <1>1 DEF EchoInv
<1>a. ASSUME NEW j \in DOMAIN list PROVE list[j].counter \in Nat
  <2>1. list[j] \in Entries
    BY DEF EchoInv
  <2> QED BY <2>1 DEF Entries
<1>b. list' \in Seq(Entries)
  BY TableStep
<1>3. CASE ~disconnected(addr, text)
  <2>1. /\ left' = left
        /\ \A j \in DOMAIN list : /\ j \in DOMAIN list' /\ list'[j].addr = list[j].addr
                                  /\ list'[j].counter >= list[j].counter
    BY <1>3, Counted, Zenon
  <2>2. ASSUME NEW j \in DOMAIN list, r.counter <= list[j].counter
        PROVE  r.counter <= list'[j].counter
    <3>1. list'[j] \in Entries
      BY <1>b, <2>1
    <3>2. list'[j].counter \in Nat
      BY <3>1 DEF Entries
    <3> QED BY <1>1, <1>a, <2>1, <2>2, <3>2
  <2> QED BY <2>1, <2>2, Zenon DEF Given
<1>4. CASE disconnected(addr, text)
  <2>1. /\ left' = [left EXCEPT ![addr] = @ + 1] /\ DOMAIN list' = DOMAIN list
        /\ \A j \in DOMAIN list : list[j].addr # addr => list'[j] = list[j]
    BY <1>4, Disconnected, Zenon
  <2>2. CASE addr = ClientAddr
    <3>1. left'[ClientAddr] = left[ClientAddr] + 1
      BY <1>1, <1>2, <2>1, <2>2
    <3>2. r.epoch <= left[ClientAddr]
      BY <1>1, <1>2 DEF Given
    <3>3. r.epoch < left'[ClientAddr]
      BY <1>1, <1>2, <3>1, <3>2
    <3> QED BY <3>3, Zenon DEF Given
  <2>3. CASE addr # ClientAddr
    <3>1. left'[ClientAddr] = left[ClientAddr]
      BY <1>1, <1>2, <2>1, <2>3
    <3> QED BY <2>1, <2>3, <3>1, Zenon DEF Given
  <2> QED BY <2>2, <2>3, Zenon
<1> QED BY <1>3, <1>4, Zenon

(* build_packet: the number in a reply is later than every number given. *)
LEMMA NewReply ==
  ASSUME EchoInv, NEW text, find_or_add_client(ClientAddr, text),
         ~disconnected(ClientAddr, text)
  PROVE  LET t == ReplyTo(ClientAddr, list').text
         IN  /\ t \in Replies /\ Given(t, list', left'[ClientAddr])
             /\ \A r \in Replies : Given(r, list, left[ClientAddr]) => Later(r, t)
<1> DEFINE i == CHOOSE j \in DOMAIN list' : list'[j].addr = ClientAddr
           n == list'[i].counter
           e == left[ClientAddr]
           t == ReplyTo(ClientAddr, list').text
<1>0. ClientAddr \in Addrs
  BY DEF Addrs
<1>1. PICK k \in DOMAIN list' :
        /\ list'[k].addr = ClientAddr /\ list'[k].counter > 0
        /\ \A j \in DOMAIN list : list[j].addr = ClientAddr => list'[k].counter > list[j].counter
  BY <1>0, Counted, Zenon
<1>2. i \in DOMAIN list' /\ list'[i].addr = ClientAddr
  BY <1>1, Zenon
<1>3. list' \in Seq(Entries) /\ TableIsConsistent'
  BY <1>0, TableStep, Zenon
<1>4. i = k
  BY <1>1, <1>2, <1>3, Zenon DEF TableIsConsistent
<1>5. t = Reply(e, n)
  BY DEF ReplyTo, Packet
<1>6. n \in Nat /\ e \in Nat
  <2>1. list'[i] \in Entries
    BY <1>2, <1>3
  <2> QED BY <1>0, <2>1 DEF Entries, EchoInv
<1>7. left'[ClientAddr] = e
  BY <1>0, Counted, Zenon
<1>8. t \in Replies /\ t.epoch = e /\ t.counter = n
  <2> HIDE DEF n, e, t
  <2> QED BY <1>5, <1>6 DEF Reply, Replies
<1>9. Given(t, list', left'[ClientAddr])
  <2>1. n <= list'[i].counter
    BY <1>6
  <2> HIDE DEF n, e, t, i
  <2> QED BY <1>2, <1>7, <1>8, <2>1, Zenon DEF Given
<1>10. ASSUME NEW r \in Replies, Given(r, list, e) PROVE Later(r, t)
  <2>1. r.epoch \in Nat /\ r.counter \in Nat
    BY DEF Replies
  <2>2. n > 0 /\ \A j \in DOMAIN list : list[j].addr = ClientAddr => n > list[j].counter
    BY <1>1, <1>4, Zenon
  <2> HIDE DEF n, e, t, i
  <2>3. CASE r.epoch < e
    BY <1>6, <1>8, <2>1, <2>3 DEF Later
  <2>4. CASE r.epoch = e /\ r.counter = 0
    BY <1>6, <1>8, <2>2, <2>4 DEF Later
  <2>5. ASSUME r.epoch = e, NEW j \in DOMAIN list, list[j].addr = ClientAddr,
               r.counter <= list[j].counter
        PROVE  Later(r, t)
    <3>1. list[j] \in Entries
      BY DEF EchoInv
    <3>2. list[j].counter \in Nat /\ n > list[j].counter
      BY <2>2, <2>5, <3>1 DEF Entries
    <3>3. n > r.counter
      BY <1>6, <2>1, <2>5, <3>2
    <3> QED BY <1>8, <2>5, <3>3, Zenon DEF Later
  <2> QED BY <1>10, <2>3, <2>4, <2>5, Zenon DEF Given
<1> QED BY <1>8, <1>9, <1>10, Zenon

(* recvfrom of the process p takes a packet from its queue and no other. *)
LEMMA OrderTaken ==
  ASSUME OrderInv, NEW p \in Clients \cup {Server}, socket[p] # <<>>, NEW c \in Clients
  PROVE  InOrder(Taken(p)[c], printed[c], list, left[ClientAddr])
<1>1. /\ socket \in [Clients \cup {Server} -> Seq(Packets)]
      /\ InOrder(socket[c], printed[c], list, left[ClientAddr])
  BY DEF OrderInv, EchoInv, Sockets
<1>2. Taken(p)[c] = IF c = p THEN Tail(socket[c]) ELSE socket[c]
  BY <1>1 DEF Taken
<1>3. socket[c] \in Seq(Packets)
  BY <1>1
<1> QED BY <1>1, <1>2, <1>3, OrderTail, Zenon

(* One packet of the server. *)
LEMMA OrderHandle == OrderInv /\ Handle => OrderInv'
<1> SUFFICES ASSUME OrderInv, Handle PROVE OrderInv'
  OBVIOUS
<1> DEFINE packet == Head(socket[Server])
           e == left[ClientAddr]
           m == ReplyTo(packet.src, list')
<1>1. EchoInv /\ EchoInv'
  BY HandleStep, Zenon DEF OrderInv
<1>2. /\ Taken(Server) \in Sockets /\ packet \in Packets /\ socket[Server] # <<>>
      /\ packet.dst = ServerAddr /\ find_or_add_client(packet.src, packet.text)
      /\ printed' = printed
  BY <1>1, TakenOK DEF Handle
<1>3. packet.src \in Addrs
  BY <1>2 DEF Packets
<1>4. printed \in [Clients -> Replies]
  BY DEF OrderInv
<1> HIDE DEF packet
<1>5. ASSUME NEW c \in Clients
      PROVE  InOrder(socket'[c], printed[c], list', left'[ClientAddr])
  <2> DEFINE q == Taken(Server)[c]
  <2>1. q \in Seq(Packets) /\ printed[c] \in Replies
    BY <1>2, <1>4 DEF Sockets
  <2>2. InOrder(q, printed[c], list, e)
    BY <1>2, OrderTaken, Zenon
  <2>3. \A x \in Replies : Given(x, list, e) => Given(x, list', left'[ClientAddr])
    BY <1>1, <1>2, <1>3, GivenKept, Zenon
  <2> HIDE DEF q
  <2>4. InOrder(q, printed[c], list', left'[ClientAddr])
    BY <2>1, <2>2, <2>3, OrderKept, Zenon
  <2>5. CASE socket'[c] = q
    BY <2>4, <2>5, Zenon
  <2>6. ASSUME socket'[c] = Append(q, m), ~disconnected(packet.src, packet.text)
        PROVE  InOrder(socket'[c], printed[c], list', left'[ClientAddr])
    <3>1. m \in Packets /\ m.dst = packet.src
      <4>1. \E j \in DOMAIN list' : list'[j].addr = packet.src
        BY <1>1, <1>2, <1>3, TableStep, Zenon
      <4>2. list' \in Seq(Entries) /\ left \in [Addrs -> Nat]
        BY <1>1 DEF EchoInv
      <4>3. m \in Packets
        BY <1>3, <4>1, <4>2, ReplyOK, Zenon
      <4> QED BY <4>3 DEF ReplyTo, Packet
    <3>2. ASSUME Printable(m)
          PROVE  /\ Given(m.text, list', left'[ClientAddr]) /\ Later(printed[c], m.text)
                 /\ \A i \in DOMAIN q : Printable(q[i]) => Later(q[i].text, m.text)
      <4>1. packet.src = ClientAddr
        BY <3>1, <3>2, Zenon DEF Printable
      <4>2. /\ Given(m.text, list', left'[ClientAddr])
            /\ \A r \in Replies : Given(r, list, e) => Later(r, m.text)
        BY <1>1, <1>2, <2>6, <4>1, NewReply, Zenon
      <4>3. ASSUME NEW i \in DOMAIN q, Printable(q[i]) PROVE q[i].text \in Replies
        <5>1. q[i] \in Packets
          BY <2>1
        <5> QED BY <4>3, <5>1, Zenon DEF Packets, Printable
      <4> QED BY <2>1, <2>2, <4>2, <4>3, Zenon DEF InOrder
    <3> HIDE DEF m
    <3> QED BY <2>1, <2>4, <2>6, <3>1, <3>2, OrderAppend, Zenon
  <2>7. socket'[c] = q \/ (socket'[c] = Append(q, m) /\ ~disconnected(packet.src, packet.text))
    <3>1. CASE disconnected(packet.src, packet.text)
      BY <3>1, Zenon DEF Handle, packet, q
    <3>2. CASE ~disconnected(packet.src, packet.text)
      <4>1. socket' = Deliver(m, Taken(Server))
        BY <3>2, Zenon DEF Handle, packet
      <4>2. c \in DOMAIN Taken(Server)
        BY <1>2 DEF Sockets
      <4> HIDE DEF m
      <4> QED BY <3>2, <4>1, <4>2, Zenon DEF Deliver, q
    <3> QED BY <3>1, <3>2, Zenon
  <2> QED BY <2>5, <2>6, <2>7, Zenon
<1> QED BY <1>1, <1>2, <1>4, <1>5, Zenon DEF OrderInv

(* A client or another program sends to the server: no client prints that. *)
LEMMA OrderSend ==
  ASSUME OrderInv, NEW a \in Addrs, NEW text \in {Message, Bye},
         socket' = Deliver(Packet(a, ServerAddr, text), socket), NEW c \in Clients
  PROVE  InOrder(socket'[c], printed[c], list, left[ClientAddr])
<1> DEFINE m == Packet(a, ServerAddr, text)
<1>1. m \in Packets /\ ~Printable(m)
  <2>1. ServerAddr # ClientAddr
    BY EchoAssumption
  <2> QED BY <2>1, MessagesOK, Zenon DEF Printable, Packet
<1>2. /\ socket[c] \in Seq(Packets) /\ c \in DOMAIN socket /\ printed[c] \in Replies
      /\ InOrder(socket[c], printed[c], list, left[ClientAddr])
  BY DEF OrderInv, EchoInv, Sockets
<1> HIDE DEF m
<1>3. socket'[c] = socket[c] \/ socket'[c] = Append(socket[c], m)
  BY <1>2, Zenon DEF Deliver, m
<1> QED BY <1>1, <1>2, <1>3, OrderAppend, Zenon

(* receiver_thread: what is printed is later than what was. *)
LEMMA OrderReceive ==
  ASSUME OrderInv, NEW c \in Clients, Receive(c)
  PROVE  /\ printed' \in [Clients -> Replies]
         /\ \A d \in Clients :
              /\ printed'[d] # printed[d] => Later(printed[d], printed'[d])
              /\ InOrder(socket'[d], printed'[d], list, left[ClientAddr])
<1> DEFINE packet == Head(socket[c])
           e == left[ClientAddr]
<1>1. /\ socket \in [Clients \cup {Server} -> Seq(Packets)] /\ EchoInv
      /\ printed \in [Clients -> Replies] /\ socket[c] # <<>>
  BY DEF OrderInv, EchoInv, Sockets, Receive
<1>2. packet \in Packets /\ socket[c] \in Seq(Packets)
  BY <1>1, TakenOK
<1>3. /\ InOrder(Tail(socket[c]), printed[c], list, e)
      /\ Printable(packet) => /\ Later(printed[c], packet.text) /\ Given(packet.text, list, e)
                              /\ InOrder(Tail(socket[c]), packet.text, list, e)
  BY <1>1, <1>2, OrderTail, Zenon DEF OrderInv
<1>4. printed' = IF Printable(packet) THEN [printed EXCEPT ![c] = packet.text] ELSE printed
  BY Zenon DEF Receive, Printable
<1>5. Printable(packet) => packet.text \in Replies
  BY <1>2, Zenon DEF Packets, Printable
<1>6. /\ socket'[c] \in {Tail(socket[c]), <<>>}
      /\ \A d \in Clients : d # c => socket'[d] = socket[d]
  BY <1>1 DEF Receive, EndReceiver, Taken
<1> HIDE DEF packet
<1>7. /\ printed' \in [Clients -> Replies] /\ \A d \in Clients : d # c => printed'[d] = printed[d]
      /\ printed'[c] = IF Printable(packet) THEN packet.text ELSE printed[c]
  BY <1>1, <1>4, <1>5
<1>8. InOrder(socket'[c], printed'[c], list, e)
  <2>1. InOrder(Tail(socket[c]), printed'[c], list, e)
    BY <1>3, <1>7, Zenon
  <2>2. DOMAIN <<>> = {}
    OBVIOUS
  <2>3. InOrder(<<>>, printed'[c], list, e)
    BY <2>1, <2>2, Zenon DEF InOrder
  <2> QED BY <1>6, <2>1, <2>3, Zenon
<1> QED BY <1>3, <1>6, <1>7, <1>8, Zenon DEF OrderInv

(* One step, and what it may do to the numbers printed. *)
LEMMA OrderStep ==
  ASSUME OrderInv, [Next]_vars
  PROVE  /\ OrderInv'
         /\ \A c \in Clients : printed'[c] # printed[c] => Later(printed[c], printed'[c])
<1>1. EchoInv'
  BY EchoInvStep, Zenon DEF OrderInv
<1>2. ASSUME UNCHANGED <<list, left, printed>>,
             \A c \in Clients : InOrder(socket'[c], printed[c], list, left[ClientAddr])
      PROVE  OrderInv'
  BY <1>1, <1>2, Zenon DEF OrderInv
<1>3. ASSUME UNCHANGED <<list, left, printed, socket>> PROVE OrderInv'
  BY <1>2, <1>3, Zenon DEF OrderInv
<1>4. ASSUME NEW c \in Clients, EndReceiver(c), UNCHANGED <<list, left, printed>>
      PROVE  OrderInv'
  <2>1. socket'[c] = <<>> /\ \A d \in Clients : d # c => socket'[d] = socket[d]
    BY <1>4 DEF EndReceiver, OrderInv, EchoInv, Sockets
  <2>2. DOMAIN <<>> = {}
    OBVIOUS
  <2>3. InOrder(<<>>, printed[c], list, left[ClientAddr])
    BY <2>2, Zenon DEF OrderInv, InOrder
  <2> QED BY <1>2, <1>4, <2>1, <2>3, Zenon DEF OrderInv
<1>a. ClientAddr \in Addrs
  BY DEF Addrs
<1>5. CASE Handle
  BY <1>5, OrderHandle, Zenon DEF Handle
<1>6. CASE IgnorePacket
  BY <1>2, <1>6, OrderTaken, Zenon DEF IgnorePacket
<1>7. CASE Stop
  BY <1>3, <1>7, Zenon DEF Stop
<1>8. ASSUME NEW c \in Clients, Type(c)
      PROVE  OrderInv' /\ printed' = printed
  BY <1>2, <1>8, <1>a, OrderSend, Zenon DEF Type
<1>9. ASSUME NEW c \in Clients, TypeEmpty(c)
      PROVE  OrderInv' /\ printed' = printed
  BY <1>3, <1>9, Zenon DEF TypeEmpty
<1>10. ASSUME NEW c \in Clients, Interrupt(c)
       PROVE  OrderInv' /\ printed' = printed
  BY <1>3, <1>4, <1>10, Zenon DEF Interrupt
<1>11. ASSUME NEW c \in Clients, Leave(c)
       PROVE  OrderInv' /\ printed' = printed
  BY <1>2, <1>11, <1>a, OrderSend, Zenon DEF Leave
<1>12. ASSUME NEW c \in Clients, Terminate(c)
       PROVE  OrderInv' /\ printed' = printed
  BY <1>4, <1>12, Zenon DEF Terminate
<1>13. ASSUME NEW c \in Clients, Receive(c)
       PROVE  /\ OrderInv'
              /\ \A d \in Clients : printed'[d] # printed[d] => Later(printed[d], printed'[d])
  <2>1. UNCHANGED <<list, left>>
    BY <1>13, Zenon DEF Receive
  <2> QED BY <1>1, <1>13, <2>1, OrderReceive, Zenon DEF OrderInv
<1>14. ASSUME NEW a \in Others, OtherSends(a)
       PROVE  OrderInv' /\ printed' = printed
  <2>1. a \in Addrs
    BY DEF Addrs
  <2> QED BY <1>2, <1>14, <2>1, OrderSend, Zenon DEF OtherSends
<1>15. CASE UNCHANGED vars
  BY <1>3, <1>15, Zenon DEF vars
<1>16. (Handle \/ IgnorePacket \/ Stop \/ UNCHANGED vars) => printed' = printed
  BY Zenon DEF Handle, IgnorePacket, Stop, vars
<1> QED BY <1>5, <1>6, <1>7, <1>8, <1>9, <1>10, <1>11, <1>12, <1>13, <1>14, <1>15, <1>16, Zenon
  DEF Next

(* The numbers a client prints, with clients that share the address, lost  *)
(* packets and goodbyes in between, never go back within an epoch: for any *)
(* number of clients, of messages and any size of the sockets' buffers.    *)
THEOREM RepliesComeInOrder == Spec => RepliesInOrder
<1>1. Init => OrderInv
  <2> SUFFICES ASSUME Init PROVE OrderInv
    OBVIOUS
  <2>1. /\ ClientAddr \in Addrs /\ left[ClientAddr] = 0
        /\ \A c \in Clients : printed[c] = Reply(0, 0) /\ socket[c] = <<>>
        /\ printed = [c \in Clients |-> Reply(0, 0)]
    BY DEF Init, Addrs
  <2>2. Reply(0, 0) \in Replies /\ Reply(0, 0).epoch = 0 /\ Reply(0, 0).counter = 0
    BY DEF Reply, Replies
  <2>3. DOMAIN <<>> = {}
    OBVIOUS
  <2>4. InOrder(<<>>, Reply(0, 0), list, 0)
    BY <2>2, <2>3, Zenon DEF InOrder, Given
  <2>5. printed \in [Clients -> Replies]
    BY <2>1, <2>2
  <2> QED BY <2>1, <2>4, <2>5, EchoInit, Zenon DEF OrderInv
<1>2. ASSUME OrderInv, [Next]_vars
      PROVE  [\A c \in Clients : printed'[c] # printed[c] =>
                \/ printed'[c].epoch > printed[c].epoch
                \/ printed'[c].epoch = printed[c].epoch
                   /\ printed'[c].counter > printed[c].counter]_vars
  BY <1>2, OrderStep, Zenon DEF Later
<1> QED BY <1>1, <1>2, OrderStep, PTL DEF Spec, RepliesInOrder
=============================================================================
