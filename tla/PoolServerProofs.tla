-------------------------- MODULE PoolServerProofs --------------------------
(***************************************************************************)
(* The flags of the pool server, for any number of services and clients.   *)
(***************************************************************************)
EXTENDS PoolServer, SequenceTheorems, TLAPS

Bytes == {"r", "e", "a", "d", "y", "b", "u", "s", "f"}

(* The clients that wait for the listener are waiting once, and accept has *)
(* somebody to accept when select said so.                                 *)
Waiting ==
  /\ lqueue \in Seq(Clients) /\ IsInjective(lqueue)
  /\ \A i \in 1 .. Len(lqueue) : client[lqueue[i]] = "queued"
  /\ accepts => lqueue # <<>>

PoolTypes ==
  /\ pc \in {"select", "scan"} /\ accepts \in BOOLEAN
  /\ readfds \subseteq Services /\ straddled \subseteq Services
  /\ busy \in [Services -> {0, 1}]
  /\ pipe \in [Services -> Seq(Bytes)]
  /\ svc \in [Services -> {"new", "listening", "accept", "accepted", "recv", "close"}]
  /\ serving \in [Services -> Clients \cup {Nobody}]
  /\ queue \in [Services -> Seq(Clients)]
  /\ client \in [Clients -> {"new", "queued", "told", "turned_away", "refused",
                             "connected", "requested", "served"}]
  /\ port \in [Clients -> Services \cup {0}]
  /\ \A c \in Clients : client[c] \in {"told", "refused"} => port[c] \in Services

(* The next read of such a pipe takes parts of two messages. *)
Jammed(p) == Len(p) > 4 /\ p[1] \in {"b", "f"}

(* What can be in the pipe of a service of which every read took one       *)
(* message: at most the last message, or too much to be read one by one,   *)
(* with "ready", which fills a read, possibly before it.                   *)
Tidy(p, at) ==
  \/ p = <<>>
  \/ p \in {Ready, Free} /\ at \in {"accept", "accepted"}
  \/ p \in {Busy, Ready \o Busy} /\ at \in {"recv", "close"}
  \/ \E q \in Seq(Bytes) : Jammed(q) /\ p \in {q, Ready \o q}

PipesAreTidy ==
  \A s \in Services \ straddled :
    /\ Tidy(pipe[s], svc[s])
    /\ svc[s] \in {"new", "listening"} => pipe[s] = <<>>

PoolInv == PoolTypes /\ Waiting /\ PipesAreTidy /\ BusyFlagIsRight

-----------------------------------------------------------------------------
(* What is read.                                                           *)

(* A read takes up to five bytes. *)
Buf(p) == SubSeq(p, 1, IF Len(p) < 5 THEN Len(p) ELSE 5)
Rest(p) == SubSeq(p, Len(Buf(p)) + 1, Len(p))

(* The three messages. *)
LEMMA Messages ==
  /\ Ready \in Seq(Bytes) /\ Len(Ready) = 5 /\ Ready[1] = "r"
  /\ Busy \in Seq(Bytes) /\ Len(Busy) = 4 /\ Busy[1] = "b"
  /\ Free \in Seq(Bytes) /\ Len(Free) = 4 /\ Free[1] = "f"
  /\ Ready # <<>> /\ Busy # <<>> /\ Free # <<>>
  /\ Ready # Busy /\ Ready # Free /\ Busy # Free
<1>1. Ready \in Seq(Bytes) /\ Len(Ready) = 5 /\ Ready[1] = "r"
  BY DEF Ready, Bytes
<1>2. Busy \in Seq(Bytes) /\ Len(Busy) = 4 /\ Busy[1] = "b"
  BY DEF Busy, Bytes
<1>3. Free \in Seq(Bytes) /\ Len(Free) = 4 /\ Free[1] = "f"
  BY DEF Free, Bytes
<1>4. Ready # Busy /\ Ready # Free /\ Busy # Free
  BY <1>1, <1>2, <1>3, Zenon
<1> QED BY <1>1, <1>2, <1>3, <1>4, EmptySeq

(* A message alone in the pipe is read as a whole. *)
LEMMA ReadAll ==
  ASSUME NEW p \in Seq(Bytes), Len(p) <= 5
  PROVE  Buf(p) = p /\ Rest(p) = <<>>
<1>1. Len(p) \in Nat
  BY LenProperties, Zenon
<1>2. Buf(p) = p
  <2> DEFINE n == Len(p)
  <2>1. n \in Nat /\ n <= 5
    BY <1>1, Zenon
  <2> HIDE DEF n
  <2>2. (IF n < 5 THEN n ELSE 5) = n
    BY <2>1
  <2>3. Buf(p) = SubSeq(p, 1, Len(p))
    BY <2>2, Zenon DEF Buf, n
  <2> QED BY <2>3, SubSeqFull, Zenon
<1>3. Rest(p) = <<>>
  BY <1>1, <1>2, SubSeqEmpty DEF Rest
<1> QED BY <1>2, <1>3, Zenon

(* "ready" fills a read: what follows it stays in the pipe. *)
LEMMA ReadReady ==
  ASSUME NEW q \in Seq(Bytes)
  PROVE  Buf(Ready \o q) = Ready /\ Rest(Ready \o q) = q
<1> DEFINE p == Ready \o q
<1>1. p \in Seq(Bytes) /\ Len(p) = 5 + Len(q) /\ Len(q) \in Nat /\ Len(Ready) = 5
  <2>1. Len(q) \in Nat /\ Ready \in Seq(Bytes) /\ Len(Ready) = 5
    BY Messages, LenProperties, Zenon
  <2>2. p \in Seq(Bytes) /\ Len(p) = Len(Ready) + Len(q)
    BY <2>1, ConcatProperties, Zenon
  <2> QED BY <2>1, <2>2, Zenon
<1>2. SubSeq(p, 1, 5) = Ready
  <2>1. SubSeq(p, 1, 5) = SubSeq(Ready, 1, 5)
    BY <1>1, Messages, SubSeqOfConcat1
  <2> QED BY <1>1, <2>1, Messages, SubSeqFull, Zenon
<1>3. Buf(p) = Ready
  BY <1>1, <1>2 DEF Buf
<1>4. Rest(p) = SubSeq(p, 6, Len(p))
  BY <1>1, <1>3 DEF Rest
<1>5. SubSeq(p, 6, Len(p)) = q
  <2>1. CASE Len(q) = 0
    BY <1>1, <2>1, EmptySeq, SubSeqEmpty
  <2>2. CASE Len(q) > 0
    <3>1. SubSeq(p, 6, Len(p)) = SubSeq(q, 6 - 5, Len(p) - 5)
      BY <1>1, <2>2, Messages, SubSeqOfConcat2
    <3>2. 6 - 5 = 1 /\ Len(p) - 5 = Len(q)
      BY <1>1
    <3> QED BY <3>1, <3>2, SubSeqFull, Zenon
  <2> QED BY <1>1, <2>1, <2>2
<1> QED BY <1>3, <1>4, <1>5, Zenon

(* A read of a jammed pipe takes no single message. *)
LEMMA ReadJammed ==
  ASSUME NEW p \in Seq(Bytes), Jammed(p)
  PROVE  Buf(p) \notin {Busy, Free, Ready}
<1>1. Len(p) \in Nat /\ Len(p) >= 5 /\ Buf(p) = SubSeq(p, 1, 5)
  BY LenProperties DEF Jammed, Buf
<1>2. \A i \in 1 .. 5 : p[i] \in Bytes
  BY <1>1, LenProperties
<1>3. Len(Buf(p)) = 5 /\ Buf(p)[1] = p[1]
  <2>1. /\ Len(SubSeq(p, 1, 5)) = IF 1 <= 5 THEN 5 - 1 + 1 ELSE 0
        /\ \A i \in 1 .. 5 - 1 + 1 : SubSeq(p, 1, 5)[i] = p[1 + i - 1]
    BY <1>2, SubSeqProperties
  <2> QED BY <1>1, <2>1
<1>4. p[1] \in {"b", "f"}
  BY Zenon DEF Jammed
<1>5. Buf(p) # Busy /\ Buf(p) # Free
  <2>1. Len(Busy) = 4 /\ Len(Free) = 4
    BY Messages, Zenon
  <2>2. Buf(p) = Busy \/ Buf(p) = Free => Len(Buf(p)) = 4
    BY <2>1, Zenon
  <2>3. Len(Buf(p)) # 4
    BY <1>3
  <2> QED BY <2>2, <2>3, Zenon
<1>6. Buf(p) # Ready
  BY <1>3, <1>4, Messages, Zenon
<1> QED BY <1>5, <1>6, Zenon

(* strncmp on a whole message. *)
LEMMA Compare ==
  /\ Matches(Busy, Busy) /\ ~Matches(Free, Busy) /\ ~Matches(Ready, Busy)
  /\ Matches(Free, Free) /\ Matches(Ready, Ready)
<1>1. \A m \in {Busy, Free, Ready} : Matches(m, m)
  BY Messages, SubSeqFull DEF Matches
<1>2. SubSeq(Busy, 1, 4) = Busy /\ SubSeq(Free, 1, 4) = Free
  BY Messages, SubSeqFull, Zenon
<1>3. ~Matches(Free, Busy)
  BY <1>2, Messages, Zenon DEF Matches
<1>4. ~Matches(Ready, Busy)
  <2>1. \A i \in 1 .. 4 : Ready[i] \in Bytes
    <3>1. \A i \in 1 .. Len(Ready) : Ready[i] \in Bytes
      BY Messages, ElementOfSeq, Zenon
    <3> QED BY <3>1, Messages
  <2>2. SubSeq(Ready, 1, 4)[1] = Ready[1]
    <3>1. \A i \in 1 .. 4 - 1 + 1 : SubSeq(Ready, 1, 4)[i] = Ready[1 + i - 1]
      BY <2>1, SubSeqProperties
    <3> QED BY <3>1
  <2> QED BY <1>2, <2>2, Messages, Zenon DEF Matches
<1> QED BY <1>1, <1>3, <1>4, Zenon

-----------------------------------------------------------------------------
(* The pipe of a service.                                                  *)

(* A jammed pipe stays jammed when a message is added, and two messages    *)
(* without a read between them jam it.                                     *)
LEMMA JammedGrows ==
  ASSUME NEW q \in Seq(Bytes), NEW m \in Seq(Bytes),
         \/ Jammed(q)
         \/ q \in {Busy, Free} /\ m \in {Busy, Free}
  PROVE  q \o m \in Seq(Bytes) /\ Jammed(q \o m)
<1>1. /\ q \o m \in Seq(Bytes) /\ Len(q \o m) = Len(q) + Len(m)
      /\ Len(q) \in Nat /\ Len(m) \in Nat
      /\ \A i \in 1 .. Len(q) + Len(m) : (q \o m)[i] = IF i <= Len(q) THEN q[i] ELSE m[i - Len(q)]
  BY ConcatProperties, LenProperties, Zenon
<1>2. Len(q) >= 4 /\ Len(q) + Len(m) > 4 /\ q[1] \in {"b", "f"}
  <2>1. CASE Jammed(q)
    <3>1. Len(q) > 4 /\ q[1] \in {"b", "f"}
      BY <2>1, Zenon DEF Jammed
    <3> QED BY <1>1, <3>1
  <2>2. CASE q \in {Busy, Free} /\ m \in {Busy, Free}
    <3>1. Len(q) = 4 /\ Len(m) = 4 /\ q[1] \in {"b", "f"}
      BY <2>2, Messages, Zenon
    <3> QED BY <3>1
  <2> QED BY <2>1, <2>2, Zenon
<1>3. (q \o m)[1] = q[1]
  BY <1>1, <1>2
<1> QED BY <1>1, <1>2, <1>3, Zenon DEF Jammed

(* Three messages one after the other. *)
LEMMA Associative ==
  \A q, r, t \in Seq(Bytes) : (q \o r) \o t = q \o (r \o t)
BY ConcatAssociative

(* write(pipe, "busy") and write(pipe, "free"). *)
LEMMA TidyWrite ==
  ASSUME NEW p \in Seq(Bytes), NEW m, NEW at, NEW next, Tidy(p, at),
         \/ m = Busy /\ at = "accepted" /\ next = "recv"
         \/ m = Free /\ at = "close" /\ next = "accept"
  PROVE  p \o m \in Seq(Bytes) /\ Tidy(p \o m, next)
<1>1. m \in Seq(Bytes) /\ m \in {Busy, Free}
  BY Messages, Zenon
<1>2. p \o m \in Seq(Bytes)
  BY <1>1, ConcatProperties, Zenon
<1> SUFFICES Tidy(p \o m, next)
  BY <1>2, Zenon
<1>3. ASSUME NEW q \in Seq(Bytes), q \o m \in Seq(Bytes), Jammed(q \o m),
             p \in {q, Ready \o q}
      PROVE  Tidy(p \o m, next)
  <2>1. CASE p = q
    BY <1>3, <2>1, Zenon DEF Tidy
  <2>2. CASE p = Ready \o q
    <3>1. Ready \in Seq(Bytes) /\ q \in Seq(Bytes) /\ m \in Seq(Bytes)
      BY <1>1, <1>3, Messages, Zenon
    <3>2. (Ready \o q) \o m = Ready \o (q \o m)
      BY <3>1, Associative, Zenon
    <3>3. p \o m = Ready \o (q \o m)
      BY <2>2, <3>2, Zenon
    <3> QED BY <1>3, <3>3, Zenon DEF Tidy
  <2> QED BY <1>3, <2>1, <2>2, Zenon
<1>4. CASE p = <<>>
  <2>1. p \o m = m
    BY <1>1, <1>4, ConcatEmptySeq, Zenon
  <2>2. \/ p \o m = Busy /\ next = "recv"
        \/ p \o m = Free /\ next = "accept"
    BY <2>1, Zenon
  <2> QED BY <2>2, Zenon DEF Tidy
<1>5. CASE p = Ready /\ at = "accepted"
  <2>1. p \o m = Ready \o Busy /\ next = "recv"
    <3>1. m = Busy /\ next = "recv"
      BY <1>5, Zenon
    <3> QED BY <1>5, <3>1, Zenon
  <2> QED BY <2>1, Zenon DEF Tidy
<1>6. CASE p = Free /\ at = "accepted"
  BY <1>1, <1>3, <1>6, JammedGrows, Zenon
<1>7. CASE p \in {Busy, Ready \o Busy} /\ at = "close"
  <2>1. Busy \o m \in Seq(Bytes) /\ Jammed(Busy \o m)
    BY <1>1, JammedGrows, Messages, Zenon
  <2>2. Busy \in Seq(Bytes) /\ p \in {Busy, Ready \o Busy}
    BY <1>7, Messages, Zenon
  <2> QED BY <1>3, <2>1, <2>2, Zenon
<1>8. ASSUME NEW q \in Seq(Bytes), Jammed(q), p \in {q, Ready \o q}
      PROVE  Tidy(p \o m, next)
  BY <1>1, <1>3, <1>8, JammedGrows, Zenon
<1> QED BY <1>4, <1>5, <1>6, <1>7, <1>8, Zenon DEF Tidy

(* A read that took one message leaves a tidy pipe; when it empties the    *)
(* pipe, the message was the last one the service wrote.                   *)
LEMMA TidyRead ==
  ASSUME NEW p \in Seq(Bytes), NEW at, Tidy(p, at), Buf(p) \in {Busy, Free, Ready}
  PROVE  /\ Rest(p) \in Seq(Bytes) /\ Tidy(Rest(p), at)
         /\ Rest(p) = <<>> => \/ Buf(p) = Busy /\ at \in {"recv", "close"}
                              \/ Buf(p) \in {Ready, Free} /\ at \in {"accept", "accepted"}
<1>1. <<>> \in Seq(Bytes) /\ Len(<<>>) = 0
  BY EmptySeq, Zenon
<1>2. CASE p = <<>>
  <2>1. Buf(p) = <<>>
    <3>1. Len(p) <= 5
      BY <1>1, <1>2
    <3> QED BY <1>2, <3>1, ReadAll, Zenon
  <2> QED BY <2>1, Messages, Zenon
<1>3. ASSUME p \in {Ready, Free, Busy}
      PROVE  Buf(p) = p /\ Rest(p) = <<>>
  <2>1. Len(p) = 5 \/ Len(p) = 4
    BY <1>3, Messages, Zenon
  <2>2. Len(p) <= 5
    <3> DEFINE n == Len(p)
    <3>1. n = 5 \/ n = 4
      BY <2>1, Zenon
    <3> HIDE DEF n
    <3>2. n <= 5
      BY <3>1
    <3> QED BY <3>2, Zenon DEF n
  <2> QED BY <2>2, ReadAll, Zenon
<1>4. CASE p \in {Ready, Free} /\ at \in {"accept", "accepted"}
  <2>1. Rest(p) = <<>> /\ Buf(p) \in {Ready, Free}
    BY <1>3, <1>4, Zenon
  <2> QED BY <1>1, <1>4, <2>1, Zenon DEF Tidy
<1>5. CASE p = Busy /\ at \in {"recv", "close"}
  <2>1. Rest(p) = <<>> /\ Buf(p) = Busy
    BY <1>3, <1>5, Zenon
  <2>2. Tidy(Rest(p), at)
    BY <2>1, Zenon DEF Tidy
  <2>3. Rest(p) \in Seq(Bytes)
    BY <1>1, <2>1, Zenon
  <2>4. Buf(p) = Busy /\ at \in {"recv", "close"}
    BY <1>5, <2>1, Zenon
  <2> QED BY <2>2, <2>3, <2>4, Zenon
<1>6. CASE p = Ready \o Busy /\ at \in {"recv", "close"}
  <2>1. Rest(p) = Busy
    BY <1>6, Messages, ReadReady, Zenon
  <2> QED BY <1>6, <2>1, Messages, Zenon DEF Tidy
<1>7. ASSUME NEW q \in Seq(Bytes), Jammed(q), p = q PROVE FALSE
  BY <1>7, ReadJammed, Zenon
<1>8. ASSUME NEW q \in Seq(Bytes), Jammed(q), p = Ready \o q
      PROVE  Rest(p) \in Seq(Bytes) /\ Tidy(Rest(p), at) /\ Rest(p) # <<>>
  <2>1. Rest(p) = q
    BY <1>8, ReadReady, Zenon
  <2>2. q # <<>>
    BY <1>1, <1>8 DEF Jammed
  <2> QED BY <1>8, <2>1, <2>2, Zenon DEF Tidy
<1> QED BY <1>2, <1>4, <1>5, <1>6, <1>7, <1>8, Zenon DEF Tidy

(* Whatever is read, what is left are bytes. *)
LEMMA RestType ==
  ASSUME NEW p \in Seq(Bytes)
  PROVE  Rest(p) \in Seq(Bytes)
<1> DEFINE n == Len(p)
           k == Len(Buf(p))
<1>1. n \in Nat /\ \A i \in 1 .. n : p[i] \in Bytes
  BY LenProperties, ElementOfSeq, Zenon
<1>2. k \in Nat
  <2>1. CASE n < 5
    BY <1>1, <2>1, ReadAll
  <2>2. CASE n >= 5
    <3>1. Buf(p) = SubSeq(p, 1, 5)
      BY <1>1, <2>2 DEF Buf
    <3>2. \A i \in 1 .. 5 : p[i] \in Bytes
      BY <1>1, <2>2
    <3>3. Len(SubSeq(p, 1, 5)) = IF 1 <= 5 THEN 5 - 1 + 1 ELSE 0
      BY <3>2, SubSeqProperties
    <3> QED BY <3>1, <3>3
  <2> QED BY <1>1, <2>1, <2>2
<1>3. Rest(p) = SubSeq(p, k + 1, n)
  BY Zenon DEF Rest
<1> HIDE DEF n, k
<1>4. \A i \in k + 1 .. n : p[i] \in Bytes
  BY <1>1, <1>2
<1> DEFINE j == k + 1
<1>5. j \in Int /\ n \in Int /\ \A i \in j .. n : p[i] \in Bytes
  BY <1>1, <1>2, <1>4
<1>6. Rest(p) = SubSeq(p, j, n)
  BY <1>3, Zenon
<1> HIDE DEF j
<1>7. SubSeq(p, j, n) \in Seq(Bytes)
  BY <1>5, SubSeqProperties, Zenon
<1> QED BY <1>6, <1>7, Zenon

(* What a read of a pipe does. *)
LEMMA ReadEffect ==
  ASSUME PoolTypes, NEW s \in Services, ReadPipe(s)
  PROVE  /\ pipe' = [pipe EXCEPT ![s] = Rest(pipe[s])]
         /\ straddled' = IF Buf(pipe[s]) \in {Busy, Free, Ready}
                         THEN straddled ELSE straddled \cup {s}
         /\ busy' \in [Services -> {0, 1}]
         /\ \A r \in Services \ {s} : busy'[r] = busy[r]
         /\ Buf(pipe[s]) = Busy => busy'[s] = 1
         /\ Buf(pipe[s]) \in {Free, Ready} => busy'[s] = 0
<1> DEFINE b == Buf(pipe[s])
           v == IF Matches(b, Busy) THEN 1
                ELSE IF Matches(b, Free) \/ Matches(b, Ready) THEN 0 ELSE busy[s]
<1>1. /\ pipe \in [Services -> Seq(Bytes)] /\ busy \in [Services -> {0, 1}]
      /\ straddled \subseteq Services
  BY Zenon DEF PoolTypes
<1>2. pipe' = [pipe EXCEPT ![s] = Rest(pipe[s])]
  BY <1>1, Zenon DEF ReadPipe, Rest, Buf
<1>3. straddled' = IF b \in {Busy, Free, Ready} THEN straddled ELSE straddled \cup {s}
  BY Zenon DEF ReadPipe, Buf
<1>4. busy' = [busy EXCEPT ![s] = v]
  BY <1>1, Zenon DEF ReadPipe, Buf
<1>5. b = Busy => v = 1
  BY Compare, Zenon
<1>6. b \in {Free, Ready} => v = 0
  BY Compare, Zenon
<1>7. v \in {0, 1}
  BY <1>1, Zenon
<1> HIDE DEF b, v
<1>8. /\ busy' \in [Services -> {0, 1}] /\ busy'[s] = v
      /\ \A r \in Services \ {s} : busy'[r] = busy[r]
  BY <1>1, <1>4, <1>7, Zenon
<1> QED BY <1>2, <1>3, <1>5, <1>6, <1>8, Zenon DEF b

-----------------------------------------------------------------------------
(* Types, and who waits for the listener.                                  *)

(* A step of the listener keeps the types. *)
LEMMA TypesListener ==
  ASSUME PoolTypes, Waiting, ListenerStep
  PROVE  PoolTypes'
<1>1. CASE Select
  <2>1. accepts' \in BOOLEAN
    BY <1>1, Zenon DEF Select
  <2>3. pc' = "scan" /\ readfds' \subseteq Services
    BY <1>1, Zenon DEF Select
  <2>2. UNCHANGED <<busy, straddled, svc, serving, client, port, pipe, queue>>
    BY <1>1, Zenon DEF Select, services, clients
  <2> QED BY <2>1, <2>2, <2>3, Zenon DEF PoolTypes
<1>2. CASE Dispatch
  <2>1. /\ pc' = "select" /\ accepts' \in BOOLEAN
        /\ UNCHANGED <<readfds, straddled, svc, serving, pipe, queue>>
    BY <1>2, Zenon DEF Dispatch, services
  <2>2. CASE ~accepts
    <3>1. UNCHANGED <<busy, client, port>>
      BY <1>2, <2>2, Zenon DEF Dispatch, clients
    <3> QED BY <2>1, <3>1, Zenon DEF PoolTypes
  <2>3. CASE accepts
    <3>1. Head(lqueue) \in Clients
      BY <2>3, HeadTailProperties, Zenon DEF Waiting
    <3>2. CASE /\ client' = [client EXCEPT ![Head(lqueue)] = "turned_away"]
               /\ UNCHANGED <<busy, port>>
      BY <2>1, <3>1, <3>2, Zenon DEF PoolTypes
    <3>3. ASSUME NEW s \in Services,
                 port' = [port EXCEPT ![Head(lqueue)] = s],
                 busy' = [busy EXCEPT ![s] = 1],
                 client' = [client EXCEPT ![Head(lqueue)] = "told"]
          PROVE  PoolTypes'
      <4> DEFINE c == Head(lqueue)
      <4>1. c \in Clients /\ port' = [port EXCEPT ![c] = s] /\ client' = [client EXCEPT ![c] = "told"]
        BY <3>1, <3>3, Zenon
      <4> HIDE DEF c
      <4>2. /\ port' \in [Clients -> Services \cup {0}] /\ busy' \in [Services -> {0, 1}]
            /\ client' \in [Clients -> {"new", "queued", "told", "turned_away", "refused",
                                        "connected", "requested", "served"}]
            /\ \A d \in Clients : client'[d] \in {"told", "refused"} => port'[d] \in Services
        <5>1. port' \in [Clients -> Services \cup {0}]
          BY <4>1, Zenon DEF PoolTypes
        <5>2. busy' \in [Services -> {0, 1}]
          BY <3>3, Zenon DEF PoolTypes
        <5>3. client' \in [Clients -> {"new", "queued", "told", "turned_away", "refused",
                                      "connected", "requested", "served"}]
          BY <4>1, Zenon DEF PoolTypes
        <5>4. \A d \in Clients : client'[d] \in {"told", "refused"} => port'[d] \in Services
          BY <4>1, Zenon DEF PoolTypes
        <5> QED BY <5>1, <5>2, <5>3, <5>4, Zenon
      <4> QED BY <2>1, <4>2, Zenon DEF PoolTypes
    <3> QED BY <1>2, <2>3, <3>2, <3>3, Zenon DEF Dispatch
  <2> QED BY <2>2, <2>3, Zenon DEF PoolTypes
<1>3. ASSUME NEW s \in Services, ReadPipe(s) PROVE PoolTypes'
  <2>1. Rest(pipe[s]) \in Seq(Bytes)
    BY RestType, Zenon DEF PoolTypes
  <2>2. /\ pipe' \in [Services -> Seq(Bytes)] /\ straddled' \subseteq Services
        /\ busy' \in [Services -> {0, 1}]
    <3>1. /\ pipe' = [pipe EXCEPT ![s] = Rest(pipe[s])]
          /\ straddled' = straddled \/ straddled' = straddled \cup {s}
          /\ busy' \in [Services -> {0, 1}]
      BY <1>3, ReadEffect, Zenon
    <3>2. pipe' \in [Services -> Seq(Bytes)]
      BY <2>1, <3>1, Zenon DEF PoolTypes
    <3>3. straddled' \subseteq Services
      BY <3>1, Zenon DEF PoolTypes
    <3> QED BY <3>1, <3>2, <3>3, Zenon
  <2>3. readfds' \subseteq Services
    BY <1>3, Zenon DEF ReadPipe, PoolTypes
  <2>4. UNCHANGED <<pc, accepts, svc, serving, client, port, queue>>
    BY <1>3, Zenon DEF ReadPipe, services, clients
  <2> QED BY <2>2, <2>3, <2>4, Zenon DEF PoolTypes
<1> QED BY <1>1, <1>2, <1>3, Zenon DEF ListenerStep

(* The pipe after a message of a service. *)
LEMMA NotifyType ==
  ASSUME PoolTypes, NEW s \in Services, NEW m \in {Ready, Busy, Free}, Notify(s, m)
  PROVE  pipe' \in [Services -> Seq(Bytes)]
<1>1. m \in Seq(Bytes) /\ pipe[s] \in Seq(Bytes)
  BY Messages, Zenon DEF PoolTypes
<1>2. pipe[s] \o m \in Seq(Bytes)
  BY <1>1, ConcatProperties, Zenon
<1> QED BY <1>2, Zenon DEF Notify, PoolTypes

(* A step of a service keeps the types. *)
LEMMA TypesService ==
  ASSUME PoolTypes, NEW s \in Services, ServiceStep(s)
  PROVE  PoolTypes'
<1>1. CASE Listen(s)
  BY <1>1, Zenon DEF Listen, PoolTypes, listener, clients
<1>2. CASE SendReady(s) \/ SendBusy(s) \/ SendFree(s)
  <2>1. pipe' \in [Services -> Seq(Bytes)]
    BY <1>2, NotifyType, Zenon DEF SendReady, SendBusy, SendFree
  <2>2. /\ svc' \in [Services -> {"new", "listening", "accept", "accepted", "recv", "close"}]
        /\ serving' \in [Services -> Clients \cup {Nobody}]
    BY <1>2, Zenon DEF SendReady, SendBusy, SendFree, PoolTypes
  <2>3. UNCHANGED <<pc, readfds, accepts, busy, straddled, client, port, queue>>
    BY <1>2, Zenon DEF SendReady, SendBusy, SendFree, listener, clients
  <2> QED BY <2>1, <2>2, <2>3, Zenon DEF PoolTypes
<1>3. CASE Accept(s)
  <2>1. Head(queue[s]) \in Clients /\ Tail(queue[s]) \in Seq(Clients)
    BY <1>3, HeadTailProperties, Zenon DEF Accept, PoolTypes
  <2> QED BY <1>3, <2>1, Zenon DEF Accept, PoolTypes, listener, clients
<1>4. CASE Serve(s)
  <2>1. /\ client' \in [Clients -> {"new", "queued", "told", "turned_away", "refused",
                                    "connected", "requested", "served"}]
        /\ \A c \in Clients : client'[c] \in {"told", "refused"} => client'[c] = client[c]
    BY <1>4, Zenon DEF Serve, PoolTypes
  <2>2. svc' \in [Services -> {"new", "listening", "accept", "accepted", "recv", "close"}]
    BY <1>4, Zenon DEF Serve, PoolTypes
  <2>3. UNCHANGED <<pc, readfds, accepts, busy, straddled, serving, port, pipe, queue>>
    BY <1>4, Zenon DEF Serve, listener
  <2> QED BY <2>1, <2>2, <2>3, Zenon DEF PoolTypes
<1> QED BY <1>1, <1>2, <1>3, <1>4, Zenon DEF ServiceStep

(* A step of a client keeps the types. *)
LEMMA TypesClient ==
  ASSUME PoolTypes, NEW c \in Clients, AskListener(c) \/ ClientStep(c)
  PROVE  PoolTypes'
<1>1. CASE AskListener(c)
  BY <1>1, Zenon DEF AskListener, PoolTypes, listener, services
<1>2. CASE Request(c)
  BY <1>2, Zenon DEF Request, PoolTypes, listener, services
<1>3. CASE Connect(c)
  <2>1. /\ client' \in [Clients -> {"new", "queued", "told", "turned_away", "refused",
                                    "connected", "requested", "served"}]
        /\ \A d \in Clients : client'[d] \in {"told", "refused"} => client[d] \in {"told", "refused"}
    BY <1>3, Zenon DEF Connect, PoolTypes
  <2>2. queue' \in [Services -> Seq(Clients)]
    <3>1. queue[port[c]] \in Seq(Clients)
      BY <1>3, Zenon DEF Connect, PoolTypes
    <3>2. Append(queue[port[c]], c) \in Seq(Clients)
      BY <3>1, AppendProperties, Zenon
    <3> QED BY <1>3, <3>2, Zenon DEF Connect, PoolTypes
  <2>3. UNCHANGED <<pc, readfds, accepts, busy, straddled, svc, serving, port, pipe>>
    BY <1>3, Zenon DEF Connect, listener, services
  <2> QED BY <2>1, <2>2, <2>3, Zenon DEF PoolTypes
<1> QED BY <1>1, <1>2, <1>3, Zenon DEF ClientStep

(* Taking the first client off the listener's queue, or adding one that    *)
(* was not there.                                                          *)
LEMMA QueueStep ==
  ASSUME Waiting
  PROVE  /\ lqueue # <<>> =>
              /\ Tail(lqueue) \in Seq(Clients) /\ IsInjective(Tail(lqueue))
              /\ Head(lqueue) \in Clients /\ client[Head(lqueue)] = "queued"
              /\ \A i \in 1 .. Len(Tail(lqueue)) :
                   client[Tail(lqueue)[i]] = "queued" /\ Tail(lqueue)[i] # Head(lqueue)
         /\ \A c \in Clients : client[c] # "queued" =>
              /\ Append(lqueue, c) \in Seq(Clients) /\ IsInjective(Append(lqueue, c))
              /\ Append(lqueue, c) # <<>>
              /\ \A i \in 1 .. Len(Append(lqueue, c)) :
                   \/ Append(lqueue, c)[i] = c
                   \/ client[Append(lqueue, c)[i]] = "queued" /\ Append(lqueue, c)[i] # c
<1> DEFINE n == Len(lqueue)
<1>1. /\ n \in Nat /\ lqueue \in Seq(Clients) /\ DOMAIN lqueue = 1 .. n
      /\ \A i \in 1 .. n : client[lqueue[i]] = "queued"
      /\ \A i, j \in 1 .. n : lqueue[i] = lqueue[j] => i = j
  <2>1. n \in Nat /\ lqueue \in Seq(Clients) /\ DOMAIN lqueue = 1 .. n
    BY LenProperties, Zenon DEF Waiting
  <2> QED BY <2>1, Zenon DEF Waiting, IsInjective
<1>2. ASSUME lqueue # <<>>
      PROVE  /\ Tail(lqueue) \in Seq(Clients) /\ IsInjective(Tail(lqueue))
             /\ Head(lqueue) \in Clients /\ client[Head(lqueue)] = "queued"
             /\ \A i \in 1 .. Len(Tail(lqueue)) :
                  client[Tail(lqueue)[i]] = "queued" /\ Tail(lqueue)[i] # Head(lqueue)
  <2> DEFINE t == Tail(lqueue)
             c == Head(lqueue)
  <2>1. /\ t \in Seq(Clients) /\ Len(t) = n - 1 /\ n > 0 /\ c \in Clients
        /\ \A i \in 1 .. Len(t) : t[i] = lqueue[i + 1]
        /\ c = lqueue[1] /\ DOMAIN t = 1 .. Len(t)
    BY <1>1, <1>2, HeadTailProperties, EmptySeq, LenProperties
  <2> HIDE DEF t, c, n
  <2>2. client[c] = "queued"
    BY <1>1, <2>1
  <2>3. ASSUME NEW i \in 1 .. Len(t) PROVE client[t[i]] = "queued" /\ t[i] # c
    <3> DEFINE j == i + 1
    <3>1. j \in 1 .. n /\ j # 1 /\ t[i] = lqueue[j] /\ 1 \in 1 .. n
      BY <1>1, <2>1
    <3> HIDE DEF j
    <3> QED BY <1>1, <2>1, <3>1, Zenon
  <2>4. IsInjective(t)
    BY <1>1, <2>1 DEF IsInjective
  <2> QED BY <2>1, <2>2, <2>3, <2>4, Zenon DEF t, c
<1>3. ASSUME NEW c \in Clients, client[c] # "queued"
      PROVE  /\ Append(lqueue, c) \in Seq(Clients) /\ IsInjective(Append(lqueue, c))
             /\ Append(lqueue, c) # <<>>
             /\ \A i \in 1 .. Len(Append(lqueue, c)) :
                  \/ Append(lqueue, c)[i] = c
                  \/ client[Append(lqueue, c)[i]] = "queued" /\ Append(lqueue, c)[i] # c
  <2> DEFINE t == Append(lqueue, c)
  <2>1. /\ t \in Seq(Clients) /\ Len(t) = n + 1 /\ t # <<>>
        /\ \A i \in 1 .. n : t[i] = lqueue[i]
        /\ t[n + 1] = c
    BY <1>1, AppendProperties
  <2>2. DOMAIN t = 1 .. n + 1
    BY <2>1, LenProperties, Zenon
  <2> HIDE DEF t, n
  <2>3. \A i \in 1 .. n : client[t[i]] = "queued" /\ t[i] # c
    BY <1>1, <1>3, <2>1, Zenon
  <2>4. \A i \in 1 .. n + 1 : i \in 1 .. n \/ i = n + 1
    BY <1>1
  <2>5. IsInjective(t)
    BY <1>1, <2>1, <2>2, <2>3, <2>4 DEF IsInjective
  <2> QED BY <2>1, <2>3, <2>4, <2>5, Zenon DEF t
<1> QED BY <1>2, <1>3, Zenon

(* Who waits for the listener stays right. *)
LEMMA WaitingStep ==
  ASSUME PoolTypes, Waiting, Next
  PROVE  Waiting'
<1>1. ASSUME \A c \in Clients : client[c] = "queued" => client'[c] = "queued",
             lqueue' = lqueue, accepts' => lqueue # <<>>
      PROVE  Waiting'
  <2>1. \A i \in 1 .. Len(lqueue) : lqueue[i] \in Clients
    <3>1. lqueue \in Seq(Clients)
      BY Zenon DEF Waiting
    <3> QED BY <3>1, ElementOfSeq, Zenon
  <2> QED BY <1>1, <2>1, Zenon DEF Waiting
<1>2. CASE Select
  <2>1. accepts' => lqueue # <<>>
    BY <1>2, Zenon DEF Select
  <2>2. UNCHANGED <<client, lqueue>>
    BY <1>2, Zenon DEF Select, clients
  <2> QED BY <1>1, <2>1, <2>2, Zenon
<1>3. CASE Dispatch
  <2>1. CASE ~accepts
    <3>1. ~accepts' /\ UNCHANGED <<client, lqueue>>
      BY <1>3, <2>1, Zenon DEF Dispatch, clients
    <3> QED BY <1>1, <3>1, Zenon
  <2>2. CASE accepts
    <3> DEFINE c == Head(lqueue)
               t == Tail(lqueue)
    <3>1. ~accepts' /\ lqueue' = t
      BY <1>3, <2>2, Zenon DEF Dispatch
    <3>2. client' = [client EXCEPT ![c] = "turned_away"] \/ client' = [client EXCEPT ![c] = "told"]
      BY <1>3, <2>2, Zenon DEF Dispatch
    <3>3. /\ t \in Seq(Clients) /\ IsInjective(t)
          /\ \A i \in 1 .. Len(t) : client[t[i]] = "queued" /\ t[i] # c
      BY <2>2, QueueStep, Zenon DEF Waiting
    <3>4. \A i \in 1 .. Len(t) : t[i] \in Clients
      BY <3>3, ElementOfSeq, Zenon
    <3> HIDE DEF t, c
    <3>5. \A i \in 1 .. Len(t) : client'[t[i]] = "queued"
      BY <3>2, <3>3, <3>4, Zenon DEF PoolTypes
    <3> QED BY <3>1, <3>3, <3>5, Zenon DEF Waiting
  <2> QED BY <2>1, <2>2, Zenon
<1>4. ASSUME NEW s \in Services, ReadPipe(s) PROVE Waiting'
  <2>1. UNCHANGED <<accepts, client, lqueue>>
    BY <1>4, Zenon DEF ReadPipe, clients
  <2> QED BY <1>1, <2>1, Zenon DEF Waiting
<1>5. ASSUME NEW s \in Services, ServiceStep(s) PROVE Waiting'
  <2>1. UNCHANGED <<accepts, lqueue>>
    BY <1>5, Zenon DEF ServiceStep, Listen, SendReady, Accept, SendBusy, Serve, SendFree, listener
  <2>2. \A c \in Clients : client[c] = "queued" => client'[c] = "queued"
    BY <1>5, Zenon DEF ServiceStep, Listen, SendReady, Accept, SendBusy, Serve, SendFree, clients, PoolTypes
  <2> QED BY <1>1, <2>1, <2>2, Zenon DEF Waiting
<1>6. ASSUME NEW c \in Clients, AskListener(c) PROVE Waiting'
  <2> DEFINE t == Append(lqueue, c)
  <2>1. /\ client[c] = "new" /\ client' = [client EXCEPT ![c] = "queued"] /\ lqueue' = t
    BY <1>6, Zenon DEF AskListener
  <2>2. /\ t \in Seq(Clients) /\ IsInjective(t) /\ t # <<>>
        /\ \A i \in 1 .. Len(t) : t[i] = c \/ (client[t[i]] = "queued" /\ t[i] # c)
    <3>1. client[c] # "queued"
      BY <2>1, Zenon
    <3>2. t \in Seq(Clients) /\ IsInjective(t) /\ t # <<>>
      BY <3>1, QueueStep, Zenon
    <3>3. \A i \in 1 .. Len(Append(lqueue, c)) :
            \/ Append(lqueue, c)[i] = c
            \/ client[Append(lqueue, c)[i]] = "queued" /\ Append(lqueue, c)[i] # c
      BY <3>1, QueueStep, Zenon
    <3> QED BY <3>2, <3>3, Zenon
  <2>3. \A i \in 1 .. Len(t) : t[i] \in Clients
    BY <2>2, ElementOfSeq, Zenon
  <2> HIDE DEF t
  <2>4. \A i \in 1 .. Len(t) : client'[t[i]] = "queued"
    BY <2>1, <2>2, <2>3, Zenon DEF PoolTypes
  <2> QED BY <2>1, <2>2, <2>4, Zenon DEF Waiting
<1>7. ASSUME NEW c \in Clients, ClientStep(c) PROVE Waiting'
  <2>1. UNCHANGED <<accepts, lqueue>>
    BY <1>7, Zenon DEF ClientStep, Connect, Request, listener
  <2>2. \A d \in Clients : client[d] = "queued" => client'[d] = "queued"
    BY <1>7, Zenon DEF ClientStep, Connect, Request, PoolTypes
  <2> QED BY <1>1, <2>1, <2>2, Zenon DEF Waiting
<1> QED BY <1>2, <1>3, <1>4, <1>5, <1>6, <1>7, Zenon DEF Next, ListenerStep

-----------------------------------------------------------------------------
(* The pipes and the flags.                                                *)

(* Nothing happens to the pipe of a service that another one writes. *)
LEMMA OneService ==
  ASSUME PoolTypes, NEW s \in Services, ServiceStep(s)
  PROVE  /\ UNCHANGED <<straddled, busy>>
         /\ \A r \in Services \ {s} :
              svc'[r] = svc[r] /\ pipe'[r] = pipe[r] /\ queue'[r] = queue[r]
         /\ \A c \in Clients : client[c] \in {"told", "refused"} => client'[c] = client[c]
         /\ port' = port
<1>1. UNCHANGED <<straddled, busy, port>>
  BY Zenon DEF ServiceStep, Listen, SendReady, Accept, SendBusy, Serve, SendFree, listener, clients
<1>2. \A r \in Services \ {s} : svc'[r] = svc[r]
  BY Zenon DEF ServiceStep, Listen, SendReady, Accept, SendBusy, Serve, SendFree, PoolTypes
<1>3. \A r \in Services \ {s} : pipe'[r] = pipe[r]
  BY Zenon DEF ServiceStep, Listen, SendReady, Accept, SendBusy, Serve, SendFree, Notify, PoolTypes
<1>4. \A r \in Services \ {s} : queue'[r] = queue[r]
  BY Zenon DEF ServiceStep, Listen, SendReady, Accept, SendBusy, Serve, SendFree, PoolTypes
<1>5. \A c \in Clients : client[c] \in {"told", "refused"} => client'[c] = client[c]
  BY Zenon DEF ServiceStep, Listen, SendReady, Accept, SendBusy, Serve, SendFree, clients, PoolTypes
<1> QED BY <1>1, <1>2, <1>3, <1>4, <1>5, Zenon

(* A service keeps its pipe tidy. *)
LEMMA TidyService ==
  ASSUME PoolTypes, PipesAreTidy, NEW s \in Services, ServiceStep(s), s \notin straddled
  PROVE  /\ Tidy(pipe'[s], svc'[s])
         /\ svc'[s] \in {"new", "listening"} => pipe'[s] = <<>>
<1>1. /\ Tidy(pipe[s], svc[s]) /\ pipe[s] \in Seq(Bytes)
      /\ svc[s] \in {"new", "listening"} => pipe[s] = <<>>
  BY Zenon DEF PipesAreTidy, PoolTypes
<1>2. CASE Listen(s)
  <2>1. pipe'[s] = <<>>
    BY <1>1, <1>2, Zenon DEF Listen
  <2> QED BY <2>1, Zenon DEF Tidy
<1>3. CASE SendReady(s)
  <2>1. svc'[s] = "accept" /\ pipe'[s] = pipe[s] \o Ready /\ pipe[s] = <<>>
    BY <1>1, <1>3, Zenon DEF SendReady, Notify, PoolTypes
  <2>2. pipe[s] \o Ready = Ready
    BY <2>1, Messages, ConcatEmptySeq, Zenon
  <2>3. svc'[s] = "accept" /\ pipe'[s] = Ready
    BY <2>1, <2>2, Zenon
  <2> QED BY <2>3, Zenon DEF Tidy
<1>4. CASE Accept(s)
  <2>1. svc[s] = "accept" /\ svc'[s] = "accepted" /\ pipe'[s] = pipe[s]
    BY <1>4, Zenon DEF Accept, PoolTypes
  <2>2. Tidy(pipe[s], "accepted")
    BY <1>1, <2>1, Zenon DEF Tidy
  <2> QED BY <2>1, <2>2, Zenon
<1>5. CASE SendBusy(s)
  <2>1. svc[s] = "accepted" /\ svc'[s] = "recv" /\ pipe'[s] = pipe[s] \o Busy
    BY <1>5, Zenon DEF SendBusy, Notify, PoolTypes
  <2>2. Tidy(pipe[s] \o Busy, "recv")
    BY <1>1, <2>1, TidyWrite, Zenon
  <2> QED BY <2>1, <2>2, Zenon
<1>6. CASE Serve(s)
  <2>1. svc[s] = "recv" /\ svc'[s] = "close" /\ pipe'[s] = pipe[s]
    BY <1>6, Zenon DEF Serve, PoolTypes
  <2>2. Tidy(pipe[s], "close")
    BY <1>1, <2>1, Zenon DEF Tidy
  <2> QED BY <2>1, <2>2, Zenon
<1>7. CASE SendFree(s)
  <2>1. svc[s] = "close" /\ svc'[s] = "accept" /\ pipe'[s] = pipe[s] \o Free
    BY <1>7, Zenon DEF SendFree, Notify, PoolTypes
  <2>2. Tidy(pipe[s] \o Free, "accept")
    BY <1>1, <2>1, TidyWrite, Zenon
  <2> QED BY <2>1, <2>2, Zenon
<1> QED BY <1>2, <1>3, <1>4, <1>5, <1>6, <1>7, Zenon DEF ServiceStep

(* The pipes stay tidy. *)
LEMMA TidyStep ==
  ASSUME PoolTypes, PipesAreTidy, Next
  PROVE  PipesAreTidy'
<1>1. CASE \/ Select \/ Dispatch
          \/ \E c \in Clients : AskListener(c) \/ ClientStep(c)
  <2>1. UNCHANGED <<pipe, svc, straddled>>
    BY <1>1, Zenon DEF Select, Dispatch, AskListener, ClientStep, Connect, Request, services, listener
  <2> QED BY <2>1, Zenon DEF PipesAreTidy
<1>2. ASSUME NEW s \in Services, ServiceStep(s) PROVE PipesAreTidy'
  <2>1. ASSUME NEW r \in Services \ straddled, r # s
        PROVE  /\ Tidy(pipe'[r], svc'[r])
               /\ svc'[r] \in {"new", "listening"} => pipe'[r] = <<>>
    <3>1. pipe'[r] = pipe[r] /\ svc'[r] = svc[r]
      BY <1>2, <2>1, OneService, Zenon
    <3> QED BY <3>1, Zenon DEF PipesAreTidy
  <2>2. straddled' = straddled
    BY <1>2, OneService, Zenon
  <2> QED BY <1>2, <2>1, <2>2, TidyService, Zenon DEF PipesAreTidy
<1>3. ASSUME NEW s \in Services, ReadPipe(s) PROVE PipesAreTidy'
  <2>1. pipe' = [pipe EXCEPT ![s] = Rest(pipe[s])] /\ svc' = svc
    BY <1>3, ReadEffect, Zenon DEF ReadPipe, services
  <2>2. /\ straddled \subseteq straddled'
        /\ Buf(pipe[s]) \notin {Busy, Free, Ready} => s \in straddled'
    BY <1>3, ReadEffect, Zenon
  <2>3. ASSUME NEW r \in Services \ straddled', r # s
        PROVE  /\ Tidy(pipe'[r], svc'[r])
               /\ svc'[r] \in {"new", "listening"} => pipe'[r] = <<>>
    <3>1. pipe'[r] = pipe[r] /\ svc'[r] = svc[r] /\ r \notin straddled
      BY <2>1, <2>2, <2>3, Zenon DEF PoolTypes
    <3> QED BY <3>1, Zenon DEF PipesAreTidy
  <2>4. ASSUME s \notin straddled'
        PROVE  /\ Tidy(pipe'[s], svc'[s])
               /\ svc'[s] \in {"new", "listening"} => pipe'[s] = <<>>
    <3>1. /\ pipe[s] \in Seq(Bytes) /\ Tidy(pipe[s], svc[s])
          /\ svc[s] \in {"new", "listening"} => pipe[s] = <<>>
      BY <2>2, <2>4, Zenon DEF PipesAreTidy, PoolTypes
    <3>2. Buf(pipe[s]) \in {Busy, Free, Ready}
      BY <2>2, <2>4, Zenon
    <3>3. pipe'[s] = Rest(pipe[s]) /\ svc'[s] = svc[s]
      BY <2>1, Zenon DEF PoolTypes
    <3>4. Tidy(Rest(pipe[s]), svc[s])
      BY <3>1, <3>2, TidyRead, Zenon
    <3>5. svc[s] \notin {"new", "listening"}
      <4>1. ASSUME pipe[s] = <<>> PROVE FALSE
        <5>1. Len(pipe[s]) <= 5
          BY <4>1, EmptySeq
        <5>2. Buf(pipe[s]) = <<>>
          BY <3>1, <4>1, <5>1, ReadAll, Zenon
        <5> QED BY <3>2, <5>2, Messages, Zenon
      <4> QED BY <3>1, <4>1, Zenon
    <3> QED BY <3>3, <3>4, <3>5, Zenon
  <2> QED BY <2>3, <2>4, Zenon DEF PipesAreTidy
<1> QED BY <1>1, <1>2, <1>3, Zenon DEF Next, ListenerStep

(* What BusyFlagIsRight says of one service. *)
FlagIsRight(s) ==
  pipe[s] = <<>> =>
    /\ svc[s] \in {"recv", "close"} => busy[s] = 1
    /\ busy[s] = 1 => svc[s] \in {"accepted", "recv", "close"}
                      \/ queue[s] # <<>> \/ Expected(s) # {}

(* A service that is left alone, and whose clients still come, keeps its   *)
(* flag right.                                                             *)
LEMMA FlagKept ==
  ASSUME NEW s \in Services, FlagIsRight(s),
         pipe'[s] = pipe[s], svc'[s] = svc[s], busy'[s] = busy[s], queue'[s] = queue[s],
         \A c \in Clients : port[c] = s /\ client[c] \in {"told", "refused"}
           => port'[c] = s /\ client'[c] \in {"told", "refused"}
  PROVE  FlagIsRight(s)'
<1>1. Expected(s) # {} => Expected(s)' # {}
  BY Zenon DEF Expected
<1> QED BY <1>1, Zenon DEF FlagIsRight

(* The flags and a step of a service. *)
LEMMA FlagService ==
  ASSUME PoolTypes, BusyFlagIsRight, NEW s \in Services, ServiceStep(s)
  PROVE  BusyFlagIsRight'
<1>1. \A r \in Services \ straddled : FlagIsRight(r)
  BY Zenon DEF BusyFlagIsRight, FlagIsRight
<1>2. ASSUME NEW r \in Services, r # s, FlagIsRight(r) PROVE FlagIsRight(r)'
  BY <1>2, OneService, FlagKept, Zenon
<1>3. ASSUME NEW m \in {Ready, Busy, Free}, Notify(s, m) PROVE FlagIsRight(s)'
  <2>1. m \in Seq(Bytes) /\ m # <<>> /\ pipe[s] \in Seq(Bytes) /\ pipe'[s] = pipe[s] \o m
    BY <1>3, Messages, Zenon DEF Notify, PoolTypes
  <2>2. pipe[s] \o m # <<>>
    BY <2>1, ConcatSimplifications, Zenon
  <2>3. pipe'[s] # <<>>
    BY <2>1, <2>2, Zenon
  <2> QED BY <2>3, Zenon DEF FlagIsRight
<1>4. ASSUME FlagIsRight(s) PROVE FlagIsRight(s)'
  <2>1. CASE Listen(s)
    <3>1. /\ svc[s] = "new" /\ svc'[s] = "listening"
          /\ pipe'[s] = pipe[s] /\ busy'[s] = busy[s] /\ queue'[s] = queue[s]
          /\ client' = client /\ port' = port
      BY <2>1, Zenon DEF Listen, PoolTypes, listener, clients
    <3>2. Expected(s)' = Expected(s)
      BY <3>1, Zenon DEF Expected
    <3> QED BY <1>4, <3>1, <3>2, Zenon DEF FlagIsRight
  <2>2. CASE SendReady(s) \/ SendBusy(s) \/ SendFree(s)
    BY <1>3, <2>2, Zenon DEF SendReady, SendBusy, SendFree
  <2>3. CASE Accept(s)
    <3>1. svc'[s] = "accepted"
      BY <2>3, Zenon DEF Accept, PoolTypes
    <3> QED BY <3>1, Zenon DEF FlagIsRight
  <2>4. CASE Serve(s)
    <3>1. /\ svc[s] = "recv" /\ svc'[s] = "close" /\ pipe'[s] = pipe[s] /\ busy'[s] = busy[s]
      BY <2>4, Zenon DEF Serve, PoolTypes, listener
    <3> QED BY <1>4, <3>1, Zenon DEF FlagIsRight
  <2> QED BY <2>1, <2>2, <2>3, <2>4, Zenon DEF ServiceStep
<1>5. straddled' = straddled
  BY OneService, Zenon
<1> QED BY <1>1, <1>2, <1>4, <1>5, Zenon DEF BusyFlagIsRight, FlagIsRight

(* The flags and a step of the listener. *)
LEMMA FlagListener ==
  ASSUME PoolTypes, Waiting, PipesAreTidy, BusyFlagIsRight, ListenerStep
  PROVE  BusyFlagIsRight'
<1>1. \A r \in Services \ straddled : FlagIsRight(r)
  BY Zenon DEF BusyFlagIsRight, FlagIsRight
<1>2. SUFFICES \A r \in Services \ straddled' : FlagIsRight(r)'
  BY Zenon DEF BusyFlagIsRight, FlagIsRight
<1>3. CASE Select
  <2>1. UNCHANGED <<pipe, svc, busy, queue, client, port, straddled>>
    BY <1>3, Zenon DEF Select, services, clients
  <2> QED BY <1>1, <2>1, FlagKept, Zenon
<1>4. CASE Dispatch
  <2>1. UNCHANGED <<pipe, svc, queue, straddled>>
    BY <1>4, Zenon DEF Dispatch, services
  <2>2. CASE ~accepts
    <3>1. UNCHANGED <<busy, client, port>>
      BY <1>4, <2>2, Zenon DEF Dispatch, clients
    <3> QED BY <1>1, <2>1, <3>1, FlagKept, Zenon
  <2>3. CASE accepts
    <3> DEFINE c == Head(lqueue)
    <3>1. c \in Clients /\ client[c] = "queued"
      BY <2>3, QueueStep, Zenon DEF Waiting
    <3>2. \/ client' = [client EXCEPT ![c] = "turned_away"] /\ UNCHANGED <<busy, port>>
          \/ \E s \in Services : /\ port' = [port EXCEPT ![c] = s]
                                 /\ busy' = [busy EXCEPT ![s] = 1]
                                 /\ client' = [client EXCEPT ![c] = "told"]
      BY <1>4, <2>3, Zenon DEF Dispatch
    <3> HIDE DEF c
    <3>3. \A d \in Clients : client[d] \in {"told", "refused"}
            => client'[d] = client[d] /\ port'[d] = port[d]
      BY <3>1, <3>2, Zenon DEF PoolTypes
    <3>4. CASE UNCHANGED busy
      BY <1>1, <2>1, <3>3, <3>4, FlagKept, Zenon
    <3>5. ASSUME NEW s \in Services, port' = [port EXCEPT ![c] = s],
                 busy' = [busy EXCEPT ![s] = 1], client' = [client EXCEPT ![c] = "told"]
          PROVE  \A r \in Services \ straddled' : FlagIsRight(r)'
      <4>1. \A r \in Services \ {s} : busy'[r] = busy[r]
        BY <3>5, Zenon DEF PoolTypes
      <4>2. \A r \in Services \ straddled' : r # s => FlagIsRight(r)'
        BY <1>1, <2>1, <3>3, <4>1, FlagKept, Zenon
      <4>3. port'[c] = s /\ client'[c] = "told" /\ busy'[s] = 1
        BY <3>1, <3>5, Zenon DEF PoolTypes
      <4>4. Expected(s)' # {}
        BY <3>1, <4>3, Zenon DEF Expected
      <4>5. FlagIsRight(s)'
        BY <4>3, <4>4, Zenon DEF FlagIsRight
      <4> QED BY <4>2, <4>5, Zenon
    <3> QED BY <3>2, <3>4, <3>5, Zenon
  <2> QED BY <2>2, <2>3, Zenon
<1>5. ASSUME NEW s \in Services, ReadPipe(s), NEW r \in Services \ straddled'
      PROVE  FlagIsRight(r)'
  <2>1. pipe' = [pipe EXCEPT ![s] = Rest(pipe[s])] /\ UNCHANGED <<svc, queue, client, port>>
    BY <1>5, ReadEffect, Zenon DEF ReadPipe, services, clients
  <2>2. /\ straddled \subseteq straddled'
        /\ Buf(pipe[s]) \notin {Busy, Free, Ready} => s \in straddled'
    BY <1>5, ReadEffect, Zenon
  <2>3. /\ \A q \in Services \ {s} : busy'[q] = busy[q]
        /\ Buf(pipe[s]) = Busy => busy'[s] = 1
        /\ Buf(pipe[s]) \in {Free, Ready} => busy'[s] = 0
    BY <1>5, ReadEffect, Zenon
  <2>4. CASE r # s
    <3>1. pipe'[r] = pipe[r] /\ busy'[r] = busy[r] /\ r \notin straddled
      BY <2>1, <2>2, <2>3, <2>4, Zenon DEF PoolTypes
    <3> QED BY <1>1, <2>1, <3>1, FlagKept, Zenon
  <2>5. CASE r = s
    <3>1. pipe[s] \in Seq(Bytes) /\ Tidy(pipe[s], svc[s])
      BY <2>2, <2>5, Zenon DEF PipesAreTidy, PoolTypes
    <3>2. Buf(pipe[s]) \in {Busy, Free, Ready}
      BY <1>5, <2>2, <2>5, Zenon
    <3>3. pipe'[s] = Rest(pipe[s]) /\ svc'[s] = svc[s]
      BY <2>1, Zenon DEF PoolTypes
    <3>4. Rest(pipe[s]) = <<>> =>
            \/ Buf(pipe[s]) = Busy /\ svc[s] \in {"recv", "close"}
            \/ Buf(pipe[s]) \in {Ready, Free} /\ svc[s] \in {"accept", "accepted"}
      BY <3>1, <3>2, TidyRead, Zenon
    <3>5. pipe'[s] = <<>> =>
            \/ busy'[s] = 1 /\ svc'[s] \in {"recv", "close"}
            \/ busy'[s] = 0 /\ svc'[s] \in {"accept", "accepted"}
      BY <2>3, <3>3, <3>4, Zenon
    <3> QED BY <2>5, <3>5 DEF FlagIsRight
  <2> QED BY <2>4, <2>5, Zenon
<1> QED BY <1>3, <1>4, <1>5, Zenon DEF ListenerStep

(* The flags and a step of a client. *)
LEMMA FlagClient ==
  ASSUME PoolTypes, BusyFlagIsRight, NEW c \in Clients, AskListener(c) \/ ClientStep(c)
  PROVE  BusyFlagIsRight'
<1>1. \A r \in Services \ straddled : FlagIsRight(r)
  BY Zenon DEF BusyFlagIsRight, FlagIsRight
<1>2. SUFFICES \A r \in Services \ straddled' : FlagIsRight(r)'
  BY Zenon DEF BusyFlagIsRight, FlagIsRight
<1>3. UNCHANGED <<pipe, svc, busy, port, straddled>>
  BY Zenon DEF AskListener, ClientStep, Connect, Request, listener, services
<1>4. CASE AskListener(c) \/ Request(c)
  <2>1. /\ queue' = queue
        /\ \A d \in Clients : client[d] \in {"told", "refused"} => client'[d] = client[d]
    BY <1>4, Zenon DEF AskListener, Request, PoolTypes
  <2> QED BY <1>1, <1>3, <2>1, FlagKept, Zenon
<1>5. CASE Connect(c)
  <2>1. CASE queue' = queue /\ client' = [client EXCEPT ![c] = "refused"]
    <3>1. \A d \in Clients : client[d] \in {"told", "refused"} => client'[d] \in {"told", "refused"}
      BY <2>1, Zenon DEF PoolTypes
    <3> QED BY <1>1, <1>3, <2>1, <3>1, FlagKept, Zenon
  <2>2. CASE /\ client' = [client EXCEPT ![c] = "connected"]
             /\ queue' = [queue EXCEPT ![port[c]] = Append(@, c)]
    <3>1. port[c] \in Services /\ queue[port[c]] \in Seq(Clients)
      BY <1>5, Zenon DEF Connect, PoolTypes
    <3>2. \A r \in Services \ straddled : r # port[c] => FlagIsRight(r)'
      <4>1. \A d \in Clients : d # c => client'[d] = client[d]
        BY <2>2, Zenon DEF PoolTypes
      <4>2. \A r \in Services : r # port[c] => queue'[r] = queue[r]
        BY <2>2, Zenon DEF PoolTypes
      <4> QED BY <1>1, <1>3, <4>1, <4>2, FlagKept, Zenon
    <3>3. FlagIsRight(port[c]) => FlagIsRight(port[c])'
      <4> DEFINE s == port[c]
      <4>1. queue'[s] = Append(queue[s], c)
        BY <2>2, <3>1, Zenon DEF PoolTypes
      <4>2. Append(queue[s], c) # <<>>
        BY <3>1, AppendProperties
      <4>3. queue'[s] # <<>>
        BY <4>1, <4>2, Zenon
      <4>4. pipe'[s] = pipe[s] /\ svc'[s] = svc[s] /\ busy'[s] = busy[s] /\ s' = s
        BY <1>3, Zenon
      <4> HIDE DEF s
      <4>5. FlagIsRight(s) => FlagIsRight(s)'
        BY <4>3, <4>4, Zenon DEF FlagIsRight
      <4> QED BY <4>5, Zenon DEF s
    <3> QED BY <1>1, <1>3, <3>2, <3>3, Zenon
  <2> QED BY <1>5, <2>1, <2>2, Zenon DEF Connect
<1> QED BY <1>4, <1>5, Zenon DEF ClientStep

(* PoolInv holds before the first client comes. *)
LEMMA PoolInvInit == Init => PoolInv
<1> SUFFICES ASSUME Init PROVE PoolInv
  BY Zenon
<1>1. <<>> \in Seq(Bytes) /\ <<>> \in Seq(Clients) /\ Len(<<>>) = 0
  BY EmptySeq, Zenon
<1>2. PoolTypes
  BY <1>1, Zenon DEF Init, PoolTypes
<1>3. Waiting
  <2>1. IsInjective(lqueue)
    BY <1>1 DEF Init, IsInjective
  <2> QED BY <1>1, <2>1 DEF Init, Waiting
<1>4. PipesAreTidy
  BY Zenon DEF Init, PipesAreTidy, Tidy
<1>5. BusyFlagIsRight
  BY DEF Init, BusyFlagIsRight
<1> QED BY <1>2, <1>3, <1>4, <1>5, Zenon DEF PoolInv

(* Every step of the listener, the services and the clients keeps PoolInv. *)
LEMMA PoolInvStep == PoolInv /\ [Next]_vars => PoolInv'
<1> SUFFICES ASSUME PoolInv, [Next]_vars PROVE PoolInv'
  BY Zenon
<1>1. PoolTypes /\ Waiting /\ PipesAreTidy /\ BusyFlagIsRight
  BY Zenon DEF PoolInv
<1>2. CASE Next
  <2>1. PoolTypes'
    BY <1>1, <1>2, TypesListener, TypesService, TypesClient, Zenon DEF Next
  <2>2. Waiting' /\ PipesAreTidy'
    BY <1>1, <1>2, WaitingStep, TidyStep, Zenon
  <2>3. BusyFlagIsRight'
    BY <1>1, <1>2, FlagListener, FlagService, FlagClient, Zenon DEF Next
  <2> QED BY <2>1, <2>2, <2>3, Zenon DEF PoolInv
<1>3. CASE UNCHANGED vars
  <2>1. UNCHANGED <<pc, readfds, accepts, busy, straddled, svc, serving, client, port, pipe,
                    queue, lqueue>>
    BY <1>3, Zenon DEF vars, listener, services, clients
  <2>2. PoolTypes' /\ Waiting' /\ PipesAreTidy'
    BY <1>1, <2>1, Zenon DEF PoolTypes, Waiting, PipesAreTidy
  <2>3. BusyFlagIsRight'
    BY <1>1, <2>1, Zenon DEF BusyFlagIsRight, Expected
  <2> QED BY <2>2, <2>3, Zenon DEF PoolInv
<1> QED BY <1>2, <1>3, Zenon

(* busy of service_objs, for any number of services and clients: as long   *)
(* as every read of a service's pipe took one message and nothing is left  *)
(* in it, a service that serves is marked busy, and one marked busy serves *)
(* or has been handed a client that has yet to come.                       *)
THEOREM FlagsAreRight == Spec => []BusyFlagIsRight
<1>1. PoolInv => BusyFlagIsRight
  BY Zenon DEF PoolInv
<1> QED BY <1>1, PoolInvInit, PoolInvStep, PTL DEF Spec

(* A client taken off the listener's queue was waiting there, and nobody   *)
(* waits twice; what select said of the listening socket still holds when  *)
(* accept is called; what a service and a client are told is of its type.  *)
THEOREM PoolTypeCorrect == Spec => [](PoolTypes /\ Waiting)
<1>1. PoolInv => PoolTypes /\ Waiting
  BY Zenon DEF PoolInv
<1> QED BY <1>1, PoolInvInit, PoolInvStep, PTL DEF Spec
=============================================================================
