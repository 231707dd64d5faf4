--------------------------- MODULE ShmChatProofs ---------------------------
(***************************************************************************)
(* Safety of the shared-memory chat for every set of users, every size of  *)
(* the array of messages, of the displays and of the Clients window.       *)
(***************************************************************************)
EXTENDS ShmChat, SequenceTheorems, FiniteSetTheorems, TLAPS

(* The most recent lines of a sequence are a sequence of at most n lines,   *)
(* its last ones.                                                           *)
LEMMA LastNProperties ==
  ASSUME NEW S, NEW s \in Seq(S), NEW n \in Nat
  PROVE  /\ LastN(s, n) \in Seq(S)
         /\ Len(LastN(s, n)) = IF Len(s) <= n THEN Len(s) ELSE n
         /\ \A i \in 1 .. Len(LastN(s, n)) :
               LastN(s, n)[i] = s[Len(s) - Len(LastN(s, n)) + i]
<1>1. Len(s) \in Nat /\ \A i \in 1 .. Len(s) : s[i] \in S
  BY LenProperties, ElementOfSeq, Zenon
<1>2. CASE Len(s) <= n
  <2>1. LastN(s, n) = s
    BY <1>2, Zenon DEF LastN
  <2> QED BY <1>1, <1>2, <2>1
<1>3. CASE ~(Len(s) <= n)
  <2> DEFINE a == Len(s) - n + 1
             b == Len(s)
             t == SubSeq(s, a, b)
  <2>1. a \in Int /\ b \in Int /\ a <= b + 1 /\ a > 1 /\ \A i \in a .. b : s[i] \in S
    BY <1>1, <1>3
  <2>2. /\ t \in Seq(S)
        /\ Len(t) = IF a <= b THEN b - a + 1 ELSE 0
        /\ \A i \in 1 .. b - a + 1 : t[i] = s[a + i - 1]
    <3> HIDE DEF a, b
    <3> QED BY <2>1, SubSeqProperties
  <2>3. LastN(s, n) = t
    BY <1>3, Zenon DEF LastN
  <2>4. Len(t) = n
    BY <1>1, <2>2
  <2>5. \A i \in 1 .. n : t[i] = s[Len(s) - n + i]
    BY <1>1, <2>2
  <2> HIDE DEF t
  <2> QED BY <1>3, <2>2, <2>3, <2>4, <2>5, Zenon
<1> QED BY <1>2, <1>3, Zenon

(* What Show does to a display: the new line comes last, and the oldest one *)
(* goes when the buffer is full.                                            *)
LEMMA ShowProperties ==
  ASSUME NEW S, NEW ls \in Seq(S), NEW m \in S, Len(ls) <= MAX_DISPLAY_LINES
  PROVE  /\ Show(ls, m) \in Seq(S)
         /\ Len(Show(ls, m)) = IF Len(ls) < MAX_DISPLAY_LINES THEN Len(ls) + 1
                                                              ELSE Len(ls)
         /\ Show(ls, m)[Len(Show(ls, m))] = m
         /\ \A i \in 1 .. Len(Show(ls, m)) - 1 :
               Show(ls, m)[i] = IF Len(ls) < MAX_DISPLAY_LINES THEN ls[i] ELSE ls[i + 1]
<1>1. MAX_DISPLAY_LINES \in Nat \ {0} /\ Len(ls) \in Nat
  BY SizeAssumption, LenProperties, Zenon
<1>2. CASE Len(ls) < MAX_DISPLAY_LINES
  <2>1. Show(ls, m) = Append(ls, m)
    BY <1>2, Zenon DEF Show
  <2> QED BY <1>1, <1>2, <2>1, AppendProperties
<1>3. CASE ~(Len(ls) < MAX_DISPLAY_LINES)
  <2>1. Show(ls, m) = Append(Tail(ls), m) /\ ls # <<>>
    BY <1>1, <1>3, EmptySeq DEF Show
  <2> DEFINE t == Tail(ls)
  <2>2. /\ t \in Seq(S) /\ Len(t) = Len(ls) - 1
        /\ \A i \in 1 .. Len(t) : t[i] = ls[i + 1]
    BY <2>1, HeadTailProperties, Zenon
  <2> HIDE DEF t
  <2>3. /\ Append(t, m) \in Seq(S) /\ Len(Append(t, m)) = Len(t) + 1
        /\ \A i \in 1 .. Len(t) : Append(t, m)[i] = t[i]
        /\ Append(t, m)[Len(t) + 1] = m
    BY <2>2, AppendProperties
  <2>4. Show(ls, m) = Append(t, m)
    BY <2>1, Zenon DEF t
  <2> DEFINE f == Append(t, m)
  <2> HIDE DEF f
  <2>5. f \in Seq(S) /\ Len(f) = Len(ls) /\ f[Len(f)] = m
    BY <1>1, <2>2, <2>3 DEF f
  <2>6. \A i \in 1 .. Len(f) - 1 : f[i] = ls[i + 1]
    BY <1>1, <2>2, <2>3, <2>5, Zenon DEF f
  <2> QED BY <1>3, <2>4, <2>5, <2>6, Zenon DEF f
<1> QED BY <1>2, <1>3, Zenon

(* Showing one more line keeps the display at the most recent ones.         *)
LEMMA ShowIsLastN ==
  ASSUME NEW S, NEW s \in Seq(S), NEW m \in S
  PROVE  Show(LastN(s, MAX_DISPLAY_LINES), m) = LastN(Append(s, m), MAX_DISPLAY_LINES)
<1> DEFINE N == MAX_DISPLAY_LINES
           ls == LastN(s, N)
           f == Show(ls, m)
           s2 == Append(s, m)
           g == LastN(s2, N)
<1>1. N \in Nat \ {0} /\ Len(s) \in Nat
  BY SizeAssumption, LenProperties, Zenon
<1>2. /\ ls \in Seq(S) /\ Len(ls) = IF Len(s) <= N THEN Len(s) ELSE N
      /\ \A i \in 1 .. Len(ls) : ls[i] = s[Len(s) - Len(ls) + i]
  BY <1>1, LastNProperties, Zenon
<1>3. /\ s2 \in Seq(S) /\ Len(s2) = Len(s) + 1 /\ s2[Len(s) + 1] = m
      /\ \A i \in 1 .. Len(s) : s2[i] = s[i]
  BY AppendProperties
<1>4. /\ g \in Seq(S) /\ Len(g) = IF Len(s2) <= N THEN Len(s2) ELSE N
      /\ \A i \in 1 .. Len(g) : g[i] = s2[Len(s2) - Len(g) + i]
  <2>1. N \in Nat /\ s2 \in Seq(S)
    BY <1>1, <1>3, Zenon
  <2> HIDE DEF N, ls, f, s2
  <2> QED BY <2>1, LastNProperties, Zenon
<1>5. /\ f \in Seq(S) /\ Len(f) = IF Len(ls) < N THEN Len(ls) + 1 ELSE Len(ls)
      /\ f[Len(f)] = m
      /\ \A i \in 1 .. Len(f) - 1 : f[i] = IF Len(ls) < N THEN ls[i] ELSE ls[i + 1]
  <2>1. Len(ls) <= N
    BY <1>1, <1>2
  <2> HIDE DEF ls
  <2> QED BY <1>2, <2>1, ShowProperties
<1> HIDE DEF N, ls, f, s2, g
<1>6. Len(f) = Len(g)
  BY <1>1, <1>2, <1>3, <1>4, <1>5
<1>7. ASSUME NEW i \in 1 .. Len(f) PROVE f[i] = g[i]
  <2>0. g[i] = s2[Len(s2) - Len(g) + i]
    BY <1>4, <1>6, <1>7, Zenon
  <2>1. CASE i = Len(f)
    <3>1. Len(s2) - Len(g) + i = Len(s) + 1
      BY <1>1, <1>3, <1>4, <1>6, <2>1
    <3> QED BY <1>3, <1>5, <2>0, <2>1, <3>1, Zenon
  <2>2. CASE i # Len(f)
    <3>1. CASE Len(ls) < N
      <4>1. Len(ls) = Len(s) /\ Len(f) = Len(s) + 1 /\ i \in 1 .. Len(s)
        BY <1>1, <1>2, <1>5, <1>7, <2>2, <3>1
      <4>2. f[i] = s[i]
        <5>1. i \in 1 .. Len(f) - 1 /\ i \in 1 .. Len(ls) /\ Len(s) - Len(ls) + i = i
          BY <1>1, <4>1
        <5>2. f[i] = ls[i] /\ ls[i] = s[Len(s) - Len(ls) + i]
          BY <1>2, <1>5, <3>1, <5>1, Zenon
        <5> QED BY <5>1, <5>2, Zenon
      <4>3. g[i] = s[i]
        <5>1. Len(s2) - Len(g) + i = i
          BY <1>1, <1>3, <1>6, <4>1
        <5> QED BY <1>3, <2>0, <4>1, <5>1, Zenon
      <4> QED BY <4>2, <4>3, Zenon
    <3>2. CASE ~(Len(ls) < N)
      <4>1. Len(ls) = N /\ Len(f) = N /\ Len(s) >= N /\ i \in 1 .. N - 1
        BY <1>1, <1>2, <1>5, <1>7, <2>2, <3>2
      <4>2. f[i] = s[Len(s) - N + i + 1]
        <5>1. /\ i \in 1 .. Len(f) - 1 /\ i + 1 \in 1 .. Len(ls)
              /\ Len(s) - Len(ls) + (i + 1) = Len(s) - N + i + 1
          BY <1>1, <4>1
        <5>2. f[i] = ls[i + 1] /\ ls[i + 1] = s[Len(s) - Len(ls) + (i + 1)]
          BY <1>2, <1>5, <3>2, <5>1, Zenon
        <5> QED BY <5>1, <5>2, Zenon
      <4>3. g[i] = s2[Len(s) + 1 - N + i]
        <5>1. Len(s2) - Len(g) + i = Len(s) + 1 - N + i
          BY <1>1, <1>3, <1>6, <4>1
        <5> QED BY <2>0, <5>1, Zenon
      <4>4. Len(s) + 1 - N + i \in 1 .. Len(s)
        BY <1>1, <4>1
      <4>5. Len(s) + 1 - N + i = Len(s) - N + i + 1
        BY <1>1, <4>1
      <4> QED BY <1>3, <4>2, <4>3, <4>4, <4>5, Zenon
    <3> QED BY <3>1, <3>2, Zenon
  <2> QED BY <2>1, <2>2, Zenon
<1>8. f = g
  BY <1>4, <1>5, <1>6, <1>7, SeqEqual, Zenon
<1> QED BY <1>8, Zenon DEF N, ls, f, s2, g

-----------------------------------------------------------------------------
(* The Clients window stays a list of users. *)
LEMMA UpdateClientsType ==
  ASSUME NEW cs \in Seq(Users), NEW m \in Messages
  PROVE  UpdateClients(cs, m) \in Seq(Users)
<1>1. Len(cs) \in Nat /\ DOMAIN cs = 1 .. Len(cs) /\ \A i \in 1 .. Len(cs) : cs[i] \in Users
  BY LenProperties, ElementOfSeq, Zenon
<1>2. m.user \in Users
  BY DEF Messages, Msg
<1>3. Append(cs, m.user) \in Seq(Users)
  BY <1>2, AppendProperties, Zenon
<1>4. ASSUME Has(cs, m.user) PROVE Without(cs, m.user) \in Seq(Users)
  <2> DEFINE n == Len(cs) - 1
             k == First(cs, m.user)
             w == [i \in 1 .. n |-> IF i < k THEN cs[i] ELSE cs[i + 1]]
  <2>1. n \in Nat
    BY <1>1, <1>4 DEF Has
  <2>2. \A i \in 1 .. n : cs[i] \in Users /\ cs[i + 1] \in Users
    BY <1>1, <2>1
  <2> HIDE DEF n, k
  <2>3. w \in [1 .. n -> Users]
    BY <2>2, Zenon
  <2>4. w \in Seq(Users)
    BY <2>1, <2>3, SeqDef
  <2> QED BY <2>4, Zenon DEF Without, n, k
<1>5. CASE m.kind = "joined" /\ ~Has(cs, m.user) /\ Len(cs) < MAX_CLIENTS
  BY <1>3, <1>5, Zenon DEF UpdateClients
<1>6. CASE m.kind = "left" /\ Has(cs, m.user)
  <2>1. UpdateClients(cs, m) = Without(cs, m.user)
    BY <1>6, Zenon DEF UpdateClients
  <2> QED BY <1>4, <1>6, <2>1, Zenon
<1>7. CASE ~(m.kind = "joined" /\ ~Has(cs, m.user) /\ Len(cs) < MAX_CLIENTS)
           /\ ~(m.kind = "left" /\ Has(cs, m.user))
  <2>1. UpdateClients(cs, m) = cs
    BY <1>7, Zenon DEF UpdateClients
  <2> QED BY <2>1, Zenon
<1> QED BY <1>5, <1>6, <1>7, Zenon

(* Posting a message leaves the earlier ones where they are. *)
LEMMA PostProperties ==
  ASSUME TypeOK, lock = Nobody, NEW m \in Messages, Post(m)
  PROVE  /\ messages' \in Seq(Messages) /\ msg_count' <= MAX_MESSAGES_TOTAL
         /\ msg_count <= msg_count'
         /\ \A i \in 1 .. msg_count : messages'[i] = messages[i]
         /\ lock' \in {Nobody, Overrun}
<1>1. messages \in Seq(Messages) /\ Len(messages) \in Nat /\ MAX_MESSAGES_TOTAL \in Nat
  BY SizeAssumption, LenProperties, Zenon DEF TypeOK
<1>2. CASE messages' = Append(messages, m) /\ msg_count < MAX_MESSAGES_TOTAL /\ UNCHANGED lock
  <2>1. /\ messages' \in Seq(Messages) /\ Len(messages') = Len(messages) + 1
        /\ \A i \in 1 .. Len(messages) : messages'[i] = messages[i]
    BY <1>1, <1>2, AppendProperties
  <2> QED BY <1>1, <1>2, <2>1 DEF msg_count
<1>3. CASE UNCHANGED messages /\ lock' = Overrun
  BY <1>1, <1>3 DEF TypeOK, msg_count
<1> QED BY <1>2, <1>3, Zenon DEF Post

(* A step of a main thread that may post a message and then wakes everybody *)
(* keeps what TypeOK says of the shared memory and of the readers.          *)
LEMMA PosterStep ==
  ASSUME TypeOK, lock = Nobody, Broadcast, UNCHANGED readerVars,
         \/ \E m \in Messages : Post(m)
         \/ UNCHANGED <<messages, lock>>
  PROVE  /\ messages' \in Seq(Messages) /\ msg_count' <= MAX_MESSAGES_TOTAL
         /\ msg_count <= msg_count'
         /\ \A i \in 1 .. msg_count : messages'[i] = messages[i]
         /\ lock' \in {Nobody, Overrun}
         /\ reader' \in [Users -> {"off", "check", "lock", "waiting", "drain", "exited"}]
         /\ \A u \in Users : reader'[u] # "waiting" /\ reader'[u] # "drain" /\ lock' # u
         /\ \A u \in Users : last_msg'[u] <= msg_count'
<1>1. /\ messages' \in Seq(Messages) /\ msg_count' <= MAX_MESSAGES_TOTAL
      /\ msg_count <= msg_count'
      /\ \A i \in 1 .. msg_count : messages'[i] = messages[i]
      /\ lock' \in {Nobody, Overrun}
  <2>1. CASE \E m \in Messages : Post(m)
    BY <2>1, PostProperties, Zenon
  <2>2. CASE UNCHANGED <<messages, lock>>
    <3>1. Len(messages) \in Nat
      BY LenProperties, Zenon DEF TypeOK
    <3> QED BY <2>2, <3>1 DEF TypeOK, msg_count
  <2> QED BY <2>1, <2>2, Zenon
<1>2. \A u \in Users : reader[u] # "drain"
  BY UserAssumption, Zenon DEF TypeOK
<1>3. /\ reader' \in [Users -> {"off", "check", "lock", "waiting", "drain", "exited"}]
      /\ \A u \in Users : reader'[u] # "waiting" /\ reader'[u] # "drain"
  BY <1>2, Zenon DEF Broadcast, TypeOK
<1>4. \A u \in Users : lock' # u
  BY <1>1, UserAssumption, Zenon
<1>5. \A u \in Users : last_msg'[u] <= msg_count'
  <2> DEFINE a == msg_count  b == msg_count'
  <2>1. a \in Nat /\ b \in Nat
    BY <1>1, LenProperties, Zenon DEF TypeOK, msg_count
  <2>2. a <= b /\ last_msg' = last_msg /\ \A u \in Users : last_msg[u] \in Nat /\ last_msg[u] <= a
    BY <1>1, Zenon DEF TypeOK, readerVars
  <2> HIDE DEF a, b
  <2>3. \A u \in Users : last_msg'[u] <= b
    BY <2>1, <2>2
  <2> QED BY <2>3, Zenon DEF b
<1> QED BY <1>1, <1>3, <1>4, <1>5, Zenon

(* Which steps post: joining, talking and leaving. *)
LEMMA Posters ==
  ASSUME TypeOK, NEW u \in Users, Join(u) \/ SendText(u) \/ Leave(u)
  PROVE  /\ lock = Nobody /\ Broadcast /\ UNCHANGED readerVars
         /\ \/ \E m \in Messages : Post(m)
            \/ UNCHANGED <<messages, lock>>
<1>1. Msg("joined", u, 0) \in Messages /\ Msg("left", u, 0) \in Messages
  BY DEF Messages
<1>2. CASE Join(u)
  BY <1>1, <1>2, Zenon DEF Join
<1>3. CASE SendText(u)
  <2>1. texts + 1 \in 1 .. MaxTexts
    BY <1>3, SizeAssumption DEF SendText, TypeOK
  <2>2. Msg("text", u, texts + 1) \in Messages
    BY <2>1 DEF Messages
  <2> QED BY <1>3, <2>2, Zenon DEF SendText
<1>4. CASE Leave(u)
  BY <1>1, <1>4, Zenon DEF Leave
<1> QED BY <1>2, <1>3, <1>4, Zenon

(* An empty room has the right types. *)
LEMMA TypeInit == Init => TypeOK
<1> SUFFICES ASSUME Init PROVE TypeOK
  BY Zenon
<1>1. <<>> \in Seq(Messages) /\ <<>> \in Seq(Users) /\ Len(<<>>) = 0
  BY EmptySeq, Zenon
<1>2. Nobody \notin Users
  BY UserAssumption, Zenon
<1> QED BY <1>1, <1>2, SizeAssumption DEF Init, TypeOK, msg_count

(* A client has no reader before client_core_start creates it: TypeOK is    *)
(* inductive only with this, since pthread_create must not turn a reader    *)
(* that holds the mutex into a new one.                                     *)
NotStarted == \A u \in Users : main[u] \in {"off", "create"} => reader[u] = "off"

(* No step gives a client a reader before CreateReader does. *)
LEMMA NotStartedStep == TypeOK /\ NotStarted /\ [Next]_vars => NotStarted'
<1> SUFFICES ASSUME TypeOK, NotStarted, [Next]_vars PROVE NotStarted'
  BY Zenon
<1>1. ASSUME \A v \in Users : /\ main'[v] \in {"off", "create"} => main[v] \in {"off", "create"}
                              /\ reader[v] = "off" => reader'[v] = "off"
      PROVE  NotStarted'
  BY <1>1, Zenon DEF NotStarted
<1>2. ASSUME NEW u \in Users, Join(u) \/ SendText(u) \/ Leave(u) PROVE NotStarted'
  BY <1>1, <1>2, Zenon DEF Join, SendText, Leave, Broadcast, TypeOK
<1>3. ASSUME NEW u \in Users, CreateReader(u) PROVE NotStarted'
  BY <1>3, Zenon DEF CreateReader, NotStarted, TypeOK
<1>4. ASSUME NEW u \in Users, Quit(u) \/ JoinReader(u) PROVE NotStarted'
  BY <1>1, <1>4, Zenon DEF Quit, JoinReader, TypeOK
<1>5. ASSUME NEW u \in Users, ReaderCheck(u) \/ ReaderLock(u) \/ SpuriousWakeup(u)
      PROVE  NotStarted'
  BY <1>1, <1>5, Zenon DEF ReaderCheck, ReaderLock, SpuriousWakeup, TypeOK
<1>6. ASSUME NEW u \in Users, ReaderShow(u) \/ ReaderUnlock(u) PROVE NotStarted'
  BY <1>1, <1>6, Zenon DEF ReaderShow, ReaderUnlock, TypeOK
<1>7. CASE UNCHANGED vars
  BY <1>1, <1>7, Zenon DEF vars
<1> QED
  BY <1>2, <1>3, <1>4, <1>5, <1>6, <1>7, Zenon DEF Next, MainStep, ReaderStep, UserStep

(* Every step keeps the types, the bounds of the displays and the agreement *)
(* between the mutex and the reader that drains.                            *)
LEMMA TypeStep == TypeOK /\ NotStarted /\ [Next]_vars => TypeOK'
<1> SUFFICES ASSUME TypeOK, NotStarted, [Next]_vars PROVE TypeOK'
  BY Zenon
<1> USE DEF shmVars, readerVars
<1>1. ASSUME NEW u \in Users, Join(u) \/ SendText(u) \/ Leave(u) PROVE TypeOK'
  <2>1. /\ messages' \in Seq(Messages) /\ msg_count' <= MAX_MESSAGES_TOTAL
        /\ lock' \in {Nobody, Overrun}
        /\ reader' \in [Users -> {"off", "check", "lock", "waiting", "drain", "exited"}]
        /\ \A v \in Users : reader'[v] # "drain" /\ lock' # v
        /\ \A v \in Users : last_msg'[v] <= msg_count'
    BY <1>1, Posters, PosterStep, Zenon
  <2>2. client_count' \in 0 .. MAX_CLIENTS
    BY <1>1, SizeAssumption DEF Join, SendText, Leave, TypeOK
  <2>3. main' \in [Users -> {"off", "create", "ui", "leave", "pthread_join", "exited"}]
    BY <1>1, Zenon DEF Join, SendText, Leave, TypeOK
  <2>4. texts' \in 0 .. MaxTexts
    BY <1>1, SizeAssumption DEF Join, SendText, Leave, TypeOK
  <2>5. UNCHANGED <<stop, last_msg, lines, clients>>
    BY <1>1, Zenon DEF Join, SendText, Leave
  <2> QED BY <2>1, <2>2, <2>3, <2>4, <2>5, Zenon DEF TypeOK
<1>2. ASSUME NEW u \in Users, CreateReader(u) PROVE TypeOK'
  <2>1. reader[u] = "off" /\ lock # u
    BY <1>2, Zenon DEF CreateReader, NotStarted, TypeOK
  <2> QED BY <1>2, <2>1, Zenon DEF CreateReader, TypeOK, msg_count
<1>3. ASSUME NEW u \in Users, Quit(u) \/ JoinReader(u) PROVE TypeOK'
  BY <1>3, Zenon DEF Quit, JoinReader, TypeOK, msg_count
<1>4. ASSUME NEW u \in Users, ReaderCheck(u) \/ SpuriousWakeup(u) PROVE TypeOK'
  <2>1. /\ reader' \in [Users -> {"off", "check", "lock", "waiting", "drain", "exited"}]
        /\ \A v \in Users : reader'[v] = "drain" <=> reader[v] = "drain"
    BY <1>4, Zenon DEF ReaderCheck, SpuriousWakeup, TypeOK
  <2>2. UNCHANGED <<messages, client_count, lock, main, stop, last_msg, lines, clients, texts>>
    BY <1>4, Zenon DEF ReaderCheck, SpuriousWakeup
  <2> QED BY <2>1, <2>2, Zenon DEF TypeOK, msg_count
<1>5. ASSUME NEW u \in Users, ReaderLock(u) PROVE TypeOK'
  <2>1. \A v \in Users : reader[v] # "drain"
    BY <1>5, UserAssumption, Zenon DEF ReaderLock, TypeOK
  <2>2. /\ reader' \in [Users -> {"off", "check", "lock", "waiting", "drain", "exited"}]
        /\ lock' \in Users \cup {Nobody, Overrun}
    BY <1>5, Zenon DEF ReaderLock, TypeOK
  <2>3. \A v \in Users : reader'[v] = "drain" <=> lock' = v
    BY <1>5, <2>1, UserAssumption DEF ReaderLock, TypeOK
  <2> QED BY <1>5, <2>2, <2>3, Zenon DEF ReaderLock, TypeOK, msg_count
<1>6. ASSUME NEW u \in Users, ReaderShow(u) PROVE TypeOK'
  <2> DEFINE m == messages[last_msg[u] + 1]
  <2>1. Len(messages) \in Nat /\ last_msg[u] \in Nat /\ last_msg[u] < Len(messages)
    BY <1>6, LenProperties, Zenon DEF ReaderShow, TypeOK, msg_count
  <2>2. m \in Messages
    <3>1. last_msg[u] + 1 \in 1 .. Len(messages)
      BY <2>1
    <3> QED BY <3>1, ElementOfSeq, Zenon DEF TypeOK
  <2>3. /\ clients' = [clients EXCEPT ![u] = UpdateClients(clients[u], m)]
        /\ lines' = [lines EXCEPT ![u] = Show(lines[u], m)]
        /\ last_msg' = [last_msg EXCEPT ![u] = last_msg[u] + 1]
    BY <1>6, Zenon DEF ReaderShow
  <2> HIDE DEF m
  <2>4. clients' \in [Users -> Seq(Users)]
    <3>1. clients[u] \in Seq(Users)
      BY Zenon DEF TypeOK
    <3>2. UpdateClients(clients[u], m) \in Seq(Users)
      BY <2>2, <3>1, UpdateClientsType, Zenon
    <3> QED BY <2>3, <3>2, Zenon DEF TypeOK
  <2>5. lines' \in [Users -> Seq(Messages)] /\ Len(lines'[u]) <= MAX_DISPLAY_LINES
    <3> DEFINE ls == lines[u]
    <3>1. ls \in Seq(Messages) /\ Len(ls) <= MAX_DISPLAY_LINES
          /\ Len(ls) \in Nat /\ MAX_DISPLAY_LINES \in Nat
      BY SizeAssumption, LenProperties, Zenon DEF TypeOK
    <3> HIDE DEF ls
    <3>2. Show(ls, m) \in Seq(Messages) /\ Len(Show(ls, m)) <= MAX_DISPLAY_LINES
      BY <2>2, <3>1, ShowProperties
    <3>3. lines \in [Users -> Seq(Messages)] /\ lines' = [lines EXCEPT ![u] = Show(ls, m)]
      BY <2>3, Zenon DEF TypeOK, ls
    <3> QED BY <3>2, <3>3, Zenon
  <2>6. /\ last_msg' \in [Users -> Nat] /\ \A v \in Users : last_msg'[v] <= msg_count
    BY <2>1, <2>3 DEF TypeOK, msg_count
  <2>7. \A v \in Users : Len(lines'[v]) <= MAX_DISPLAY_LINES
    BY <2>3, <2>5, Zenon DEF TypeOK
  <2>8. UNCHANGED <<messages, client_count, lock, main, reader, stop, texts>>
    BY <1>6, Zenon DEF ReaderShow
  <2> QED BY <2>4, <2>5, <2>6, <2>7, <2>8, Zenon DEF TypeOK, msg_count
<1>7. ASSUME NEW u \in Users, ReaderUnlock(u) PROVE TypeOK'
  <2>1. lock = u /\ \A v \in Users : v # u => reader[v] # "drain"
    BY <1>7, Zenon DEF ReaderUnlock, TypeOK
  <2> QED BY <1>7, <2>1, UserAssumption, Zenon DEF ReaderUnlock, TypeOK, msg_count
<1>8. CASE UNCHANGED vars
  BY <1>8, Zenon DEF vars, TypeOK, msg_count
<1> QED
  BY <1>1, <1>2, <1>3, <1>4, <1>5, <1>6, <1>7, <1>8
    , Zenon DEF Next, MainStep, ReaderStep, UserStep

(* Types hold, no display outgrows its buffer, no reader is ahead of the    *)
(* messages and only the reader that drains holds the mutex.                *)
THEOREM RoomTypeCorrect == Spec => []TypeOK
<1>1. Init => NotStarted
  BY Zenon DEF Init, NotStarted
<1> QED BY <1>1, TypeInit, TypeStep, NotStartedStep, PTL DEF Spec

-----------------------------------------------------------------------------
(* A post wakes every waiting reader, and a reader waits only after it has  *)
(* found nothing new under the mutex.                                       *)
LEMMA NoSleepStep ==
  TypeOK /\ NoSleepOnUnread /\ [Next]_vars => NoSleepOnUnread'
<1> SUFFICES ASSUME TypeOK, NoSleepOnUnread, [Next]_vars PROVE NoSleepOnUnread'
  BY Zenon
<1> USE DEF shmVars, readerVars
<1>1. ASSUME NEW u \in Users, Join(u) \/ SendText(u) \/ Leave(u) PROVE NoSleepOnUnread'
  <2>1. \A v \in Users : reader'[v] # "waiting"
    BY <1>1, Posters, PosterStep, Zenon
  <2> QED BY <2>1, Zenon DEF NoSleepOnUnread
<1>2. ASSUME UNCHANGED <<messages, last_msg>>,
             \A v \in Users : reader'[v] = "waiting" => reader[v] = "waiting"
      PROVE  NoSleepOnUnread'
  BY <1>2, Zenon DEF NoSleepOnUnread, msg_count
<1>3. ASSUME NEW u \in Users, CreateReader(u) \/ Quit(u) \/ JoinReader(u)
      PROVE  NoSleepOnUnread'
  BY <1>2, <1>3, Zenon DEF CreateReader, Quit, JoinReader, TypeOK
<1>4. ASSUME NEW u \in Users, ReaderCheck(u) \/ SpuriousWakeup(u) \/ ReaderUnlock(u)
      PROVE  NoSleepOnUnread'
  BY <1>2, <1>4, Zenon DEF ReaderCheck, SpuriousWakeup, ReaderUnlock, TypeOK
<1>5. ASSUME NEW u \in Users, ReaderLock(u) PROVE NoSleepOnUnread'
  <2>1. last_msg[u] >= msg_count => last_msg[u] = msg_count
    <3>1. Len(messages) \in Nat /\ last_msg[u] \in Nat /\ last_msg[u] <= Len(messages)
      BY LenProperties, Zenon DEF TypeOK, msg_count
    <3> QED BY <3>1 DEF msg_count
  <2> QED BY <1>5, <2>1, Zenon DEF ReaderLock, NoSleepOnUnread, TypeOK, msg_count
<1>6. ASSUME NEW u \in Users, ReaderShow(u) PROVE NoSleepOnUnread'
  <2>1. /\ reader[u] # "waiting" /\ UNCHANGED <<messages, reader>>
        /\ \A v \in Users : v # u => last_msg'[v] = last_msg[v]
    BY <1>6, Zenon DEF ReaderShow, TypeOK
  <2> QED BY <2>1, Zenon DEF NoSleepOnUnread, msg_count
<1>7. CASE UNCHANGED vars
  BY <1>2, <1>7, Zenon DEF vars
<1> QED
  BY <1>1, <1>3, <1>4, <1>5, <1>6, <1>7, Zenon DEF Next, MainStep, ReaderStep, UserStep

(* No wakeup is lost: a reader that waits has shown every message, for any  *)
(* number of clients.                                                       *)
THEOREM NoLostWakeup == Spec => []NoSleepOnUnread
<1>1. Init => NoSleepOnUnread
  BY Zenon DEF Init, NoSleepOnUnread
<1> QED BY <1>1, RoomTypeCorrect, NoSleepStep, PTL DEF Spec

-----------------------------------------------------------------------------
(* What a reader has seen does not change when messages are added. *)
LEMMA SeenIsStable ==
  ASSUME NEW s \in Seq(Messages), NEW t \in Seq(Messages), Len(s) <= Len(t),
         \A i \in 1 .. Len(s) : t[i] = s[i],
         NEW k \in Nat, k <= Len(s)
  PROVE  SubSeq(t, 1, k) = SubSeq(s, 1, k)
<1>1. Len(s) \in Nat /\ Len(t) \in Nat
  BY LenProperties, Zenon
<1>2. \A i \in 1 .. k : s[i] \in Messages /\ t[i] \in Messages /\ s[i] = t[i]
  BY <1>1, ElementOfSeq
<1> DEFINE a == SubSeq(s, 1, k)  b == SubSeq(t, 1, k)
<1>3. /\ a \in Seq(Messages) /\ Len(a) = k
      /\ \A i \in 1 .. k : a[i] = s[i]
  BY <1>2, SubSeqProperties
<1>4. /\ b \in Seq(Messages) /\ Len(b) = k
      /\ \A i \in 1 .. k : b[i] = t[i]
  BY <1>2, SubSeqProperties
<1> HIDE DEF a, b
<1>5. \A i \in 1 .. Len(a) : a[i] = b[i]
  BY <1>2, <1>3, <1>4, Zenon
<1>6. a = b
  BY <1>3, <1>4, <1>5, SeqEqual, Zenon
<1> QED BY <1>6, Zenon DEF a, b

(* Handling the next message appends it to what the reader has seen. *)
LEMMA SeenGrows ==
  ASSUME NEW s \in Seq(Messages), NEW k \in Nat, k < Len(s)
  PROVE  /\ s[k + 1] \in Messages
         /\ SubSeq(s, 1, k) \in Seq(Messages)
         /\ SubSeq(s, 1, k + 1) = Append(SubSeq(s, 1, k), s[k + 1])
<1>1. Len(s) \in Nat
  BY LenProperties, Zenon
<1>2. k + 1 \in 1 .. Len(s) /\ 1 \in 1 .. Len(s) /\ k + 1 - 1 = k
  BY <1>1
<1>3. s[k + 1] \in Messages /\ \A i \in 1 .. k : s[i] \in Messages
  BY <1>1, <1>2, ElementOfSeq
<1>4. SubSeq(s, 1, k) \in Seq(Messages)
  BY <1>3, SubSeqProperties
<1>5. SubSeq(s, 1, k + 1) = SubSeq(s, 1, k + 1 - 1) \o <<s[k + 1]>>
  BY <1>2, SubSeqRecursiveSecond
<1>6. Append(SubSeq(s, 1, k), s[k + 1]) = SubSeq(s, 1, k) \o <<s[k + 1]>>
  BY <1>3, <1>4, AppendIsConcat, Zenon
<1> QED BY <1>2, <1>3, <1>4, <1>5, <1>6, Zenon

(* No post changes what a reader has seen. *)
LEMMA SeenKept ==
  ASSUME TypeOK, NEW u \in Users, Join(u) \/ SendText(u) \/ Leave(u), NEW v \in Users
  PROVE  Seen(v)' = Seen(v)
<1>1. /\ messages' \in Seq(Messages) /\ Len(messages) <= Len(messages')
      /\ \A i \in 1 .. Len(messages) : messages'[i] = messages[i]
  BY Posters, PosterStep, Zenon DEF msg_count
<1>2. UNCHANGED last_msg
  BY Zenon DEF Join, SendText, Leave, readerVars
<1>3. messages \in Seq(Messages) /\ last_msg[v] \in Nat /\ last_msg[v] <= Len(messages)
  BY Zenon DEF TypeOK, msg_count
<1>4. SubSeq(messages', 1, last_msg[v]) = SubSeq(messages, 1, last_msg[v])
  BY <1>1, <1>3, SeenIsStable, Zenon
<1> QED BY <1>2, <1>4, Zenon DEF Seen

(* The display follows the messages step by step. *)
LEMMA DisplayStep ==
  TypeOK /\ DisplayIsRecent /\ [Next]_vars => DisplayIsRecent'
<1> SUFFICES ASSUME TypeOK, DisplayIsRecent, [Next]_vars PROVE DisplayIsRecent'
  BY Zenon
<1> USE DEF shmVars, readerVars
<1>1. ASSUME NEW u \in Users, Join(u) \/ SendText(u) \/ Leave(u) PROVE DisplayIsRecent'
  <2>1. UNCHANGED lines
    BY <1>1, Zenon DEF Join, SendText, Leave
  <2>2. \A v \in Users : Seen(v)' = Seen(v)
    BY <1>1, SeenKept, Zenon
  <2> QED BY <2>1, <2>2, Zenon DEF DisplayIsRecent
<1>2. ASSUME UNCHANGED <<messages, last_msg, lines>> PROVE DisplayIsRecent'
  BY <1>2, Zenon DEF DisplayIsRecent, Seen
<1>3. ASSUME NEW u \in Users, ReaderShow(u) PROVE DisplayIsRecent'
  <2> DEFINE k == last_msg[u]
  <2>1. messages \in Seq(Messages) /\ k \in Nat /\ k < Len(messages)
    BY <1>3, Zenon DEF ReaderShow, TypeOK, msg_count
  <2>2. /\ UNCHANGED messages
        /\ last_msg' = [last_msg EXCEPT ![u] = k + 1]
        /\ lines' = [lines EXCEPT ![u] = Show(lines[u], messages[k + 1])]
    BY <1>3, Zenon DEF ReaderShow
  <2>3. last_msg \in [Users -> Nat] /\ lines \in [Users -> Seq(Messages)]
    BY Zenon DEF TypeOK
  <2>4. lines[u] = LastN(SubSeq(messages, 1, k), MAX_DISPLAY_LINES)
    BY Zenon DEF DisplayIsRecent, Seen
  <2>5. \A v \in Users : v # u => lines'[v] = LastN(Seen(v)', MAX_DISPLAY_LINES)
    BY <2>2, <2>3, Zenon DEF DisplayIsRecent, Seen
  <2> HIDE DEF k
  <2>6. /\ messages[k + 1] \in Messages
        /\ SubSeq(messages, 1, k) \in Seq(Messages)
        /\ SubSeq(messages, 1, k + 1) = Append(SubSeq(messages, 1, k), messages[k + 1])
    BY <2>1, SeenGrows, Zenon
  <2>7. Show(lines[u], messages[k + 1]) = LastN(SubSeq(messages, 1, k + 1), MAX_DISPLAY_LINES)
    BY <2>4, <2>6, ShowIsLastN, Zenon
  <2>8. lines'[u] = LastN(Seen(u)', MAX_DISPLAY_LINES)
    BY <2>2, <2>3, <2>7, Zenon DEF Seen
  <2> QED BY <2>5, <2>8, Zenon DEF DisplayIsRecent
<1>4. ASSUME NEW u \in Users, CreateReader(u) \/ Quit(u) \/ JoinReader(u)
      PROVE  DisplayIsRecent'
  BY <1>2, <1>4, Zenon DEF CreateReader, Quit, JoinReader
<1>5. ASSUME NEW u \in Users, ReaderCheck(u) \/ ReaderLock(u) \/ SpuriousWakeup(u)
                              \/ ReaderUnlock(u)
      PROVE  DisplayIsRecent'
  BY <1>2, <1>5, Zenon DEF ReaderCheck, ReaderLock, SpuriousWakeup, ReaderUnlock
<1>6. CASE UNCHANGED vars
  BY <1>2, <1>6, Zenon DEF vars
<1> QED
  BY <1>1, <1>3, <1>4, <1>5, <1>6, Zenon DEF Next, MainStep, ReaderStep, UserStep

(* Every display is the most recent part of the shared conversation that   *)
(* its reader has handled, for every size of the display buffer.           *)
THEOREM DisplaysAgree == Spec => []DisplayIsRecent
<1>1. Init => DisplayIsRecent
  <2> SUFFICES ASSUME Init, NEW u \in Users
               PROVE  lines[u] = LastN(Seen(u), MAX_DISPLAY_LINES)
    BY Zenon DEF DisplayIsRecent
  <2>1. lines[u] = <<>> /\ Seen(u) = SubSeq(<<>>, 1, 0)
    BY Zenon DEF Init, Seen
  <2>2. SubSeq(<<>>, 1, 0) = <<>>
    BY SubSeqEmpty
  <2>3. Len(<<>>) = 0 /\ MAX_DISPLAY_LINES \in Nat
    BY EmptySeq, SizeAssumption, Zenon
  <2> QED BY <2>1, <2>2, <2>3 DEF LastN
<1> QED BY <1>1, RoomTypeCorrect, DisplayStep, PTL DEF Spec

-----------------------------------------------------------------------------
(***************************************************************************)
(* The Clients window.  It is kept from the messages alone, so what it     *)
(* shows depends on the order in which the main threads post them:         *)
(* client_core_start announces a client once, before client_core_stop      *)
(* takes its leave, and no more clients are announced than client_count    *)
(* says, so the test of clients_count against MAX_CLIENTS never hides one. *)
(***************************************************************************)
Joined(v) == Msg("joined", v, 0)
Left(v)   == Msg("left", v, 0)
In(s, m)  == \E i \in 1 .. Len(s) : s[i] = m
Announced(ms) == {v \in Users : In(ms, Joined(v))}

Orderly(ms, mn) ==
  \A v \in Users : \A i \in 1 .. Len(ms) :
     /\ ms[i] = Joined(v) =>
          /\ mn[v] # "off"
          /\ \A j \in 1 .. Len(ms) : /\ ms[j] = Joined(v) => i = j
                                     /\ ms[j] = Left(v) => i < j
     /\ ms[i] = Left(v) => mn[v] \in {"pthread_join", "exited"}
Counted(ms, n) == IsFiniteSet(Announced(ms)) /\ Cardinality(Announced(ms)) <= n
Follows(cs, s) ==
  /\ \A i, j \in 1 .. Len(cs) : cs[i] = cs[j] => i = j
  /\ \A v \in Users : In(cs, v) <=> In(s, Joined(v)) /\ ~In(s, Left(v))

RosterInv == /\ TypeOK /\ NotStarted
             /\ Orderly(messages, main) /\ Counted(messages, client_count)
             /\ \A u \in Users : Follows(clients[u], Seen(u))

(* Announcements and leaves of different clients differ. *)
LEMMA MsgDistinct ==
  ASSUME NEW u, NEW v
  PROVE  /\ Joined(u) = Joined(v) => u = v
         /\ Left(u) = Left(v) => u = v
         /\ Joined(u) # Left(v)
<1>1. ASSUME NEW w PROVE /\ Joined(w).kind = "joined" /\ Joined(w).user = w
                         /\ Left(w).kind = "left" /\ Left(w).user = w
  BY Zenon DEF Joined, Left, Msg
<1> QED BY <1>1, Zenon

(* A text is neither. *)
LEMMA TextDistinct ==
  ASSUME NEW u, NEW v, NEW t
  PROVE  /\ Msg("text", u, t).kind = "text"
         /\ Joined(v) # Msg("text", u, t) /\ Left(v) # Msg("text", u, t)
<1>1. /\ Joined(v).kind = "joined" /\ Left(v).kind = "left"
      /\ Msg("text", u, t).kind = "text"
  BY Zenon DEF Joined, Left, Msg
<1> QED BY <1>1, Zenon

(* Every message announces a client, takes leave of it or carries a text.  *)
LEMMA MsgKinds ==
  ASSUME NEW m \in Messages
  PROVE  /\ m.user \in Users
         /\ \/ m = Joined(m.user)
            \/ m = Left(m.user)
            \/ m.kind = "text" /\ \A v : m # Joined(v) /\ m # Left(v)
<1>1. CASE m \in {Msg(k, u, 0) : k \in {"joined", "left"}, u \in Users}
  <2>1. PICK k \in {"joined", "left"}, u \in Users : m = Msg(k, u, 0)
    BY <1>1
  <2>2. m = Joined(u) \/ m = Left(u)
    BY <2>1, Zenon DEF Joined, Left
  <2>3. m.user = u
    BY <2>1, Zenon DEF Msg
  <2> QED BY <2>2, <2>3, Zenon
<1>2. CASE m \in {Msg("text", u, t) : u \in Users, t \in 1 .. MaxTexts}
  <2>1. PICK u \in Users, t \in 1 .. MaxTexts : m = Msg("text", u, t)
    BY <1>2
  <2>2. m.user = u
    BY <2>1, Zenon DEF Msg
  <2> QED BY <2>1, <2>2, TextDistinct, Zenon
<1> QED BY <1>1, <1>2 DEF Messages

(* What Append adds to a sequence. *)
LEMMA InAppend ==
  ASSUME NEW S, NEW s \in Seq(S), NEW e \in S
  PROVE  /\ Len(s) \in Nat /\ Append(s, e) \in Seq(S) /\ Len(Append(s, e)) = Len(s) + 1
         /\ Append(s, e)[Len(s) + 1] = e
         /\ \A i \in 1 .. Len(s) : Append(s, e)[i] = s[i]
         /\ \A x : In(Append(s, e), x) <=> In(s, x) \/ x = e
<1> DEFINE t == Append(s, e)
<1>1. /\ Len(s) \in Nat /\ t \in Seq(S) /\ Len(t) = Len(s) + 1 /\ t[Len(s) + 1] = e
      /\ \A i \in 1 .. Len(s) : t[i] = s[i]
  BY LenProperties, AppendProperties
<1> HIDE DEF t
<1>2. ASSUME NEW x PROVE In(t, x) <=> In(s, x) \/ x = e
  <2>1. ASSUME In(s, x) PROVE In(t, x)
    <3>1. PICK i \in 1 .. Len(s) : s[i] = x
      BY <2>1, Zenon DEF In
    <3>2. i \in 1 .. Len(t) /\ t[i] = x
      BY <1>1, <3>1
    <3> QED BY <3>2, Zenon DEF In
  <2>2. In(t, e)
    <3>1. Len(s) + 1 \in 1 .. Len(t)
      BY <1>1
    <3> QED BY <1>1, <3>1, Zenon DEF In
  <2>3. ASSUME In(t, x), x # e PROVE In(s, x)
    <3>1. PICK i \in 1 .. Len(t) : t[i] = x
      BY <2>3, Zenon DEF In
    <3>2. i \in 1 .. Len(s)
      BY <1>1, <2>3, <3>1
    <3> QED BY <1>1, <3>1, <3>2, Zenon DEF In
  <2> QED BY <2>1, <2>2, <2>3, Zenon
<1> QED BY <1>1, <1>2, Zenon DEF t

(* update_clients_from_message, "left": the client goes, and nobody else. *)
LEMMA WithoutOne ==
  ASSUME NEW S, NEW cs \in Seq(S), NEW u, In(cs, u),
         \A i, j \in 1 .. Len(cs) : cs[i] = cs[j] => i = j
  PROVE  /\ \A i, j \in 1 .. Len(Without(cs, u)) :
               Without(cs, u)[i] = Without(cs, u)[j] => i = j
         /\ \A x : In(Without(cs, u), x) <=> In(cs, x) /\ x # u
<1> DEFINE n == Len(cs) - 1
           k == First(cs, u)
           w == [i \in 1 .. n |-> IF i < k THEN cs[i] ELSE cs[i + 1]]
<1>1. DOMAIN cs = 1 .. Len(cs) /\ Len(cs) \in Nat /\ cs \in [1 .. Len(cs) -> S]
  BY LenProperties, Zenon
<1>2. PICK p \in 1 .. Len(cs) : cs[p] = u
  BY Zenon DEF In
<1>3. \A j \in 1 .. Len(cs) : cs[j] = u => j = p
  BY <1>2, Zenon
<1>4. k = p
  <2>1. \A j \in 1 .. p - 1 : cs[j] # u
    BY <1>1, <1>2, <1>3
  <2>2. \E i \in DOMAIN cs : cs[i] = u /\ \A j \in 1 .. i - 1 : cs[j] # u
    BY <1>1, <1>2, <2>1, Zenon
  <2>3. k \in DOMAIN cs /\ cs[k] = u
    BY <2>2, Zenon DEF First
  <2> QED BY <1>1, <1>3, <2>3, Zenon
<1>5. Without(cs, u) = w /\ n \in Nat /\ Len(cs) = n + 1
  BY <1>1, <1>2 DEF Without
<1> HIDE DEF n, k
<1>6. w \in [1 .. n -> S]
  BY <1>1, <1>2, <1>4, <1>5
<1>7. Len(w) = n
  BY <1>5, <1>6, SeqDef, LenProperties
<1>8. \A i \in 1 .. n : w[i] = IF i < p THEN cs[i] ELSE cs[i + 1]
  BY <1>4, Zenon
<1> HIDE DEF w
<1>9. ASSUME NEW i \in 1 .. n, NEW j \in 1 .. n, w[i] = w[j], i # j PROVE FALSE
  <2> DEFINE a == IF i < p THEN i ELSE i + 1
             b == IF j < p THEN j ELSE j + 1
  <2>1. a \in 1 .. Len(cs) /\ b \in 1 .. Len(cs) /\ a # b /\ cs[a] = w[i] /\ cs[b] = w[j]
    BY <1>2, <1>5, <1>8, <1>9
  <2> HIDE DEF a, b
  <2> QED BY <1>9, <2>1, Zenon
<1>10. ASSUME NEW x, In(w, x) PROVE In(cs, x) /\ x # u
  <2>1. PICK i \in 1 .. n : w[i] = x
    BY <1>7, <1>10, Zenon DEF In
  <2> DEFINE a == IF i < p THEN i ELSE i + 1
  <2>2. a \in 1 .. Len(cs) /\ a # p /\ cs[a] = x
    BY <1>2, <1>5, <1>8, <2>1
  <2> HIDE DEF a
  <2> QED BY <1>3, <2>2, Zenon DEF In
<1>11. ASSUME NEW x, In(cs, x), x # u PROVE In(w, x)
  <2>1. PICK a \in 1 .. Len(cs) : cs[a] = x
    BY <1>11, Zenon DEF In
  <2> DEFINE i == IF a < p THEN a ELSE a - 1
  <2>2. i \in 1 .. n /\ w[i] = x
    BY <1>2, <1>5, <1>8, <1>11, <2>1
  <2> HIDE DEF i
  <2> QED BY <1>7, <2>2, Zenon DEF In
<1> QED BY <1>5, <1>7, <1>9, <1>10, <1>11, Zenon

(* A window whose clients are all announced, but not the one that is being *)
(* announced, has room left for it.                                        *)
LEMMA RoomLeft ==
  ASSUME NEW T, IsFiniteSet(T), NEW v \in T, NEW cs \in Seq(T \ {v}),
         \A i, j \in 1 .. Len(cs) : cs[i] = cs[j] => i = j
  PROVE  Len(cs) < Cardinality(T)
<1>1. Len(cs) \in Nat /\ cs \in [1 .. Len(cs) -> T \ {v}] /\ DOMAIN cs = 1 .. Len(cs)
  BY LenProperties, Zenon
<1>2. cs \in Injection(1 .. Len(cs), T \ {v})
  BY <1>1, Zenon DEF Injection, IsInjective
<1>3. IsFiniteSet(T \ {v}) /\ Cardinality(T \ {v}) = Cardinality(T) - 1
  BY FS_RemoveElement, Zenon
<1>4. Cardinality(1 .. Len(cs)) <= Cardinality(T \ {v})
  BY <1>2, <1>3, FS_Injection, Zenon
<1>5. Cardinality(1 .. Len(cs)) = Len(cs)
  <2>1. ASSUME NEW n \in Nat PROVE Cardinality(1 .. n) = n
    <3>1. Cardinality(1 .. n) = IF 1 > n THEN 0 ELSE n - 1 + 1
      BY FS_Interval
    <3> QED BY <3>1
  <2> QED BY <1>1, <2>1, Zenon
<1>6. Cardinality(T) \in Nat
  BY FS_CardinalityType, Zenon
<1> QED BY <1>1, <1>3, <1>4, <1>5, <1>6

(* update_clients_from_message keeps the window in step with the messages  *)
(* read, provided a client is announced once, before it leaves, and the    *)
(* window has room for it.                                                 *)
LEMMA FollowsRead ==
  ASSUME NEW cs \in Seq(Users), NEW s \in Seq(Messages), NEW m \in Messages,
         Follows(cs, s),
         \A v \in Users : m = Joined(v) => /\ ~In(s, m) /\ ~In(s, Left(v))
                                           /\ Len(cs) < MAX_CLIENTS
  PROVE  Follows(UpdateClients(cs, m), Append(s, m))
<1> DEFINE v == m.user
<1>1. /\ v \in Users
      /\ \/ m = Joined(v) \/ m = Left(v)
         \/ m.kind = "text" /\ \A w : m # Joined(w) /\ m # Left(w)
  BY MsgKinds, Zenon
<1>2. Has(cs, v) <=> In(cs, v)
  <2>1. DOMAIN cs = 1 .. Len(cs)
    BY LenProperties, Zenon
  <2> QED BY <2>1, Zenon DEF Has, In
<1>3. \A x : In(Append(s, m), x) <=> In(s, x) \/ x = m
  BY InAppend, Zenon
<1>4. CASE m = Joined(v)
  <2>1. ~In(s, Joined(v)) /\ ~In(s, Left(v)) /\ Len(cs) < MAX_CLIENTS
    BY <1>1, <1>4, Zenon
  <2>2. ~In(cs, v)
    BY <1>1, <2>1, Zenon DEF Follows
  <2>3. m.kind = "joined"
    BY <1>4 DEF Joined, Msg
  <2>4. UpdateClients(cs, m) = Append(cs, v)
    BY <1>2, <2>1, <2>2, <2>3, Zenon DEF UpdateClients
  <2> DEFINE t == Append(cs, v)
  <2>5. /\ Len(cs) \in Nat /\ Len(t) = Len(cs) + 1 /\ t[Len(cs) + 1] = v
        /\ \A i \in 1 .. Len(cs) : t[i] = cs[i]
        /\ \A x : In(t, x) <=> In(cs, x) \/ x = v
    BY <1>1, InAppend
  <2> HIDE DEF t, v
  <2>6. ASSUME NEW i \in 1 .. Len(t), NEW j \in 1 .. Len(t), t[i] = t[j] PROVE i = j
    <3>1. \A l \in 1 .. Len(cs) : cs[l] # v
      BY <2>2, Zenon DEF In
    <3>2. CASE i \in 1 .. Len(cs) /\ j \in 1 .. Len(cs)
      BY <2>5, <2>6, <3>2, Zenon DEF Follows
    <3>3. CASE i = Len(cs) + 1 \/ j = Len(cs) + 1
      BY <2>5, <2>6, <3>1, <3>3
    <3> QED BY <2>5, <3>2, <3>3
  <2>7. ASSUME NEW w \in Users
        PROVE  In(t, w) <=> In(Append(s, m), Joined(w)) /\ ~In(Append(s, m), Left(w))
    <3>1. Joined(w) = m <=> w = v
      BY <1>4, MsgDistinct, Zenon
    <3>2. Left(w) # m
      BY <1>4, MsgDistinct, Zenon
    <3>3. In(cs, w) <=> In(s, Joined(w)) /\ ~In(s, Left(w))
      BY Zenon DEF Follows
    <3> QED BY <1>3, <2>1, <2>5, <3>1, <3>2, <3>3, Zenon
  <2>8. Follows(t, Append(s, m))
    BY <2>6, <2>7, Zenon DEF Follows
  <2> QED BY <2>4, <2>8, Zenon DEF t
<1>5. CASE m = Left(v)
  <2>1. m.kind = "left"
    BY <1>5 DEF Left, Msg
  <2> DEFINE t == UpdateClients(cs, m)
  <2>2. /\ \A i, j \in 1 .. Len(t) : t[i] = t[j] => i = j
        /\ \A x : In(t, x) <=> In(cs, x) /\ x # v
    <3>1. CASE In(cs, v)
      <4>1. t = Without(cs, v)
        BY <1>2, <2>1, <3>1, Zenon DEF UpdateClients
      <4> HIDE DEF t, v
      <4>2. \A i, j \in 1 .. Len(cs) : cs[i] = cs[j] => i = j
        BY Zenon DEF Follows
      <4>3. /\ \A i, j \in 1 .. Len(Without(cs, v)) :
                  Without(cs, v)[i] = Without(cs, v)[j] => i = j
            /\ \A x : In(Without(cs, v), x) <=> In(cs, x) /\ x # v
        BY <3>1, <4>2, WithoutOne, Zenon
      <4> QED BY <4>1, <4>3, Zenon
    <3>2. CASE ~In(cs, v)
      <4>1. t = cs
        BY <1>2, <2>1, <3>2, Zenon DEF UpdateClients
      <4> HIDE DEF t, v
      <4> QED BY <3>2, <4>1, Zenon DEF Follows
    <3> QED BY <3>1, <3>2, Zenon
  <2> HIDE DEF t, v
  <2>3. ASSUME NEW w \in Users
        PROVE  In(t, w) <=> In(Append(s, m), Joined(w)) /\ ~In(Append(s, m), Left(w))
    <3>1. Left(w) = m <=> w = v
      BY <1>5, MsgDistinct, Zenon
    <3>2. Joined(w) # m
      BY <1>5, MsgDistinct, Zenon
    <3>3. In(cs, w) <=> In(s, Joined(w)) /\ ~In(s, Left(w))
      BY Zenon DEF Follows
    <3> QED BY <1>3, <2>2, <3>1, <3>2, <3>3, Zenon
  <2>4. Follows(t, Append(s, m))
    BY <2>2, <2>3, Zenon DEF Follows
  <2> QED BY <2>4, Zenon DEF t
<1>6. CASE m.kind = "text" /\ \A w : m # Joined(w) /\ m # Left(w)
  <2>1. UpdateClients(cs, m) = cs
    BY <1>6, Zenon DEF UpdateClients
  <2>2. \A w \in Users : /\ In(Append(s, m), Joined(w)) <=> In(s, Joined(w))
                         /\ In(Append(s, m), Left(w)) <=> In(s, Left(w))
    BY <1>3, <1>6, Zenon
  <2>3. Follows(cs, Append(s, m))
    BY <2>2, Zenon DEF Follows
  <2> QED BY <2>1, <2>3, Zenon
<1> QED BY <1>1, <1>4, <1>5, <1>6, Zenon

(* A main thread that goes on without posting keeps the messages orderly:  *)
(* it never returns to the state in which it joins, nor revives.           *)
LEMMA OrderlyKept ==
  ASSUME NEW ms, NEW mn, NEW mn2, Orderly(ms, mn),
         \A v \in Users : /\ mn2[v] = "off" => mn[v] = "off"
                          /\ mn[v] \in {"pthread_join", "exited"}
                                => mn2[v] \in {"pthread_join", "exited"}
  PROVE  Orderly(ms, mn2)
<1> QED BY Zenon DEF Orderly

(* A post keeps the messages orderly: a client that is announced was not   *)
(* there before, and one that leaves says nothing more.                    *)
LEMMA OrderlyPost ==
  ASSUME NEW ms \in Seq(Messages), NEW m \in Messages, NEW mn, Orderly(ms, mn),
         \A v \in Users : /\ m = Joined(v) => ~In(ms, m) /\ ~In(ms, Left(v)) /\ mn[v] # "off"
                          /\ m = Left(v) => mn[v] \in {"pthread_join", "exited"}
  PROVE  Orderly(Append(ms, m), mn)
<1> DEFINE t == Append(ms, m)
           n == Len(ms)
<1>1. /\ n \in Nat /\ Len(t) = n + 1 /\ t[n + 1] = m
      /\ \A i \in 1 .. n : t[i] = ms[i]
  BY InAppend
<1>2. \A x : ~In(ms, x) => \A i \in 1 .. n : ms[i] # x
  BY Zenon DEF In
<1> HIDE DEF t
<1> SUFFICES ASSUME NEW v \in Users, NEW i \in 1 .. Len(t)
             PROVE  /\ t[i] = Joined(v) =>
                         /\ mn[v] # "off"
                         /\ \A j \in 1 .. Len(t) : /\ t[j] = Joined(v) => i = j
                                                   /\ t[j] = Left(v) => i < j
                    /\ t[i] = Left(v) => mn[v] \in {"pthread_join", "exited"}
  BY Zenon DEF Orderly, t
<1>3. i \in 1 .. n \/ i = n + 1
  BY <1>1
<1>4. t[i] = Left(v) => mn[v] \in {"pthread_join", "exited"}
  BY <1>1, <1>3, Zenon DEF Orderly
<1>5. t[i] = Joined(v) => mn[v] # "off"
  BY <1>1, <1>3, Zenon DEF Orderly
<1>6. ASSUME t[i] = Joined(v), NEW j \in 1 .. Len(t), t[j] = Joined(v) PROVE i = j
  <2>1. j \in 1 .. n \/ j = n + 1
    BY <1>1
  <2>2. CASE i \in 1 .. n /\ j \in 1 .. n
    BY <1>1, <1>6, <2>2, Zenon DEF Orderly
  <2>3. CASE i = n + 1
    <3>1. m = Joined(v) /\ \A l \in 1 .. n : ms[l] # Joined(v)
      BY <1>1, <1>2, <1>6, <2>3, Zenon
    <3> QED BY <1>1, <1>6, <2>1, <2>3, <3>1, Zenon
  <2>4. CASE j = n + 1
    <3>1. m = Joined(v) /\ \A l \in 1 .. n : ms[l] # Joined(v)
      BY <1>1, <1>2, <1>6, <2>4, Zenon
    <3> QED BY <1>1, <1>3, <1>6, <2>4, <3>1, Zenon
  <2> QED BY <1>3, <2>1, <2>2, <2>3, <2>4, Zenon
<1>7. ASSUME t[i] = Joined(v), NEW j \in 1 .. Len(t), t[j] = Left(v) PROVE i < j
  <2>1. j \in 1 .. n \/ j = n + 1
    BY <1>1
  <2>2. CASE i \in 1 .. n /\ j \in 1 .. n
    <3>1. ms[i] = Joined(v) /\ ms[j] = Left(v) /\ j \in 1 .. Len(ms) /\ i \in 1 .. Len(ms)
      BY <1>1, <1>7, <2>2, Zenon
    <3> QED BY <3>1, Zenon DEF Orderly
  <2>3. CASE i = n + 1
    <3>1. m = Joined(v) /\ \A l \in 1 .. n : ms[l] # Left(v)
      BY <1>1, <1>2, <1>7, <2>3, Zenon
    <3>2. j = n + 1 /\ m = Left(v)
      BY <1>1, <1>7, <2>1, <3>1, Zenon
    <3> QED BY <3>1, <3>2, MsgDistinct, Zenon
  <2>4. CASE i \in 1 .. n /\ j = n + 1
    BY <1>1, <2>4
  <2> QED BY <1>3, <2>1, <2>2, <2>3, <2>4, Zenon
<1> QED BY <1>4, <1>5, <1>6, <1>7, Zenon

(* client_count counts every client that is announced. *)
LEMMA CountedPost ==
  ASSUME NEW ms \in Seq(Messages), NEW m \in Messages, NEW n \in Nat, Counted(ms, n)
  PROVE  /\ Counted(ms, n + 1) /\ Counted(Append(ms, m), n + 1)
         /\ (\A v \in Users : m # Joined(v)) => Counted(Append(ms, m), n)
<1> DEFINE A == Announced(ms)
<1>1. IsFiniteSet(A) /\ Cardinality(A) \in Nat /\ Cardinality(A) <= n
  BY FS_CardinalityType, Zenon DEF Counted
<1>2. \A x : In(Append(ms, m), x) <=> In(ms, x) \/ x = m
  BY InAppend
<1>3. CASE \A v \in Users : m # Joined(v)
  <2>1. Announced(Append(ms, m)) = A
    BY <1>2, <1>3, Zenon DEF Announced
  <2> QED BY <1>1, <2>1 DEF Counted
<1>4. CASE \E v \in Users : m = Joined(v)
  <2>1. PICK v \in Users : m = Joined(v)
    BY <1>4, Zenon
  <2>2. \A w \in Users : m = Joined(w) <=> w = v
    BY <2>1, MsgDistinct, Zenon
  <2>3. Announced(Append(ms, m)) = A \cup {v}
    BY <1>2, <2>2, Zenon DEF Announced
  <2> HIDE DEF A
  <2>4. /\ IsFiniteSet(A \cup {v})
        /\ Cardinality(A \cup {v}) = IF v \in A THEN Cardinality(A) ELSE Cardinality(A) + 1
    BY <1>1, FS_AddElement, Zenon
  <2>5. Counted(Append(ms, m), n + 1)
    BY <1>1, <2>3, <2>4 DEF Counted
  <2>6. Counted(ms, n + 1)
    BY <1>1 DEF Counted, A
  <2> QED BY <2>1, <2>5, <2>6, Zenon
<1> QED BY <1>3, <1>4, Zenon

(* Joining, talking and leaving keep the messages orderly and counted. *)
LEMMA RosterPosters ==
  ASSUME RosterInv, NEW u \in Users, Join(u) \/ SendText(u) \/ Leave(u)
  PROVE  Orderly(messages, main)' /\ Counted(messages, client_count)'
<1> DEFINE n == client_count
<1>1. /\ messages \in Seq(Messages) /\ n \in Nat
      /\ Orderly(messages, main) /\ Counted(messages, n)
  BY SizeAssumption DEF RosterInv, TypeOK
<1>2. /\ Joined(u) \in Messages /\ Left(u) \in Messages
      /\ \A v \in Users : Left(u) # Joined(v)
      /\ \A v \in Users : Joined(v) = Joined(u) => v = u
      /\ \A v \in Users : Left(v) = Left(u) => v = u
      /\ \A v \in Users : Joined(u) # Left(v)
  <2>1. Joined(u) \in Messages /\ Left(u) \in Messages
    BY DEF Messages, Joined, Left
  <2> QED BY <2>1, MsgDistinct, Zenon
<1>3. main \in [Users -> {"off", "create", "ui", "leave", "pthread_join", "exited"}]
  BY Zenon DEF RosterInv, TypeOK
<1>4. CASE Join(u)
  <2>1. /\ main[u] = "off" /\ main' = [main EXCEPT ![u] = "create"]
        /\ \/ n' = n + 1 /\ Post(Joined(u))
           \/ UNCHANGED <<client_count, messages>>
    BY <1>4, Zenon DEF Join, Joined
  <2>2. Orderly(messages, main')
    <3>1. \A v \in Users : /\ main'[v] = "off" => main[v] = "off"
                           /\ main[v] \in {"pthread_join", "exited"}
                                 => main'[v] \in {"pthread_join", "exited"}
      BY <1>3, <2>1, Zenon
    <3> QED BY <1>1, <3>1, OrderlyKept, Zenon
  <2>3. CASE n' = n + 1 /\ messages' = Append(messages, Joined(u))
    <3>1. main'[u] # "off"
      BY <1>3, <2>1, Zenon
    <3>2. ~In(messages, Joined(u)) /\ ~In(messages, Left(u))
      <4>1. \A i \in 1 .. Len(messages) : messages[i] # Joined(u)
        BY <1>1, <2>1, Zenon DEF Orderly
      <4>2. \A i \in 1 .. Len(messages) : messages[i] # Left(u)
        BY <1>1, <2>1, Zenon DEF Orderly
      <4> QED BY <4>1, <4>2, Zenon DEF In
    <3>3. \A v \in Users :
             /\ Joined(u) = Joined(v) => /\ ~In(messages, Joined(u)) /\ ~In(messages, Left(v))
                                         /\ main'[v] # "off"
             /\ Joined(u) = Left(v) => main'[v] \in {"pthread_join", "exited"}
      BY <1>2, <3>1, <3>2, Zenon
    <3>4. Orderly(messages', main')
      BY <1>1, <1>2, <2>2, <2>3, <3>3, OrderlyPost, Zenon
    <3>5. Counted(messages', n')
      BY <1>1, <1>2, <2>3, CountedPost, Zenon
    <3> QED BY <3>4, <3>5, Zenon
  <2>4. CASE n' = n + 1 /\ messages' = messages
    <3>1. Counted(messages, n + 1)
      BY <1>1, <1>2, CountedPost, Zenon
    <3> QED BY <2>2, <2>4, <3>1, Zenon
  <2>5. CASE UNCHANGED <<client_count, messages>>
    BY <1>1, <2>2, <2>5, Zenon
  <2> QED BY <2>1, <2>3, <2>4, <2>5, Zenon DEF Post
<1>5. CASE SendText(u)
  <2> DEFINE m == Msg("text", u, texts + 1)
  <2>1. /\ UNCHANGED <<main, client_count>>
        /\ messages' = messages \/ messages' = Append(messages, m)
    BY <1>5, Zenon DEF SendText, Post
  <2>2. m \in Messages
    <3>1. texts + 1 \in 1 .. MaxTexts
      BY <1>5, SizeAssumption DEF SendText, RosterInv, TypeOK
    <3> QED BY <3>1 DEF Messages
  <2>3. \A v \in Users : m # Joined(v) /\ m # Left(v)
    BY TextDistinct
  <2> HIDE DEF m
  <2>4. Orderly(Append(messages, m), main)
    BY <1>1, <2>2, <2>3, OrderlyPost, Zenon
  <2>5. Counted(Append(messages, m), n)
    BY <1>1, <2>2, <2>3, CountedPost, Zenon
  <2> QED BY <1>1, <2>1, <2>4, <2>5, Zenon
<1>6. CASE Leave(u)
  <2>1. /\ UNCHANGED client_count /\ main[u] = "leave"
        /\ main' = [main EXCEPT ![u] = "pthread_join"]
        /\ messages' = messages \/ messages' = Append(messages, Left(u))
    BY <1>6, Zenon DEF Leave, Post, Left
  <2>2. Orderly(messages, main')
    <3>1. \A v \in Users : /\ main'[v] = "off" => main[v] = "off"
                           /\ main[v] \in {"pthread_join", "exited"}
                                 => main'[v] \in {"pthread_join", "exited"}
      BY <1>3, <2>1, Zenon
    <3> QED BY <1>1, <3>1, OrderlyKept, Zenon
  <2>3. Orderly(Append(messages, Left(u)), main')
    <3>1. main'[u] \in {"pthread_join", "exited"}
      BY <1>3, <2>1, Zenon
    <3>2. \A v \in Users :
             /\ Left(u) = Joined(v) => /\ ~In(messages, Left(u)) /\ ~In(messages, Left(v))
                                       /\ main'[v] # "off"
             /\ Left(u) = Left(v) => main'[v] \in {"pthread_join", "exited"}
      BY <1>2, <3>1, Zenon
    <3> QED BY <1>1, <1>2, <2>2, <3>2, OrderlyPost, Zenon
  <2>4. Counted(Append(messages, Left(u)), n)
    BY <1>1, <1>2, CountedPost, Zenon
  <2> QED BY <1>1, <2>1, <2>2, <2>3, <2>4, Zenon
<1> QED BY <1>4, <1>5, <1>6, Zenon

(* A reader that handles a message finds what FollowsRead asks for: the    *)
(* client that is announced is new to it and fits into the window.         *)
LEMMA RosterShow ==
  ASSUME RosterInv, NEW u \in Users, ReaderShow(u), NEW v \in Users
  PROVE  Follows(clients[v], Seen(v))'
<1> DEFINE k == last_msg[u]
           m == messages[k + 1]
           s == SubSeq(messages, 1, k)
           cs == clients[u]
<1>1. /\ messages \in Seq(Messages) /\ k \in Nat /\ k < Len(messages) /\ Len(messages) \in Nat
      /\ last_msg \in [Users -> Nat] /\ clients \in [Users -> Seq(Users)]
  BY LenProperties, Zenon DEF ReaderShow, RosterInv, TypeOK, msg_count
<1>2. /\ UNCHANGED messages
      /\ last_msg' = [last_msg EXCEPT ![u] = k + 1]
      /\ clients' = [clients EXCEPT ![u] = UpdateClients(cs, m)]
  BY Zenon DEF ReaderShow, shmVars
<1>3. CASE v # u
  <2>1. last_msg'[v] = last_msg[v] /\ clients'[v] = clients[v]
    BY <1>1, <1>2, <1>3, Zenon
  <2>2. Seen(v)' = Seen(v)
    BY <1>2, <2>1, Zenon DEF Seen
  <2>3. Follows(clients[v], Seen(v))
    BY Zenon DEF RosterInv
  <2> QED BY <2>1, <2>2, <2>3, Zenon
<1>4. CASE v = u
  <2>1. cs \in Seq(Users) /\ Follows(cs, s)
    BY <1>1, Zenon DEF RosterInv, Seen
  <2>2. last_msg'[u] = k + 1 /\ clients'[u] = UpdateClients(cs, m)
    BY <1>1, <1>2, Zenon
  <2>3. Seen(u)' = SubSeq(messages, 1, k + 1)
    BY <1>2, <2>2, Zenon DEF Seen
  <2>4. Orderly(messages, main) /\ Counted(messages, client_count) /\ client_count \in 0 .. MAX_CLIENTS
    BY Zenon DEF RosterInv, TypeOK
  <2> HIDE DEF k, cs
  <2>5. m \in Messages /\ s \in Seq(Messages) /\ SubSeq(messages, 1, k + 1) = Append(s, m)
    BY <1>1, SeenGrows, Zenon
  <2>6. Len(s) = k /\ \A i \in 1 .. k : s[i] = messages[i] /\ i \in 1 .. Len(messages)
    <3>1. \A i \in 1 .. k : messages[i] \in Messages
      BY <1>1, ElementOfSeq
    <3> QED BY <1>1, <3>1, SubSeqProperties
  <2> HIDE DEF s
  <2>7. ASSUME NEW w \in Users, m = Joined(w)
        PROVE  ~In(s, m) /\ ~In(s, Left(w)) /\ Len(cs) < MAX_CLIENTS
    <3>1. k + 1 \in 1 .. Len(messages)
      BY <1>1
    <3>2. \A j \in 1 .. Len(messages) : /\ messages[j] = Joined(w) => k + 1 = j
                                        /\ messages[j] = Left(w) => k + 1 < j
      BY <2>4, <2>7, <3>1, Zenon DEF Orderly
    <3>3. ~In(s, Joined(w)) /\ ~In(s, Left(w))
      <4>1. ASSUME NEW i \in 1 .. k PROVE s[i] # Joined(w) /\ s[i] # Left(w)
        <5>1. s[i] = messages[i] /\ i \in 1 .. Len(messages)
          BY <2>6, Zenon
        <5>2. ~(k + 1 = i) /\ ~(k + 1 < i)
          BY <1>1
        <5> QED BY <3>2, <5>1, <5>2, Zenon
      <4> QED BY <2>6, <4>1, Zenon DEF In
    <3> DEFINE T == Announced(messages)
    <3>4. w \in T
      BY <2>7, <3>1, Zenon DEF Announced, In
    <3>5. \A i \in 1 .. Len(cs) : cs[i] \in T \ {w}
      <4>1. ASSUME NEW i \in 1 .. Len(cs) PROVE cs[i] \in T \ {w}
        <5>1. cs[i] \in Users /\ In(cs, cs[i])
          BY <2>1, ElementOfSeq, Zenon DEF In
        <5>2. In(s, Joined(cs[i]))
          BY <2>1, <5>1, Zenon DEF Follows
        <5>3. PICK j \in 1 .. k : s[j] = Joined(cs[i])
          BY <2>6, <5>2, Zenon DEF In
        <5>4. In(messages, Joined(cs[i]))
          BY <2>6, <5>3, Zenon DEF In
        <5> QED BY <3>3, <5>1, <5>2, <5>4, Zenon DEF Announced
      <4> QED BY <4>1, Zenon
    <3> HIDE DEF T
    <3>6. cs \in Seq(T \ {w})
      <4>1. Len(cs) \in Nat /\ cs \in [1 .. Len(cs) -> Users]
        BY <2>1, LenProperties, Zenon
      <4>2. cs \in [1 .. Len(cs) -> T \ {w}]
        BY <3>5, <4>1, Zenon
      <4> QED BY <4>1, <4>2, SeqDef, Zenon
    <3>7. IsFiniteSet(T) /\ Cardinality(T) <= client_count
      BY <2>4, Zenon DEF Counted, T
    <3>8. \A i, j \in 1 .. Len(cs) : cs[i] = cs[j] => i = j
      BY <2>1, Zenon DEF Follows
    <3>9. Len(cs) < Cardinality(T)
      BY <3>4, <3>6, <3>7, <3>8, RoomLeft, Zenon
    <3>10. Cardinality(T) \in Nat /\ Len(cs) \in Nat /\ MAX_CLIENTS \in Nat
      BY <2>1, <3>7, FS_CardinalityType, LenProperties, SizeAssumption, Zenon
    <3>11. Len(cs) < MAX_CLIENTS
      BY <2>4, <3>7, <3>9, <3>10
    <3> QED BY <2>7, <3>3, <3>11, Zenon
  <2> HIDE DEF m
  <2>8. Follows(UpdateClients(cs, m), Append(s, m))
    BY <2>1, <2>5, <2>7, FollowsRead, Zenon
  <2> QED BY <1>4, <2>2, <2>3, <2>5, <2>8, Zenon
<1> QED BY <1>3, <1>4, Zenon

(* Every step keeps the messages orderly and the windows in step with them. *)
LEMMA RosterStep == RosterInv /\ [Next]_vars => RosterInv'
<1> SUFFICES ASSUME RosterInv, [Next]_vars PROVE RosterInv'
  BY Zenon
<1>1. TypeOK /\ TypeOK' /\ NotStarted'
  BY TypeStep, NotStartedStep, Zenon DEF RosterInv
<1>2. main \in [Users -> {"off", "create", "ui", "leave", "pthread_join", "exited"}]
  BY <1>1, Zenon DEF TypeOK
<1>3. ASSUME UNCHANGED <<messages, client_count>>,
             \A v \in Users : /\ main'[v] = "off" => main[v] = "off"
                              /\ main[v] \in {"pthread_join", "exited"}
                                    => main'[v] \in {"pthread_join", "exited"}
      PROVE  Orderly(messages, main)' /\ Counted(messages, client_count)'
  <2>1. Orderly(messages, main) /\ Counted(messages, client_count)
    BY Zenon DEF RosterInv
  <2>2. Orderly(messages, main')
    BY <1>3, <2>1, OrderlyKept, Zenon
  <2> QED BY <1>3, <2>1, <2>2, Zenon
<1>4. ASSUME UNCHANGED <<messages, last_msg, clients>>, NEW v \in Users
      PROVE  Follows(clients[v], Seen(v))'
  BY <1>4, Zenon DEF RosterInv, Seen
<1>5. ASSUME NEW u \in Users, Join(u) \/ SendText(u) \/ Leave(u) PROVE RosterInv'
  <2>1. Orderly(messages, main)' /\ Counted(messages, client_count)'
    BY <1>5, RosterPosters, Zenon
  <2>2. UNCHANGED clients
    BY <1>5, Zenon DEF Join, SendText, Leave, readerVars
  <2>3. ASSUME NEW v \in Users PROVE Follows(clients[v], Seen(v))'
    <3>1. Seen(v)' = Seen(v)
      BY <1>1, <1>5, SeenKept, Zenon
    <3>2. Follows(clients[v], Seen(v))
      BY Zenon DEF RosterInv
    <3> QED BY <2>2, <3>1, <3>2, Zenon
  <2> QED BY <1>1, <2>1, <2>3, Zenon DEF RosterInv
<1>6. ASSUME NEW u \in Users, CreateReader(u) \/ Quit(u) \/ JoinReader(u) PROVE RosterInv'
  <2>1. UNCHANGED <<messages, client_count, last_msg, clients>>
    BY <1>6, Zenon DEF CreateReader, Quit, JoinReader, shmVars, readerVars
  <2>2. \A v \in Users : /\ main'[v] = "off" => main[v] = "off"
                         /\ main[v] \in {"pthread_join", "exited"}
                               => main'[v] \in {"pthread_join", "exited"}
    BY <1>2, <1>6, Zenon DEF CreateReader, Quit, JoinReader
  <2> QED BY <1>1, <1>3, <1>4, <2>1, <2>2, Zenon DEF RosterInv
<1>7. ASSUME NEW u \in Users, ReaderCheck(u) \/ ReaderLock(u) \/ SpuriousWakeup(u)
                              \/ ReaderUnlock(u)
      PROVE  RosterInv'
  <2>1. UNCHANGED <<messages, client_count, last_msg, clients, main>>
    BY <1>7, Zenon DEF ReaderCheck, ReaderLock, SpuriousWakeup, ReaderUnlock, shmVars, readerVars
  <2> QED BY <1>1, <1>3, <1>4, <2>1, Zenon DEF RosterInv
<1>8. ASSUME NEW u \in Users, ReaderShow(u) PROVE RosterInv'
  <2>1. UNCHANGED <<messages, client_count, main>>
    BY <1>8, Zenon DEF ReaderShow, shmVars
  <2>2. \A v \in Users : Follows(clients[v], Seen(v))'
    BY <1>8, RosterShow, Zenon
  <2> QED BY <1>1, <1>3, <2>1, <2>2, Zenon DEF RosterInv
<1>9. CASE UNCHANGED vars
  <2>1. UNCHANGED <<messages, client_count, last_msg, clients, main>>
    BY <1>9, Zenon DEF vars, shmVars, readerVars
  <2> QED BY <1>1, <1>3, <1>4, <2>1, Zenon DEF RosterInv
<1> QED
  BY <1>5, <1>6, <1>7, <1>8, <1>9, Zenon DEF Next, MainStep, ReaderStep, UserStep

(* The invariant says what the Clients window must show. *)
LEMMA RosterImplied == RosterInv => RosterFollowsMessages
<1> SUFFICES ASSUME RosterInv, NEW u \in Users
             PROVE  /\ \A i, j \in DOMAIN clients[u] : clients[u][i] = clients[u][j] => i = j
                    /\ \A v \in Users : Has(clients[u], v) <=>
                          Told(u, Msg("joined", v, 0)) /\ ~Told(u, Msg("left", v, 0))
  BY Zenon DEF RosterFollowsMessages
<1>1. DOMAIN clients[u] = 1 .. Len(clients[u])
  <2>1. clients[u] \in Seq(Users)
    BY Zenon DEF RosterInv, TypeOK
  <2> QED BY <2>1, LenProperties, Zenon
<1>2. DOMAIN Seen(u) = 1 .. Len(Seen(u))
  <2>1. messages \in Seq(Messages) /\ last_msg[u] \in Nat /\ last_msg[u] <= Len(messages)
    BY Zenon DEF RosterInv, TypeOK, msg_count
  <2>2. \A i \in 1 .. last_msg[u] : messages[i] \in Messages
    BY <2>1, LenProperties, ElementOfSeq
  <2>3. Seen(u) \in Seq(Messages)
    BY <2>1, <2>2, SubSeqProperties DEF Seen
  <2> QED BY <2>3, LenProperties, Zenon
<1>3. Follows(clients[u], Seen(u))
  BY Zenon DEF RosterInv
<1>4. \A i, j \in DOMAIN clients[u] : clients[u][i] = clients[u][j] => i = j
  BY <1>1, <1>3, Zenon DEF Follows
<1>5. ASSUME NEW v \in Users
      PROVE  Has(clients[u], v) <=>
                Told(u, Msg("joined", v, 0)) /\ ~Told(u, Msg("left", v, 0))
  <2>1. Has(clients[u], v) <=> In(clients[u], v)
    BY <1>1, Zenon DEF Has, In
  <2>2. /\ Told(u, Msg("joined", v, 0)) <=> In(Seen(u), Joined(v))
        /\ Told(u, Msg("left", v, 0)) <=> In(Seen(u), Left(v))
    BY <1>2, Zenon DEF Told, In, Joined, Left
  <2> QED BY <1>3, <2>1, <2>2, Zenon DEF Follows
<1> QED BY <1>4, <1>5, Zenon

(* The Clients window lists a user exactly while its joining was shown and *)
(* its leaving was not, and lists it once: shm_reader_thread needs nothing *)
(* but the messages, and its test against MAX_CLIENTS never drops a client *)
(* that client_core_start let in.                                          *)
THEOREM WindowFollowsMessages == Spec => []RosterFollowsMessages
<1>1. Init => RosterInv
  <2> SUFFICES ASSUME Init PROVE RosterInv
    BY Zenon
  <2>1. TypeOK /\ NotStarted
    BY TypeInit, Zenon DEF Init, NotStarted
  <2>2. messages = <<>> /\ client_count = 0 /\ Len(<<>>) = 0 /\ \A x : ~In(<<>>, x)
    BY DEF Init, In
  <2>3. Orderly(messages, main)
    BY <2>2 DEF Orderly
  <2>4. Counted(messages, client_count)
    <3>1. Announced(messages) = {}
      BY <2>2, Zenon DEF Announced
    <3> QED BY <2>2, <3>1, FS_EmptySet DEF Counted
  <2>5. ASSUME NEW u \in Users PROVE Follows(clients[u], Seen(u))
    <3>1. clients[u] = <<>> /\ Seen(u) = SubSeq(<<>>, 1, 0)
      BY Zenon DEF Init, Seen
    <3>2. SubSeq(<<>>, 1, 0) = <<>>
      BY SubSeqEmpty
    <3>3. Follows(<<>>, <<>>)
      BY <2>2 DEF Follows
    <3> QED BY <3>1, <3>2, <3>3, Zenon
  <2> QED BY <2>1, <2>3, <2>4, <2>5, Zenon DEF RosterInv
<1> QED BY <1>1, RosterStep, RosterImplied, PTL DEF Spec
=============================================================================
