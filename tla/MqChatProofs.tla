---------------------------- MODULE MqChatProofs ----------------------------
(***************************************************************************)
(* The message-queue chat, for any number of clients and any size of the   *)
(* queues, of the history and of the displays: types, the history ring,    *)
(* the displays, what becomes of a client that leaves, and the order of    *)
(* delivery.  Each invariant is inductive given those before it.           *)
(***************************************************************************)
EXTENDS MqChat, SequenceTheorems, TLAPS

(* The ring starts at 0 until it is full: that is why no entry of Replay   *)
(* moves when an entry is added to a ring with room.                       *)
RingInv == /\ RingTypeOK
           /\ history_count < MAX_HISTORY => history_start = 0

(* The remainder of a position that wraps at most once. *)
LEMMA Wrap ==
  ASSUME NEW k \in Nat
  PROVE  /\ k < MAX_HISTORY => k % MAX_HISTORY = k
         /\ k >= MAX_HISTORY /\ k < 2 * MAX_HISTORY
               => k % MAX_HISTORY = k - MAX_HISTORY
<1> QED BY HistoryAssumption

(* The array, start and count stay in range, and the ring does not turn    *)
(* before it is full.                                                      *)
LEMMA RingInvStep ==
  ASSUME RingInv, NEW e \in Entries, Push(e)
  PROVE  RingInv'
<1> USE HistoryAssumption DEF RingInv, RingTypeOK
<1>1. CASE history_count = MAX_HISTORY
  <2>1. history_start' \in 0 .. MAX_HISTORY - 1 /\ history_count' = MAX_HISTORY
    BY <1>1, Wrap DEF Push, Evict
  <2>2. history' \in [0 .. MAX_HISTORY - 1 -> Entries \cup {NoEntry}]
    BY <1>1, Zenon DEF Push
  <2> QED BY <2>1, <2>2
<1>2. CASE history_count < MAX_HISTORY
  BY <1>2 DEF Push
<1> QED BY <1>1, <1>2

(* Adding an entry to the ring adds it to the replayed sequence, without   *)
(* the oldest entry if the ring was full.                                  *)
LEMMA PushAdds ==
  ASSUME RingInv, NEW e \in Entries, Push(e)
  PROVE  Log!Add(e)
<1> DEFINE N == MAX_HISTORY
           n == history_count
           S == Entries \cup {NoEntry}
<1> USE HistoryAssumption
<1>1. /\ n \in 0 .. N /\ history_start \in 0 .. N - 1
      /\ history \in [0 .. N - 1 -> S]
  BY Zenon DEF RingInv, RingTypeOK
<1>2. \A i \in 1 .. n : Index(i - 1) \in 0 .. N - 1
  BY <1>1, Wrap DEF Index
<1>3. Replay \in Seq(S) /\ Len(Replay) = n
  BY <1>1, <1>2 DEF Replay
<1>4. CASE n < N
  <2>1. history_start = 0 /\ history_start' = 0 /\ history_count' = n + 1
        /\ history' = [history EXCEPT ![n] = e]
    BY <1>1, <1>4, Wrap DEF Push, Index, RingInv
  <2>2. Replay' = [i \in 1 .. n + 1 |-> IF i = n + 1 THEN e ELSE Replay[i]]
    <3>1. \A i \in 1 .. n + 1 : Index(i - 1)' = i - 1
      BY <1>1, <1>4, <2>1, Wrap DEF Index
    <3>2. \A i \in 1 .. n : Index(i - 1) = i - 1
      BY <1>1, <1>4, <2>1, Wrap DEF Index
    <3> QED BY <1>1, <1>4, <2>1, <3>1, <3>2 DEF Replay
  <2>3. Append(Replay, e) = [i \in 1 .. n + 1 |-> IF i = n + 1 THEN e ELSE Replay[i]]
    <3>1. /\ Append(Replay, e) \in Seq(S) /\ Len(Append(Replay, e)) = n + 1
          /\ \A i \in 1 .. n : Append(Replay, e)[i] = Replay[i]
          /\ Append(Replay, e)[n + 1] = e
      BY <1>1, <1>3, AppendProperties
    <3>2. Append(Replay, e) \in [1 .. n + 1 -> S]
      BY <3>1, LenProperties, Zenon
    <3> DEFINE f == Append(Replay, e)  r == Replay
    <3>3. /\ f \in [1 .. n + 1 -> S] /\ f[n + 1] = e
          /\ \A i \in 1 .. n : f[i] = r[i]
      BY <3>1, <3>2, Zenon
    <3> HIDE DEF f, r
    <3>4. f = [i \in 1 .. n + 1 |-> IF i = n + 1 THEN e ELSE r[i]]
      BY <1>1, <3>3
    <3> QED BY <3>4, Zenon DEF f, r
  <2> QED BY <1>3, <1>4, <2>2, <2>3, Zenon DEF Log!Add
<1>5. CASE n = N
  <2>1. /\ history_count' = N
        /\ history_start' = IF history_start + 1 < N THEN history_start + 1 ELSE 0
    BY <1>1, <1>5, Wrap DEF Push, Evict
  <2>2. history' = [history EXCEPT ![history_start] = e]
    <3>1. (history_start' + n - 1) % N = history_start
      BY <1>1, <1>5, <2>1, Wrap
    <3> QED BY <1>5, <3>1 DEF Push
  <2>3. \A i \in 1 .. N - 1 : Index(i - 1)' = Index(i) /\ Index(i) # history_start
                              /\ Index(i) \in 0 .. N - 1
    BY <1>1, <2>1, Wrap DEF Index
  <2>4. Index(N - 1)' = history_start
    BY <1>1, <2>1, Wrap DEF Index
  <2>5. \A i \in 1 .. N - 1 : Replay[i + 1] = history[Index(i)]
    BY <1>1, <1>5 DEF Replay
  <2>6. Replay' = [i \in 1 .. N |-> IF i = N THEN e ELSE Replay[i + 1]]
    <3>1. \A i \in 1 .. N - 1 : history'[Index(i - 1)'] = Replay[i + 1]
      BY <1>1, <2>2, <2>3, <2>5, Zenon
    <3>2. history'[Index(N - 1)'] = e
      BY <1>1, <2>2, <2>4, Zenon
    <3>3. Replay' = [i \in 1 .. N |-> history'[Index(i - 1)']]
      BY <2>1, Zenon DEF Replay
    <3> QED BY <3>1, <3>2, <3>3
  <2>7. Append(Tail(Replay), e) = [i \in 1 .. N |-> IF i = N THEN e ELSE Replay[i + 1]]
    <3>1. Replay # <<>>
      BY <1>3, <1>5, Zenon
    <3>2. /\ Tail(Replay) \in Seq(S) /\ Len(Tail(Replay)) = N - 1
          /\ \A i \in 1 .. N - 1 : Tail(Replay)[i] = Replay[i + 1]
      BY <1>3, <1>5, <3>1, HeadTailProperties, Zenon
    <3> DEFINE t == Tail(Replay)
    <3> HIDE DEF t
    <3>3. /\ Append(t, e) \in Seq(S) /\ Len(Append(t, e)) = N
          /\ \A i \in 1 .. N - 1 : Append(t, e)[i] = t[i]
          /\ Append(t, e)[N] = e
      BY <3>2, AppendProperties DEF t
    <3>4. Append(t, e) \in [1 .. N -> S]
      BY <3>3, LenProperties, Zenon
    <3> DEFINE f == Append(t, e)  r == Replay
    <3>5. /\ f \in [1 .. N -> S] /\ f[N] = e
          /\ \A i \in 1 .. N - 1 : f[i] = r[i + 1]
      BY <3>2, <3>3, <3>4, Zenon DEF t
    <3> HIDE DEF f, r
    <3>6. f = [i \in 1 .. N |-> IF i = N THEN e ELSE r[i + 1]]
      BY <3>5
    <3> QED BY <3>6, Zenon DEF f, r, t
  <2> QED BY <1>3, <1>5, <2>6, <2>7 DEF Log!Add
<1> QED BY <1>1, <1>4, <1>5

(* The array, start and count of the history stay in range. *)
THEOREM RingTypeCorrect == RingSpec => []RingTypeOK
<1>1. InitHistory => RingInv
  BY HistoryAssumption DEF InitHistory, RingInv, RingTypeOK
<1>2. RingInv /\ [PushAny]_ringVars => RingInv'
  BY RingInvStep, Zenon DEF PushAny, ringVars, RingInv, RingTypeOK
<1>3. RingInv => RingTypeOK
  BY Zenon DEF RingInv
<1> QED BY <1>1, <1>2, <1>3, PTL DEF RingSpec

(* push_history implements a log of the last MAX_HISTORY messages. *)
THEOREM HistoryIsBoundedLog == RingSpec => RingImplementsLog
<1>1. InitHistory => RingInv /\ Log!Init
  <2> SUFFICES ASSUME InitHistory PROVE RingInv /\ Log!Init
    BY Zenon
  <2>1. RingInv
    BY HistoryAssumption DEF InitHistory, RingInv, RingTypeOK
  <2>2. Replay = <<>>
    BY DEF InitHistory, Replay
  <2> QED BY <2>1, <2>2, Zenon DEF Log!Init
<1>2. RingInv /\ [PushAny]_ringVars => RingInv' /\ [Log!Next]_Replay
  <2> SUFFICES ASSUME RingInv, [PushAny]_ringVars
               PROVE  RingInv' /\ [Log!Next]_Replay
    BY Zenon
  <2>1. CASE UNCHANGED ringVars
    BY <2>1, Zenon DEF ringVars, RingInv, RingTypeOK, Replay, Index
  <2>2. ASSUME NEW e \in Entries, Push(e) PROVE RingInv' /\ Log!Next
    BY <2>2, RingInvStep, PushAdds, Zenon DEF Log!Next
  <2> QED BY <2>1, <2>2, Zenon DEF PushAny
<1> QED BY <1>1, <1>2, PTL DEF RingSpec, RingImplementsLog, Log!Spec

-----------------------------------------------------------------------------
(* The invariants.                                                         *)

(* The server's control variables: todo is what broadcast_message has not  *)
(* reached of the list it walks, joiner is set only while a JOIN is being  *)
(* handled, and the list holds a client once.                              *)
Control ==
  /\ IsInjective(clients) /\ IsInjective(todo)
  /\ Range(todo) \subseteq Range(clients)
  /\ server # "broadcast" => todo = <<>>
  /\ server = "broadcast" => line \in Lines
  /\ server \notin {"broadcast", "replay"} => joiner = Nobody
  /\ server = "replay" => joiner # Nobody /\ pos <= history_count
  /\ joiner # Nobody => joiner \in Range(clients)

(* The ring holds the end of all that push_history was given. *)
RingIsRecent == Replay = LastN(log, MAX_HISTORY)

TypeInv == TypeOK /\ RingInv /\ RingIsRecent /\ Control

(* What is in a client's queue is the end of what was put there. *)
InFlight ==
  \A u \in Users :
     /\ Len(cq[u]) <= Len(got[u])
     /\ \A i \in 1 .. Len(cq[u]) : cq[u][i] = got[u][Len(got[u]) - Len(cq[u]) + i]

(* The life of a client as the server's queue tells it: JOIN comes before  *)
(* its other requests, LEAVE after them, and it is in the list only between *)
(* the two.                                                                *)
After == {"close", "pthread_join", "exited"}
Asks(u) == \E i \in DOMAIN sq : sq[i].from = u
Lives ==
  \A u \in Users :
     /\ main[u] \in {"off", "join"}
          => ~Asks(u) /\ u \notin Range(clients) /\ got[u] = <<>>
     /\ \A i \in DOMAIN sq : sq[i].from = u /\ sq[i].kind = "JOIN" =>
          /\ u \notin Range(clients) /\ got[u] = <<>>
          /\ \A j \in 1 .. i - 1 : sq[j].from # u
     /\ \A i \in DOMAIN sq : sq[i].from = u /\ sq[i].kind = "LEAVE" =>
          /\ main[u] \in After
          /\ \A j \in i + 1 .. Len(sq) : sq[j].from # u
     /\ main[u] \in After =>
          \/ \E i \in DOMAIN sq : sq[i].from = u /\ sq[i].kind = "LEAVE"
          \/ ~Asks(u) /\ u \notin Range(clients)

(* s is what u was sent when it has seen the log g up to n. *)
Upto(s, u, g, n) ==
  \E a \in 1 .. n + 1 :
     \/ s = SubSeq(g, a, n)
     \/ s # <<>> /\ Head(s) = Line("joined", u, 0) /\ Tail(s) = SubSeq(g, a, n)

(* How far each client has seen the log.  Between two requests every client *)
(* in the list has seen all of it, unless the server has been interrupted. *)
Settled == \/ server = "receive"
           \/ server = "check" /\ ~stop_requested
SeenUpto(u, n) == Upto(got[u], u, log, n)
SeenBy(u) ==
  /\ \E n \in 0 .. Len(log) : SeenUpto(u, n)
  /\ Settled /\ u \in Range(clients) => SeenUpto(u, Len(log))
  /\ server = "broadcast" =>
       /\ u \in Range(todo) => SeenUpto(u, Len(log) - 1)
       /\ ~stop_requested /\ u \in Range(clients) /\ u \notin Range(todo)
            => SeenUpto(u, Len(log))
       /\ joiner = u => \/ got[u] = <<>>
                        \/ u \notin Range(todo) /\ got[u] = <<Line("joined", u, 0)>>
  /\ server = "replay" =>
       /\ joiner = u => SeenUpto(u, Len(log) - history_count + pos)
       /\ joiner # u /\ u \in Range(clients) /\ ~stop_requested => SeenUpto(u, Len(log))
Seen == \A u \in Users : SeenBy(u)
Announced ==
  server = "broadcast" =>
     /\ log # <<>> /\ line = log[Len(log)]
     /\ joiner # Nobody => line = Line("joined", joiner, 0)
AllFit == \A i \in DOMAIN log : Fits(log[i])
Delivery == Announced /\ (AllFit => Seen)

-----------------------------------------------------------------------------
(* Sequences.                                                              *)

(* The elements of a sequence are what its positions hold. *)
LEMMA InRange ==
  ASSUME NEW S, NEW s \in Seq(S)
  PROVE  /\ DOMAIN s = 1 .. Len(s) /\ Len(s) \in Nat
         /\ \A x : x \in Range(s) <=> \E i \in 1 .. Len(s) : s[i] = x
         /\ Range(s) \subseteq S
<1> QED BY DEF Range

(* broadcast_message goes on to the next client of its walk. *)
LEMMA TailInjective ==
  ASSUME NEW S, NEW s \in Seq(S), s # <<>>, IsInjective(s)
  PROVE  /\ Tail(s) \in Seq(S) /\ IsInjective(Tail(s))
         /\ Head(s) \in Range(s)
         /\ Range(Tail(s)) = Range(s) \ {Head(s)}
<1> DEFINE t == Tail(s)
<1>1. /\ t \in Seq(S) /\ Len(t) = Len(s) - 1 /\ Len(s) \in Nat \ {0}
      /\ \A i \in 1 .. Len(t) : t[i] = s[i + 1]
      /\ Head(s) = s[1] /\ DOMAIN s = 1 .. Len(s) /\ DOMAIN t = 1 .. Len(t)
  <2>1. /\ t \in Seq(S) /\ Len(t) = Len(s) - 1
        /\ \A i \in 1 .. Len(t) : t[i] = s[i + 1]
    BY HeadTailProperties, Zenon
  <2>2. Len(s) \in Nat \ {0} /\ DOMAIN s = 1 .. Len(s) /\ DOMAIN t = 1 .. Len(t)
    BY <2>1, EmptySeq, LenProperties, Zenon
  <2> QED BY <2>1, <2>2
<1> HIDE DEF t
<1>2. IsInjective(t)
  <2> SUFFICES ASSUME NEW a \in DOMAIN t, NEW b \in DOMAIN t, t[a] = t[b] PROVE a = b
    BY Zenon DEF IsInjective
  <2>1. a \in Int /\ b \in Int /\ a + 1 \in DOMAIN s /\ b + 1 \in DOMAIN s
    BY <1>1
  <2>2. s[a + 1] = s[b + 1]
    BY <1>1, Zenon
  <2>3. a + 1 = b + 1
    BY <2>1, <2>2, Zenon DEF IsInjective
  <2> QED BY <2>1, <2>3
<1>3. \A x : x \in Range(t) <=> x \in Range(s) /\ x # s[1]
  <2>1. ASSUME NEW x \in Range(t) PROVE x \in Range(s) /\ x # s[1]
    <3>1. PICK i \in 1 .. Len(t) : t[i] = x
      BY <1>1, <2>1, InRange
    <3>2. s[i + 1] = x /\ i + 1 \in 1 .. Len(s) /\ i + 1 # 1
      BY <1>1, <3>1
    <3>3. x \in Range(s)
      BY <3>2, InRange, Zenon
    <3> DEFINE j == i + 1
    <3>4. j \in DOMAIN s /\ 1 \in DOMAIN s /\ j # 1 /\ s[j] = x
      BY <1>1, <3>2
    <3> HIDE DEF j
    <3> QED BY <3>3, <3>4, Zenon DEF IsInjective
  <2>2. ASSUME NEW x \in Range(s), x # s[1] PROVE x \in Range(t)
    <3>1. PICK i \in 1 .. Len(s) : s[i] = x
      BY <2>2, InRange, Zenon
    <3>2. i - 1 \in 1 .. Len(t) /\ t[i - 1] = x
      BY <1>1, <2>2, <3>1
    <3> QED BY <1>1, <3>2, InRange
  <2> QED BY <2>1, <2>2, Zenon
<1>4. Head(s) \in Range(s)
  BY <1>1, InRange
<1>5. Range(t) = Range(s) \ {Head(s)}
  BY <1>1, <1>3, Zenon
<1> QED BY <1>1, <1>2, <1>4, <1>5, Zenon DEF t

(* add_or_update_client: a new client is put in front of the list. *)
LEMMA ConsInjective ==
  ASSUME NEW S, NEW s \in Seq(S), NEW u \in S, u \notin Range(s), IsInjective(s)
  PROVE  /\ <<u>> \o s \in Seq(S) /\ IsInjective(<<u>> \o s)
         /\ Range(<<u>> \o s) = Range(s) \cup {u}
<1> DEFINE t == <<u>> \o s
<1>1. /\ t \in Seq(S) /\ Len(t) = Len(s) + 1 /\ Len(s) \in Nat
      /\ \A i \in 1 .. Len(t) : t[i] = IF i = 1 THEN u ELSE s[i - 1]
      /\ DOMAIN s = 1 .. Len(s) /\ DOMAIN t = 1 .. Len(t)
  BY ConcatProperties, LenProperties
<1> HIDE DEF t
<1>2. \A i \in 1 .. Len(s) : s[i] # u
  BY <1>1, InRange, Zenon
<1>3. IsInjective(t)
  <2> SUFFICES ASSUME NEW i \in 1 .. Len(t), NEW j \in 1 .. Len(t), t[i] = t[j]
               PROVE  i = j
    BY <1>1, Zenon DEF IsInjective
  <2>1. CASE i = 1 \/ j = 1
    BY <1>1, <1>2, <2>1
  <2>2. CASE i # 1 /\ j # 1
    BY <1>1, <2>2 DEF IsInjective
  <2> QED BY <2>1, <2>2, Zenon
<1>4. \A x : x \in Range(t) <=> x \in Range(s) \/ x = u
  <2>1. ASSUME NEW x \in Range(s) PROVE x \in Range(t)
    <3>1. PICK i \in 1 .. Len(s) : s[i] = x
      BY <2>1, InRange, Zenon
    <3>2. i + 1 \in 1 .. Len(t) /\ t[i + 1] = x
      BY <1>1, <3>1
    <3> QED BY <1>1, <3>2, InRange
  <2>2. u \in Range(t)
    BY <1>1, InRange
  <2>3. ASSUME NEW x \in Range(t), x # u PROVE x \in Range(s)
    <3>1. PICK i \in 1 .. Len(t) : t[i] = x
      BY <1>1, <2>3, InRange
    <3>2. i - 1 \in 1 .. Len(s) /\ s[i - 1] = x
      BY <1>1, <2>3, <3>1
    <3> QED BY <1>1, <3>2, InRange
  <2> QED BY <2>1, <2>2, <2>3, Zenon
<1> QED BY <1>1, <1>3, <1>4, Zenon DEF t

(* remove_client_by_name removes the client, and nobody else. *)
LEMMA WithoutInjective ==
  ASSUME NEW S, NEW s \in Seq(S), NEW u \in S, IsInjective(s)
  PROVE  /\ Without(s, u) \in Seq(S) /\ IsInjective(Without(s, u))
         /\ Range(Without(s, u)) = Range(s) \ {u}
<1>1. CASE u \notin Range(s)
  BY <1>1, Zenon DEF Without
<1>2. CASE u \in Range(s)
  <2> DEFINE n == Len(s) - 1
             k == First(s, u)
             w == [i \in 1 .. n |-> IF i < k THEN s[i] ELSE s[i + 1]]
  <2>1. DOMAIN s = 1 .. Len(s) /\ Len(s) \in Nat /\ s \in [1 .. Len(s) -> S]
    BY LenProperties, Zenon
  <2>2. PICK p \in 1 .. Len(s) : s[p] = u
    BY <1>2, InRange, Zenon
  <2>3. \A j \in 1 .. Len(s) : s[j] = u => j = p
    BY <2>1, <2>2, Zenon DEF IsInjective
  <2>4. k = p
    <3>1. \E i \in DOMAIN s : s[i] = u /\ \A j \in 1 .. i - 1 : s[j] # u
      <4>1. \A j \in 1 .. p - 1 : s[j] # u
        BY <2>1, <2>2, <2>3
      <4> QED BY <2>1, <2>2, <4>1, Zenon
    <3>2. k \in DOMAIN s /\ s[k] = u
      BY <3>1, Zenon DEF First
    <3> QED BY <2>1, <2>3, <3>2, Zenon
  <2>5. Without(s, u) = w /\ n \in Nat /\ Len(s) = n + 1
    BY <1>2, <2>1, <2>2 DEF Without
  <2> HIDE DEF n, k
  <2>6. w \in [1 .. n -> S]
    BY <2>1, <2>2, <2>4, <2>5
  <2>7. w \in Seq(S) /\ Len(w) = n /\ DOMAIN w = 1 .. n
    BY <2>5, <2>6, SeqDef
  <2>8. \A i \in 1 .. n : w[i] = IF i < p THEN s[i] ELSE s[i + 1]
    BY <2>4, Zenon
  <2> HIDE DEF w
  <2>9. IsInjective(w)
    <3> SUFFICES ASSUME NEW i \in 1 .. n, NEW j \in 1 .. n, w[i] = w[j], i # j
                 PROVE  FALSE
      BY <2>7, Zenon DEF IsInjective
    <3> DEFINE a == IF i < p THEN i ELSE i + 1
               b == IF j < p THEN j ELSE j + 1
    <3>1. a \in 1 .. Len(s) /\ b \in 1 .. Len(s) /\ a # b /\ s[a] = w[i] /\ s[b] = w[j]
      BY <2>2, <2>5, <2>8
    <3> HIDE DEF a, b
    <3> QED BY <2>1, <3>1, Zenon DEF IsInjective
  <2>10. \A x : x \in Range(w) <=> x \in Range(s) /\ x # u
    <3>1. ASSUME NEW x \in Range(w) PROVE x \in Range(s) /\ x # u
      <4>1. PICK i \in 1 .. n : w[i] = x
        BY <2>7, <3>1, InRange, Zenon
      <4> DEFINE a == IF i < p THEN i ELSE i + 1
      <4>2. a \in 1 .. Len(s) /\ a # p /\ s[a] = x
        BY <2>2, <2>5, <2>8, <4>1
      <4> HIDE DEF a
      <4> QED BY <2>3, <4>2, InRange, Zenon
    <3>2. ASSUME NEW x \in Range(s), x # u PROVE x \in Range(w)
      <4>1. PICK a \in 1 .. Len(s) : s[a] = x
        BY <3>2, InRange, Zenon
      <4> DEFINE i == IF a < p THEN a ELSE a - 1
      <4>2. i \in 1 .. n /\ w[i] = x
        BY <2>2, <2>5, <2>8, <3>2, <4>1
      <4> HIDE DEF i
      <4> QED BY <2>7, <4>2, InRange, Zenon
    <3> QED BY <3>1, <3>2, Zenon
  <2>11. Range(w) = Range(s) \ {u}
    BY <2>10, Zenon
  <2> QED BY <2>5, <2>7, <2>9, <2>11, Zenon
<1> QED BY <1>1, <1>2, Zenon

(* A buffer that drops its oldest entry when it is full, as push_history   *)
(* and the display do, holds the end of all that was added to it.          *)
LEMMA SlideIsLastN ==
  ASSUME NEW S, NEW t \in Seq(S), NEW e \in S, NEW m \in Nat \ {0}, NEW w,
         w = LastN(t, m)
  PROVE  /\ w \in Seq(S) /\ Len(w) <= m
         /\ Len(w) < m => Append(w, e) = LastN(Append(t, e), m)
         /\ Len(w) >= m => Append(Tail(w), e) = LastN(Append(t, e), m)
<1> DEFINE n == Len(t)
           te == Append(t, e)
<1>1. n \in Nat /\ Len(t) = n /\ t \in [1 .. n -> S]
  BY LenProperties, Zenon
<1>2. /\ te \in Seq(S) /\ Len(te) = n + 1 /\ te[n + 1] = e
      /\ \A i \in 1 .. n : te[i] = t[i]
  BY AppendProperties
<1> HIDE DEF n, te
<1>3. CASE n <= m
  <2>1. w = t
    BY <1>1, <1>3, Zenon DEF LastN
  <2>2. CASE n < m
    <3>1. LastN(te, m) = te
      BY <1>1, <1>2, <2>2 DEF LastN
    <3> QED BY <1>1, <2>1, <2>2, <3>1 DEF te
  <2>3. CASE n = m
    <3>1. LastN(te, m) = SubSeq(te, 2, n + 1)
      BY <1>1, <1>2, <2>3 DEF LastN
    <3>2. /\ Tail(t) \in Seq(S) /\ Len(Tail(t)) = n - 1
          /\ \A i \in 1 .. n - 1 : Tail(t)[i] = t[i + 1]
      BY <1>1, <2>3, EmptySeq, HeadTailProperties, Zenon
    <3> DEFINE tt == Tail(t)  r == Append(tt, e)  q == SubSeq(te, 2, n + 1)
    <3> HIDE DEF tt
    <3>3. /\ r \in Seq(S) /\ Len(r) = n
          /\ \A i \in 1 .. n - 1 : r[i] = t[i + 1]
          /\ r[n] = e
      BY <1>1, <2>3, <3>2, AppendProperties DEF tt
    <3>4. q \in Seq(S) /\ Len(q) = n /\ \A i \in 1 .. n : q[i] = te[i + 1]
      <4>1. \A i \in 2 .. n + 1 : te[i] \in S
        BY <1>1, <1>2
      <4>2. /\ q \in Seq(S)
            /\ Len(q) = IF 2 <= n + 1 THEN (n + 1) - 2 + 1 ELSE 0
            /\ \A i \in 1 .. (n + 1) - 2 + 1 : q[i] = te[2 + i - 1]
        BY <1>1, <4>1, SubSeqProperties
      <4> HIDE DEF q
      <4> QED BY <1>1, <2>3, <4>2
    <3> HIDE DEF r, q
    <3>5. ASSUME NEW i \in 1 .. n PROVE r[i] = q[i]
      <4>1. q[i] = te[i + 1] /\ (i < n => te[i + 1] = t[i + 1] /\ r[i] = t[i + 1])
        BY <1>1, <1>2, <3>3, <3>4
      <4> QED BY <1>1, <1>2, <3>3, <4>1
    <3>6. r = q
      BY <3>3, <3>4, <3>5, SeqEqual, Zenon
    <3> QED BY <1>1, <2>1, <2>3, <3>1, <3>6 DEF r, q, tt, te
  <2>4. n < m \/ n = m
    BY <1>1, <1>3
  <2> QED BY <2>2, <2>3, <2>4, Zenon
<1>4. CASE n > m
  <2> DEFINE q == SubSeq(te, n + 1 - m + 1, n + 1)
             tw == Tail(w)
             r == Append(tw, e)
  <2>1. w = SubSeq(t, n - m + 1, n) /\ LastN(te, m) = q
    BY <1>1, <1>2, <1>4 DEF LastN
  <2>2. w \in Seq(S) /\ Len(w) = m /\ \A i \in 1 .. m : w[i] = t[n - m + i]
    <3> DEFINE a == n - m + 1  v == SubSeq(t, a, n)
    <3>1. a \in 1 .. n /\ a = n - m + 1 /\ \A i \in a .. n : t[i] \in S
      BY <1>1, <1>4
    <3> HIDE DEF a
    <3>2. /\ v \in Seq(S)
          /\ Len(v) = IF a <= n THEN n - a + 1 ELSE 0
          /\ \A i \in 1 .. n - a + 1 : v[i] = t[a + i - 1]
      BY <1>1, <3>1, SubSeqProperties
    <3> HIDE DEF v
    <3>3. v \in Seq(S) /\ Len(v) = m /\ \A i \in 1 .. m : v[i] = t[n - m + i]
      BY <1>1, <1>4, <3>1, <3>2
    <3> QED BY <2>1, <3>3, Zenon DEF v, a
  <2>3. q \in Seq(S) /\ Len(q) = m /\ \A i \in 1 .. m : q[i] = te[n + 1 - m + i]
    <3>1. \A i \in n + 1 - m + 1 .. n + 1 : te[i] \in S
      BY <1>1, <1>2, <1>4
    <3>2. /\ q \in Seq(S)
          /\ Len(q) = IF n + 1 - m + 1 <= n + 1 THEN (n + 1) - (n + 1 - m + 1) + 1 ELSE 0
          /\ \A i \in 1 .. (n + 1) - (n + 1 - m + 1) + 1 : q[i] = te[(n + 1 - m + 1) + i - 1]
      BY <1>1, <3>1, SubSeqProperties
    <3> HIDE DEF q
    <3> QED BY <1>1, <1>4, <3>2
  <2>4. /\ tw \in Seq(S) /\ Len(tw) = m - 1
        /\ \A i \in 1 .. m - 1 : tw[i] = w[i + 1]
    BY <2>2, EmptySeq, HeadTailProperties
  <2> HIDE DEF tw, q
  <2>5. /\ r \in Seq(S) /\ Len(r) = m
        /\ \A i \in 1 .. m - 1 : r[i] = w[i + 1]
        /\ r[m] = e
    BY <2>4, AppendProperties
  <2> HIDE DEF r
  <2>6. ASSUME NEW i \in 1 .. m PROVE r[i] = q[i]
    <3>1. CASE i = m
      BY <1>1, <1>2, <1>4, <2>3, <2>5, <3>1
    <3>2. CASE i < m
      <4>1. r[i] = w[i + 1] /\ w[i + 1] = t[n - m + (i + 1)]
        BY <2>2, <2>5, <3>2
      <4> DEFINE k == n + 1 - m + i
      <4>2. k \in 1 .. n /\ q[i] = te[k] /\ n - m + (i + 1) = k
        BY <1>1, <1>4, <2>3, <3>2
      <4> HIDE DEF k
      <4> QED BY <1>2, <4>1, <4>2, Zenon
    <3> QED BY <3>1, <3>2
  <2>7. r = q
    BY <2>3, <2>5, <2>6, SeqEqual, Zenon
  <2>8. Append(Tail(w), e) = LastN(Append(t, e), m)
    BY <2>1, <2>7, Zenon DEF r, tw, te
  <2> QED BY <2>2, <2>8
<1> QED BY <1>1, <1>3, <1>4

-----------------------------------------------------------------------------
(* Types and control.                                                      *)

(* What the handlers push and broadcast are lines. *)
LEMMA LinesType ==
  ASSUME NEW u \in Users
  PROVE  /\ Line("joined", u, 0) \in Lines /\ Line("left", u, 0) \in Lines
         /\ \A t \in 1 .. MaxTexts : Line("text", u, t) \in Lines
<1> QED BY DEF Lines

(* What the clients send are requests. *)
LEMMA RequestsType ==
  ASSUME NEW r \in Requests
  PROVE  /\ r.from \in Users /\ r.kind \in {"JOIN", "MSG", "LEAVE"}
         /\ r.kind = "MSG" => r.text \in 1 .. MaxTexts
<1> QED BY Zenon DEF Requests

(* push_history and the start of a broadcast, for a list of clients that   *)
(* is in order: the common end of the three handlers.                      *)
LEMMA PushAndBroadcastType ==
  ASSUME TypeInv, NEW l \in Lines, NEW cs, PushAndBroadcast(l, cs)
  PROVE  /\ RingInv' /\ RingIsRecent' /\ log' \in Seq(Lines)
         /\ line' \in Lines /\ todo' = cs /\ server' = "broadcast"
<1>1. RingInv' /\ Log!Add(l)
  BY EntriesAssumption, RingInvStep, PushAdds, Zenon DEF PushAndBroadcast, TypeInv
<1>2. log \in Seq(Lines) /\ log' = Append(log, l) /\ log' \in Seq(Lines)
  BY AppendProperties, Zenon DEF PushAndBroadcast, TypeInv, TypeOK
<1>3. RingIsRecent'
  <2> DEFINE w == Replay
  <2>1. w = LastN(log, MAX_HISTORY) /\ MAX_HISTORY \in Nat \ {0}
    BY HistoryAssumption, Zenon DEF TypeInv, RingIsRecent
  <2>2. Replay' = IF Len(w) < MAX_HISTORY THEN Append(w, l) ELSE Append(Tail(w), l)
    BY <1>1, Zenon DEF Log!Add
  <2> HIDE DEF w
  <2>3. /\ Len(w) < MAX_HISTORY => Append(w, l) = LastN(Append(log, l), MAX_HISTORY)
        /\ Len(w) >= MAX_HISTORY => Append(Tail(w), l) = LastN(Append(log, l), MAX_HISTORY)
        /\ Len(w) \in Nat
    BY <1>2, <2>1, SlideIsLastN, LenProperties
  <2>4. Replay' = LastN(Append(log, l), MAX_HISTORY)
    BY <2>1, <2>2, <2>3
  <2> QED BY <1>2, <2>4, Zenon DEF RingIsRecent
<1> QED BY <1>1, <1>2, <1>3, Zenon DEF PushAndBroadcast

(* Handling a request keeps the types and the server's control variables.  *)
LEMMA TypeReceive ==
  ASSUME TypeInv, ServerReceive
  PROVE  TypeInv'
<1> DEFINE r == Head(sq)
<1>1. /\ sq \in Seq(Requests) /\ sq # <<>> /\ sq' = Tail(sq) /\ server = "receive"
      /\ clients \in Seq(Users) /\ IsInjective(clients) /\ joiner = Nobody
      /\ Len(sq) <= SERVER_MESSAGES /\ SERVER_MESSAGES \in Nat
  BY RoomAssumption, Zenon DEF ServerReceive, TypeInv, TypeOK, Control
<1>2. sq' \in Seq(Requests) /\ Len(sq') <= SERVER_MESSAGES /\ r \in Requests
  BY <1>1, HeadTailProperties, LenProperties
<1>3. UNCHANGED <<cq, got, clientVars, stop_requested, pos>>
  BY Zenon DEF ServerReceive
<1>4. SUFFICES /\ RingInv' /\ RingIsRecent' /\ log' \in Seq(Lines) /\ line' \in Lines \cup {NoEntry}
               /\ clients' \in Seq(Users) /\ todo' \in Seq(Users)
               /\ server' \in {"broadcast", "check"} /\ joiner' \in Users \cup {Nobody}
               /\ Control'
  BY <1>2, <1>3, Zenon DEF TypeInv, TypeOK, RingInv, clientVars
<1> HIDE DEF r
<1>5. ASSUME NEW l \in Lines, PushAndBroadcast(l, clients'), clients' \in Seq(Users),
             IsInjective(clients'), joiner' \in Users \cup {Nobody},
             joiner' # Nobody => joiner' \in Range(clients')
      PROVE  /\ RingInv' /\ RingIsRecent' /\ log' \in Seq(Lines) /\ line' \in Lines \cup {NoEntry}
             /\ todo' \in Seq(Users) /\ server' = "broadcast" /\ Control'
  <2>1. /\ RingInv' /\ RingIsRecent' /\ log' \in Seq(Lines) /\ line' \in Lines
        /\ todo' = clients' /\ server' = "broadcast"
    BY <1>5, PushAndBroadcastType, Zenon
  <2> QED BY <1>5, <2>1, Zenon DEF Control
<1>6. CASE r.kind = "JOIN" /\ HandleJoin(r.from)
  <2>1. r.from \in Users
    BY <1>2, RequestsType, Zenon
  <2>2. CASE linked[r.from]
    <3>1. /\ clients' = IF r.from \in Range(clients) THEN clients ELSE <<r.from>> \o clients
          /\ joiner' = r.from
          /\ PushAndBroadcast(Line("joined", r.from, 0), clients')
      BY <1>6, <2>2, Zenon DEF HandleJoin
    <3>2. clients' \in Seq(Users) /\ IsInjective(clients') /\ joiner' \in Range(clients')
      BY <1>1, <2>1, <3>1, ConsInjective
    <3> QED BY <1>5, <2>1, <3>1, <3>2, LinesType, Zenon
  <2>3. CASE ~linked[r.from]
    <3>1. /\ server' = "check"
          /\ UNCHANGED <<clients, joiner, history, history_start, history_count, line, todo, log>>
      BY <1>6, <2>3, Zenon DEF HandleJoin
    <3>2. RingIsRecent'
      BY <3>1, Zenon DEF TypeInv, RingIsRecent, Replay, Index
    <3> QED BY <1>1, <3>1, <3>2, Zenon DEF TypeInv, TypeOK, Control, RingInv, RingTypeOK
  <2> QED BY <2>2, <2>3, Zenon
<1>7. CASE r.kind = "MSG" /\ HandleMsg(r.from, r.text)
  <2>1. Line("text", r.from, r.text) \in Lines
    BY <1>2, <1>7, RequestsType, LinesType, Zenon
  <2>2. PushAndBroadcast(Line("text", r.from, r.text), clients') /\ UNCHANGED <<clients, joiner>>
    BY <1>7, Zenon DEF HandleMsg
  <2> QED BY <1>1, <1>5, <2>1, <2>2, Zenon
<1>8. CASE r.kind = "LEAVE" /\ HandleLeave(r.from)
  <2>1. r.from \in Users
    BY <1>2, RequestsType, Zenon
  <2>2. /\ clients' = Without(clients, r.from) /\ UNCHANGED joiner
        /\ PushAndBroadcast(Line("left", r.from, 0), clients')
    BY <1>8, Zenon DEF HandleLeave
  <2>3. clients' \in Seq(Users) /\ IsInjective(clients')
    BY <1>1, <2>1, <2>2, WithoutInjective, Zenon
  <2> QED BY <1>1, <1>5, <2>1, <2>2, <2>3, LinesType, Zenon
<1> QED BY <1>6, <1>7, <1>8, Zenon DEF ServerReceive, r

(* mq_send to a client, when there is room: the queue stays within its     *)
(* mq_maxmsg.                                                              *)
LEMMA DeliverType ==
  ASSUME TypeInv, NEW u \in Users, NEW l \in Lines, Room(u), Deliver(u, l)
  PROVE  /\ cq' \in [Users -> Seq(Lines)] /\ got' \in [Users -> Seq(Lines)]
         /\ \A v \in Users : Len(cq'[v]) <= CLIENT_MESSAGES
<1>1. /\ cq \in [Users -> Seq(Lines)] /\ got \in [Users -> Seq(Lines)]
      /\ \A v \in Users : Len(cq[v]) <= CLIENT_MESSAGES
      /\ CLIENT_MESSAGES \in Nat /\ Len(cq[u]) < CLIENT_MESSAGES
  BY RoomAssumption, Zenon DEF TypeInv, TypeOK, Room
<1>2. /\ Append(cq[u], l) \in Seq(Lines) /\ Len(Append(cq[u], l)) <= CLIENT_MESSAGES
      /\ Append(got[u], l) \in Seq(Lines)
  BY <1>1, AppendProperties, LenProperties
<1>3. /\ cq' = [cq EXCEPT ![u] = Append(cq[u], l)]
      /\ got' = [got EXCEPT ![u] = Append(got[u], l)]
  BY Zenon DEF Deliver
<1> QED BY <1>1, <1>2, <1>3, Zenon

(* The i-th entry that is replayed is a line: the one that many places     *)
(* before the end of the log.                                              *)
LEMMA ReplayType ==
  ASSUME TypeInv, NEW i \in 0 .. history_count - 1
  PROVE  /\ history_count <= Len(log)
         /\ ReplayFrom(i) = log[Len(log) - history_count + i + 1]
         /\ ReplayFrom(i) \in Lines
<1> DEFINE H == MAX_HISTORY
           n == Len(log)
           h == history_count
<1>1. /\ h \in 0 .. H /\ H \in Nat \ {0} /\ log \in Seq(Lines)
      /\ n \in Nat /\ log \in [1 .. n -> Lines] /\ Len(log) = n
  BY HistoryAssumption, LenProperties, Zenon DEF TypeInv, TypeOK, RingInv, RingTypeOK
<1>2. Replay[i + 1] = ReplayFrom(i) /\ Len(Replay) = h
  BY <1>1 DEF Replay, ReplayFrom
<1>3. Replay = LastN(log, H)
  BY Zenon DEF TypeInv, RingIsRecent
<1> HIDE DEF n, h, H
<1>4. CASE n <= H
  BY <1>1, <1>2, <1>3, <1>4 DEF LastN, h, n
<1>5. CASE n > H
  <2> DEFINE a == n - H + 1  v == SubSeq(log, a, n)
  <2>1. a \in 1 .. n /\ a = n - H + 1 /\ \A j \in a .. n : log[j] \in Lines
    BY <1>1, <1>5
  <2>2. Replay = v
    BY <1>1, <1>3, <1>5 DEF LastN
  <2> HIDE DEF a
  <2>3. /\ Len(v) = IF a <= n THEN n - a + 1 ELSE 0
        /\ \A j \in 1 .. n - a + 1 : v[j] = log[a + j - 1]
    BY <1>1, <2>1, SubSeqProperties
  <2> HIDE DEF v
  <2>4. h = H /\ h < n
    BY <1>1, <1>2, <1>5, <2>1, <2>2, <2>3
  <2>5. i \in 0 .. H - 1
    BY <2>4, Zenon DEF h
  <2>6. v[i + 1] = log[n - h + i + 1] /\ n - h + i + 1 \in 1 .. n
    BY <1>1, <1>5, <2>1, <2>3, <2>4, <2>5
  <2> QED BY <1>1, <1>2, <2>2, <2>4, <2>6 DEF h, n
<1> QED BY <1>1, <1>4, <1>5

(* The ring and the log are touched only by the handlers. *)
LEMMA RingKept ==
  ASSUME RingInv, RingIsRecent, UNCHANGED <<history, history_start, history_count, log>>
  PROVE  RingInv' /\ RingIsRecent'
<1> QED BY Zenon DEF RingInv, RingTypeOK, RingIsRecent, Replay, Index

(* A step of a client's main thread that puts a request in the server's    *)
(* queue keeps the queue within its mq_maxmsg.                             *)
LEMMA RequestType ==
  ASSUME TypeInv, NEW kind, NEW u, NEW t,
         [kind |-> kind, from |-> u, text |-> t] \in Requests, Request(kind, u, t)
  PROVE  sq' \in Seq(Requests) /\ Len(sq') <= SERVER_MESSAGES
<1>1. /\ sq \in Seq(Requests) /\ Len(sq) \in Nat /\ SERVER_MESSAGES \in Nat
      /\ Len(sq) < SERVER_MESSAGES
      /\ sq' = Append(sq, [kind |-> kind, from |-> u, text |-> t])
  BY RoomAssumption, LenProperties, Zenon DEF TypeInv, TypeOK, Request
<1> DEFINE r == [kind |-> kind, from |-> u, text |-> t]
<1>2. r \in Requests
  BY Zenon
<1> HIDE DEF r
<1>3. Append(sq, r) \in Seq(Requests) /\ Len(Append(sq, r)) = Len(sq) + 1
  BY <1>1, <1>2, AppendProperties, Zenon
<1> QED BY <1>1, <1>3 DEF r

(* The display never holds more than MAX_DISPLAY_LINES lines. *)
LEMMA ShowType ==
  ASSUME NEW ls \in Seq(Lines), Len(ls) <= MAX_DISPLAY_LINES, NEW l \in Lines
  PROVE  Show(ls, l) \in Seq(Lines) /\ Len(Show(ls, l)) <= MAX_DISPLAY_LINES
<1>1. MAX_DISPLAY_LINES \in Nat \ {0} /\ Len(ls) \in Nat
  BY RoomAssumption, LenProperties, Zenon
<1>2. CASE Len(ls) < MAX_DISPLAY_LINES
  BY <1>1, <1>2, AppendProperties DEF Show
<1>3. CASE ~(Len(ls) < MAX_DISPLAY_LINES)
  <2> DEFINE t == Tail(ls)
  <2>1. t \in Seq(Lines) /\ Len(t) = Len(ls) - 1
    BY <1>1, <1>3, EmptySeq, HeadTailProperties
  <2>2. Show(ls, l) = Append(t, l)
    BY <1>3, Zenon DEF Show
  <2> HIDE DEF t
  <2> QED BY <1>1, <1>3, <2>1, <2>2, AppendProperties
<1> QED BY <1>2, <1>3, Zenon

(* The steps of the server, the handling of a request apart, and SIGINT.   *)
LEMMA TypeServer ==
  ASSUME TypeInv,
         ServerCheck \/ BroadcastStep \/ BroadcastDone \/ ReplayStep \/ ReplayDone
           \/ Cleanup \/ Interrupt
  PROVE  TypeInv'
<1>1. RingInv' /\ RingIsRecent'
  BY RingKept, Zenon DEF TypeInv, ServerCheck, BroadcastStep, BroadcastDone, ReplayStep,
                  ReplayDone, Cleanup, Interrupt
<1> USE DEF TypeInv, TypeOK, Control, clientVars
<1>2. CASE ServerCheck
  BY <1>1, <1>2, Zenon DEF ServerCheck, RingInv
<1>3. CASE BroadcastStep
  <2>1. /\ Head(todo) \in Users /\ Tail(todo) \in Seq(Users)
        /\ IsInjective(Tail(todo)) /\ Range(Tail(todo)) \subseteq Range(clients)
    <3>1. todo \in Seq(Users) /\ todo # <<>> /\ IsInjective(todo)
      BY <1>3, Zenon DEF BroadcastStep
    <3> QED BY <3>1, HeadTailProperties, TailInjective, Zenon
  <2>2. /\ cq' \in [Users -> Seq(Lines)] /\ got' \in [Users -> Seq(Lines)]
        /\ \A v \in Users : Len(cq'[v]) <= CLIENT_MESSAGES
    <3>1. CASE Fits(line) /\ Room(Head(todo)) /\ Deliver(Head(todo), line)
      <4>1. line \in Lines
        BY <1>3, Zenon DEF BroadcastStep
      <4> QED BY <2>1, <3>1, <4>1, DeliverType, Zenon
    <3>2. CASE UNCHANGED <<cq, got>>
      BY <3>2, Zenon
    <3> QED BY <1>3, <3>1, <3>2, Zenon DEF BroadcastStep
  <2> QED BY <1>1, <1>3, <2>1, <2>2, Zenon DEF BroadcastStep, RingInv
<1>4. CASE BroadcastDone
  BY <1>1, <1>4, HistoryAssumption DEF BroadcastDone, RingInv, RingTypeOK
<1>5. CASE ReplayStep
  <2>1. /\ joiner \in Users /\ pos \in 0 .. history_count - 1
        /\ history_count \in 0 .. MAX_HISTORY /\ MAX_HISTORY \in Nat
    BY <1>5, HistoryAssumption DEF ReplayStep, MoreToReplay, RingInv, RingTypeOK
  <2>2. ReplayFrom(pos) \in Lines
    BY <2>1, ReplayType, Zenon
  <2>3. /\ cq' \in [Users -> Seq(Lines)] /\ got' \in [Users -> Seq(Lines)]
        /\ \A v \in Users : Len(cq'[v]) <= CLIENT_MESSAGES
    BY <1>5, <2>1, <2>2, DeliverType, Zenon DEF ReplayStep
  <2>4. pos' \in 0 .. MAX_HISTORY /\ pos' <= history_count'
    BY <1>5, <2>1 DEF ReplayStep
  <2> QED BY <1>1, <1>5, <2>3, <2>4, Zenon DEF ReplayStep, RingInv
<1>6. CASE ReplayDone
  BY <1>1, <1>6, Zenon DEF ReplayDone, RingInv
<1>7. CASE Cleanup
  <2>1. <<>> \in Seq(Users) /\ IsInjective(<<>>) /\ todo = <<>> /\ joiner = Nobody
    BY <1>7, Zenon DEF Cleanup, IsInjective
  <2> QED BY <1>1, <1>7, <2>1, Zenon DEF Cleanup, RingInv, Range
<1>8. CASE Interrupt
  <2>1. CASE todo # <<>> /\ todo' = Tail(todo) /\ UNCHANGED <<server, joiner>>
    <3>1. /\ Tail(todo) \in Seq(Users) /\ IsInjective(Tail(todo))
          /\ Range(Tail(todo)) \subseteq Range(clients)
      BY <2>1, TailInjective, Zenon
    <3>2. server = "broadcast"
      BY <2>1, Zenon
    <3> QED BY <1>1, <1>8, <2>1, <3>1, <3>2, Zenon DEF Interrupt, RingInv
  <2>2. CASE UNCHANGED todo
    BY <1>1, <1>8, <2>2, Zenon DEF Interrupt, RingInv
  <2> QED BY <1>8, <2>1, <2>2, Zenon DEF Interrupt
<1> QED BY <1>2, <1>3, <1>4, <1>5, <1>6, <1>7, <1>8, Zenon

(* The steps of the threads of a client. *)
LEMMA TypeClient ==
  ASSUME TypeInv, NEW u \in Users, MainStep(u) \/ ReaderStep(u) \/ UserStep(u)
  PROVE  TypeInv'
<1>1. UNCHANGED <<serverVars, got>>
  BY Zenon DEF MainStep, ReaderStep, UserStep, SendJoin, SendLeave, CloseQueue, JoinReader,
         ReaderCheck, ReaderCall, ReaderReceive, OpenQueues, SendText, Quit
<1>2. RingInv' /\ RingIsRecent'
  BY <1>1, RingKept, Zenon DEF TypeInv, serverVars
<1>3. Control'
  BY <1>1, Zenon DEF TypeInv, Control, serverVars
<1>4. SUFFICES
        /\ sq' \in Seq(Requests) /\ Len(sq') <= SERVER_MESSAGES
        /\ cq' \in [Users -> Seq(Lines)] /\ \A v \in Users : Len(cq'[v]) <= CLIENT_MESSAGES
        /\ linked' \in [Users -> BOOLEAN]
        /\ main' \in [Users -> {"off", "join", "ui", "leave", "close", "pthread_join", "exited"}]
        /\ reader' \in [Users -> {"off", "check", "call", "wait", "exited"}]
        /\ stop' \in [Users -> BOOLEAN] /\ closed' \in [Users -> BOOLEAN]
        /\ lines' \in [Users -> Seq(Lines)]
        /\ \A v \in Users : Len(lines'[v]) <= MAX_DISPLAY_LINES
        /\ roster' \in [Users -> SUBSET {"r"}]
        /\ texts' \in 0 .. MaxTexts
  BY <1>1, <1>2, <1>3, Zenon DEF TypeInv, TypeOK, serverVars, RingInv
<1> USE DEF TypeInv, TypeOK
<1>5. CASE SendJoin(u)
  <2>1. [kind |-> "JOIN", from |-> u, text |-> 0] \in Requests
    BY Zenon DEF Requests
  <2>2. sq' \in Seq(Requests) /\ Len(sq') <= SERVER_MESSAGES
    BY <1>5, <2>1, RequestType, Zenon DEF SendJoin
  <2> QED BY <1>5, <2>2, Zenon DEF SendJoin
<1>6. CASE SendLeave(u)
  <2>1. [kind |-> "LEAVE", from |-> u, text |-> 0] \in Requests
    BY Zenon DEF Requests
  <2>2. sq' \in Seq(Requests) /\ Len(sq') <= SERVER_MESSAGES
    BY <1>6, <2>1, RequestType, Zenon DEF SendLeave
  <2> QED BY <1>6, <2>2, Zenon DEF SendLeave
<1>7. CASE SendText(u)
  <2>1. texts + 1 \in 1 .. MaxTexts
    BY <1>7, RoomAssumption DEF SendText
  <2>2. [kind |-> "MSG", from |-> u, text |-> texts + 1] \in Requests
    BY <2>1, Zenon DEF Requests
  <2>3. sq' \in Seq(Requests) /\ Len(sq') <= SERVER_MESSAGES
    BY <1>7, <2>2, RequestType, Zenon DEF SendText
  <2> QED BY <1>7, <2>1, <2>3 DEF SendText
<1>8. CASE CloseQueue(u)
  BY <1>8, Zenon DEF CloseQueue
<1>9. CASE JoinReader(u)
  BY <1>9, Zenon DEF JoinReader
<1>10. CASE OpenQueues(u)
  BY <1>10, Zenon DEF OpenQueues
<1>11. CASE Quit(u)
  BY <1>11, Zenon DEF Quit
<1>12. CASE ReaderCheck(u)
  BY <1>12, Zenon DEF ReaderCheck
<1>13. CASE ReaderCall(u)
  BY <1>13, Zenon DEF ReaderCall
<1>14. CASE ReaderReceive(u)
  <2> DEFINE l == Head(cq[u])
  <2>1. /\ l \in Lines /\ Tail(cq[u]) \in Seq(Lines)
        /\ Len(Tail(cq[u])) <= CLIENT_MESSAGES
    BY <1>14, HeadTailProperties, LenProperties, RoomAssumption DEF ReaderReceive
  <2>2. cq' = [cq EXCEPT ![u] = Tail(cq[u])] /\ lines' = [lines EXCEPT ![u] = Show(lines[u], l)]
        /\ roster' = [roster EXCEPT ![u] = UpdateRoster(roster[u], l)]
    BY <1>14, Zenon DEF ReaderReceive
  <2> HIDE DEF l
  <2>3. Show(lines[u], l) \in Seq(Lines) /\ Len(Show(lines[u], l)) <= MAX_DISPLAY_LINES
    BY <2>1, ShowType, Zenon
  <2>4. UpdateRoster(roster[u], l) \in SUBSET {"r"}
    BY Zenon DEF UpdateRoster, ScannedName
  <2>5. cq' \in [Users -> Seq(Lines)] /\ \A v \in Users : Len(cq'[v]) <= CLIENT_MESSAGES
    BY <2>1, <2>2, Zenon
  <2>6. /\ lines' \in [Users -> Seq(Lines)]
        /\ \A v \in Users : Len(lines'[v]) <= MAX_DISPLAY_LINES
        /\ roster' \in [Users -> SUBSET {"r"}]
    BY <2>2, <2>3, <2>4, Zenon
  <2> QED BY <1>14, <2>5, <2>6, Zenon DEF ReaderReceive
<1> QED BY <1>5, <1>6, <1>7, <1>8, <1>9, <1>10, <1>11, <1>12, <1>13, <1>14
       , Zenon DEF MainStep, ReaderStep, UserStep

(* Types and control hold at the start and after every step. *)
LEMMA TypeInvInit == Init => TypeInv
<1> SUFFICES ASSUME Init PROVE TypeInv
  BY Zenon
<1>1. RingInv /\ RingTypeOK
  BY HistoryAssumption DEF Init, InitHistory, RingInv, RingTypeOK
<1>2. RingIsRecent
  <2>1. Replay = <<>> /\ log = <<>>
    BY DEF Init, InitHistory, Replay
  <2>2. LastN(<<>>, MAX_HISTORY) = <<>>
    BY HistoryAssumption DEF LastN
  <2> QED BY <2>1, <2>2, Zenon DEF RingIsRecent
<1>3. Control
  BY DEF Init, Control, IsInjective, Range
<1>4. TypeOK
  <2>1. /\ sq \in Seq(Requests) /\ Len(sq) <= SERVER_MESSAGES
        /\ clients \in Seq(Users) /\ todo \in Seq(Users) /\ log \in Seq(Lines)
    BY RoomAssumption DEF Init
  <2>2. /\ cq \in [Users -> Seq(Lines)] /\ lines \in [Users -> Seq(Lines)]
        /\ got \in [Users -> Seq(Lines)]
    BY DEF Init
  <2>3. \A u \in Users : Len(cq[u]) <= CLIENT_MESSAGES /\ Len(lines[u]) <= MAX_DISPLAY_LINES
    BY RoomAssumption DEF Init
  <2>4. /\ main \in [Users -> {"off", "join", "ui", "leave", "close", "pthread_join", "exited"}]
        /\ reader \in [Users -> {"off", "check", "call", "wait", "exited"}]
        /\ stop \in [Users -> BOOLEAN] /\ closed \in [Users -> BOOLEAN]
        /\ linked \in [Users -> BOOLEAN] /\ roster \in [Users -> SUBSET {"r"}]
    BY Zenon DEF Init
  <2>5. /\ server = "check" /\ stop_requested = FALSE /\ line = NoEntry
        /\ joiner = Nobody /\ pos \in 0 .. MAX_HISTORY /\ texts \in 0 .. MaxTexts
    BY RoomAssumption, HistoryAssumption DEF Init
  <2> QED BY <1>1, <2>1, <2>2, <2>3, <2>4, <2>5, Zenon DEF TypeOK
<1> QED BY <1>1, <1>2, <1>3, <1>4, Zenon DEF TypeInv

(* Every step keeps the types and the control variables. *)
LEMMA TypeInvStep == TypeInv /\ [Next]_vars => TypeInv'
<1> SUFFICES ASSUME TypeInv, [Next]_vars PROVE TypeInv'
  BY Zenon
<1>1. CASE UNCHANGED vars
  <2>1. UNCHANGED <<serverVars, clientVars, sq, cq, got>>
    BY <1>1, Zenon DEF vars
  <2>2. RingInv' /\ RingIsRecent'
    BY <2>1, RingKept, Zenon DEF TypeInv, serverVars
  <2>3. Control'
    BY <2>1, Zenon DEF TypeInv, Control, serverVars
  <2> QED BY <2>1, <2>2, <2>3, Zenon DEF TypeInv, TypeOK, serverVars, clientVars, RingInv
<1> QED BY <1>1, TypeReceive, TypeServer, TypeClient, Zenon DEF Next, ServerStep

(* Every variable of the chat stays in its type, no queue holds more than  *)
(* its mq_maxmsg and no display more than MAX_DISPLAY_LINES lines, for any *)
(* number of clients and any sizes.                                        *)
THEOREM ChatTypeCorrect == Spec => []TypeOK
<1>1. TypeInv => TypeOK
  BY Zenon DEF TypeInv
<1> QED BY <1>1, TypeInvInit, TypeInvStep, PTL DEF Spec

(* In every step of the chat the history is a log of the last MAX_HISTORY  *)
(* messages, or does not change.                                           *)
THEOREM ChatHistoryIsBoundedLog == Spec => RingImplementsLog
<1>1. Init => Log!Init
  BY DEF Init, InitHistory, Log!Init, Replay
<1>2. TypeInv /\ [Next]_vars => [Log!Next]_Replay
  <2> SUFFICES ASSUME TypeInv, [Next]_vars PROVE [Log!Next]_Replay
    BY Zenon
  <2>1. ASSUME NEW l \in Lines, NEW cs, PushAndBroadcast(l, cs) PROVE Log!Next
    BY <2>1, EntriesAssumption, PushAdds, Zenon DEF PushAndBroadcast, TypeInv, Log!Next
  <2>2. CASE ServerReceive
    <3> DEFINE r == Head(sq)
    <3>1. r \in Requests
      BY <2>2, HeadTailProperties, Zenon DEF ServerReceive, TypeInv, TypeOK
    <3>2. \/ r.kind = "JOIN" /\ HandleJoin(r.from)
          \/ r.kind = "MSG" /\ HandleMsg(r.from, r.text)
          \/ r.kind = "LEAVE" /\ HandleLeave(r.from)
      BY <2>2, Zenon DEF ServerReceive
    <3> HIDE DEF r
    <3>3. CASE r.kind = "JOIN" /\ HandleJoin(r.from)
      <4>1. CASE linked[r.from]
        BY <2>1, <3>1, <3>3, <4>1, RequestsType, LinesType, Zenon DEF HandleJoin
      <4>2. CASE ~linked[r.from]
        BY <3>3, <4>2, Zenon DEF HandleJoin, Replay, Index
      <4> QED BY <4>1, <4>2, Zenon
    <3>4. CASE r.kind = "MSG" /\ HandleMsg(r.from, r.text)
      BY <2>1, <3>1, <3>4, RequestsType, LinesType, Zenon DEF HandleMsg
    <3>5. CASE r.kind = "LEAVE" /\ HandleLeave(r.from)
      BY <2>1, <3>1, <3>5, RequestsType, LinesType, Zenon DEF HandleLeave
    <3> QED BY <3>2, <3>3, <3>4, <3>5, Zenon
  <2>3. CASE ~ServerReceive
    <3>1. UNCHANGED <<history, history_start, history_count>>
      BY <2>3, Zenon DEF Next, vars, serverVars, ServerStep, ServerCheck, BroadcastStep,
         BroadcastDone, ReplayStep, ReplayDone, Cleanup, Interrupt, MainStep, ReaderStep,
         UserStep, SendJoin, SendLeave, CloseQueue, JoinReader, ReaderCheck, ReaderCall,
         ReaderReceive, OpenQueues, SendText, Quit
    <3> QED BY <3>1, Zenon DEF Replay, Index
  <2> QED BY <2>2, <2>3, Zenon
<1> QED BY <1>1, <1>2, TypeInvInit, TypeInvStep, PTL DEF Spec, RingImplementsLog, Log!Spec

-----------------------------------------------------------------------------
(* The displays.                                                           *)

DisplayInv == TypeInv /\ InFlight /\ DisplayIsRecent

(* A part of a sequence from its start. *)
LEMMA Prefix ==
  ASSUME NEW S, NEW s \in Seq(S), NEW n \in 0 .. Len(s)
  PROVE  /\ SubSeq(s, 1, n) \in Seq(S)
         /\ \A e \in S : SubSeq(Append(s, e), 1, n) = SubSeq(s, 1, n)
         /\ n < Len(s) => SubSeq(s, 1, n + 1) = Append(SubSeq(s, 1, n), s[n + 1])
<1>1. Len(s) \in Nat /\ s \in [1 .. Len(s) -> S] /\ n \in Nat
  BY LenProperties
<1> DEFINE p == SubSeq(s, 1, n)
<1>2. p \in Seq(S) /\ Len(p) = n /\ \A i \in 1 .. n : p[i] = s[i]
  <2>1. \A i \in 1 .. n : s[i] \in S
    BY <1>1
  <2>2. /\ p \in Seq(S) /\ Len(p) = IF 1 <= n THEN n - 1 + 1 ELSE 0
        /\ \A i \in 1 .. n - 1 + 1 : p[i] = s[1 + i - 1]
    BY <1>1, <2>1, SubSeqProperties
  <2> HIDE DEF p
  <2> QED BY <1>1, <2>2
<1> HIDE DEF p
<1>3. ASSUME NEW e \in S PROVE SubSeq(Append(s, e), 1, n) = p
  <2> DEFINE t == Append(s, e)  q == SubSeq(t, 1, n)
  <2>1. t \in Seq(S) /\ \A i \in 1 .. Len(s) : t[i] = s[i]
    BY <1>3, AppendProperties
  <2> HIDE DEF t
  <2>2. \A i \in 1 .. n : t[i] = s[i] /\ t[i] \in S
    BY <1>1, <2>1
  <2>3. /\ q \in Seq(S) /\ Len(q) = IF 1 <= n THEN n - 1 + 1 ELSE 0
        /\ \A i \in 1 .. n - 1 + 1 : q[i] = t[1 + i - 1]
    BY <1>1, <2>2, SubSeqProperties
  <2> HIDE DEF q
  <2>4. Len(q) = Len(p) /\ \A i \in 1 .. Len(q) : q[i] = p[i]
    BY <1>1, <1>2, <2>2, <2>3
  <2>5. q = p
    BY <1>2, <2>3, <2>4, SeqEqual, Zenon
  <2> QED BY <2>5, Zenon DEF q, t
<1>4. ASSUME n < Len(s) PROVE SubSeq(s, 1, n + 1) = Append(p, s[n + 1])
  <2>1. SubSeq(s, 1, n + 1) = SubSeq(s, 1, n + 1 - 1) \o <<s[n + 1]>>
    BY <1>1, <1>4, SubSeqRecursiveSecond
  <2>2. n + 1 - 1 = n /\ s[n + 1] \in S
    BY <1>1, <1>4
  <2>3. Append(p, s[n + 1]) = p \o <<s[n + 1]>>
    BY <1>2, <2>2, AppendIsConcat, Zenon
  <2> QED BY <2>1, <2>2, <2>3, Zenon DEF p
<1> QED BY <1>2, <1>3, <1>4, Zenon DEF p

(* A line that mq_send puts in a queue is not yet taken from it. *)
LEMMA DisplayDeliver ==
  ASSUME DisplayInv, NEW u \in Users, NEW l \in Lines, Deliver(u, l), UNCHANGED lines
  PROVE  InFlight' /\ DisplayIsRecent'
<1> SUFFICES ASSUME NEW v \in Users
             PROVE  /\ Len(cq'[v]) <= Len(got'[v])
                    /\ \A i \in 1 .. Len(cq'[v]) :
                          cq'[v][i] = got'[v][Len(got'[v]) - Len(cq'[v]) + i]
                    /\ lines'[v] = LastN(Taken(v)', MAX_DISPLAY_LINES)
  BY Zenon DEF InFlight, DisplayIsRecent
<1> DEFINE c == cq[v]  g == got[v]  k == Len(g) - Len(c)
<1>1. /\ cq \in [Users -> Seq(Lines)] /\ got \in [Users -> Seq(Lines)]
      /\ cq' = [cq EXCEPT ![u] = Append(cq[u], l)]
      /\ got' = [got EXCEPT ![u] = Append(got[u], l)]
  BY Zenon DEF DisplayInv, TypeInv, TypeOK, Deliver
<1>2. /\ Len(c) <= Len(g) /\ \A i \in 1 .. Len(c) : c[i] = g[k + i]
      /\ lines'[v] = LastN(SubSeq(g, 1, k), MAX_DISPLAY_LINES)
  BY Zenon DEF DisplayInv, InFlight, DisplayIsRecent, Taken
<1>3. CASE v # u
  <2>1. cq'[v] = c /\ got'[v] = g
    BY <1>1, <1>3, Zenon
  <2> QED BY <1>2, <2>1, Zenon DEF Taken
<1>4. CASE v = u
  <2> DEFINE c1 == Append(c, l)  g1 == Append(g, l)
  <2>1. cq'[v] = c1 /\ got'[v] = g1 /\ c \in Seq(Lines) /\ g \in Seq(Lines)
    BY <1>1, <1>4, Zenon
  <2>2. /\ Len(c1) = Len(c) + 1 /\ c1[Len(c) + 1] = l /\ \A i \in 1 .. Len(c) : c1[i] = c[i]
        /\ Len(g1) = Len(g) + 1 /\ g1[Len(g) + 1] = l /\ \A i \in 1 .. Len(g) : g1[i] = g[i]
        /\ Len(c) \in Nat /\ Len(g) \in Nat
    BY <2>1, AppendProperties, LenProperties
  <2>3. k \in 0 .. Len(g) /\ Len(g1) - Len(c1) = k
    <3> HIDE DEF c1, g1, c, g
    <3> QED BY <1>2, <2>2
  <2>4. SubSeq(g1, 1, k) = SubSeq(g, 1, k)
    BY <2>1, <2>3, Prefix, ZenonT(40)
  <2>5. lines'[v] = LastN(Taken(v)', MAX_DISPLAY_LINES)
    <3> HIDE DEF c1, g1, k
    <3>1. Taken(v)' = SubSeq(g1, 1, k)
      BY <2>1, <2>3, Zenon DEF Taken
    <3> QED BY <1>2, <2>4, <3>1, Zenon
  <2> HIDE DEF c1, g1, c, g
  <2>6. ASSUME NEW i \in 1 .. Len(c1) PROVE c1[i] = g1[k + i]
    <3>1. CASE i = Len(c) + 1
      BY <1>2, <2>2, <3>1
    <3>2. CASE i \in 1 .. Len(c)
      <4> DEFINE j == k + i
      <4>1. j \in 1 .. Len(g) /\ c1[i] = c[i] /\ c[i] = g[j]
        BY <1>2, <2>2, <3>2
      <4> HIDE DEF j
      <4>2. c1[i] = g1[j]
        BY <2>2, <4>1, Zenon
      <4> QED BY <4>2, Zenon DEF j
    <3> QED BY <2>2, <3>1, <3>2
  <2>7. Len(c1) <= Len(g1)
    BY <1>2, <2>2
  <2> QED BY <2>1, <2>3, <2>5, <2>6, <2>7, Zenon
<1> QED BY <1>3, <1>4, Zenon

(* What the reader takes from its queue goes to the end of the display. *)
LEMMA DisplayRead ==
  ASSUME DisplayInv, NEW u \in Users, ReaderReceive(u)
  PROVE  InFlight' /\ DisplayIsRecent'
<1> SUFFICES ASSUME NEW v \in Users
             PROVE  /\ Len(cq'[v]) <= Len(got'[v])
                    /\ \A i \in 1 .. Len(cq'[v]) :
                          cq'[v][i] = got'[v][Len(got'[v]) - Len(cq'[v]) + i]
                    /\ lines'[v] = LastN(Taken(v)', MAX_DISPLAY_LINES)
  BY Zenon DEF InFlight, DisplayIsRecent
<1> DEFINE c == cq[v]  g == got[v]  k == Len(g) - Len(c)
<1>1. /\ cq \in [Users -> Seq(Lines)] /\ got \in [Users -> Seq(Lines)]
      /\ lines \in [Users -> Seq(Lines)]
      /\ cq' = [cq EXCEPT ![u] = Tail(cq[u])] /\ cq[u] # <<>> /\ got' = got
      /\ lines' = [lines EXCEPT ![u] = Show(lines[u], Head(cq[u]))]
  BY Zenon DEF DisplayInv, TypeInv, TypeOK, ReaderReceive
<1>2. /\ Len(c) <= Len(g) /\ \A i \in 1 .. Len(c) : c[i] = g[k + i]
      /\ lines[v] = LastN(SubSeq(g, 1, k), MAX_DISPLAY_LINES)
  BY Zenon DEF DisplayInv, InFlight, DisplayIsRecent, Taken
<1>3. CASE v # u
  <2>1. cq'[v] = c /\ got'[v] = g /\ lines'[v] = lines[v]
    BY <1>1, <1>3, Zenon
  <2> QED BY <1>2, <2>1, Zenon DEF Taken
<1>4. CASE v = u
  <2> DEFINE t == Tail(c)  l == Head(c)
  <2>1. /\ cq'[v] = t /\ got'[v] = g /\ lines'[v] = Show(lines[v], l)
        /\ c \in Seq(Lines) /\ c # <<>> /\ g \in Seq(Lines)
    BY <1>1, <1>4, Zenon
  <2>2. /\ Len(t) = Len(c) - 1 /\ l \in Lines /\ l = c[1]
        /\ \A i \in 1 .. Len(t) : t[i] = c[i + 1]
        /\ Len(c) \in Nat \ {0} /\ Len(g) \in Nat
    BY <2>1, HeadTailProperties, LenProperties, EmptySeq
  <2> HIDE DEF t, l
  <2>3. k \in 0 .. Len(g) /\ k < Len(g) /\ Len(g) - Len(t) = k + 1 /\ l = g[k + 1]
    <3> HIDE DEF c, g
    <3> QED BY <1>2, <2>2
  <2> DEFINE w == SubSeq(g, 1, k)
  <2>4. w \in Seq(Lines) /\ SubSeq(g, 1, k + 1) = Append(w, l)
    BY <2>1, <2>3, Prefix, Zenon
  <2>5. Show(lines[v], l) = LastN(Append(w, l), MAX_DISPLAY_LINES)
    <3> HIDE DEF w
    <3>1. /\ MAX_DISPLAY_LINES \in Nat \ {0} /\ lines[v] = LastN(w, MAX_DISPLAY_LINES)
          /\ Len(lines[v]) \in Nat
      BY <1>1, <1>2, RoomAssumption, LenProperties, Zenon DEF w
    <3>2. /\ Len(lines[v]) < MAX_DISPLAY_LINES
               => Append(lines[v], l) = LastN(Append(w, l), MAX_DISPLAY_LINES)
          /\ Len(lines[v]) >= MAX_DISPLAY_LINES
               => Append(Tail(lines[v]), l) = LastN(Append(w, l), MAX_DISPLAY_LINES)
      BY <2>2, <2>4, <3>1, SlideIsLastN
    <3> QED BY <3>1, <3>2 DEF Show
  <2>6. lines'[v] = LastN(Taken(v)', MAX_DISPLAY_LINES)
    <3> HIDE DEF k, w, g
    <3>1. Taken(v)' = SubSeq(g, 1, k + 1)
      BY <2>1, <2>3, Zenon DEF Taken
    <3> QED BY <2>1, <2>4, <2>5, <3>1, ZenonT(40)
  <2> HIDE DEF c, g
  <2>7. ASSUME NEW i \in 1 .. Len(t) PROVE t[i] = g[k + 1 + i]
    <3>0. i + 1 \in 1 .. Len(c)
      BY <2>2
    <3>1. t[i] = c[i + 1] /\ c[i + 1] = g[k + (i + 1)]
      BY <1>2, <2>2, <3>0, Zenon
    <3>2. k + (i + 1) = k + 1 + i
      BY <2>3
    <3> QED BY <3>1, <3>2, Zenon
  <2>8. Len(t) <= Len(g)
    BY <1>2, <2>2
  <2> QED BY <2>1, <2>3, <2>6, <2>7, <2>8, Zenon
<1> QED BY <1>3, <1>4, Zenon

(* The steps that leave the queues of the clients and the displays alone.  *)
QueuesKept == UNCHANGED <<cq, got, lines>>

(* Only mq_send to a client and mq_receive from its queue touch them.      *)
LEMMA OtherSteps ==
  ASSUME [Next]_vars, ~BroadcastStep, ~ReplayStep, \A u \in Users : ~ReaderReceive(u)
  PROVE  QueuesKept
<1> QED BY Zenon DEF QueuesKept, Next, vars, clientVars, ServerStep, ServerCheck, ServerReceive,
     BroadcastDone, ReplayDone, Cleanup, Interrupt, MainStep, ReaderStep, UserStep,
     SendJoin, SendLeave, CloseQueue, JoinReader, ReaderCheck, ReaderCall, OpenQueues,
     SendText, Quit

(* Every step keeps the displays the recent part of what was sent. *)
LEMMA DisplayStep == DisplayInv /\ [Next]_vars => DisplayInv'
<1> SUFFICES ASSUME DisplayInv, [Next]_vars PROVE DisplayInv'
  BY Zenon
<1>1. TypeInv'
  BY TypeInvStep, Zenon DEF DisplayInv
<1>2. CASE BroadcastStep
  <2>1. CASE Deliver(Head(todo), line)
    <3>1. Head(todo) \in Users /\ line \in Lines /\ UNCHANGED lines
      BY <1>2, HeadTailProperties
     , Zenon DEF BroadcastStep, DisplayInv, TypeInv, TypeOK, Control, clientVars
    <3> QED BY <1>1, <2>1, <3>1, DisplayDeliver, Zenon DEF DisplayInv
  <2>2. CASE UNCHANGED <<cq, got>>
    <3>1. UNCHANGED lines
      BY <1>2, Zenon DEF BroadcastStep, clientVars
    <3> QED BY <1>1, <2>2, <3>1, Zenon DEF DisplayInv, InFlight, DisplayIsRecent, Taken
  <2> QED BY <1>2, <2>1, <2>2, Zenon DEF BroadcastStep
<1>3. CASE ReplayStep
  <2>1. /\ joiner \in Users /\ pos \in 0 .. history_count - 1 /\ UNCHANGED lines
        /\ Deliver(joiner, ReplayFrom(pos))
    BY <1>3, HistoryAssumption DEF ReplayStep, MoreToReplay, DisplayInv, TypeInv, TypeOK,
       Control, RingTypeOK, clientVars
  <2>2. ReplayFrom(pos) \in Lines
    BY <2>1, ReplayType, Zenon DEF DisplayInv
  <2> QED BY <1>1, <2>1, <2>2, DisplayDeliver, Zenon DEF DisplayInv
<1>4. ASSUME NEW u \in Users, ReaderReceive(u) PROVE DisplayInv'
  BY <1>1, <1>4, DisplayRead, Zenon DEF DisplayInv
<1>5. CASE QueuesKept
  BY <1>1, <1>5, Zenon DEF QueuesKept, DisplayInv, InFlight, DisplayIsRecent, Taken
<1> QED BY <1>2, <1>3, <1>4, <1>5, OtherSteps, Zenon

(* The display of every client is the most recent part of what was put in  *)
(* its queue and taken out again.                                          *)
THEOREM DisplaysAreRecent == Spec => []DisplayIsRecent
<1>1. Init => DisplayInv
  <2> SUFFICES ASSUME Init PROVE DisplayInv
    BY Zenon
  <2>1. \A u \in Users : cq[u] = <<>> /\ got[u] = <<>> /\ lines[u] = <<>>
    BY Zenon DEF Init
  <2>2. InFlight
    <3> SUFFICES ASSUME NEW u \in Users
                 PROVE  /\ Len(cq[u]) <= Len(got[u])
                        /\ \A i \in 1 .. Len(cq[u]) :
                             cq[u][i] = got[u][Len(got[u]) - Len(cq[u]) + i]
      BY Zenon DEF InFlight
    <3>1. Len(cq[u]) = 0 /\ Len(got[u]) = 0
      BY <2>1
    <3> QED BY <3>1
  <2>3. ASSUME NEW u \in Users PROVE Taken(u) = <<>>
    <3>1. SubSeq(<<>>, 1, 0) = <<>>
      BY SubSeqEmpty
    <3>2. Len(got[u]) - Len(cq[u]) = 0 /\ got[u] = <<>>
      BY <2>1
    <3> QED BY <3>1, <3>2 DEF Taken
  <2>4. LastN(<<>>, MAX_DISPLAY_LINES) = <<>>
    BY RoomAssumption DEF LastN
  <2> QED BY <2>1, <2>2, <2>3, <2>4, TypeInvInit, Zenon DEF DisplayInv, DisplayIsRecent
<1>2. DisplayInv => DisplayIsRecent
  BY Zenon DEF DisplayInv
<1> QED BY <1>1, <1>2, DisplayStep, PTL DEF Spec

-----------------------------------------------------------------------------
(* The clients that leave.                                                 *)

LivesInv == TypeInv /\ Lives

(* The requests in the server's queue when one more is sent. *)
LEMMA Sent ==
  ASSUME TypeInv, NEW kind, NEW u \in Users, NEW t, Request(kind, u, t),
         [kind |-> kind, from |-> u, text |-> t] \in Requests
  PROVE  /\ DOMAIN sq = 1 .. Len(sq) /\ DOMAIN sq' = 1 .. Len(sq) + 1
         /\ Len(sq) \in Nat /\ Len(sq') = Len(sq) + 1
         /\ \A i \in 1 .. Len(sq) : sq'[i] = sq[i]
         /\ sq'[Len(sq) + 1].from = u /\ sq'[Len(sq) + 1].kind = kind
<1> DEFINE r == [kind |-> kind, from |-> u, text |-> t]
<1>1. sq \in Seq(Requests) /\ r \in Requests /\ sq' = Append(sq, r)
  BY Zenon DEF TypeInv, TypeOK, Request
<1>2. r.from = u /\ r.kind = kind
  BY Zenon
<1> HIDE DEF r
<1>3. /\ Append(sq, r) \in Seq(Requests) /\ Len(Append(sq, r)) = Len(sq) + 1
      /\ \A i \in 1 .. Len(sq) : Append(sq, r)[i] = sq[i]
      /\ Append(sq, r)[Len(sq) + 1] = r
  BY <1>1, AppendProperties
<1>4. DOMAIN sq = 1 .. Len(sq) /\ DOMAIN sq' = 1 .. Len(sq') /\ Len(sq) \in Nat
  BY <1>1, <1>3, LenProperties, Zenon
<1> QED BY <1>1, <1>2, <1>3, <1>4, Zenon

(* The requests in the server's queue when the first is taken out. *)
LEMMA Received ==
  ASSUME TypeInv, sq # <<>>, sq' = Tail(sq)
  PROVE  /\ DOMAIN sq = 1 .. Len(sq) /\ DOMAIN sq' = 1 .. Len(sq) - 1
         /\ Len(sq) \in Nat \ {0} /\ Len(sq') = Len(sq) - 1
         /\ \A i \in 1 .. Len(sq) - 1 : sq'[i] = sq[i + 1]
         /\ Head(sq) = sq[1] /\ Head(sq) \in Requests
<1>1. sq \in Seq(Requests)
  BY Zenon DEF TypeInv, TypeOK
<1>2. /\ Tail(sq) \in Seq(Requests) /\ Len(Tail(sq)) = Len(sq) - 1
      /\ \A i \in 1 .. Len(Tail(sq)) : Tail(sq)[i] = sq[i + 1]
      /\ Head(sq) \in Requests
  BY <1>1, HeadTailProperties, Zenon
<1>3. /\ DOMAIN sq = 1 .. Len(sq) /\ DOMAIN Tail(sq) = 1 .. Len(Tail(sq))
      /\ Len(sq) \in Nat \ {0}
  BY <1>1, <1>2, LenProperties, EmptySeq, Zenon
<1> QED BY <1>2, <1>3

(* A client's thread sends a request: JOIN first, then texts, LEAVE last.  *)
LEMMA LivesSend ==
  ASSUME LivesInv, NEW u \in Users, SendJoin(u) \/ SendText(u) \/ SendLeave(u)
  PROVE  Lives'
<1>1. UNCHANGED <<clients, got>> /\ main \in [Users -> {"off", "join", "ui", "leave", "close", "pthread_join", "exited"}]
  BY Zenon DEF SendJoin, SendText, SendLeave, serverVars, LivesInv, TypeInv, TypeOK
<1>2. PICK kind \in {"JOIN", "MSG", "LEAVE"} :
        /\ \E t : Request(kind, u, t) /\ [kind |-> kind, from |-> u, text |-> t] \in Requests
        /\ kind = "JOIN" => main[u] = "join" /\ main' = [main EXCEPT ![u] = "ui"]
        /\ kind = "MSG" => main[u] = "ui" /\ UNCHANGED main
        /\ kind = "LEAVE" => main[u] = "leave" /\ main' = [main EXCEPT ![u] = "close"]
  <2>1. CASE SendJoin(u)
    BY <2>1, Zenon DEF SendJoin, Requests
  <2>2. CASE SendText(u)
    <3>1. texts + 1 \in 1 .. MaxTexts
      BY <2>2, RoomAssumption DEF SendText, LivesInv, TypeInv, TypeOK
    <3> QED BY <2>2, <3>1, Zenon DEF SendText, Requests
  <2>3. CASE SendLeave(u)
    BY <2>3, Zenon DEF SendLeave, Requests
  <2> QED BY <2>1, <2>2, <2>3, Zenon
<1>3. /\ DOMAIN sq = 1 .. Len(sq) /\ DOMAIN sq' = 1 .. Len(sq) + 1
      /\ Len(sq) \in Nat /\ Len(sq') = Len(sq) + 1
      /\ \A i \in 1 .. Len(sq) : sq'[i] = sq[i]
      /\ sq'[Len(sq) + 1].from = u /\ sq'[Len(sq) + 1].kind = kind
  BY <1>2, Sent, Zenon DEF LivesInv
<1> SUFFICES ASSUME NEW v \in Users
             PROVE  /\ main'[v] \in {"off", "join"}
                         => ~Asks(v)' /\ v \notin Range(clients) /\ got[v] = <<>>
                    /\ \A i \in DOMAIN sq' : sq'[i].from = v /\ sq'[i].kind = "JOIN" =>
                         /\ v \notin Range(clients) /\ got[v] = <<>>
                         /\ \A j \in 1 .. i - 1 : sq'[j].from # v
                    /\ \A i \in DOMAIN sq' : sq'[i].from = v /\ sq'[i].kind = "LEAVE" =>
                         /\ main'[v] \in After
                         /\ \A j \in i + 1 .. Len(sq') : sq'[j].from # v
                    /\ main'[v] \in After =>
                         \/ \E i \in DOMAIN sq' : sq'[i].from = v /\ sq'[i].kind = "LEAVE"
                         \/ ~Asks(v)' /\ v \notin Range(clients)
  BY <1>1, Zenon DEF Lives
<1>4. /\ main[v] \in {"off", "join"} => ~Asks(v) /\ v \notin Range(clients) /\ got[v] = <<>>
      /\ \A i \in DOMAIN sq : sq[i].from = v /\ sq[i].kind = "JOIN" =>
           /\ v \notin Range(clients) /\ got[v] = <<>>
           /\ \A j \in 1 .. i - 1 : sq[j].from # v
      /\ \A i \in DOMAIN sq : sq[i].from = v /\ sq[i].kind = "LEAVE" =>
           /\ main[v] \in After
           /\ \A j \in i + 1 .. Len(sq) : sq[j].from # v
      /\ main[v] \in After =>
           \/ \E i \in DOMAIN sq : sq[i].from = v /\ sq[i].kind = "LEAVE"
           \/ ~Asks(v) /\ v \notin Range(clients)
  BY Zenon DEF LivesInv, Lives
<1>5. CASE v # u
  <2>1. main'[v] = main[v] /\ (Asks(v)' => Asks(v))
    BY <1>1, <1>2, <1>3, <1>5 DEF Asks
  <2> QED BY <1>3, <1>4, <1>5, <2>1
<1>6. CASE v = u
  <2>1. CASE kind = "JOIN"
    <3>1. main'[v] = "ui" /\ ~Asks(v) /\ v \notin Range(clients) /\ got[v] = <<>>
      BY <1>1, <1>2, <1>4, <1>6, <2>1, Zenon
    <3>2. \A i \in 1 .. Len(sq) : sq'[i].from # v
      BY <1>3, <3>1, Zenon DEF Asks
    <3> QED BY <1>3, <2>1, <3>1, <3>2 DEF After
  <2>2. CASE kind = "MSG"
    <3>1. main'[v] = "ui" /\ main[v] = "ui"
      BY <1>2, <1>6, <2>2, Zenon
    <3>2. \A i \in 1 .. Len(sq) : ~(sq[i].from = v /\ sq[i].kind = "LEAVE")
      BY <1>3, <1>4, <3>1, Zenon DEF After
    <3> QED BY <1>3, <1>4, <2>2, <3>1, <3>2 DEF After
  <2>3. CASE kind = "LEAVE"
    <3>1. main'[v] = "close" /\ main[v] = "leave"
      BY <1>1, <1>2, <1>6, <2>3, Zenon
    <3>2. \A i \in 1 .. Len(sq) : ~(sq[i].from = v /\ sq[i].kind = "LEAVE")
      BY <1>3, <1>4, <3>1, Zenon DEF After
    <3> QED BY <1>3, <1>4, <1>6, <2>3, <3>1, <3>2 DEF After
  <2> QED BY <1>2, <2>1, <2>2, <2>3, Zenon
<1> QED BY <1>5, <1>6, Zenon

(* The server takes a request out of its queue. *)
LEMMA LivesReceive ==
  ASSUME LivesInv, ServerReceive
  PROVE  Lives'
<1> DEFINE r == Head(sq)  n == Len(sq)
<1>1. /\ DOMAIN sq = 1 .. n /\ DOMAIN sq' = 1 .. n - 1 /\ n \in Nat \ {0} /\ Len(sq') = n - 1
      /\ \A i \in 1 .. n - 1 : sq'[i] = sq[i + 1]
      /\ r = sq[1] /\ r \in Requests /\ Len(sq) = n
  BY Received, Zenon DEF LivesInv, ServerReceive
<1>2. UNCHANGED <<got, main>>
  BY Zenon DEF ServerReceive, clientVars
<1>3. clients \in Seq(Users) /\ IsInjective(clients) /\ r.from \in Users
  BY <1>1, RequestsType, Zenon DEF LivesInv, TypeInv, TypeOK, Control
<1>4. /\ r.kind = "JOIN" => Range(clients') \subseteq Range(clients) \cup {r.from}
      /\ r.kind = "MSG" => clients' = clients
      /\ r.kind = "LEAVE" => Range(clients') = Range(clients) \ {r.from}
      /\ r.kind \in {"JOIN", "MSG", "LEAVE"}
  <2>1. \/ r.kind = "JOIN" /\ HandleJoin(r.from)
        \/ r.kind = "MSG" /\ HandleMsg(r.from, r.text)
        \/ r.kind = "LEAVE" /\ HandleLeave(r.from)
    BY Zenon DEF ServerReceive
  <2> HIDE DEF r
  <2>2. CASE r.kind = "JOIN" /\ HandleJoin(r.from)
    <3>1. \/ clients' = clients
          \/ r.from \notin Range(clients) /\ clients' = <<r.from>> \o clients
      <4>1. CASE linked[r.from]
        BY <2>2, <4>1, Zenon DEF HandleJoin
      <4>2. CASE ~linked[r.from]
        BY <2>2, <4>2, Zenon DEF HandleJoin
      <4> QED BY <4>1, <4>2, Zenon
    <3>2. Range(clients') \subseteq Range(clients) \cup {r.from}
      BY <1>3, <3>1, ConsInjective, ZenonT(40)
    <3> QED BY <2>2, <3>2, Zenon
  <2>3. CASE r.kind = "MSG" /\ HandleMsg(r.from, r.text)
    BY <2>3, Zenon DEF HandleMsg
  <2>4. CASE r.kind = "LEAVE" /\ HandleLeave(r.from)
    <3>1. Range(clients') = Range(clients) \ {r.from}
      BY <1>3, <2>4, WithoutInjective DEF HandleLeave
    <3> QED BY <2>4, <3>1, Zenon
  <2> QED BY <2>1, <2>2, <2>3, <2>4, Zenon
<1> HIDE DEF r, n
<1> SUFFICES ASSUME NEW v \in Users
             PROVE  /\ main[v] \in {"off", "join"}
                         => ~Asks(v)' /\ v \notin Range(clients') /\ got[v] = <<>>
                    /\ \A i \in DOMAIN sq' : sq'[i].from = v /\ sq'[i].kind = "JOIN" =>
                         /\ v \notin Range(clients') /\ got[v] = <<>>
                         /\ \A j \in 1 .. i - 1 : sq'[j].from # v
                    /\ \A i \in DOMAIN sq' : sq'[i].from = v /\ sq'[i].kind = "LEAVE" =>
                         /\ main[v] \in After
                         /\ \A j \in i + 1 .. Len(sq') : sq'[j].from # v
                    /\ main[v] \in After =>
                         \/ \E i \in DOMAIN sq' : sq'[i].from = v /\ sq'[i].kind = "LEAVE"
                         \/ ~Asks(v)' /\ v \notin Range(clients')
  BY <1>2, Zenon DEF Lives
<1>5. /\ main[v] \in {"off", "join"} => ~Asks(v) /\ v \notin Range(clients) /\ got[v] = <<>>
      /\ \A i \in DOMAIN sq : sq[i].from = v /\ sq[i].kind = "JOIN" =>
           /\ v \notin Range(clients) /\ got[v] = <<>>
           /\ \A j \in 1 .. i - 1 : sq[j].from # v
      /\ \A i \in DOMAIN sq : sq[i].from = v /\ sq[i].kind = "LEAVE" =>
           /\ main[v] \in After
           /\ \A j \in i + 1 .. Len(sq) : sq[j].from # v
      /\ main[v] \in After =>
           \/ \E i \in DOMAIN sq : sq[i].from = v /\ sq[i].kind = "LEAVE"
           \/ ~Asks(v) /\ v \notin Range(clients)
  BY Zenon DEF LivesInv, Lives
<1>6. \A i \in 1 .. n - 1 : i + 1 \in 1 .. n /\ sq'[i].from = sq[i + 1].from
                           /\ sq'[i].kind = sq[i + 1].kind
  BY <1>1
<1>7. Asks(v)' => Asks(v)
  BY <1>1, <1>6 DEF Asks
<1>8. ASSUME v # r.from, v \in Range(clients') PROVE v \in Range(clients)
  BY <1>4, <1>8, Zenon
<1>9. main[v] \in {"off", "join"}
         => ~Asks(v)' /\ v \notin Range(clients') /\ got[v] = <<>>
  <2>1. ASSUME main[v] \in {"off", "join"} PROVE v # r.from
    BY <1>1, <1>5, <2>1 DEF Asks
  <2> QED BY <1>5, <1>7, <1>8, <2>1, Zenon
<1>10. ASSUME NEW i \in DOMAIN sq', sq'[i].from = v, sq'[i].kind = "JOIN"
       PROVE  /\ v \notin Range(clients') /\ got[v] = <<>>
              /\ \A j \in 1 .. i - 1 : sq'[j].from # v
  <2>1. i + 1 \in 1 .. n /\ sq[i + 1].from = v /\ sq[i + 1].kind = "JOIN" /\ i \in 1 .. n - 1
    BY <1>1, <1>6, <1>10, Zenon
  <2> DEFINE k == i + 1
  <2>2. k \in DOMAIN sq /\ sq[k].from = v /\ sq[k].kind = "JOIN" /\ 1 \in 1 .. k - 1
    BY <1>1, <2>1
  <2> HIDE DEF k
  <2>3. v \notin Range(clients) /\ got[v] = <<>> /\ \A j \in 1 .. k - 1 : sq[j].from # v
    BY <1>5, <2>2, Zenon
  <2>4. v # r.from
    BY <1>1, <2>2, <2>3, Zenon
  <2>5. ASSUME NEW j \in 1 .. i - 1 PROVE sq'[j].from # v
    <3>1. j + 1 \in 1 .. k - 1 /\ sq'[j].from = sq[j + 1].from
      BY <1>1, <1>6, <2>1 DEF k
    <3> QED BY <2>3, <3>1, Zenon
  <2> QED BY <1>8, <2>3, <2>4, <2>5, Zenon
<1>11. ASSUME NEW i \in DOMAIN sq', sq'[i].from = v, sq'[i].kind = "LEAVE"
       PROVE  /\ main[v] \in After
              /\ \A j \in i + 1 .. Len(sq') : sq'[j].from # v
  <2> DEFINE k == i + 1
  <2>1. k \in DOMAIN sq /\ sq[k].from = v /\ sq[k].kind = "LEAVE" /\ i \in 1 .. n - 1
    BY <1>1, <1>6, <1>11, Zenon
  <2> HIDE DEF k
  <2>2. main[v] \in After /\ \A j \in k + 1 .. n : sq[j].from # v
    BY <1>1, <1>5, <2>1, Zenon
  <2>3. ASSUME NEW j \in i + 1 .. Len(sq') PROVE sq'[j].from # v
    <3>1. j + 1 \in k + 1 .. n /\ sq'[j].from = sq[j + 1].from
      BY <1>1, <1>6, <2>1 DEF k
    <3> QED BY <2>2, <3>1, Zenon
  <2> QED BY <2>2, <2>3, Zenon
<1>12. ASSUME main[v] \in After
       PROVE  \/ \E i \in DOMAIN sq' : sq'[i].from = v /\ sq'[i].kind = "LEAVE"
              \/ ~Asks(v)' /\ v \notin Range(clients')
  <2>1. CASE ~Asks(v) /\ v \notin Range(clients)
    <3>1. v # r.from
      BY <1>1, <2>1 DEF Asks
    <3> QED BY <1>7, <1>8, <2>1, <3>1, Zenon
  <2>2. ASSUME NEW i \in DOMAIN sq, sq[i].from = v, sq[i].kind = "LEAVE"
        PROVE  \/ \E k \in DOMAIN sq' : sq'[k].from = v /\ sq'[k].kind = "LEAVE"
               \/ ~Asks(v)' /\ v \notin Range(clients')
    <3>1. CASE i = 1
      <4>1. v = r.from /\ r.kind = "LEAVE" /\ \A j \in 2 .. n : sq[j].from # v
        BY <1>1, <1>5, <2>2, <3>1
      <4>2. \A j \in 1 .. n - 1 : sq'[j].from # v
        BY <1>1, <1>6, <4>1
      <4> QED BY <1>1, <1>4, <4>1, <4>2, Zenon DEF Asks
    <3>2. CASE i # 1
      <4> DEFINE k == i - 1
      <4>1. k \in 1 .. n - 1 /\ k + 1 = i
        BY <1>1, <2>2, <3>2
      <4> HIDE DEF k
      <4>2. sq'[k].from = v /\ sq'[k].kind = "LEAVE" /\ k \in DOMAIN sq'
        BY <1>1, <1>6, <2>2, <4>1, Zenon
      <4> QED BY <4>2, Zenon
    <3> QED BY <3>1, <3>2, Zenon
  <2> QED BY <1>5, <1>12, <2>1, <2>2, Zenon
<1> QED BY <1>9, <1>10, <1>11, <1>12, Zenon

(* The server sends to a client in its list: a broadcast or a replay. *)
LEMMA LivesDeliver ==
  ASSUME LivesInv, NEW u \in Users, u \in Range(clients), NEW l,
         got' = [got EXCEPT ![u] = Append(got[u], l)], UNCHANGED <<sq, clients, main>>
  PROVE  Lives'
<1>1. \A v \in Users : v \notin Range(clients) => got'[v] = got[v]
  BY Zenon DEF LivesInv, TypeInv, TypeOK
<1> QED BY <1>1 DEF LivesInv, Lives, Asks

(* Every step keeps what the queue tells of the lives of the clients. *)
LEMMA LivesStep == LivesInv /\ [Next]_vars => LivesInv'
<1> SUFFICES ASSUME LivesInv, [Next]_vars PROVE Lives'
  BY TypeInvStep, Zenon DEF LivesInv
<1>1. CASE ServerReceive
  BY <1>1, LivesReceive, Zenon
<1>2. CASE \E u \in Users : SendJoin(u) \/ SendText(u) \/ SendLeave(u)
  BY <1>2, LivesSend, Zenon
<1>3. CASE BroadcastStep
  <2>1. UNCHANGED <<sq, clients, main>>
    BY <1>3, Zenon DEF BroadcastStep, clientVars
  <2>2. CASE Deliver(Head(todo), line)
    <3>1. Head(todo) \in Users /\ Head(todo) \in Range(clients)
      <4>1. todo \in Seq(Users) /\ todo # <<>> /\ IsInjective(todo) /\ Range(todo) \subseteq Range(clients)
        BY <1>3, Zenon DEF BroadcastStep, LivesInv, TypeInv, TypeOK, Control
      <4> QED BY <4>1, HeadTailProperties, TailInjective, Zenon
    <3> QED BY <2>1, <2>2, <3>1, LivesDeliver, Zenon DEF Deliver
  <2>3. CASE UNCHANGED got
    BY <2>1, <2>3 DEF LivesInv, Lives, Asks
  <2> QED BY <1>3, <2>2, <2>3, Zenon DEF BroadcastStep
<1>4. CASE ReplayStep
  <2>1. /\ UNCHANGED <<sq, clients, main>> /\ Deliver(joiner, ReplayFrom(pos))
        /\ joiner \in Users /\ joiner \in Range(clients)
    BY <1>4, Zenon DEF ReplayStep, clientVars, LivesInv, TypeInv, TypeOK, Control
  <2> QED BY <2>1, LivesDeliver, Zenon DEF Deliver
<1>5. CASE Cleanup
  <2>1. UNCHANGED <<sq, main, got>> /\ Range(clients') = {}
    BY <1>5 DEF Cleanup, clientVars, Range
  <2> QED BY <2>1 DEF LivesInv, Lives, Asks
<1>6. CASE UNCHANGED <<sq, clients, main, got>>
  BY <1>6 DEF LivesInv, Lives, Asks
<1>7. ASSUME NEW u \in Users, OpenQueues(u) \/ Quit(u) \/ CloseQueue(u) \/ JoinReader(u)
      PROVE  Lives'
  <2>1. /\ UNCHANGED <<sq, clients, got>>
        /\ \A v \in Users : /\ main'[v] \in {"off", "join"} => main[v] \in {"off", "join"}
                            /\ main'[v] \in After <=> main[v] \in After
    BY <1>7 DEF OpenQueues, Quit, CloseQueue, JoinReader, serverVars, After, LivesInv,
       TypeInv, TypeOK
  <2> QED BY <2>1 DEF LivesInv, Lives, Asks
<1>8. CASE ServerCheck \/ BroadcastDone \/ ReplayDone \/ Interrupt
  <2>1. UNCHANGED <<sq, clients, main, got>>
    BY <1>8, Zenon DEF ServerCheck, BroadcastDone, ReplayDone, Interrupt, clientVars
  <2> QED BY <1>6, <2>1, Zenon
<1>9. ASSUME NEW u \in Users, ReaderStep(u) PROVE Lives'
  <2>1. UNCHANGED <<sq, clients, main, got>>
    BY <1>9, Zenon DEF ReaderStep, ReaderCheck, ReaderCall, ReaderReceive, serverVars
  <2> QED BY <1>6, <2>1, Zenon
<1>10. CASE UNCHANGED vars
  BY <1>6, <1>10, Zenon DEF vars, serverVars, clientVars
<1> QED BY <1>1, <1>2, <1>3, <1>4, <1>5, <1>7, <1>8, <1>9, <1>10
       , Zenon DEF Next, ServerStep, MainStep, UserStep

(* A client whose LEAVE has been handled is not in the server's list. *)
THEOREM LeaversAreForgotten == Spec => []LeftIsForgotten
<1>1. Init => LivesInv
  <2> SUFFICES ASSUME Init PROVE Lives
    BY TypeInvInit, Zenon DEF LivesInv
  <2>1. /\ DOMAIN sq = {} /\ Range(clients) = {}
        /\ \A u \in Users : main[u] = "off" /\ got[u] = <<>>
    BY DEF Init, Range
  <2> QED BY <2>1, Zenon DEF Lives, Asks, After
<1>2. LivesInv => LeftIsForgotten
  BY Zenon DEF LivesInv, Lives, LeftIsForgotten, Asks, After
<1> QED BY <1>1, <1>2, LivesStep, PTL DEF Spec

-----------------------------------------------------------------------------
(* The order of delivery.                                                  *)

(* A client that has seen the log up to n and is sent the next line has    *)
(* seen it up to n + 1.                                                    *)
LEMMA UptoNext ==
  ASSUME NEW g \in Seq(Lines), NEW n \in Nat, n < Len(g), NEW s \in Seq(Lines), NEW u,
         Upto(s, u, g, n)
  PROVE  Upto(Append(s, g[n + 1]), u, g, n + 1)
<1> DEFINE e == g[n + 1]
<1>1. e \in Lines /\ Len(g) \in Nat
  BY LenProperties
<1>2. PICK a \in 1 .. n + 1 :
        \/ s = SubSeq(g, a, n)
        \/ s # <<>> /\ Head(s) = Line("joined", u, 0) /\ Tail(s) = SubSeq(g, a, n)
  BY Zenon DEF Upto
<1> DEFINE p == SubSeq(g, a, n)  q == SubSeq(g, a, n + 1)
<1>3. Append(p, e) = q
  <2>1. a \in 1 .. Len(g) /\ n + 1 \in a .. Len(g) /\ (n + 1) - 1 = n
    BY <1>1
  <2>2. q = SubSeq(g, a, (n + 1) - 1) \o <<g[n + 1]>>
    BY <2>1, SubSeqRecursiveSecond, Zenon
  <2>3. p \in Seq(Lines)
    <3>1. \A i \in a .. n : g[i] \in Lines
      BY <1>1, LenProperties
    <3> QED BY <3>1, SubSeqProperties
  <2>4. Append(p, e) = p \o <<e>>
    BY <1>1, <2>3, AppendIsConcat, Zenon
  <2> QED BY <2>1, <2>2, <2>4, Zenon
<1> HIDE DEF e, p, q
<1>4. a \in 1 .. (n + 1) + 1
  OBVIOUS
<1>5. CASE s = p
  BY <1>3, <1>4, <1>5, Zenon DEF Upto, q, e
<1>6. CASE s # <<>> /\ Head(s) = Line("joined", u, 0) /\ Tail(s) = p
  <2>1. Head(Append(s, e)) = Head(s) /\ Tail(Append(s, e)) = Append(p, e) /\ Append(s, e) # <<>>
    BY <1>1, <1>6, HeadTailAppend, AppendProperties
  <2> QED BY <1>3, <1>4, <1>6, <2>1, Zenon DEF Upto, q, e
<1> QED BY <1>2, <1>5, <1>6, Zenon DEF p

(* What a client has seen of the log does not depend on what is pushed     *)
(* later.                                                                  *)
LEMMA UptoPush ==
  ASSUME NEW g \in Seq(Lines), NEW n \in 0 .. Len(g), NEW l \in Lines, NEW s, NEW u,
         Upto(s, u, g, n)
  PROVE  Upto(s, u, Append(g, l), n)
<1>1. Len(g) \in Nat /\ Append(g, l) = g \o <<l>> /\ <<l>> \in Seq(Lines)
  BY LenProperties, AppendIsConcat
<1>2. \A a \in 1 .. n + 1 : SubSeq(Append(g, l), a, n) = SubSeq(g, a, n)
  <2> SUFFICES ASSUME NEW a \in 1 .. n + 1 PROVE SubSeq(Append(g, l), a, n) = SubSeq(g, a, n)
    BY Zenon
  <2>1. CASE a = n + 1
    BY <1>1, <2>1, SubSeqEmpty
  <2>2. CASE a # n + 1
    <3>1. a \in 1 .. Len(g) /\ n \in 1 .. Len(g)
      BY <1>1, <2>2
    <3> QED BY <1>1, <3>1, SubSeqOfConcat1
  <2> QED BY <2>1, <2>2, Zenon
<1> QED BY <1>2, Zenon DEF Upto

(* A client that was sent nothing, or only the broadcast of its own JOIN,  *)
(* has seen as much of the log as one likes.                               *)
LEMMA UptoFresh ==
  ASSUME NEW g, NEW n \in Nat, NEW u, NEW s, s = <<>> \/ s = <<Line("joined", u, 0)>>
  PROVE  Upto(s, u, g, n)
<1>1. SubSeq(g, n + 1, n) = <<>> /\ n + 1 \in 1 .. n + 1
  BY SubSeqEmpty
<1>2. CASE s = <<>>
  BY <1>1, <1>2, Zenon DEF Upto
<1>3. CASE s = <<Line("joined", u, 0)>>
  <2>1. s # <<>> /\ Head(s) = Line("joined", u, 0) /\ Tail(s) = <<>>
    BY <1>3
  <2> QED BY <1>1, <2>1, Zenon DEF Upto
<1> QED BY <1>2, <1>3, Zenon

DeliveryInv == LivesInv /\ Delivery

(* The common end of the handlers: the clients of the list have seen the   *)
(* log up to the line that is now pushed.                                  *)
LEMMA SeenPush ==
  ASSUME DeliveryInv, Seen, server = "receive",
         NEW l \in Lines, PushAndBroadcast(l, clients'), UNCHANGED got,
         \A u \in Users : u \in Range(clients') => u \in Range(clients) \/ got[u] = <<>>,
         \A u \in Users : joiner' = u => got[u] = <<>>
  PROVE  Seen'
<1> SUFFICES ASSUME NEW u \in Users PROVE SeenBy(u)'
  BY Zenon DEF Seen
<1>1. /\ log \in Seq(Lines) /\ log' = Append(log, l) /\ Len(log) \in Nat
      /\ Len(log') = Len(log) + 1
      /\ server' = "broadcast" /\ todo' = clients'
  BY AppendProperties, LenProperties
  DEF DeliveryInv, LivesInv, TypeInv, TypeOK, PushAndBroadcast
<1>2. \E n \in 0 .. Len(log') : SeenUpto(u, n)'
  <2>1. PICK n \in 0 .. Len(log) : Upto(got[u], u, log, n)
    BY Zenon DEF Seen, SeenBy, SeenUpto
  <2>2. Upto(got[u], u, log', n)
    BY <1>1, <2>1, UptoPush, Zenon
  <2> QED BY <1>1, <2>1, <2>2 DEF SeenUpto
<1>3. ASSUME u \in Range(clients') PROVE SeenUpto(u, Len(log) - 1)'
  <2>1. Len(log') - 1 = Len(log) /\ Len(log) \in 0 .. Len(log)
    BY <1>1
  <2>2. CASE u \in Range(clients)
    <3>1. Upto(got[u], u, log, Len(log))
      BY <2>2, Zenon DEF Seen, SeenBy, SeenUpto, Settled
    <3>2. Upto(got[u], u, log', Len(log))
      BY <1>1, <2>1, <3>1, UptoPush, Zenon
    <3> QED BY <2>1, <3>2, Zenon DEF SeenUpto
  <2>3. CASE got[u] = <<>>
    <3>1. Upto(got[u], u, log', Len(log))
      BY <1>1, <2>3, UptoFresh, Zenon
    <3> QED BY <2>1, <3>1, Zenon DEF SeenUpto
  <2> QED BY <1>3, <2>2, <2>3, Zenon
<1> QED BY <1>1, <1>2, <1>3, Zenon DEF SeenBy, Settled

(* The server handles a request. *)
LEMMA SeenReceive ==
  ASSUME DeliveryInv, Seen, ServerReceive
  PROVE  Seen'
<1> DEFINE r == Head(sq)
<1>1. /\ sq # <<>> /\ server = "receive" /\ UNCHANGED <<got, stop_requested>>
      /\ \/ r.kind = "JOIN" /\ HandleJoin(r.from)
         \/ r.kind = "MSG" /\ HandleMsg(r.from, r.text)
         \/ r.kind = "LEAVE" /\ HandleLeave(r.from)
  BY Zenon DEF ServerReceive
<1>2. /\ clients \in Seq(Users) /\ IsInjective(clients) /\ joiner = Nobody /\ TypeInv
  BY <1>1, Zenon DEF DeliveryInv, LivesInv, TypeInv, TypeOK, Control
<1>3. /\ r \in Requests /\ r.from \in Users
      /\ r.kind = "MSG" => r.text \in 1 .. MaxTexts
      /\ r = sq[1] /\ 1 \in DOMAIN sq
  BY <1>1, <1>2, Received, RequestsType DEF ServerReceive
<1> HIDE DEF r
<1>4. CASE r.kind = "JOIN" /\ HandleJoin(r.from)
  <2>1. r.from \notin Range(clients) /\ got[r.from] = <<>>
    BY <1>3, <1>4, Zenon DEF DeliveryInv, LivesInv, Lives
  <2>2. CASE linked[r.from]
    <3>1. /\ clients' = <<r.from>> \o clients /\ joiner' = r.from
          /\ PushAndBroadcast(Line("joined", r.from, 0), clients')
      BY <1>4, <2>1, <2>2, Zenon DEF HandleJoin
    <3>2. Range(clients') = Range(clients) \cup {r.from}
      BY <1>2, <1>3, <2>1, <3>1, ConsInjective
    <3> QED BY <1>1, <1>3, <2>1, <3>1, <3>2, LinesType, SeenPush, Zenon
  <2>3. CASE ~linked[r.from]
    <3>1. server' = "check" /\ UNCHANGED <<clients, log>>
      BY <1>4, <2>3, Zenon DEF HandleJoin
    <3> QED BY <1>1, <3>1, Zenon DEF Seen, SeenBy, SeenUpto, Settled
  <2> QED BY <2>2, <2>3, Zenon
<1>5. CASE r.kind = "MSG" /\ HandleMsg(r.from, r.text)
  <2>1. /\ PushAndBroadcast(Line("text", r.from, r.text), clients')
        /\ UNCHANGED <<clients, joiner>> /\ Line("text", r.from, r.text) \in Lines
    BY <1>3, <1>5, LinesType, Zenon DEF HandleMsg
  <2> QED BY <1>1, <1>2, <2>1, NobodyAssumption, SeenPush, Zenon
<1>6. CASE r.kind = "LEAVE" /\ HandleLeave(r.from)
  <2>1. /\ PushAndBroadcast(Line("left", r.from, 0), clients')
        /\ clients' = Without(clients, r.from) /\ UNCHANGED joiner
    BY <1>6, Zenon DEF HandleLeave
  <2>2. Range(clients') \subseteq Range(clients)
    BY <1>2, <1>3, <2>1, WithoutInjective
  <2> QED BY <1>1, <1>2, <1>3, <2>1, <2>2, LinesType, NobodyAssumption, SeenPush, Zenon
<1> QED BY <1>1, <1>4, <1>5, <1>6, Zenon

(* A step of a broadcast: the next client of the walk sees the last line.  *)
LEMMA SeenBroadcast ==
  ASSUME DeliveryInv, Seen, AllFit, BroadcastStep
  PROVE  Seen'
<1> DEFINE h == Head(todo)  N == Len(log)
<1>1. /\ server = "broadcast" /\ todo # <<>> /\ todo' = Tail(todo)
      /\ UNCHANGED <<clients, server, stop_requested, joiner, log, history_count, pos>>
  BY Zenon DEF BroadcastStep
<1>2. /\ todo \in Seq(Users) /\ IsInjective(todo) /\ log \in Seq(Lines)
      /\ got \in [Users -> Seq(Lines)]
  BY Zenon DEF DeliveryInv, LivesInv, TypeInv, TypeOK, Control
<1>3. h \in Users /\ h \in Range(todo) /\ Range(todo') = Range(todo) \ {h}
  BY <1>1, <1>2, HeadTailProperties, TailInjective, Zenon
<1>4. /\ line = log[N] /\ N \in Nat \ {0} /\ N \in DOMAIN log
      /\ joiner # Nobody => line = Line("joined", joiner, 0)
  BY <1>1, <1>2, EmptySeq, LenProperties DEF DeliveryInv, Delivery, Announced
<1>5. got' = [got EXCEPT ![h] = Append(got[h], line)]
  BY <1>4, Zenon DEF AllFit, BroadcastStep, Deliver
<1> HIDE DEF h, N
<1> SUFFICES ASSUME NEW u \in Users PROVE SeenBy(u)'
  BY Zenon DEF Seen
<1>6. CASE u # h
  <2>1. got'[u] = got[u] /\ (u \in Range(todo') <=> u \in Range(todo))
    BY <1>2, <1>3, <1>5, <1>6, Zenon
  <2>2. SeenBy(u)
    BY Zenon DEF Seen
  <2> QED BY <1>1, <2>1, <2>2, Zenon DEF SeenBy, SeenUpto, Settled
<1>7. CASE u = h
  <2>1. got'[u] = Append(got[u], line) /\ u \notin Range(todo') /\ got[u] \in Seq(Lines)
    BY <1>2, <1>3, <1>5, <1>7, Zenon
  <2>2. Upto(got[u], u, log, N - 1)
    BY <1>1, <1>3, <1>7, Zenon DEF Seen, SeenBy, SeenUpto, N
  <2>3. N - 1 \in Nat /\ N - 1 < Len(log) /\ (N - 1) + 1 = N
    BY <1>4 DEF N
  <2>4. Upto(Append(got[u], log[(N - 1) + 1]), u, log, (N - 1) + 1)
    BY <1>2, <2>1, <2>2, <2>3, UptoNext, Zenon
  <2>5. Upto(got'[u], u, log', N)
    BY <1>1, <1>4, <2>1, <2>3, <2>4, Zenon
  <2>6. joiner = u => got'[u] = <<Line("joined", u, 0)>>
    <3>1. ASSUME joiner = u PROVE got[u] = <<>> /\ line = Line("joined", u, 0)
      BY <1>1, <1>3, <1>4, <1>7, <3>1, NobodyAssumption, Zenon DEF Seen, SeenBy
    <3>2. Append(<<>>, line) = <<line>>
      OBVIOUS
    <3> QED BY <2>1, <3>1, <3>2, Zenon
  <2>7. N \in 0 .. Len(log') /\ Len(log') = N
    BY <1>1, <1>4 DEF N
  <2> QED BY <1>1, <2>1, <2>5, <2>6, <2>7, Zenon DEF SeenBy, SeenUpto, Settled
<1> QED BY <1>6, <1>7, Zenon

(* The ring holds no more than was pushed. *)
LEMMA RingWithinLog ==
  ASSUME TypeInv
  PROVE  /\ history_count \in Nat /\ Len(log) \in Nat /\ history_count <= Len(log)
         /\ log \in Seq(Lines) /\ pos \in Nat
<1>1. /\ history_count \in Nat /\ log \in Seq(Lines) /\ Len(log) \in Nat /\ pos \in Nat
  BY HistoryAssumption, LenProperties DEF TypeInv, TypeOK, RingTypeOK
<1>2. history_count > 0 => history_count <= Len(log)
  <2>1. history_count > 0 => 0 \in 0 .. history_count - 1
    BY <1>1
  <2> QED BY <2>1, ReplayType, Zenon
<1> QED BY <1>1, <1>2

(* The end of a broadcast. *)
LEMMA SeenBroadcastDone ==
  ASSUME DeliveryInv, Seen, BroadcastDone
  PROVE  Seen'
<1>1. /\ server = "broadcast" /\ Range(todo) = {} /\ pos' = 0
      /\ server' = IF joiner = Nobody THEN "check" ELSE "replay"
      /\ UNCHANGED <<clients, stop_requested, joiner, log, history_count, got>>
  BY DEF BroadcastDone, Range
<1>2. history_count \in Nat /\ Len(log) \in Nat /\ history_count <= Len(log)
  BY RingWithinLog, Zenon DEF DeliveryInv, LivesInv
<1> SUFFICES ASSUME NEW u \in Users PROVE SeenBy(u)'
  BY Zenon DEF Seen
<1>3. SeenBy(u)
  BY Zenon DEF Seen
<1>4. ASSUME joiner = u PROVE SeenUpto(u, Len(log) - history_count + pos)'
  <2>1. got[u] = <<>> \/ got[u] = <<Line("joined", u, 0)>>
    BY <1>1, <1>3, <1>4, Zenon DEF SeenBy
  <2> DEFINE k == Len(log) - history_count + 0
  <2>2. k \in Nat
    BY <1>2
  <2>3. Upto(got[u], u, log, k)
    BY <2>1, <2>2, UptoFresh, Zenon
  <2> QED BY <1>1, <2>3, Zenon DEF SeenUpto
<1> QED BY <1>1, <1>3, <1>4, Zenon DEF SeenBy, SeenUpto, Settled

(* A step of the replay: the joiner sees the next line of the log. *)
LEMMA SeenReplayStep ==
  ASSUME DeliveryInv, Seen, ReplayStep
  PROVE  Seen'
<1> DEFINE k == Len(log) - history_count + pos
<1>1. /\ server = "replay" /\ pos < history_count /\ pos' = pos + 1
      /\ got' = [got EXCEPT ![joiner] = Append(got[joiner], ReplayFrom(pos))]
      /\ UNCHANGED <<clients, stop_requested, joiner, log, history_count, server, todo>>
  BY Zenon DEF ReplayStep, MoreToReplay, Deliver
<1>2. /\ history_count \in Nat /\ Len(log) \in Nat /\ history_count <= Len(log)
      /\ log \in Seq(Lines) /\ pos \in Nat
  BY RingWithinLog, Zenon DEF DeliveryInv, LivesInv
<1>3. joiner \in Users /\ got \in [Users -> Seq(Lines)]
  BY <1>1, Zenon DEF DeliveryInv, LivesInv, TypeInv, TypeOK, Control
<1>4. k \in Nat /\ k < Len(log) /\ ReplayFrom(pos) = log[k + 1]
  <2>1. pos \in 0 .. history_count - 1
    BY <1>1, <1>2
  <2>2. ReplayFrom(pos) = log[Len(log) - history_count + pos + 1]
    BY <2>1, ReplayType, Zenon DEF DeliveryInv, LivesInv
  <2> QED BY <1>1, <1>2, <2>2
<1> SUFFICES ASSUME NEW u \in Users PROVE SeenBy(u)'
  BY Zenon DEF Seen
<1>5. SeenBy(u)
  BY Zenon DEF Seen
<1>6. CASE u # joiner
  <2>1. got'[u] = got[u]
    BY <1>1, <1>3, <1>6, Zenon
  <2> QED BY <1>1, <1>5, <1>6, <2>1, Zenon DEF SeenBy, SeenUpto, Settled
<1>7. CASE u = joiner
  <2>1. Upto(got[u], u, log, k)
    BY <1>1, <1>5, <1>7, Zenon DEF SeenBy, SeenUpto
  <2>2. k + 1 \in 0 .. Len(log) /\ Len(log) - history_count + pos' = k + 1
    BY <1>1, <1>2, <1>4
  <2> HIDE DEF k
  <2>3. Upto(Append(got[u], log[k + 1]), u, log, k + 1)
    BY <1>2, <1>3, <1>4, <2>1, UptoNext, Zenon
  <2>4. Upto(got'[u], u, log', k + 1)
    BY <1>1, <1>3, <1>4, <1>7, <2>3, Zenon
  <2>5. SeenUpto(u, Len(log) - history_count + pos)'
    BY <1>1, <2>2, <2>4, Zenon DEF SeenUpto
  <2>6. \E n \in 0 .. Len(log') : SeenUpto(u, n)'
    BY <1>1, <2>2, <2>4, Zenon DEF SeenUpto
  <2> QED BY <1>1, <1>7, <2>5, <2>6, Zenon DEF SeenBy, Settled
<1> QED BY <1>6, <1>7, Zenon

(* The end of the replay: the joiner has seen all of the log. *)
LEMMA SeenReplayDone ==
  ASSUME DeliveryInv, Seen, AllFit, ReplayDone
  PROVE  Seen'
<1>1. /\ server = "replay" /\ server' = "check" /\ ~MoreToReplay
      /\ UNCHANGED <<clients, stop_requested, log, got>>
  BY Zenon DEF ReplayDone
<1>2. /\ history_count \in Nat /\ Len(log) \in Nat /\ history_count <= Len(log)
      /\ log \in Seq(Lines) /\ pos \in Nat /\ pos <= history_count
  BY <1>1, RingWithinLog, Zenon DEF DeliveryInv, LivesInv, TypeInv, Control
<1>3. Len(log) - history_count + pos = Len(log)
  <2>1. ASSUME pos < history_count PROVE FALSE
    <3> DEFINE k == Len(log) - history_count + pos + 1
    <3>1. pos \in 0 .. history_count - 1 /\ k \in 1 .. Len(log)
      BY <1>2, <2>1
    <3>2. ReplayFrom(pos) = log[k]
      BY <3>1, ReplayType, Zenon DEF DeliveryInv, LivesInv
    <3> HIDE DEF k
    <3>3. Fits(log[k])
      BY <1>2, <3>1, LenProperties, Zenon DEF AllFit
    <3> QED BY <1>1, <2>1, <3>2, <3>3, Zenon DEF MoreToReplay
  <2> QED BY <1>2, <2>1
<1> SUFFICES ASSUME NEW u \in Users PROVE SeenBy(u)'
  BY Zenon DEF Seen
<1>4. SeenBy(u)
  BY Zenon DEF Seen
<1>5. joiner = u => SeenUpto(u, Len(log))
  BY <1>1, <1>3, <1>4, Zenon DEF SeenBy
<1> QED BY <1>1, <1>4, <1>5, Zenon DEF SeenBy, SeenUpto, Settled

(* SIGINT: what a client misses then, it misses at the end. *)
LEMMA SeenInterrupt ==
  ASSUME DeliveryInv, Seen, Interrupt
  PROVE  Seen'
<1>1. /\ UNCHANGED <<clients, log, got, history_count, pos>> /\ stop_requested' = TRUE
      /\ \/ UNCHANGED <<server, joiner>> /\ Range(todo') \subseteq Range(todo)
         \/ server' = "check"
  <2>1. todo # <<>> => Range(Tail(todo)) \subseteq Range(todo)
    BY TailInjective, Zenon DEF DeliveryInv, LivesInv, TypeInv, TypeOK, Control
  <2> QED BY <2>1, ZenonT(40) DEF Interrupt
<1> SUFFICES ASSUME NEW u \in Users PROVE SeenBy(u)'
  BY Zenon DEF Seen
<1>2. SeenBy(u)
  BY Zenon DEF Seen
<1> QED BY <1>1, <1>2, Zenon DEF SeenBy, SeenUpto, Settled

(* Every step keeps what each client has seen of the log. *)
LEMMA SeenStep ==
  ASSUME DeliveryInv, Seen, AllFit, [Next]_vars
  PROVE  Seen'
<1>1. CASE ServerCheck
  BY <1>1, Zenon DEF ServerCheck, Seen, SeenBy, SeenUpto, Settled
<1>2. CASE Cleanup
  BY <1>2, Zenon DEF Cleanup, Seen, SeenBy, SeenUpto, Settled
<1>3. CASE UNCHANGED <<got, serverVars>>
  BY <1>3, Zenon DEF serverVars, Seen, SeenBy, SeenUpto, Settled
<1>4. ASSUME NEW u \in Users, MainStep(u) \/ ReaderStep(u) \/ UserStep(u) PROVE Seen'
  <2>1. UNCHANGED <<got, serverVars>>
    BY <1>4, Zenon DEF MainStep, ReaderStep, UserStep, SendJoin, SendLeave, CloseQueue, JoinReader,
       ReaderCheck, ReaderCall, ReaderReceive, OpenQueues, SendText, Quit
  <2> QED BY <1>3, <2>1, Zenon
<1>5. CASE UNCHANGED vars
  BY <1>3, <1>5, Zenon DEF vars
<1> QED BY <1>1, <1>2, <1>4, <1>5, SeenReceive, SeenBroadcast, SeenBroadcastDone,
           SeenReplayStep, SeenReplayDone, SeenInterrupt, Zenon DEF Next, ServerStep

(* The line that is broadcast is the last one pushed. *)
LEMMA AnnouncedStep ==
  ASSUME DeliveryInv, [Next]_vars
  PROVE  Announced'
<1>1. CASE UNCHANGED <<log, line, joiner, server>>
  BY <1>1, Zenon DEF DeliveryInv, Delivery, Announced
<1>2. CASE server' # "broadcast"
  BY <1>2, Zenon DEF Announced
<1>3. ASSUME NEW l \in Lines, NEW cs, PushAndBroadcast(l, cs),
             joiner' # Nobody => l = Line("joined", joiner', 0)
      PROVE  Announced'
  <2>1. log \in Seq(Lines) /\ log' = Append(log, l) /\ line' = l
    BY <1>3, Zenon DEF PushAndBroadcast, DeliveryInv, LivesInv, TypeInv, TypeOK
  <2>2. log' # <<>> /\ log'[Len(log')] = l
    BY <2>1, AppendProperties
  <2> QED BY <1>3, <2>1, <2>2, Zenon DEF Announced
<1>4. CASE ServerReceive
  <2> DEFINE r == Head(sq)
  <2>1. /\ sq # <<>> /\ joiner = Nobody /\ TypeInv /\ sq' = Tail(sq)
        /\ \/ r.kind = "JOIN" /\ HandleJoin(r.from)
           \/ r.kind = "MSG" /\ HandleMsg(r.from, r.text)
           \/ r.kind = "LEAVE" /\ HandleLeave(r.from)
    BY <1>4, Zenon DEF ServerReceive, DeliveryInv, LivesInv, TypeInv, Control
  <2>2. r.from \in Users /\ (r.kind = "MSG" => r.text \in 1 .. MaxTexts)
    BY <2>1, Received, RequestsType, Zenon
  <2> HIDE DEF r
  <2>3. CASE r.kind = "JOIN" /\ HandleJoin(r.from)
    <3>1. CASE linked[r.from]
      BY <1>3, <2>2, <2>3, <3>1, LinesType, Zenon DEF HandleJoin
    <3>2. CASE ~linked[r.from]
      BY <1>2, <2>3, <3>2, Zenon DEF HandleJoin
    <3> QED BY <3>1, <3>2, Zenon
  <2>4. CASE r.kind = "MSG" /\ HandleMsg(r.from, r.text)
    BY <1>3, <2>1, <2>2, <2>4, LinesType, Zenon DEF HandleMsg
  <2>5. CASE r.kind = "LEAVE" /\ HandleLeave(r.from)
    BY <1>3, <2>1, <2>2, <2>5, LinesType, Zenon DEF HandleLeave
  <2> QED BY <2>1, <2>3, <2>4, <2>5, Zenon
<1>5. ASSUME NEW u \in Users, MainStep(u) \/ ReaderStep(u) \/ UserStep(u) PROVE Announced'
  <2>1. UNCHANGED serverVars
    BY <1>5, Zenon DEF MainStep, ReaderStep, UserStep, SendJoin, SendLeave, CloseQueue, JoinReader,
       ReaderCheck, ReaderCall, ReaderReceive, OpenQueues, SendText, Quit
  <2> QED BY <1>1, <2>1, Zenon DEF serverVars
<1>6. CASE ServerCheck \/ Cleanup \/ BroadcastDone \/ ReplayDone
  BY <1>2, <1>6, Zenon DEF ServerCheck, Cleanup, BroadcastDone, ReplayDone
<1>7. CASE BroadcastStep \/ ReplayStep
  BY <1>1, <1>7, Zenon DEF BroadcastStep, ReplayStep
<1>8. CASE Interrupt
  BY <1>1, <1>2, <1>8, Zenon DEF Interrupt
<1>9. CASE UNCHANGED vars
  BY <1>1, <1>9, Zenon DEF vars, serverVars
<1> QED BY <1>4, <1>5, <1>6, <1>7, <1>8, <1>9, Zenon DEF Next, ServerStep

(* The log only grows. *)
LEMMA LogGrows ==
  ASSUME TypeInv, [Next]_vars
  PROVE  log' = log \/ \E l \in Lines : log' = Append(log, l)
<1>1. CASE ServerReceive
  <2> DEFINE r == Head(sq)
  <2>1. /\ sq # <<>> /\ sq' = Tail(sq)
        /\ \/ r.kind = "JOIN" /\ HandleJoin(r.from)
           \/ r.kind = "MSG" /\ HandleMsg(r.from, r.text)
           \/ r.kind = "LEAVE" /\ HandleLeave(r.from)
    BY <1>1, Zenon DEF ServerReceive
  <2>2. r.from \in Users /\ (r.kind = "MSG" => r.text \in 1 .. MaxTexts)
    BY <2>1, Received, RequestsType, Zenon
  <2> HIDE DEF r
  <2>3. CASE r.kind = "JOIN" /\ HandleJoin(r.from)
    <3>1. CASE linked[r.from]
      BY <2>2, <2>3, <3>1, LinesType, Zenon DEF HandleJoin, PushAndBroadcast
    <3>2. CASE ~linked[r.from]
      BY <2>3, <3>2, Zenon DEF HandleJoin
    <3> QED BY <3>1, <3>2, Zenon
  <2>4. CASE r.kind = "MSG" /\ HandleMsg(r.from, r.text)
    BY <2>2, <2>4, LinesType, Zenon DEF HandleMsg, PushAndBroadcast
  <2>5. CASE r.kind = "LEAVE" /\ HandleLeave(r.from)
    BY <2>2, <2>5, LinesType, Zenon DEF HandleLeave, PushAndBroadcast
  <2> QED BY <2>1, <2>3, <2>4, <2>5, Zenon
<1>2. CASE ~ServerReceive
  BY <1>2, Zenon DEF Next, vars, serverVars, ServerStep, ServerCheck, BroadcastStep, BroadcastDone,
     ReplayStep, ReplayDone, Cleanup, Interrupt, MainStep, ReaderStep, UserStep, SendJoin,
     SendLeave, CloseQueue, JoinReader, ReaderCheck, ReaderCall, ReaderReceive, OpenQueues,
     SendText, Quit
<1> QED BY <1>1, <1>2, Zenon

(* Every step keeps the order of delivery. *)
LEMMA DeliveryStep == DeliveryInv /\ [Next]_vars => DeliveryInv'
<1> SUFFICES ASSUME DeliveryInv, [Next]_vars PROVE DeliveryInv'
  BY Zenon
<1>1. LivesInv' /\ Announced'
  BY LivesStep, AnnouncedStep, Zenon DEF DeliveryInv
<1>2. AllFit' => AllFit
  <2>1. log \in Seq(Lines)
    BY Zenon DEF DeliveryInv, LivesInv, TypeInv, TypeOK
  <2>2. ASSUME NEW l \in Lines, log' = Append(log, l), AllFit' PROVE AllFit
    <3>1. /\ DOMAIN log = 1 .. Len(log) /\ Len(log) \in Nat
          /\ log' \in Seq(Lines) /\ Len(log') = Len(log) + 1
          /\ \A i \in 1 .. Len(log) : log'[i] = log[i]
      BY <2>1, <2>2, AppendProperties, LenProperties
    <3>2. DOMAIN log' = 1 .. Len(log) + 1
      BY <3>1, LenProperties, Zenon
    <3> QED BY <2>2, <3>1, <3>2 DEF AllFit
  <2> QED BY <2>2, LogGrows, Zenon DEF DeliveryInv, LivesInv, AllFit
<1>3. AllFit' => Seen'
  BY <1>2, SeenStep, Zenon DEF DeliveryInv, Delivery
<1> QED BY <1>1, <1>3, Zenon DEF DeliveryInv, Delivery

(* Every client sees the room in the same order and without gaps, as long  *)
(* as all that was said fits a queue message: whatever the number of       *)
(* clients, the sizes of the queues and of the history, and whenever       *)
(* clients join or leave and SIGINT arrives.                               *)
THEOREM DeliveryIsOrdered == Spec => []OrderedDelivery
<1>1. Init => DeliveryInv
  <2> SUFFICES ASSUME Init PROVE DeliveryInv
    BY Zenon
  <2>1. LivesInv
    <3>1. /\ DOMAIN sq = {} /\ Range(clients) = {}
          /\ \A u \in Users : main[u] = "off" /\ got[u] = <<>>
      BY DEF Init, Range
    <3> QED BY <3>1, TypeInvInit, Zenon DEF LivesInv, Lives, Asks, After
  <2>2. Announced
    BY Zenon DEF Init, Announced
  <2>3. ASSUME NEW u \in Users PROVE SeenBy(u)
    <3>1. /\ got[u] = <<>> /\ Range(clients) = {} /\ log = <<>> /\ server = "check"
      BY DEF Init, Range
    <3>2. Upto(got[u], u, log, 0)
      BY <3>1, UptoFresh, Zenon
    <3>3. 0 \in 0 .. Len(log)
      BY <3>1
    <3> QED BY <3>1, <3>2, <3>3, Zenon DEF SeenBy, SeenUpto
  <2> QED BY <2>1, <2>2, <2>3, Zenon DEF DeliveryInv, Delivery, Seen
<1>2. DeliveryInv => OrderedDelivery
  <2> SUFFICES ASSUME DeliveryInv, AllFit, NEW u \in Users
               PROVE  \/ got[u] \in Segments(log)
                      \/ got[u] # <<>> /\ Head(got[u]) = Line("joined", u, 0)
                                       /\ Tail(got[u]) \in Segments(log)
    BY Zenon DEF OrderedDelivery, AllFit
  <2>1. PICK n \in 0 .. Len(log) : Upto(got[u], u, log, n)
    BY Zenon DEF DeliveryInv, Delivery, Seen, SeenBy, SeenUpto
  <2>2. Len(log) \in Nat
    BY RingWithinLog, Zenon DEF DeliveryInv, LivesInv
  <2>3. PICK a \in 1 .. n + 1 :
          \/ got[u] = SubSeq(log, a, n)
          \/ got[u] # <<>> /\ Head(got[u]) = Line("joined", u, 0) /\ Tail(got[u]) = SubSeq(log, a, n)
    BY <2>1, Zenon DEF Upto
  <2>4. a \in 1 .. Len(log) + 1
    BY <2>2
  <2>5. SubSeq(log, a, n) \in Segments(log)
    BY <2>4 DEF Segments
  <2> QED BY <2>3, <2>5, Zenon
<1> QED BY <1>1, <1>2, DeliveryStep, PTL DEF Spec
=============================================================================
