------------------------- MODULE ThreadsShopProofs -------------------------
(***************************************************************************)
(* The shop for every number of kiosks, every finite set of buyers, every  *)
(* set of needs with a greatest one, and every load of the worker.         *)
(***************************************************************************)
EXTENDS ThreadsShop, FiniteSetTheorems, TLAPS

-----------------------------------------------------------------------------
(* What the kiosks hold together.  The sum is a recursive function, so its *)
(* properties need an induction, here over sets of numbers.                *)

(* Every set of numbers has a least one. *)
LEMMA LeastNumber ==
  ASSUME NEW T \in SUBSET Nat, T # {}
  PROVE  \E m \in T : \A k \in T : m <= k
<1> DEFINE R == {ss \in Nat \X Nat : ss[1] < ss[2]}
<1>1. OpToRel(<, Nat) = R
  BY Zenon DEF OpToRel
<1>2. IsWellFoundedOn(R, Nat)
  BY <1>1, NatLessThanWellFounded, Zenon
<1> HIDE DEF R
<1>3. PICK x \in T : \A y \in T : ~(<<y, x>> \in R)
  BY <1>2, WFMin, Zenon
<1>4. ASSUME NEW k \in T PROVE x <= k
  <2>1. k \in Nat /\ x \in Nat /\ ~(<<k, x>> \in R)
    BY <1>3
  <2>2. <<k, x>> \in R <=> k < x
    BY <2>1 DEF R
  <2> QED BY <2>1, <2>2
<1> QED BY <1>4

(* A set that has 0, and with each number below K the next one, has all of *)
(* 0 .. K.                                                                 *)
LEMMA Induction ==
  ASSUME NEW K \in Nat, NEW S, 0 \in S, \A n \in 0 .. K - 1 : n \in S => n + 1 \in S
  PROVE  \A n \in 0 .. K : n \in S
<1> DEFINE T == {n \in 0 .. K : n \notin S}
<1> SUFFICES ASSUME T # {} PROVE FALSE
  OBVIOUS
<1>1. T \in SUBSET Nat
  OBVIOUS
<1>2. PICK m \in T : \A k \in T : m <= k
  BY <1>1, LeastNumber, Zenon
<1>3. m \in 0 .. K /\ m \notin S /\ m # 0
  BY <1>2
<1>4. m - 1 \in 0 .. K - 1 /\ m - 1 \in 0 .. K /\ ~(m <= m - 1) /\ m - 1 + 1 = m
  BY <1>3
<1>5. m - 1 \in S
  BY <1>2, <1>4
<1> QED BY <1>3, <1>4, <1>5

(* The definition inside Total. *)
IsSum(s, f, K) == s = [n \in 0 .. K |-> IF n = 0 THEN 0 ELSE s[n - 1] + f[n - 1]]
Sum(f) == CHOOSE s : IsSum(s, f, KIOSKS)

(* The total over the kiosks is the last of the partial sums. *)
LEMMA TotalIsSum == \A f : Total(f) = Sum(f)[KIOSKS]
BY DEF Total, Sum, IsSum

(* The equations of the sum have a solution. *)
LEMMA SumExists ==
  ASSUME NEW f \in [Kiosks -> Int]
  PROVE  \E s : IsSum(s, f, KIOSKS)
<1> DEFINE S == {K \in Nat : \E s : IsSum(s, f, K)}
<1>1. 0 \in S
  <2>1. IsSum([n \in 0 .. 0 |-> 0], f, 0)
    BY DEF IsSum
  <2> QED BY <2>1
<1>2. ASSUME NEW n \in 0 .. KIOSKS - 1, n \in S PROVE n + 1 \in S
  <2>1. n \in Nat /\ n + 1 \in Nat
    BY ShopAssumption
  <2>2. PICK s : IsSum(s, f, n)
    BY <1>2
  <2> DEFINE t == [k \in 0 .. n + 1 |-> IF k = n + 1 THEN s[n] + f[n] ELSE s[k]]
  <2>3. \A k \in 0 .. n : s[k] = IF k = 0 THEN 0 ELSE s[k - 1] + f[k - 1]
    BY <2>2 DEF IsSum
  <2>4. \A k \in 0 .. n : t[k] = s[k]
    BY <2>1
  <2>5. t[n + 1] = s[n] + f[n]
    BY <2>1
  <2>6. ASSUME NEW k \in 0 .. n + 1
        PROVE  t[k] = IF k = 0 THEN 0 ELSE t[k - 1] + f[k - 1]
    <3> HIDE DEF t
    <3>1. CASE k = n + 1
      <4>1. k # 0 /\ k - 1 = n /\ n \in 0 .. n
        BY <2>1, <3>1
      <4> QED BY <2>4, <2>5, <3>1, <4>1
    <3>2. CASE k \in 1 .. n
      <4>1. k - 1 \in 0 .. n /\ k \in 0 .. n /\ k # 0
        BY <2>1, <3>2
      <4> QED BY <2>3, <2>4, <4>1
    <3>3. CASE k = 0
      BY <2>1, <2>3, <2>4, <3>3
    <3> QED BY <2>1, <2>6, <3>1, <3>2, <3>3
  <2>7. t = [k \in 0 .. n + 1 |-> IF k = 0 THEN 0 ELSE t[k - 1] + f[k - 1]]
    <3>1. t = [k \in 0 .. n + 1 |-> t[k]]
      OBVIOUS
    <3> HIDE DEF t
    <3> QED BY <2>6, <3>1, Zenon
  <2> HIDE DEF t
  <2>8. IsSum(t, f, n + 1)
    BY <2>7 DEF IsSum
  <2> QED BY <2>1, <2>8
<1> HIDE DEF S
<1>3. KIOSKS \in S
  <2>1. KIOSKS \in Nat /\ KIOSKS \in 0 .. KIOSKS
    BY ShopAssumption
  <2> QED BY <1>1, <1>2, <2>1, Induction
<1> QED BY <1>3 DEF S

(* ... and it is a sequence of numbers. *)
LEMMA SumProperties ==
  ASSUME NEW f \in [Kiosks -> Int]
  PROVE  /\ Sum(f) \in [0 .. KIOSKS -> Int]
         /\ Sum(f)[0] = 0
         /\ \A n \in 0 .. KIOSKS - 1 : Sum(f)[n + 1] = Sum(f)[n] + f[n]
<1> DEFINE s == Sum(f)
           S == {n \in 0 .. KIOSKS : s[n] \in Int}
<1>0. KIOSKS \in Nat /\ KIOSKS # 0
  BY ShopAssumption
<1>1. IsSum(s, f, KIOSKS)
  BY SumExists DEF Sum
<1> HIDE DEF s
<1>2. \A n \in 0 .. KIOSKS : s[n] = IF n = 0 THEN 0 ELSE s[n - 1] + f[n - 1]
  BY <1>1, Zenon DEF IsSum
<1>3. s[0] = 0
  BY <1>0, <1>2
<1>4. ASSUME NEW n \in 0 .. KIOSKS - 1 PROVE s[n + 1] = s[n] + f[n] /\ f[n] \in Int
  <2>1. n + 1 \in 0 .. KIOSKS /\ n + 1 # 0 /\ n + 1 - 1 = n
    BY <1>0
  <2>2. s[n + 1] = s[n] + f[n]
    BY <1>2, <2>1
  <2> QED BY <2>2 DEF Kiosks
<1>5. \A n \in 0 .. KIOSKS : n \in S
  <2>1. 0 \in S
    BY <1>0, <1>3
  <2>2. \A n \in 0 .. KIOSKS - 1 : n \in S => n + 1 \in S
    <3> SUFFICES ASSUME NEW n \in 0 .. KIOSKS - 1, s[n] \in Int
                 PROVE  n + 1 \in 0 .. KIOSKS /\ s[n + 1] \in Int
      OBVIOUS
    <3> QED BY <1>0, <1>4
  <2> HIDE DEF S
  <2> QED BY <1>0, <2>1, <2>2, Induction
<1>6. s \in [0 .. KIOSKS -> Int]
  <2>1. s = [n \in 0 .. KIOSKS |-> IF n = 0 THEN 0 ELSE s[n - 1] + f[n - 1]]
    BY <1>1, Zenon DEF IsSum
  <2>2. s = [n \in 0 .. KIOSKS |-> s[n]]
    BY <2>1
  <2> QED BY <1>5, <2>2
<1> QED BY <1>3, <1>4, <1>6 DEF s

(* The total is a number, and changing what one kiosk holds changes the    *)
(* total by the same amount: what goods-- and goods += 200 do to it.       *)
LEMMA TotalUpdate ==
  ASSUME NEW f \in [Kiosks -> Int], NEW i \in Kiosks, NEW x \in Int
  PROVE  /\ Total(f) \in Int
         /\ Total([f EXCEPT ![i] = x]) = Total(f) + (x - f[i])
<1> DEFINE g == [f EXCEPT ![i] = x]
           s == Sum(f)
           t == Sum(g)
           S == {n \in 0 .. KIOSKS : t[n] = IF n <= i THEN s[n] ELSE s[n] + (x - f[i])}
<1>0. KIOSKS \in Nat /\ KIOSKS # 0 /\ i \in 0 .. KIOSKS - 1 /\ f[i] \in Int
  BY ShopAssumption DEF Kiosks
<1>1. g \in [Kiosks -> Int] /\ g[i] = x /\ \A n \in Kiosks : n # i => g[n] = f[n]
  OBVIOUS
<1>2. /\ s \in [0 .. KIOSKS -> Int] /\ s[0] = 0
      /\ \A n \in 0 .. KIOSKS - 1 : s[n + 1] = s[n] + f[n]
  BY SumProperties
<1>3. /\ t \in [0 .. KIOSKS -> Int] /\ t[0] = 0
      /\ \A n \in 0 .. KIOSKS - 1 : t[n + 1] = t[n] + g[n]
  <2> HIDE DEF g
  <2> QED BY <1>1, SumProperties
<1>4. Total(f) = s[KIOSKS] /\ Total(g) = t[KIOSKS]
  BY TotalIsSum
<1> HIDE DEF g, s, t
<1>5. \A n \in 0 .. KIOSKS : n \in S
  <2>1. 0 \in S
    BY <1>0, <1>2, <1>3
  <2>2. ASSUME NEW n \in 0 .. KIOSKS - 1, n \in S PROVE n + 1 \in S
    <3>1. n + 1 \in 0 .. KIOSKS /\ n \in 0 .. KIOSKS /\ n \in Kiosks
      BY <1>0 DEF Kiosks
    <3>2. /\ s[n] \in Int /\ f[n] \in Int /\ t[n] \in Int
          /\ s[n + 1] = s[n] + f[n] /\ t[n + 1] = t[n] + g[n]
      BY <1>2, <1>3, <3>1
    <3>3. t[n] = IF n <= i THEN s[n] ELSE s[n] + (x - f[i])
      BY <2>2
    <3>4. CASE n < i
      BY <1>0, <1>1, <3>1, <3>2, <3>3, <3>4
    <3>5. CASE n = i
      BY <1>0, <1>1, <3>1, <3>2, <3>3, <3>5
    <3>6. CASE n > i
      BY <1>0, <1>1, <3>1, <3>2, <3>3, <3>6
    <3> QED BY <1>0, <3>4, <3>5, <3>6
  <2> HIDE DEF S
  <2> QED BY <1>0, <2>1, <2>2, Induction
<1>6. KIOSKS \in 0 .. KIOSKS /\ ~(KIOSKS <= i) /\ KIOSKS \in S
  BY <1>0, <1>5
<1>7. t[KIOSKS] = s[KIOSKS] + (x - f[i]) /\ s[KIOSKS] \in Int
  BY <1>2, <1>6
<1> QED BY <1>4, <1>7 DEF g

-----------------------------------------------------------------------------
(* A thread in a kiosk holds its mutex.  (The converse is false of the     *)
(* worker: cancelled inside a kiosk, it leaves the mutex locked.)          *)
Locks ==
  /\ \A b \in Buyers : buyer[b] \in {"inside", "take"} => owner[at[b]] = b
  /\ worker \in {"unload", "store", "report"} => owner[wat] = Worker

(* What a thread has read of the goods is what is there when it writes. *)
Reads ==
  /\ \A b \in Buyers : buyer[b] = "take" =>
       seen[b] = goods[at[b]] /\ seen[b] > 0 /\ need[b] > 0
  /\ worker = "store" => wseen = goods[wat]

(* A buyer leaves with nothing left to buy, buyers_done counts those that  *)
(* did, and main goes on when all of them have.                            *)
Returned == {b \in Buyers : buyer[b] = "returned"}
Ends ==
  /\ \A b \in Buyers : buyer[b] \in {"satisfied", "returned"} => need[b] = 0
  /\ buyers_done = Cardinality(Returned)
  /\ main # "join_buyers" => Returned = Buyers

Counts == bought \in Nat /\ loaded \in Nat /\ initial \in Int

(* The inductive invariant. *)
ShopInv == TypeOK /\ Locks /\ Reads /\ Ends /\ Counts /\ NothingIsLost

BuyerPoints == {"street", "inside", "take", "satisfied", "returned"}

(* The greatest need. *)
LEMMA MaxNeed == Max(Needs) \in Nat /\ \A n \in Needs : n \in 0 .. Max(Needs)
<1>1. Needs \subseteq Nat /\ \E m \in Needs : \A n \in Needs : n <= m
  BY ShopAssumption
<1>2. Max(Needs) \in Needs /\ \A n \in Needs : Max(Needs) >= n
  BY <1>1, Zenon DEF Max
<1> DEFINE m == Max(Needs)
<1>3. m \in Needs /\ \A n \in Needs : m >= n
  BY <1>2
<1> HIDE DEF m
<1>4. m \in Nat /\ \A n \in Needs : n \in 0 .. m
  BY <1>1, <1>3
<1> QED BY <1>4 DEF m

(* The owner of a kiosk's mutex is told apart: no buyer is the worker, and
   neither is the mark of a free mutex. *)
LEMMA Threads == Worker # Nobody /\ \A b \in Buyers : b # Worker /\ b # Nobody
BY ThreadAssumption DEF Worker, Nobody

(* Before anybody enters. *)
LEMMA ShopInit == Init => ShopInv
<1> SUFFICES ASSUME Init PROVE ShopInv
  OBVIOUS
<1>1. KIOSKS \in Nat \ {0} /\ LOAD \in Nat /\ MaxGoods \in Nat /\ InitialGoods \subseteq 0 .. MaxGoods + LOAD
  BY ShopAssumption
<1>2. 0 \in Kiosks /\ 0 \in 0 .. MaxGoods + LOAD /\ goods \in [Kiosks -> 0 .. MaxGoods + LOAD]
  <2>1. 0 \in Kiosks /\ 0 \in 0 .. MaxGoods + LOAD
    BY <1>1 DEF Kiosks
  <2>2. goods \in [Kiosks -> InitialGoods]
    BY DEF Init
  <2> QED BY <1>1, <2>1, <2>2, Zenon
<1>3. need \in [Buyers -> 0 .. Max(Needs)]
  BY MaxNeed DEF Init
<1>4. Returned = {} /\ Cardinality(Returned) = 0 /\ Cardinality(Buyers) \in Nat
  <2>1. Returned = {}
    BY DEF Returned, Init
  <2> QED BY <2>1, FS_EmptySet, FS_CardinalityType, ShopAssumption
<1>5. TypeOK
  <2>1. 0 \in 0 .. Cardinality(Buyers)
    BY <1>4
  <2>2. /\ owner \in [Kiosks -> Buyers \cup {Worker, Nobody}]
        /\ seen \in [Buyers -> 0 .. MaxGoods + LOAD]
        /\ at \in [Buyers -> Kiosks]
        /\ buyer \in [Buyers -> BuyerPoints]
    BY <1>2 DEF Init, BuyerPoints
  <2>3. wat \in Kiosks /\ wseen \in 0 .. MaxGoods + LOAD /\ buyers_done \in 0 .. Cardinality(Buyers)
    BY <1>2, <2>1 DEF Init
  <2> QED BY <1>2, <1>3, <2>2, <2>3, Zenon DEF Init, TypeOK, BuyerPoints
<1>6. Total(goods) \in Int
  <2>1. goods \in [Kiosks -> Int]
    BY <1>1, <1>2
  <2> QED BY <1>2, <2>1, TotalUpdate
<1>7. Counts /\ NothingIsLost
  BY <1>6 DEF Init, Counts, NothingIsLost
<1>8. Locks /\ Reads /\ Ends
  BY <1>4 DEF Init, Locks, Reads, Ends
<1> QED BY <1>5, <1>7, <1>8 DEF ShopInv

(* A kiosk is written by the thread that holds its mutex. *)
LEMMA GoodsStep ==
  ASSUME ShopInv, NEW k \in Kiosks, NEW x \in 0 .. MaxGoods + LOAD,
         goods' = [goods EXCEPT ![k] = x]
  PROVE  /\ goods' \in [Kiosks -> 0 .. MaxGoods + LOAD]
         /\ goods'[k] = x /\ goods[k] \in 0 .. MaxGoods + LOAD
         /\ \A j \in Kiosks : j # k => goods'[j] = goods[j]
         /\ Total(goods) \in Int
         /\ Total(goods') = Total(goods) + (x - goods[k])
<1>1. LOAD \in Nat /\ MaxGoods \in Nat
  BY ShopAssumption
<1>2. goods \in [Kiosks -> 0 .. MaxGoods + LOAD]
  BY DEF ShopInv, TypeOK
<1>3. goods \in [Kiosks -> Int] /\ x \in Int
  BY <1>1, <1>2
<1>4. Total(goods) \in Int /\ Total(goods') = Total(goods) + (x - goods[k])
  BY <1>3, TotalUpdate, Zenon
<1> QED BY <1>2, <1>4

-----------------------------------------------------------------------------
(* One lemma per step of a buyer. *)

(* trylock succeeds on a free kiosk only: nobody loses a mutex. *)
LEMMA TryKioskStep ==
  ASSUME ShopInv, NEW b \in Buyers, TryKiosk(b)
  PROVE  ShopInv'
<1> USE DEF ShopInv
<1>1. TypeOK'
  <2>1. at' \in [Buyers -> Kiosks]
    <3>1. KIOSKS \in Nat \ {0} /\ at[b] \in 0 .. KIOSKS - 1
      BY ShopAssumption DEF TypeOK, Kiosks
    <3>2. (at[b] + 1) % KIOSKS \in Kiosks
      BY <3>1 DEF Kiosks
    <3> QED BY <3>2 DEF TryKiosk, TypeOK
  <2>2. owner' \in [Kiosks -> Buyers \cup {Worker, Nobody}]
    BY DEF TryKiosk, TypeOK
  <2>3. buyer' \in [Buyers -> BuyerPoints]
    BY DEF TryKiosk, TypeOK, BuyerPoints
  <2> QED BY <2>1, <2>2, <2>3 DEF TryKiosk, TypeOK, BuyerPoints, workerVars
<1>2. Locks'
  <2>1. CASE Free(at[b])
    BY <2>1, Threads DEF TryKiosk, TypeOK, Locks, Free, workerVars
  <2>2. CASE ~Free(at[b])
    BY <2>2 DEF TryKiosk, TypeOK, Locks, workerVars
  <2> QED BY <2>1, <2>2
<1>3. Reads'
  BY DEF TryKiosk, TypeOK, Reads, workerVars
<1>4. Ends'
  <2>1. \A c \in Buyers : /\ buyer'[c] \in {"satisfied", "returned"} => buyer'[c] = buyer[c]
                          /\ buyer'[c] = "returned" <=> buyer[c] = "returned"
    BY DEF TryKiosk, TypeOK
  <2>2. Returned' = Returned
    BY <2>1 DEF Returned
  <2> QED BY <2>1, <2>2 DEF TryKiosk, Ends
<1>5. Counts' /\ NothingIsLost'
  BY DEF TryKiosk, Counts, NothingIsLost, workerVars
<1> QED BY <1>1, <1>2, <1>3, <1>4, <1>5

(* The loop of a buyer inside a kiosk: it tests the goods and reads them. *)
LEMMA LookAroundStep ==
  ASSUME ShopInv, NEW b \in Buyers, LookAround(b)
  PROVE  ShopInv'
<1> USE DEF ShopInv
<1>1. TypeOK'
  BY DEF LookAround, TypeOK, workerVars, kioskVars
<1>2. Locks'
  BY DEF LookAround, TypeOK, Locks, workerVars, kioskVars
<1>3. Reads'
  BY DEF LookAround, TypeOK, Reads, workerVars, kioskVars
<1>4. Ends'
  <2>1. \A c \in Buyers : /\ buyer'[c] \in {"satisfied", "returned"} => buyer'[c] = buyer[c]
                          /\ buyer'[c] = "returned" <=> buyer[c] = "returned"
    BY DEF LookAround, TypeOK
  <2>2. Returned' = Returned
    BY <2>1 DEF Returned
  <2> QED BY <2>1, <2>2 DEF LookAround, Ends
<1>5. Counts' /\ NothingIsLost'
  BY DEF LookAround, Counts, NothingIsLost, workerVars, kioskVars
<1> QED BY <1>1, <1>2, <1>3, <1>4, <1>5

(* goods-- and need--, of a kiosk that nobody else has touched. *)
LEMMA TakeStep ==
  ASSUME ShopInv, NEW b \in Buyers, Take(b)
  PROVE  ShopInv'
<1> USE DEF ShopInv
<1>0. /\ buyer[b] = "take" /\ owner[at[b]] = b /\ at[b] \in Kiosks
      /\ seen[b] = goods[at[b]] /\ seen[b] > 0 /\ need[b] > 0
      /\ seen[b] \in 0 .. MaxGoods + LOAD /\ need[b] \in 0 .. Max(Needs)
      /\ seen[b] - 1 \in 0 .. MaxGoods + LOAD /\ need[b] - 1 \in 0 .. Max(Needs)
  BY ShopAssumption, MaxNeed DEF Take, TypeOK, Locks, Reads
<1>1. goods' = [goods EXCEPT ![at[b]] = seen[b] - 1]
  BY DEF Take
<1>2. /\ goods' \in [Kiosks -> 0 .. MaxGoods + LOAD]
      /\ \A j \in Kiosks : j # at[b] => goods'[j] = goods[j]
      /\ Total(goods) \in Int
      /\ Total(goods') = Total(goods) + (seen[b] - 1 - goods[at[b]])
  BY <1>0, <1>1, GoodsStep, Zenon
<1>3. TypeOK'
  BY <1>0, <1>2 DEF Take, TypeOK, workerVars
<1>4. Locks'
  BY DEF Take, TypeOK, Locks, workerVars
<1>5. Reads'
  <2>1. \A c \in Buyers : c # b /\ buyer[c] = "take" => at[c] # at[b] /\ at[c] \in Kiosks
    BY <1>0 DEF Locks, TypeOK
  <2>2. worker = "store" => wat # at[b] /\ wat \in Kiosks
    BY <1>0, Threads DEF Locks, TypeOK
  <2>3. \A c \in Buyers : buyer'[c] = "take" => c # b /\ buyer[c] = "take" /\ need'[c] = need[c]
    BY DEF Take, TypeOK
  <2> QED BY <1>2, <2>1, <2>2, <2>3 DEF Take, Reads, workerVars
<1>6. Ends'
  <2>1. \A c \in Buyers : /\ buyer'[c] \in {"satisfied", "returned"} =>
                                buyer'[c] = buyer[c] /\ need'[c] = need[c]
                          /\ buyer'[c] = "returned" <=> buyer[c] = "returned"
    BY DEF Take, TypeOK
  <2>2. Returned' = Returned
    BY <2>1 DEF Returned
  <2> QED BY <2>1, <2>2 DEF Take, Ends
<1>7. Counts'
  BY DEF Take, Counts, workerVars
<1>8. NothingIsLost'
  <2> DEFINE t == Total(goods)  u == Total(goods')  g == goods[at[b]]
  <2>1. t \in Int /\ g \in Int /\ u = t + (g - 1 - g) /\ bought' = bought + 1
        /\ UNCHANGED <<initial, loaded>> /\ t + bought = initial + loaded
    BY <1>0, <1>2, ShopAssumption DEF Take, workerVars, NothingIsLost
  <2> HIDE DEF t, u, g
  <2>2. u + bought' = initial' + loaded'
    BY <2>1 DEF Counts
  <2> QED BY <2>2 DEF NothingIsLost, u
<1> QED BY <1>3, <1>4, <1>5, <1>6, <1>7, <1>8

(* A buyer unlocks the kiosk: its need is met or the goods are gone. *)
LEMMA LeaveKioskStep ==
  ASSUME ShopInv, NEW b \in Buyers, LeaveKiosk(b)
  PROVE  ShopInv'
<1> USE DEF ShopInv
<1>0. buyer[b] = "inside" /\ owner[at[b]] = b
  BY DEF LeaveKiosk, Locks
<1>1. TypeOK'
  <2>1. 0 \in Kiosks
    BY ShopAssumption DEF Kiosks
  <2>2. /\ owner' \in [Kiosks -> Buyers \cup {Worker, Nobody}]
        /\ at' \in [Buyers -> Kiosks] /\ buyer' \in [Buyers -> BuyerPoints]
    BY <2>1 DEF LeaveKiosk, TypeOK, BuyerPoints
  <2> QED BY <2>2 DEF LeaveKiosk, TypeOK, BuyerPoints, workerVars
<1>2. Locks'
  <2>1. \A c \in Buyers : buyer'[c] \in {"inside", "take"} => c # b /\ buyer'[c] = buyer[c] /\ at'[c] = at[c]
    BY DEF LeaveKiosk, TypeOK
  <2>2. \A c \in Buyers : c # b /\ buyer[c] \in {"inside", "take"} =>
           owner'[at[c]] = c
    BY <1>0 DEF LeaveKiosk, TypeOK, Locks
  <2>3. worker \in {"unload", "store", "report"} => owner'[wat] = Worker
    BY <1>0, Threads DEF LeaveKiosk, TypeOK, Locks
  <2> QED BY <2>1, <2>2, <2>3 DEF LeaveKiosk, Locks, workerVars
<1>3. Reads'
  BY DEF LeaveKiosk, TypeOK, Reads, workerVars
<1>4. Ends'
  <2>1. \A c \in Buyers : /\ buyer'[c] \in {"satisfied", "returned"} => need[c] = 0
                          /\ buyer'[c] = "returned" <=> buyer[c] = "returned"
    BY <1>0 DEF LeaveKiosk, TypeOK, Ends, Satisfied
  <2>2. Returned' = Returned
    BY <2>1 DEF Returned
  <2> QED BY <2>1, <2>2 DEF LeaveKiosk, Ends
<1>5. Counts' /\ NothingIsLost'
  BY DEF LeaveKiosk, Counts, NothingIsLost, workerVars
<1> QED BY <1>1, <1>2, <1>3, <1>4, <1>5

(* buyers_done++ *)
LEMMA BuyerDoneStep ==
  ASSUME ShopInv, NEW b \in Buyers, BuyerDone(b)
  PROVE  ShopInv'
<1> USE DEF ShopInv
<1>0. buyer[b] = "satisfied" /\ need[b] = 0
  BY DEF BuyerDone, Ends
<1>1. Returned' = Returned \cup {b} /\ b \notin Returned
  BY <1>0 DEF BuyerDone, TypeOK, Returned
<1>2. IsFiniteSet(Buyers) /\ Returned \in SUBSET Buyers /\ Returned' \in SUBSET Buyers
  BY ShopAssumption DEF Returned
<1>3. buyers_done' = Cardinality(Returned') /\ buyers_done' \in 0 .. Cardinality(Buyers)
  <2>1. /\ IsFiniteSet(Returned) /\ IsFiniteSet(Returned')
        /\ Cardinality(Returned') <= Cardinality(Buyers)
    BY <1>2, FS_Subset
  <2>2. Cardinality(Returned') = Cardinality(Returned) + 1
    BY <1>1, <2>1, FS_AddElement
  <2>3. Cardinality(Returned') \in Nat /\ Cardinality(Buyers) \in Nat
    BY <1>2, <2>1, FS_CardinalityType
  <2>4. buyers_done' = Cardinality(Returned')
    BY <2>2 DEF BuyerDone, Ends
  <2> QED BY <2>1, <2>3, <2>4
<1>4. TypeOK'
  BY <1>3 DEF BuyerDone, TypeOK, workerVars, kioskVars
<1>5. Locks'
  BY DEF BuyerDone, TypeOK, Locks, workerVars, kioskVars
<1>6. Reads'
  BY DEF BuyerDone, TypeOK, Reads, workerVars, kioskVars
<1>7. Ends'
  <2>1. main' # "join_buyers" => Returned' = Buyers
    BY <1>1 DEF BuyerDone, Ends
  <2>2. \A c \in Buyers : buyer'[c] \in {"satisfied", "returned"} => need'[c] = 0
    BY <1>0 DEF BuyerDone, TypeOK, Ends
  <2> QED BY <1>3, <2>1, <2>2 DEF Ends
<1>8. Counts' /\ NothingIsLost'
  BY DEF BuyerDone, Counts, NothingIsLost, workerVars, kioskVars
<1> QED BY <1>4, <1>5, <1>6, <1>7, <1>8

-----------------------------------------------------------------------------
(* One lemma per step of the worker. *)

(* The worker draws a kiosk and tries its mutex. *)
LEMMA WorkerPickStep ==
  ASSUME ShopInv, NEW i \in Kiosks, WorkerPick(i)
  PROVE  ShopInv'
<1> USE DEF ShopInv
<1>1. TypeOK'
  BY DEF WorkerPick, TypeOK, buyerVars
<1>2. Locks'
  <2>1. CASE Free(i)
    BY <2>1, Threads DEF WorkerPick, TypeOK, Locks, Free, buyerVars
  <2>2. CASE ~Free(i)
    BY <2>2 DEF WorkerPick, TypeOK, Locks, buyerVars
  <2> QED BY <2>1, <2>2
<1>3. Reads' /\ Ends'
  BY DEF WorkerPick, Reads, Ends, Returned, buyerVars
<1>4. Counts' /\ NothingIsLost'
  BY DEF WorkerPick, Counts, NothingIsLost, buyerVars
<1> QED BY <1>1, <1>2, <1>3, <1>4

(* The worker reads the goods of the kiosk it has locked. *)
LEMMA WorkerReadStep ==
  ASSUME ShopInv, WorkerRead
  PROVE  ShopInv'
<1> USE DEF ShopInv
<1>1. TypeOK'
  BY DEF WorkerRead, TypeOK, buyerVars, kioskVars
<1>2. Locks' /\ Reads' /\ Ends'
  BY DEF WorkerRead, Locks, Reads, Ends, Returned, buyerVars, kioskVars
<1>3. Counts' /\ NothingIsLost'
  BY DEF WorkerRead, Counts, NothingIsLost, buyerVars, kioskVars
<1> QED BY <1>1, <1>2, <1>3

(* goods += 200, of a kiosk that nobody else has touched. *)
LEMMA WorkerStoreStep ==
  ASSUME ShopInv, WorkerStore
  PROVE  ShopInv'
<1> USE DEF ShopInv
<1> DEFINE load == IF wseen <= MaxGoods THEN LOAD ELSE 0
           x == wseen + load
<1>0. /\ worker = "store" /\ owner[wat] = Worker /\ wat \in Kiosks /\ wseen = goods[wat]
      /\ wseen \in 0 .. MaxGoods + LOAD /\ load \in Nat
      /\ x \in 0 .. MaxGoods + LOAD
  BY ShopAssumption DEF WorkerStore, TypeOK, Locks, Reads
<1>1. goods' = [goods EXCEPT ![wat] = x] /\ loaded' = loaded + load
  BY DEF WorkerStore
<1> HIDE DEF load
<1>2. /\ goods' \in [Kiosks -> 0 .. MaxGoods + LOAD]
      /\ \A j \in Kiosks : j # wat => goods'[j] = goods[j]
      /\ Total(goods) \in Int
      /\ Total(goods') = Total(goods) + (x - goods[wat])
  <2> HIDE DEF x, ShopInv
  <2> QED BY <1>0, <1>1, GoodsStep, Zenon
<1>3. TypeOK'
  BY <1>2 DEF WorkerStore, TypeOK, buyerVars
<1>4. Locks'
  BY DEF WorkerStore, Locks, buyerVars
<1>5. Reads'
  <2>1. \A c \in Buyers : buyer[c] = "take" => at[c] # wat /\ at[c] \in Kiosks
    BY <1>0, Threads DEF Locks, TypeOK
  <2> QED BY <1>2, <2>1 DEF WorkerStore, Reads, buyerVars
<1>6. Ends'
  BY DEF WorkerStore, Ends, Returned, buyerVars
<1>7. Counts'
  BY <1>0, <1>1 DEF WorkerStore, Counts, buyerVars
<1>8. NothingIsLost'
  <2> DEFINE t == Total(goods)  u == Total(goods')
  <2>1. t \in Int /\ wseen \in Int /\ load \in Int /\ u = t + (wseen + load - wseen)
        /\ loaded' = loaded + load
        /\ UNCHANGED <<initial, bought>> /\ t + bought = initial + loaded
    BY <1>0, <1>1, <1>2, ShopAssumption DEF WorkerStore, buyerVars, NothingIsLost
  <2> HIDE DEF t, u
  <2>2. u + bought' = initial' + loaded'
    BY <2>1 DEF Counts
  <2> QED BY <2>2 DEF NothingIsLost, u
<1> QED BY <1>3, <1>4, <1>5, <1>6, <1>7, <1>8

(* The worker unlocks the kiosk it filled. *)
LEMMA WorkerUnlockStep ==
  ASSUME ShopInv, WorkerUnlock
  PROVE  ShopInv'
<1> USE DEF ShopInv
<1>1. TypeOK'
  BY DEF WorkerUnlock, TypeOK, buyerVars
<1>2. Locks'
  <2>1. owner[wat] = Worker
    BY DEF WorkerUnlock, Locks
  <2>2. \A c \in Buyers : buyer[c] \in {"inside", "take"} => owner'[at[c]] = c
    BY <2>1, Threads DEF WorkerUnlock, TypeOK, Locks
  <2> QED BY <2>2 DEF WorkerUnlock, Locks, buyerVars
<1>3. Reads' /\ Ends'
  BY DEF WorkerUnlock, Reads, Ends, Returned, buyerVars
<1>4. Counts' /\ NothingIsLost'
  BY DEF WorkerUnlock, Counts, NothingIsLost, buyerVars
<1> QED BY <1>1, <1>2, <1>3, <1>4

(* The smoke break and the cancellation points touch no kiosk. *)
LEMMA WorkerRestStep ==
  ASSUME ShopInv, WorkerCheck \/ WorkerCancelled
  PROVE  ShopInv'
<1> USE DEF ShopInv
<1>1. TypeOK'
  BY DEF WorkerCheck, WorkerCancelled, TypeOK, buyerVars, kioskVars
<1>2. Locks' /\ Reads' /\ Ends'
  BY DEF WorkerCheck, WorkerCancelled, Locks, Reads, Ends, Returned, buyerVars, kioskVars
<1>3. Counts' /\ NothingIsLost'
  BY DEF WorkerCheck, WorkerCancelled, Counts, NothingIsLost, buyerVars, kioskVars
<1> QED BY <1>1, <1>2, <1>3

-----------------------------------------------------------------------------
(* main passes its joins. *)
LEMMA MainStepOK ==
  ASSUME ShopInv, MainStep
  PROVE  ShopInv'
<1> USE DEF ShopInv
<1>1. TypeOK'
  BY Zenon DEF MainStep, CancelWorker, JoinWorker, TypeOK, buyerVars, kioskVars, workerVars
<1>2. Locks' /\ Reads'
  BY DEF MainStep, CancelWorker, JoinWorker, Locks, Reads, buyerVars, kioskVars, workerVars
<1>3. Ends'
  <2>1. CASE CancelWorker
    <3>1. Returned = Buyers
      BY <2>1 DEF CancelWorker, Returned
    <3> QED BY <2>1, <3>1 DEF CancelWorker, Ends, Returned, buyerVars
  <2>2. CASE JoinWorker
    BY <2>2 DEF JoinWorker, Ends, Returned, buyerVars
  <2> QED BY <2>1, <2>2 DEF MainStep
<1>4. Counts' /\ NothingIsLost'
  BY DEF MainStep, CancelWorker, JoinWorker, Counts, NothingIsLost, buyerVars,
         kioskVars, workerVars
<1> QED BY <1>1, <1>2, <1>3, <1>4

(* Every step of every thread keeps the invariant. *)
LEMMA ShopStep == ShopInv /\ [Next]_vars => ShopInv'
<1> SUFFICES ASSUME ShopInv, [Next]_vars PROVE ShopInv'
  OBVIOUS
<1>1. ASSUME NEW b \in Buyers, BuyerStep(b) PROVE ShopInv'
  BY <1>1, TryKioskStep, LookAroundStep, TakeStep, LeaveKioskStep, BuyerDoneStep
     DEF BuyerStep
<1>2. CASE WorkerStep
  BY <1>2, WorkerPickStep, WorkerReadStep, WorkerStoreStep, WorkerUnlockStep,
     WorkerRestStep DEF WorkerStep
<1>3. CASE MainStep
  BY <1>3, MainStepOK
<1>4. CASE UNCHANGED vars
  BY <1>4 DEF vars, kioskVars, buyerVars, workerVars, ShopInv, TypeOK, Locks,
              Reads, Ends, Returned, Counts, NothingIsLost
<1> QED BY <1>1, <1>2, <1>3, <1>4 DEF Next

(* The inductive invariant holds in every run of the buyers and the worker. *)
LEMMA ShopInvariant == Spec => []ShopInv
BY ShopInit, ShopStep, PTL DEF Spec

(* No kiosk and no buyer ever goes below zero, and buyers_done is at most  *)
(* BUYERS, for every number of kiosks and buyers.                          *)
THEOREM ShopTypeCorrect == Spec => []TypeOK
<1>1. ShopInv => TypeOK
  BY DEF ShopInv
<1> QED BY <1>1, ShopInvariant, PTL

(* Reads and writes of goods interleave as they may: with trylock around   *)
(* them, what was there and what was unloaded is what is there and what    *)
(* was bought, in all kiosks together.                                     *)
THEOREM GoodsAreConserved == Spec => []NothingIsLost
<1>1. ShopInv => NothingIsLost
  BY DEF ShopInv
<1> QED BY <1>1, ShopInvariant, PTL

(* "All buyers' needs were met" is printed only when it is true.           *)
THEOREM LastLineIsTrue == Spec => []NeedsWereMet
<1>1. ShopInv => NeedsWereMet
  <2> SUFFICES ASSUME ShopInv, main = "returned", NEW b \in Buyers PROVE need[b] = 0
    BY DEF NeedsWereMet
  <2>1. buyer[b] = "returned"
    BY DEF ShopInv, Ends, Returned
  <2> QED BY <2>1 DEF ShopInv, Ends
<1> QED BY <1>1, ShopInvariant, PTL
=============================================================================
