---------------------------- MODULE ThreadsShop ----------------------------
(***************************************************************************)
(* threads_shop: buyers empty kiosks until their need is met, a worker     *)
(* fills kiosks chosen at random, main waits for the buyers and cancels    *)
(* the worker.  Kiosks are entered with pthread_mutex_trylock only.        *)
(*                                                                         *)
(* goods-- and goods += 200 are a read and a write of their own, so that   *)
(* the mutexes matter.  sleep() is left out: a sleeping thread is one that *)
(* is not scheduled.                                                       *)
(***************************************************************************)
EXTENDS Integers, FiniteSets, FiniteSetsExt

CONSTANTS
  KIOSKS,        \* number of kiosks
  Buyers,        \* the BUYERS buyer threads
  Needs,         \* what a buyer may need
  InitialGoods,  \* what a kiosk may hold at the start
  LOAD,          \* what the worker unloads, 200 in the code
  MaxGoods       \* bound: the worker passes by a kiosk with more than this

ASSUME ShopAssumption ==
  /\ KIOSKS \in Nat \ {0} /\ LOAD \in Nat /\ MaxGoods \in Nat
  /\ IsFiniteSet(Buyers)
  /\ Needs \subseteq Nat \ {0} /\ \E m \in Needs : \A n \in Needs : n <= m
  /\ InitialGoods \subseteq 0 .. MaxGoods + LOAD

VARIABLES
  goods, owner,       \* the kiosks; owner is the thread holding the mutex
  need, seen,         \* [Buyers -> Int]: need; the goods read last
  at,                 \* [Buyers -> the loop index i]
  buyer,              \* control points of the buyers
  worker, wat, wseen, \* the worker: control point, its index, the goods read
  cancelled,          \* pthread_cancel(worker) was called
  main,
  buyers_done,
  bought, loaded, initial  \* history: goods sold, unloaded, there at first

kioskVars  == <<goods, owner>>
buyerVars  == <<need, seen, at, buyer, bought>>
workerVars == <<worker, wat, wseen, loaded>>
vars == <<kioskVars, buyerVars, workerVars, cancelled, main, buyers_done, initial>>

Kiosks == 0 .. KIOSKS - 1
Worker == "worker"
Nobody == "nobody"
ASSUME ThreadAssumption == Buyers \cap {Worker, Nobody} = {}

(* What the kiosks hold together. *)
Total(f) ==
  LET sum[n \in 0 .. KIOSKS] == IF n = 0 THEN 0 ELSE sum[n - 1] + f[n - 1]
  IN  sum[KIOSKS]

Init ==
  /\ goods \in [Kiosks -> InitialGoods]
  /\ owner = [i \in Kiosks |-> Nobody]
  /\ need \in [Buyers -> Needs]
  /\ seen = [b \in Buyers |-> 0]
  /\ at = [b \in Buyers |-> 0]
  /\ buyer = [b \in Buyers |-> "street"]
  /\ bought = 0
  /\ worker = "top"
  /\ wat = 0
  /\ wseen = 0
  /\ loaded = 0
  /\ cancelled = FALSE
  /\ main = "join_buyers"
  /\ buyers_done = 0
  /\ initial = Total(goods)

-----------------------------------------------------------------------------
(* pthread_mutex_trylock succeeds. *)
FreeAnyway(i) == TRUE  \* mutant: its result is not tested
Free(i) == owner[i] = Nobody

(* The for loop over the kiosks: enter the first free one; after a round   *)
(* without one, sleep and start again.                                     *)
TryKiosk(b) ==
  /\ buyer[b] = "street"
  /\ need[b] > 0
  /\ \/ /\ Free(at[b])
        /\ owner' = [owner EXCEPT ![at[b]] = b]
        /\ buyer' = [buyer EXCEPT ![b] = "inside"]
        /\ UNCHANGED at
     \/ /\ ~Free(at[b])
        /\ at' = [at EXCEPT ![b] = (@ + 1) % KIOSKS]
        /\ UNCHANGED <<owner, buyer>>
  /\ UNCHANGED <<goods, need, seen, bought, workerVars, cancelled, main,
                 buyers_done, initial>>

(* The test of the inner loop, which reads the goods. *)
LookAroundNeedOnly(b) ==  \* mutant: the goods are not tested
  /\ buyer[b] = "inside"
  /\ need[b] > 0
  /\ seen' = [seen EXCEPT ![b] = goods[at[b]]]
  /\ buyer' = [buyer EXCEPT ![b] = "take"]
  /\ UNCHANGED <<kioskVars, need, at, bought, workerVars, cancelled, main,
                 buyers_done, initial>>

LookAround(b) ==
  /\ buyer[b] = "inside"
  /\ goods[at[b]] > 0
  /\ need[b] > 0
  /\ seen' = [seen EXCEPT ![b] = goods[at[b]]]
  /\ buyer' = [buyer EXCEPT ![b] = "take"]
  /\ UNCHANGED <<kioskVars, need, at, bought, workerVars, cancelled, main,
                 buyers_done, initial>>

Take(b) ==
  /\ buyer[b] = "take"
  /\ goods' = [goods EXCEPT ![at[b]] = seen[b] - 1]
  /\ need' = [need EXCEPT ![b] = @ - 1]
  /\ bought' = bought + 1
  /\ buyer' = [buyer EXCEPT ![b] = "inside"]
  /\ UNCHANGED <<owner, seen, at, workerVars, cancelled, main, buyers_done,
                 initial>>

(* Unlock; with some need left the search starts again at kiosk 0. *)
SatisfiedAnyway(b) == TRUE  \* mutant: one visit is enough
Satisfied(b) == need[b] = 0

LeaveKiosk(b) ==
  /\ buyer[b] = "inside"
  /\ goods[at[b]] <= 0 \/ need[b] <= 0
  /\ owner' = [owner EXCEPT ![at[b]] = Nobody]
  /\ at' = [at EXCEPT ![b] = 0]
  /\ buyer' = [buyer EXCEPT ![b] = IF Satisfied(b) THEN "satisfied" ELSE "street"]
  /\ UNCHANGED <<goods, need, seen, bought, workerVars, cancelled, main,
                 buyers_done, initial>>

(* buyers_done++ under done_mutex, and return. *)
BuyerDone(b) ==
  /\ buyer[b] = "satisfied"
  /\ buyers_done' = buyers_done + 1
  /\ buyer' = [buyer EXCEPT ![b] = "returned"]
  /\ UNCHANGED <<kioskVars, need, seen, at, bought, workerVars, cancelled,
                 main, initial>>

-----------------------------------------------------------------------------
(* pthread_testcancel, rand() and trylock. *)
WorkerPick(i) ==
  /\ worker = "top"
  /\ ~cancelled
  /\ \/ /\ Free(i)
        /\ owner' = [owner EXCEPT ![i] = Worker]
        /\ wat' = i
        /\ worker' = "unload"
     \/ /\ ~Free(i)
        /\ worker' = "break"
        /\ UNCHANGED <<owner, wat>>
  /\ UNCHANGED <<goods, buyerVars, wseen, loaded, cancelled, main, buyers_done,
                 initial>>

WorkerRead ==
  /\ worker = "unload"
  /\ wseen' = goods[wat]
  /\ worker' = "store"
  /\ UNCHANGED <<kioskVars, buyerVars, wat, loaded, cancelled, main,
                 buyers_done, initial>>

WorkerStore ==
  /\ worker = "store"
  /\ LET load == IF wseen <= MaxGoods THEN LOAD ELSE 0 IN
       /\ goods' = [goods EXCEPT ![wat] = wseen + load]
       /\ loaded' = loaded + load
  /\ worker' = "report"
  /\ UNCHANGED <<owner, buyerVars, wat, wseen, cancelled, main, buyers_done,
                 initial>>

WorkerUnlock ==
  /\ worker = "report"
  /\ owner' = [owner EXCEPT ![wat] = Nobody]
  /\ worker' = "break"
  /\ UNCHANGED <<goods, buyerVars, wat, wseen, loaded, cancelled, main,
                 buyers_done, initial>>

(* After the break: the test of buyers_done. *)
AnyDone == buyers_done > 0  \* mutant
AllDone == buyers_done = Cardinality(Buyers)

WorkerCheck ==
  /\ worker = "break"
  /\ worker' = IF AllDone THEN "returned" ELSE "top"
  /\ UNCHANGED <<kioskVars, buyerVars, wat, wseen, loaded, cancelled, main,
                 buyers_done, initial>>

(* The cancellation points: pthread_testcancel, sleep and the two printf,  *)
(* one of them inside the kiosk.                                           *)
WorkerCancelled ==
  /\ cancelled
  /\ worker \in {"top", "report", "break"}
  /\ worker' = "returned"
  /\ UNCHANGED <<kioskVars, buyerVars, wat, wseen, loaded, cancelled, main,
                 buyers_done, initial>>

-----------------------------------------------------------------------------
CancelWorker ==
  /\ main = "join_buyers"
  /\ \A b \in Buyers : buyer[b] = "returned"
  /\ cancelled' = TRUE
  /\ main' = "join_worker"
  /\ UNCHANGED <<kioskVars, buyerVars, workerVars, buyers_done, initial>>

JoinWorker ==
  /\ main = "join_worker"
  /\ worker = "returned"
  /\ main' = "returned"
  /\ UNCHANGED <<kioskVars, buyerVars, workerVars, cancelled, buyers_done,
                 initial>>

BuyerStep(b) == \/ TryKiosk(b) \/ LookAround(b) \/ Take(b) \/ LeaveKiosk(b)
                \/ BuyerDone(b)
WorkerStep == \/ \E i \in Kiosks : WorkerPick(i)
              \/ WorkerRead \/ WorkerStore \/ WorkerUnlock \/ WorkerCheck
              \/ WorkerCancelled
MainStep == CancelWorker \/ JoinWorker

Next == (\E b \in Buyers : BuyerStep(b)) \/ WorkerStep \/ MainStep

Spec == Init /\ [][Next]_vars

(* Every thread is scheduled.  A visit is short and buyers and worker sleep *)
(* for seconds between two of them, so trylock does not fail for ever: a    *)
(* buyer that comes to free kiosks again and again enters one, and while    *)
(* the worker works, rand() picks every kiosk again and again at a time     *)
(* when it is free (strong fairness would not do: a buyer could be inside   *)
(* at every pick).                                                          *)
Enters(b) == Free(at[b]) /\ TryKiosk(b)
FindsFree(i) == Free(i) /\ WorkerPick(i)
FairSpec == /\ Spec
            /\ \A b \in Buyers : WF_vars(BuyerStep(b)) /\ SF_vars(Enters(b))
            /\ WF_vars(WorkerStep)
            /\ \A i \in Kiosks : []<><<FindsFree(i)>>_vars \/ <>[](worker = "returned")
            /\ WF_vars(MainStep)

-----------------------------------------------------------------------------
(* Every variable stays in its type; no kiosk and no buyer goes below zero,  *)
(* which the inner loop of buyer_thread relies on.                          *)
TypeOK ==
  /\ goods \in [Kiosks -> 0 .. MaxGoods + LOAD]
  /\ owner \in [Kiosks -> Buyers \cup {Worker, Nobody}]
  /\ need \in [Buyers -> 0 .. Max(Needs)]
  /\ seen \in [Buyers -> 0 .. MaxGoods + LOAD]
  /\ at \in [Buyers -> Kiosks]
  /\ buyer \in [Buyers -> {"street", "inside", "take", "satisfied", "returned"}]
  /\ worker \in {"top", "unload", "store", "report", "break", "returned"}
  /\ wat \in Kiosks
  /\ wseen \in 0 .. MaxGoods + LOAD
  /\ cancelled \in BOOLEAN
  /\ main \in {"join_buyers", "join_worker", "returned"}
  /\ buyers_done \in 0 .. Cardinality(Buyers)

(* Goods are neither lost nor conjured up: what is in the kiosks and what   *)
(* was bought is what was there at first and what the worker brought.  The  *)
(* mutexes of the kiosks are what makes the increments and decrements safe. *)
NothingIsLost == Total(goods) + bought = initial + loaded

(* main.c: "All buyers' needs were met" is true when it is printed.         *)
NeedsWereMet == main = "returned" => \A b \in Buyers : need[b] = 0

(* The shop closes: every buyer gets what it needs although it always tries *)
(* the kiosks in the same order, and main gets past both joins.             *)
ShopCloses == <>(main = "returned")
=============================================================================
