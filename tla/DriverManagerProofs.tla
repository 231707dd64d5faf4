------------------------ MODULE DriverManagerProofs ------------------------
(***************************************************************************)
(* Safety of DriverManager for every number of slots, every set of process *)
(* ids and task times and every clock resolution.                          *)
(***************************************************************************)
EXTENDS DriverManager, SequenceTheorems, TLAPS

(* Who owns what: the facts that relate the table, the processes and the   *)
(* manager's position in create_driver and terminate_all.                  *)
Ownership ==
  /\ \A p \in Pids : InLoop(p) => Holds(idx[p], p)
  /\ \A i, j \in Slots : active[i] /\ active[j] /\ pid[i] = pid[j] => i = j
  /\ \A i \in Slots : active[i] => pid[i] \in Pids /\ proc[pid[i]] # "unborn"
  /\ mgr = "register" =>
       ~active[arg.slot] /\ proc[arg.pid] # "unborn" /\ ~Registered(arg.pid)
  /\ \A p \in Pids : Live(p) => \/ Registered(p)
                                \/ mgr = "register" /\ arg.pid = p
  /\ mgr = "reap" => \A i \in Slots : i < cursor => ~active[i]
  /\ mgr = "done" => \A i \in Slots : ~active[i]

(* A notification that epoll_wait reported is still there when it is read. *)
EventsReported ==
  \A p \in Pids :
     /\ proc[p] = "work" /\ batch[p] # <<"tfd">> => event[p]
     /\ proc[p] \in {"accept", "arm"} => batch[p] \in {<<"efd">>, <<"efd", "tfd">>}

(* find_slot returns a slot of the driver, or NoSlot if there is none. *)
LEMMA FindSlot ==
  ASSUME NEW p \in Pids
  PROVE  /\ find_slot(p) # NoSlot => find_slot(p) \in Slots /\ Holds(find_slot(p), p)
         /\ Registered(p) => find_slot(p) # NoSlot
<1>1. CASE Registered(p)
  <2>1. PICK i \in Slots : Holds(i, p)
    BY <1>1 DEF Registered
  <2> DEFINE c == CHOOSE j \in Slots : Holds(j, p)
  <2>2. c \in Slots /\ Holds(c, p)
    BY <2>1
  <2>3. find_slot(p) = c
    BY <1>1 DEF find_slot
  <2>4. c # NoSlot
    BY <2>2, SlotsAssumption DEF Slots, NoSlot
  <2> QED BY <2>2, <2>3, <2>4
<1>2. CASE ~Registered(p)
  BY <1>2 DEF find_slot
<1> QED BY <1>1, <1>2


(* The batch left after one event has been handled. *)
LEMMA TailOfBatch ==
  ASSUME NEW b \in Batches
  PROVE  /\ b # <<>>
         /\ Len(b) = 1 => Tail(b) = <<>>
         /\ Len(b) # 1 => Tail(b) \in {<<"efd">>, <<"tfd">>}
         /\ b = <<"efd", "tfd">> => Len(b) # 1 /\ Tail(b) = <<"tfd">>
         /\ b = <<"tfd", "efd">> => Len(b) # 1 /\ Tail(b) = <<"efd">>
<1>1. ASSUME b \in {<<"efd">>, <<"tfd">>} PROVE Len(b) = 1 /\ Tail(b) = <<>>
  <2>1. b \in Seq({"efd", "tfd"}) /\ b # <<>> /\ Len(b) = 1
    <3>1. CASE b = <<"efd">>
      BY <3>1
    <3>2. CASE b = <<"tfd">>
      BY <3>2
    <3> QED BY <1>1, <3>1, <3>2
  <2>2. Tail(b) \in Seq({"efd", "tfd"}) /\ Len(Tail(b)) = 0
    BY <2>1, HeadTailProperties
  <2> QED BY <2>1, <2>2, EmptySeq
<1>2. b = <<"efd", "tfd">> => Len(b) = 2 /\ Tail(b) = <<"tfd">>
  OBVIOUS
<1>3. b = <<"tfd", "efd">> => Len(b) = 2 /\ Tail(b) = <<"efd">>
  OBVIOUS
<1> QED BY <1>1, <1>2, <1>3 DEF Batches

(* A task of at least one second keeps the driver busy for a while. *)
LEMMA BusyTicksNat ==
  ASSUME TypeOK, NEW t \in TaskTimes
  PROVE  /\ TimerTicks(t) \in Nat
         /\ BusyTicks(t) \in Nat
         /\ BusyTicks(t) <= TimerTicks(t)
<1>1. phase \in Nat /\ phase < TicksPerSecond /\ TicksPerSecond \in Nat
  BY TimeAssumption DEF TypeOK
<1>2. t \in Nat /\ t >= 1
  BY TimeAssumption
<1>3. t * TicksPerSecond \in Nat /\ t * TicksPerSecond >= TicksPerSecond
  BY <1>1, <1>2
<1> QED BY <1>1, <1>3 DEF TimerTicks, BusyTicks

(* The table init_shm leaves behind has the right types. *)
LEMMA TypeInit == Init => TypeOK
<1> SUFFICES ASSUME Init PROVE TypeOK
  OBVIOUS
<1> USE SlotsAssumption, TimeAssumption DEF Init, Slots, NoSlot, NoPid
<1> QED BY DEF TypeOK, InLoop, Control, AVAILABLE, BUSY

(* Every step keeps the types. *)
LEMMA TypeStep == TypeOK /\ [Next]_vars => TypeOK'
<1> SUFFICES ASSUME TypeOK, [Next]_vars PROVE TypeOK'
  OBVIOUS
<1> USE DEF TypeOK, slotVars, driverVars, mgrVars
<1>1. ASSUME NEW p \in Pids, ForkDriver(p) PROVE TypeOK'
  BY <1>1, TimeAssumption DEF ForkDriver, InLoop, Control
<1>2. ASSUME NEW p \in Pids, NEW t \in TaskTimes, CheckTask(p, t) PROVE TypeOK'
  BY <1>2, FindSlot DEF CheckTask, InLoop
<1>3. CASE Exit
  BY <1>3, SlotsAssumption DEF Exit, InLoop
<1>4. CASE RegisterDriver
  BY <1>4 DEF RegisterDriver, InLoop, AVAILABLE
<1>5. CASE SetTask
  BY <1>5 DEF SetTask, InLoop
<1>6. CASE NotifyDriver
  <2>1. event' \in [Pids -> BOOLEAN]
    BY <1>6 DEF NotifyDriver
  <2>2. sent' \in [Pids -> Nat]
    <3> DEFINE q == arg.pid
    <3>1. q \in Pids /\ sent' = [sent EXCEPT ![q] = sent[q] + 1]
      BY <1>6 DEF NotifyDriver
    <3> HIDE DEF q
    <3> QED BY <3>1
  <2> QED BY <1>6, <2>1, <2>2 DEF NotifyDriver, InLoop
<1>7. CASE KillDriver
  <2>1. event_fd' \in [Slots -> BOOLEAN]
    BY <1>7 DEF KillDriver
  <2>2. sigterm' \in [Pids -> BOOLEAN]
    BY <1>7 DEF KillDriver
  <2>3. cursor' \in 0 .. MAX_DRIVERS
    BY <1>7, SlotsAssumption DEF KillDriver
  <2> QED BY <1>7, <2>1, <2>2, <2>3 DEF KillDriver, InLoop
<1>8. CASE StartReaping
  BY <1>8, SlotsAssumption DEF StartReaping, InLoop
<1>9. CASE ReapDriver
  <2>1. cursor' \in 0 .. MAX_DRIVERS
    BY <1>9, SlotsAssumption DEF ReapDriver
  <2> QED BY <1>9, <2>1 DEF ReapDriver, InLoop
<1>10. CASE Cleanup
  BY <1>10 DEF Cleanup, InLoop
<1>11. ASSUME NEW p \in Pids, Attach(p) PROVE TypeOK'
  <2>1. /\ idx' \in [Pids -> Slots \cup {NoSlot}]
        /\ proc' \in [Pids -> Control]
        /\ \A q \in Pids : InLoop(q)' => idx'[q] \in Slots
        /\ \A q \in Pids : proc'[q] \in {"work", "accept", "arm"} => proc[q] = proc'[q]
    <3>1. CASE find_slot(p) # NoSlot /\ idx' = [idx EXCEPT ![p] = find_slot(p)]
                  /\ proc' = [proc EXCEPT ![p] = "wait"]
      <4>1. find_slot(p) \in Slots
        BY <3>1, FindSlot
      <4> QED BY <3>1, <4>1 DEF InLoop, Control
    <3>2. CASE proc' = [proc EXCEPT ![p] = "dead"] /\ UNCHANGED idx
      BY <3>2 DEF InLoop, Control
    <3> QED BY <1>11, <3>1, <3>2 DEF Attach
  <2> QED BY <1>11, <2>1 DEF Attach
<1>12. ASSUME NEW p \in Pids, EpollWait(p) PROVE TypeOK'
  <2>1. /\ batch' \in [Pids -> Batches \cup {<<>>}]
        /\ proc' \in [Pids -> Control]
        /\ \A q \in Pids : InLoop(q)' => InLoop(q)
        /\ \A q \in Pids : proc'[q] \in {"work", "accept", "arm"} => batch'[q] # <<>>
    <3>1. CASE SyscallsMayFail /\ proc' = [proc EXCEPT ![p] = "dead"] /\ UNCHANGED batch
      BY <3>1 DEF InLoop, Control
    <3>2. ASSUME NEW b \in Batches, batch' = [batch EXCEPT ![p] = b],
                 proc' = [proc EXCEPT ![p] = "work"], proc[p] = "wait"
          PROVE  /\ batch' \in [Pids -> Batches \cup {<<>>}]
                 /\ proc' \in [Pids -> Control]
                 /\ \A q \in Pids : InLoop(q)' => InLoop(q)
                 /\ \A q \in Pids : proc'[q] \in {"work", "accept", "arm"}
                                       => batch'[q] # <<>>
      BY <3>2, TailOfBatch DEF InLoop, Control
    <3> QED BY <1>12, <3>1, <3>2 DEF EpollWait
  <2> QED BY <1>12, <2>1 DEF EpollWait
<1>13. ASSUME NEW p \in Pids, ReadEvent(p) PROVE TypeOK'
  BY <1>13 DEF ReadEvent, EventAfterRead, InLoop, Control
<1>14. ASSUME NEW p \in Pids, NextEvent(p), proc[p] \in {"work", "accept", "arm"}
       PROVE  /\ batch' \in [Pids -> Batches \cup {<<>>}]
              /\ proc' \in [Pids -> Control]
              /\ \A q \in Pids : proc'[q] \in {"work", "accept", "arm"} => batch'[q] # <<>>
              /\ \A q \in Pids : InLoop(q)' <=> InLoop(q)
  BY <1>14, TailOfBatch DEF NextEvent, InLoop, Control, Batches
<1>15. ASSUME NEW p \in Pids, AcceptTask(p) PROVE TypeOK'
  <2>1. CASE MayAccept(p)
    <3>1. idx[p] \in Slots /\ task_timer[idx[p]] \in TaskTimes
      BY <1>15, <2>1 DEF AcceptTask, MayAccept, InLoop
    <3>2. BusyTicks(task_timer[idx[p]]) \in Nat
      BY <3>1, BusyTicksNat
    <3>3. state' \in [Slots -> {AVAILABLE, BUSY}] /\ proc' \in [Pids -> Control]
      BY <1>15, <2>1 DEF AcceptTask, Control
    <3>4. task_time' \in [Pids -> TaskTimes \cup {0}]
      BY <1>15, <2>1, <3>1 DEF AcceptTask
    <3>5. busy_until' \in [Slots -> Nat]
      <4> DEFINE b == BusyTicks(task_timer[idx[p]])
      <4>1. b \in Nat /\ busy_until \in [Slots -> Nat]
            /\ busy_until' = [busy_until EXCEPT ![idx[p]] = b]
        BY <1>15, <2>1, <3>2 DEF AcceptTask
      <4> HIDE DEF b, TypeOK
      <4> QED BY <4>1
    <3> QED BY <1>15, <2>1, <3>3, <3>4, <3>5 DEF AcceptTask, InLoop
  <2>2. CASE ~MayAccept(p)
    BY <1>14, <1>15, <2>2 DEF AcceptTask
  <2> QED BY <2>1, <2>2
<1>16. ASSUME NEW p \in Pids, ArmTimer(p) PROVE TypeOK'
  <2> DEFINE t == task_time[p]
  <2>1. t \in Nat /\ TicksPerSecond \in Nat
    <3>1. t \in TaskTimes \cup {0}
      OBVIOUS
    <3> HIDE DEF t
    <3> QED BY <3>1, TimeAssumption
  <2>2. TimerTicks(t) \in Nat
    <3> HIDE DEF t
    <3> QED BY <2>1 DEF TimerTicks
  <2>3. timer' \in [Pids -> Nat \cup {-1}]
    BY <1>16, <2>2 DEF ArmTimer
  <2> QED BY <1>14, <1>16, <2>3 DEF ArmTimer
<1>17. ASSUME NEW p \in Pids, FinishTask(p) PROVE TypeOK'
  <2>1. timer' \in [Pids -> Nat \cup {-1}] /\ done' \in [Pids -> Nat]
    BY <1>17 DEF FinishTask
  <2>2. state' \in [Slots -> {AVAILABLE, BUSY}] /\ busy_until' \in [Slots -> Nat]
    BY <1>17 DEF FinishTask
  <2> QED BY <1>14, <1>17, <2>1, <2>2 DEF FinishTask
<1>18. ASSUME NEW p \in Pids, Die(p) PROVE TypeOK'
  BY <1>18 DEF Die, InLoop, Control
<1>19. CASE Tick
  <2>1. phase' \in 0 .. TicksPerSecond - 1
    BY <1>19, TimeAssumption DEF Tick
  <2>2. timer' \in [Pids -> Nat \cup {-1}] /\ busy_until' \in [Slots -> Nat]
    BY <1>19 DEF Tick
  <2> QED BY <1>19, <2>1, <2>2 DEF Tick, InLoop
<1>20. CASE UNCHANGED vars
  BY <1>20 DEF vars, InLoop
<1> QED
  BY <1>1, <1>2, <1>3, <1>4, <1>5, <1>6, <1>7, <1>8, <1>9, <1>10, <1>11, <1>12,
     <1>13, <1>15, <1>16, <1>17, <1>18, <1>19, <1>20
     DEF Next, UserCommand, ManagerStep, DriverStep

(* Every variable keeps its type; above all, a driver in its loop has a     *)
(* slot index and a driver handling an event has one left in its batch.     *)
THEOREM TypeCorrect == Spec => []TypeOK
<1> QED BY TypeInit, TypeStep, PTL DEF Spec

-----------------------------------------------------------------------------
(* Ownership is what makes terminate_all complete. *)
LEMMA OwnershipInit == Init => Ownership
<1> QED BY DEF Init, Ownership, InLoop, Live, Registered, Holds

(* No step breaks Ownership: create_driver takes a free slot, driver_loop   *)
(* only attaches to the slot of its own pid, terminate_all clears a slot    *)
(* only after its driver is dead.                                           *)
LEMMA OwnershipStep == TypeOK /\ Ownership /\ [Next]_vars => Ownership'
<1> SUFFICES ASSUME TypeOK, Ownership, [Next]_vars PROVE Ownership'
  OBVIOUS
<1> USE DEF slotVars, driverVars, mgrVars
(* Steps that touch neither the table's owners nor the manager's position,  *)
(* and change processes only within their loops or kill them.              *)
<1>1. ASSUME UNCHANGED <<active, pid, mgr, cursor, arg>>,
             \A p \in Pids : /\ InLoop(p)' => InLoop(p) /\ idx'[p] = idx[p]
                             /\ Live(p)' => Live(p)
                             /\ proc[p] # "unborn" => proc'[p] # "unborn"
      PROVE  Ownership'
  BY <1>1 DEF Ownership, Holds, Registered, TypeOK
<1>2. ASSUME NEW p \in Pids, ForkDriver(p) PROVE Ownership'
  BY <1>2 DEF ForkDriver, FirstFree, Ownership, Holds, Registered, InLoop, Live, TypeOK
<1>3. CASE RegisterDriver
  BY <1>3 DEF RegisterDriver, Ownership, Holds, Registered, InLoop, Live, TypeOK
<1>4. CASE ReapDriver
  <2>1. cursor \in Slots /\ active' = [active EXCEPT ![cursor] = FALSE]
    BY <1>4, SlotsAssumption DEF ReapDriver, TypeOK, Slots
  <2>2. \A p \in Pids : Live(p) => ~Holds(cursor, p)
    BY <1>4, <2>1 DEF ReapDriver, Reapable, Holds, Live
  <2>3. \A p \in Pids : \A i \in Slots : Holds(i, p)' <=> Holds(i, p) /\ i # cursor
    BY <1>4, <2>1 DEF ReapDriver, Holds, TypeOK
  <2>4. \A p \in Pids : Live(p) => Registered(p)'
    BY <1>4, <2>2, <2>3 DEF ReapDriver, Registered, Ownership
  <2>5. \A p \in Pids : InLoop(p) => Live(p) /\ active'[idx[p]] /\ pid'[idx[p]] = p
    BY <1>4, <2>1, <2>2 DEF ReapDriver, Holds, Ownership, InLoop, Live, TypeOK
  <2>6. \A i \in Slots : i < cursor' => ~active'[i]
    BY <1>4, <2>1 DEF ReapDriver, Ownership, TypeOK, Slots
  <2> QED
    BY <1>4, <2>1, <2>3, <2>4, <2>5, <2>6
       DEF ReapDriver, Ownership, Holds, InLoop, Live, TypeOK
<1>5. ASSUME NEW p \in Pids, Attach(p) PROVE Ownership'
  <2>1. CASE find_slot(p) # NoSlot /\ idx' = [idx EXCEPT ![p] = find_slot(p)]
                /\ proc' = [proc EXCEPT ![p] = "wait"]
    <3>1. find_slot(p) \in Slots /\ Holds(find_slot(p), p)
      BY <2>1, FindSlot
    <3>2. \A q \in Pids : InLoop(q)' => Holds(idx'[q], q)
      BY <2>1, <3>1 DEF Ownership, InLoop, TypeOK
    <3> QED
      BY <1>5, <2>1, <3>2 DEF Attach, Ownership, Holds, Registered, InLoop, Live, TypeOK
  <2>2. CASE proc' = [proc EXCEPT ![p] = "dead"] /\ UNCHANGED idx
    BY <1>1, <1>5, <2>2 DEF Attach, InLoop, Live, TypeOK
  <2> QED BY <1>5, <2>1, <2>2 DEF Attach
<1>6. CASE StartReaping \/ Cleanup \/ Exit
  <2> USE DEF Ownership, Holds, Registered, InLoop, Live
  <2>1. CASE StartReaping
    BY <2>1 DEF StartReaping, Slots
  <2>2. CASE Cleanup
    BY <2>2, SlotsAssumption DEF Cleanup, Slots
  <2>3. CASE Exit
    BY <2>3 DEF Exit
  <2> QED BY <1>6, <2>1, <2>2, <2>3
<1>7. ASSUME NEW p \in Pids, NEW t \in TaskTimes, CheckTask(p, t) PROVE Ownership'
  BY <1>7 DEF CheckTask, Ownership, Holds, Registered, InLoop, Live
<1>8. CASE SetTask \/ NotifyDriver
  BY <1>8 DEF SetTask, NotifyDriver, Ownership, Holds, Registered, InLoop, Live
<1>9. CASE KillDriver
  BY <1>9 DEF KillDriver, Ownership, Holds, Registered, InLoop, Live
<1>10. ASSUME NEW p \in Pids, EpollWait(p) \/ ReadEvent(p) \/ Die(p) PROVE Ownership'
  BY <1>1, <1>10 DEF EpollWait, ReadEvent, Die, InLoop, Live, TypeOK
<1>11. ASSUME NEW p \in Pids, AcceptTask(p) \/ ArmTimer(p) \/ FinishTask(p)
       PROVE  Ownership'
  BY <1>1, <1>11 DEF AcceptTask, ArmTimer, FinishTask, NextEvent, InLoop, Live, TypeOK
<1>12. CASE Tick
  BY <1>1, <1>12 DEF Tick, InLoop, Live
<1>13. CASE UNCHANGED vars
  BY <1>1, <1>13 DEF vars, InLoop, Live
<1> QED
  BY <1>2, <1>3, <1>4, <1>5, <1>6, <1>7, <1>8, <1>9, <1>10, <1>11, <1>12, <1>13
     DEF Next, UserCommand, ManagerStep, DriverStep

(* Every driver that runs is named by exactly one slot, or is the one that  *)
(* create_driver is about to register.                                      *)
THEOREM OwnershipInvariant == Spec => [](TypeOK /\ Ownership)
<1> QED BY TypeInit, TypeStep, OwnershipInit, OwnershipStep, PTL DEF Spec

(* Two drivers in their loops never share a slot. *)
THEOREM SlotsAreExclusive == Spec => []ExclusiveSlots
<1>1. TypeOK /\ Ownership => ExclusiveSlots
  BY DEF Ownership, ExclusiveSlots, Holds
<1> QED BY <1>1, OwnershipInvariant, PTL

(* After terminate_all no driver is left running. *)
THEOREM ShutdownIsComplete == Spec => []NoDriverOutlivesManager
<1>1. TypeOK /\ Ownership => NoDriverOutlivesManager
  BY DEF Ownership, NoDriverOutlivesManager, Registered, Holds
<1> QED BY <1>1, OwnershipInvariant, PTL

-----------------------------------------------------------------------------
(* No event has been reported before the first driver is forked. *)
LEMMA EventsInit == Init => EventsReported
<1> QED BY DEF Init, EventsReported

(* An event in a driver's batch was reported by epoll_wait and is still     *)
(* pending: only the driver itself reads its descriptors.                   *)
LEMMA EventsStep == TypeOK /\ EventsReported /\ [Next]_vars => EventsReported'
<1> SUFFICES ASSUME TypeOK, EventsReported, [Next]_vars PROVE EventsReported'
  OBVIOUS
<1> USE DEF slotVars, driverVars, mgrVars
(* A step that handles none of a driver's events. *)
<1>1. ASSUME \A q \in Pids : /\ event[q] => event'[q]
                             /\ \/ batch'[q] = batch[q] /\ proc'[q] = proc[q]
                                \/ proc'[q] \in {"starting", "wait", "dead"}
      PROVE  EventsReported'
  BY <1>1 DEF EventsReported
<1>2. ASSUME NEW p \in Pids, ReadEvent(p) PROVE EventsReported'
  <2>1. Head(<<"tfd">>) = "tfd" /\ Head(<<"tfd", "efd">>) = "tfd"
    OBVIOUS
  <2>2. batch[p] \in {<<"efd">>, <<"efd", "tfd">>}
    BY <1>2, <2>1 DEF ReadEvent, TypeOK, Batches
  <2> QED BY <1>2, <2>2 DEF ReadEvent, EventsReported, TypeOK
<1>3. ASSUME NEW p \in Pids, NextEvent(p), proc[p] \in {"work", "accept", "arm"}, UNCHANGED event
      PROVE  EventsReported'
  <2>1. batch[p] \in Batches
    BY <1>3 DEF TypeOK
  <2>2. proc'[p] = "work" => Tail(batch[p]) = <<"tfd">> \/ event[p]
    BY <1>3, <2>1, TailOfBatch DEF NextEvent, EventsReported, Batches, TypeOK
  <2>3. proc'[p] \in {"wait", "work"} /\ batch'[p] = Tail(batch[p])
    BY <1>3 DEF NextEvent, TypeOK
  <2>4. \A q \in Pids : q # p => proc'[q] = proc[q] /\ batch'[q] = batch[q]
    BY <1>3 DEF NextEvent, TypeOK
  <2> QED BY <1>3, <2>2, <2>3, <2>4 DEF EventsReported
<1>4. ASSUME NEW p \in Pids, EpollWait(p) PROVE EventsReported'
  <2>1. CASE proc' = [proc EXCEPT ![p] = "dead"] /\ UNCHANGED batch
    BY <1>1, <1>4, <2>1 DEF EpollWait, TypeOK
  <2>2. ASSUME NEW b \in Batches, {b[k] : k \in 1 .. Len(b)} = Ready(p),
               batch' = [batch EXCEPT ![p] = b], proc' = [proc EXCEPT ![p] = "work"]
        PROVE  EventsReported'
    <3>1. b # <<"tfd">> => "efd" \in {b[k] : k \in 1 .. Len(b)}
      <4>1. CASE b = <<"efd">>
        BY <4>1
      <4>2. CASE b = <<"efd", "tfd">>
        BY <4>2
      <4>3. CASE b = <<"tfd", "efd">>
        BY <4>3
      <4> QED BY <4>1, <4>2, <4>3 DEF Batches
    <3>2. b # <<"tfd">> => event[p]
      BY <2>2, <3>1 DEF Ready
    <3> QED BY <1>4, <2>2, <3>2 DEF EpollWait, EventsReported, TypeOK
  <2> QED BY <1>4, <2>1, <2>2 DEF EpollWait
<1>5. ASSUME NEW p \in Pids, AcceptTask(p) PROVE EventsReported'
  <2>1. CASE MayAccept(p)
    BY <1>5, <2>1 DEF AcceptTask, EventsReported, TypeOK
  <2>2. CASE ~MayAccept(p)
    BY <1>3, <1>5, <2>2 DEF AcceptTask
  <2> QED BY <2>1, <2>2
<1>6. ASSUME NEW p \in Pids, ArmTimer(p) \/ FinishTask(p) PROVE EventsReported'
  BY <1>3, <1>6 DEF ArmTimer, FinishTask
<1>7. ASSUME NEW p \in Pids, Attach(p) \/ Die(p) \/ ForkDriver(p) PROVE EventsReported'
  BY <1>1, <1>7 DEF Attach, Die, ForkDriver, TypeOK
<1>8. ASSUME NEW p \in Pids, NEW t \in TaskTimes, CheckTask(p, t) PROVE EventsReported'
  BY <1>1, <1>8 DEF CheckTask
<1>9. CASE NotifyDriver
  BY <1>1, <1>9 DEF NotifyDriver, TypeOK
<1>10. CASE RegisterDriver \/ SetTask \/ KillDriver \/ StartReaping
  BY <1>1, <1>10 DEF RegisterDriver, SetTask, KillDriver, StartReaping
<1>11. CASE ReapDriver \/ Cleanup \/ Exit \/ Tick \/ UNCHANGED vars
  BY <1>1, <1>11 DEF ReapDriver, Cleanup, Exit, Tick, vars
<1> QED
  BY <1>2, <1>4, <1>5, <1>6, <1>7, <1>8, <1>9, <1>10, <1>11
     DEF Next, UserCommand, ManagerStep, DriverStep

(* Each step that starts, arms or completes a task uses up a notification   *)
(* that send_task announced.                                                *)
LEMMA PhantomStep ==
  TypeOK /\ EventsReported /\ NoPhantomTask /\ [Next]_vars => NoPhantomTask'
<1> SUFFICES ASSUME TypeOK, EventsReported, NoPhantomTask, [Next]_vars,
                    NEW q \in Pids PROVE Accounted(q)'
  BY DEF NoPhantomTask
<1> USE DEF slotVars, driverVars, mgrVars, One, Accounted
<1>0. /\ Accounted(q)
      /\ done[q] \in Nat /\ sent[q] \in Nat /\ timer[q] \in Nat \cup {-1}
      /\ event[q] \in BOOLEAN
  BY DEF NoPhantomTask, TypeOK
<1>1. ASSUME UNCHANGED <<done, timer, sent>>, event'[q] = event[q],
             proc'[q] \in {"accept", "arm"} => proc[q] \in {"accept", "arm"} PROVE Accounted(q)'
  BY <1>0, <1>1
<1>2. CASE NotifyDriver
  BY <1>0, <1>2 DEF NotifyDriver, TypeOK
<1>3. ASSUME NEW p \in Pids, ReadEvent(p) PROVE Accounted(q)'
  <2>1. Head(<<"tfd">>) = "tfd" /\ Head(<<"tfd", "efd">>) = "tfd"
    OBVIOUS
  <2>2. event[p]
    BY <1>3, <2>1 DEF ReadEvent, EventsReported
  <2>3. CASE q = p
    BY <1>0, <1>3, <2>2, <2>3 DEF ReadEvent, EventAfterRead, TypeOK
  <2>4. CASE q # p
    BY <1>1, <1>3, <2>4 DEF ReadEvent, TypeOK
  <2> QED BY <2>3, <2>4
<1>4. ASSUME NEW p \in Pids, AcceptTask(p) PROVE Accounted(q)'
  BY <1>1, <1>4 DEF AcceptTask, NextEvent, TypeOK
<1>5. ASSUME NEW p \in Pids, ArmTimer(p) PROVE Accounted(q)'
  <2>1. CASE q = p
    BY <1>0, <1>5, <2>1 DEF ArmTimer, NextEvent, TypeOK
  <2>2. CASE q # p
    BY <1>0, <1>5, <2>2 DEF ArmTimer, NextEvent, TypeOK
  <2> QED BY <2>1, <2>2
<1>6. ASSUME NEW p \in Pids, FinishTask(p) PROVE Accounted(q)'
  <2>1. CASE q = p
    BY <1>0, <1>6, <2>1 DEF FinishTask, NextEvent, TypeOK
  <2>2. CASE q # p
    BY <1>0, <1>6, <2>2 DEF FinishTask, NextEvent, TypeOK
  <2> QED BY <2>1, <2>2
<1>7. CASE Tick
  <2>1. timer'[q] >= 0 <=> timer[q] >= 0
    <3>1. timer'[q] = IF timer[q] > 0 THEN timer[q] - 1 ELSE timer[q]
      BY <1>7 DEF Tick
    <3> QED BY <1>0, <3>1
  <2> QED BY <1>0, <1>7, <2>1 DEF Tick
<1>8. ASSUME NEW p \in Pids, Attach(p) \/ EpollWait(p) \/ Die(p) \/ ForkDriver(p) PROVE Accounted(q)'
  BY <1>1, <1>8 DEF Attach, EpollWait, Die, ForkDriver, TypeOK
<1>9. ASSUME NEW p \in Pids, NEW t \in TaskTimes, CheckTask(p, t) PROVE Accounted(q)'
  BY <1>1, <1>9 DEF CheckTask
<1>10. CASE RegisterDriver \/ SetTask \/ KillDriver \/ StartReaping
  BY <1>1, <1>10 DEF RegisterDriver, SetTask, KillDriver, StartReaping
<1>11. CASE ReapDriver \/ Cleanup \/ Exit \/ UNCHANGED vars
  BY <1>1, <1>11 DEF ReapDriver, Cleanup, Exit, vars
<1> QED
  BY <1>2, <1>3, <1>4, <1>5, <1>6, <1>7, <1>8, <1>9, <1>10, <1>11
     DEF Next, UserCommand, ManagerStep, DriverStep

(* A driver never runs a task nobody sent, whichever system calls fail. *)
THEOREM TasksComeFromUsers == Spec => []NoPhantomTask
<1>1. Init => NoPhantomTask
  BY DEF Init, NoPhantomTask, Accounted, One
<1> QED
  BY <1>1, TypeInit, TypeStep, EventsInit, EventsStep, PhantomStep, PTL DEF Spec

-----------------------------------------------------------------------------
(* The slot's busy_until never lies after the expiry of the timer that will *)
(* release it: while the timer runs, when it has expired, and while the     *)
(* driver is between its critical section and timerfd_settime.              *)
TimerCoversBusy ==
  /\ \A p \in Pids :
       /\ InLoop(p) /\ proc[p] # "arm" =>
            busy_until[idx[p]] <= IF timer[p] >= 0 THEN timer[p] ELSE 0
       /\ proc[p] = "arm" => busy_until[idx[p]] <= TimerTicks(task_time[p])
  /\ \A i \in Slots : active[i] /\ proc[pid[i]] = "starting" => busy_until[i] = 0

(* No driver is busy before the first one is forked. *)
LEMMA TimerInit == Init => TimerCoversBusy
<1> QED BY DEF Init, TimerCoversBusy, InLoop

(* The timer of driver_loop never expires before busy_until: it is armed    *)
(* after busy_until is set, for at least as long.                           *)
LEMMA TimerStep ==
  ASSUME ~SyscallsMayFail
  PROVE  TypeOK /\ Ownership /\ TimerCoversBusy /\ [Next]_vars => TimerCoversBusy'
<1> SUFFICES ASSUME TypeOK, Ownership, TimerCoversBusy, [Next]_vars
             PROVE  TimerCoversBusy'
  OBVIOUS
<1> USE DEF slotVars, driverVars, mgrVars
(* Steps that leave the clocks, the table and the running drivers alone. *)
<1>1. ASSUME UNCHANGED <<active, pid, busy_until, timer, idx, task_time>>,
             \A p \in Pids :
                /\ proc'[p] = "arm" => proc[p] = "arm"
                /\ InLoop(p)' /\ proc'[p] # "arm" => InLoop(p) /\ proc[p] # "arm"
                /\ proc'[p] = "starting" => proc[p] = "starting" \/ ~Registered(p)
      PROVE  TimerCoversBusy'
  BY <1>1 DEF TimerCoversBusy, Ownership, Registered, Holds
<1>2. ASSUME NEW p \in Pids, ForkDriver(p) PROVE TimerCoversBusy'
  <2>1. ~Registered(p)
    BY <1>2 DEF ForkDriver, Ownership, Registered, Holds
  <2> QED BY <1>1, <1>2, <2>1 DEF ForkDriver, InLoop, TypeOK
<1>3. CASE RegisterDriver
  <2>1. \A p \in Pids : InLoop(p) => idx[p] # arg.slot /\ idx[p] \in Slots
    BY <1>3 DEF RegisterDriver, Ownership, Holds, TypeOK
  <2> QED BY <1>3, <2>1 DEF RegisterDriver, TimerCoversBusy, InLoop, TypeOK
<1>4. CASE ReapDriver
  BY <1>4 DEF ReapDriver, TimerCoversBusy, InLoop, TypeOK
<1>5. ASSUME NEW p \in Pids, Attach(p) PROVE TimerCoversBusy'
  <2>1. CASE find_slot(p) # NoSlot /\ idx' = [idx EXCEPT ![p] = find_slot(p)]
                /\ proc' = [proc EXCEPT ![p] = "wait"]
    <3>1. find_slot(p) \in Slots /\ Holds(find_slot(p), p)
      BY <2>1, FindSlot
    <3>2. busy_until[find_slot(p)] = 0
      BY <1>5, <3>1 DEF Attach, Holds, TimerCoversBusy
    <3>3. timer[p] \in Nat \cup {-1}
      BY DEF TypeOK
    <3> QED
      BY <1>5, <2>1, <3>1, <3>2, <3>3 DEF Attach, TimerCoversBusy, InLoop, TypeOK
  <2>2. CASE proc' = [proc EXCEPT ![p] = "dead"] /\ UNCHANGED idx
    BY <1>1, <1>5, <2>2 DEF Attach, InLoop, TypeOK
  <2> QED BY <1>5, <2>1, <2>2 DEF Attach
(* The other drivers do not see a step of p: their slots are not p's. *)
<1>6. ASSUME NEW p \in Pids, InLoop(p), UNCHANGED <<active, pid, idx>>,
             \A i \in Slots : i # idx[p] => busy_until'[i] = busy_until[i],
             \A q \in Pids : q # p => /\ proc'[q] = proc[q] /\ timer'[q] = timer[q]
                                      /\ task_time'[q] = task_time[q],
             proc'[p] # "starting",
             proc'[p] = "arm" => busy_until'[idx[p]] <= TimerTicks(task_time'[p]),
             InLoop(p)' /\ proc'[p] # "arm" =>
                busy_until'[idx[p]] <= IF timer'[p] >= 0 THEN timer'[p] ELSE 0
      PROVE  TimerCoversBusy'
  <2>1. idx[p] \in Slots /\ active[idx[p]] /\ pid[idx[p]] = p
    BY <1>6 DEF Ownership, Holds, TypeOK
  <2>2. ASSUME NEW q \in Pids, InLoop(q), q # p PROVE idx[q] \in Slots /\ idx[q] # idx[p]
    <3>1. pid[idx[q]] = q
      BY <2>2 DEF Ownership, Holds
    <3>2. idx[q] \in Slots
      BY <2>2 DEF TypeOK
    <3> QED BY <2>1, <2>2, <3>1, <3>2
  <2>3. \A i \in Slots : active[i] /\ pid[i] # p => pid[i] \in Pids /\ i # idx[p]
    BY <2>1 DEF Ownership
  <2>4. ASSUME NEW q \in Pids, q # p
        PROVE  /\ InLoop(q)' <=> InLoop(q)
               /\ InLoop(q) => busy_until'[idx'[q]] = busy_until[idx[q]]
    BY <1>6, <2>2, <2>4 DEF InLoop
  <2>5. ASSUME NEW q \in Pids, q # p
        PROVE  /\ InLoop(q)' /\ proc'[q] # "arm" =>
                    busy_until'[idx'[q]] <= IF timer'[q] >= 0 THEN timer'[q] ELSE 0
               /\ proc'[q] = "arm" => busy_until'[idx'[q]] <= TimerTicks(task_time'[q])
    <3>1. proc[q] = "arm" => InLoop(q)
      BY DEF InLoop
    <3> QED BY <1>6, <2>4, <2>5, <3>1 DEF TimerCoversBusy
  <2>6. ASSUME NEW i \in Slots, active'[i], proc'[pid'[i]] = "starting"
        PROVE  busy_until'[i] = 0
    <3>1. pid[i] # p
      BY <1>6, <2>6
    <3>2. pid[i] \in Pids /\ i # idx[p]
      BY <1>6, <2>3, <2>6, <3>1
    <3> QED BY <1>6, <2>6, <3>1, <3>2 DEF TimerCoversBusy
  <2>7. /\ InLoop(p)' /\ proc'[p] # "arm" =>
             busy_until'[idx'[p]] <= IF timer'[p] >= 0 THEN timer'[p] ELSE 0
        /\ proc'[p] = "arm" => busy_until'[idx'[p]] <= TimerTicks(task_time'[p])
    BY <1>6
  <2> QED BY <2>5, <2>6, <2>7 DEF TimerCoversBusy
<1>7. ASSUME NEW p \in Pids, AcceptTask(p) PROVE TimerCoversBusy'
  <2>1. InLoop(p) /\ idx[p] \in Slots
    BY <1>7 DEF AcceptTask, InLoop, TypeOK
  <2>2. CASE MayAccept(p)
    <3>1. task_timer[idx[p]] \in TaskTimes
      BY <2>1, <2>2 DEF MayAccept, TypeOK
    <3>2. BusyTicks(task_timer[idx[p]]) <= TimerTicks(task_timer[idx[p]])
      BY <3>1, BusyTicksNat
    <3>3. /\ task_time'[p] = task_timer[idx[p]] /\ proc'[p] = "arm"
          /\ busy_until'[idx[p]] = BusyTicks(task_timer[idx[p]])
      BY <1>7, <2>1, <2>2 DEF AcceptTask, TypeOK
    <3> QED
      BY <1>6, <1>7, <2>1, <2>2, <3>2, <3>3 DEF AcceptTask, InLoop, TypeOK
  <2>3. CASE ~MayAccept(p)
    BY <1>1, <1>7, <2>1, <2>3 DEF AcceptTask, NextEvent, InLoop, TypeOK
  <2> QED BY <2>2, <2>3
<1>8. ASSUME NEW p \in Pids, ArmTimer(p) PROVE TimerCoversBusy'
  <2>1. InLoop(p) /\ busy_until[idx[p]] <= TimerTicks(task_time[p])
    BY <1>8 DEF ArmTimer, InLoop, TimerCoversBusy
  <2>2. timer'[p] = TimerTicks(task_time[p]) /\ proc'[p] \in {"wait", "work"}
    BY <1>8 DEF ArmTimer, NextEvent, TypeOK
  <2>3. idx[p] \in Slots /\ busy_until[idx[p]] \in Nat
    BY <2>1 DEF TypeOK
  <2>4. TimerTicks(task_time[p]) \in Int
    <3> DEFINE t == task_time[p]
    <3>1. t \in TaskTimes \cup {0}
      BY DEF TypeOK
    <3> HIDE DEF t
    <3>2. t \in Int /\ TicksPerSecond \in Int
      BY <3>1, TimeAssumption
    <3> QED BY <3>2 DEF TimerTicks, t
  <2>5. busy_until'[idx[p]] <= IF timer'[p] >= 0 THEN timer'[p] ELSE 0
    BY <1>8, <2>1, <2>2, <2>3, <2>4 DEF ArmTimer
  <2> QED BY <1>6, <1>8, <2>1, <2>2, <2>5 DEF ArmTimer, NextEvent, TypeOK
<1>9. ASSUME NEW p \in Pids, FinishTask(p) PROVE TimerCoversBusy'
  <2>1. InLoop(p) /\ idx[p] \in Slots /\ proc'[p] \in {"wait", "work"}
    BY <1>9 DEF FinishTask, NextEvent, InLoop, TypeOK
  <2>2. busy_until'[idx[p]] = 0 /\ timer'[p] = -1
    BY <1>9, <2>1 DEF FinishTask, TypeOK
  <2> QED BY <1>6, <1>9, <2>1, <2>2 DEF FinishTask, NextEvent, TypeOK
<1>10. CASE Tick
  <2>1. ASSUME NEW p \in Pids, InLoop(p)
        PROVE  /\ idx[p] \in Slots /\ busy_until[idx[p]] \in Nat /\ timer[p] \in Nat \cup {-1}
               /\ busy_until'[idx[p]] = IF busy_until[idx[p]] > 0 THEN busy_until[idx[p]] - 1 ELSE 0
               /\ timer'[p] = IF timer[p] > 0 THEN timer[p] - 1 ELSE timer[p]
    BY <1>10, <2>1 DEF Tick, TypeOK
  <2>2. ASSUME NEW p \in Pids, InLoop(p), proc[p] # "arm"
        PROVE  busy_until'[idx[p]] <= IF timer'[p] >= 0 THEN timer'[p] ELSE 0
    <3>1. busy_until[idx[p]] <= IF timer[p] >= 0 THEN timer[p] ELSE 0
      BY <2>2 DEF TimerCoversBusy
    <3> DEFINE u == busy_until[idx[p]]  t == timer[p]
    <3>2. u \in Nat /\ t \in Nat \cup {-1} /\ u <= IF t >= 0 THEN t ELSE 0
      BY <2>1, <2>2, <3>1
    <3>3. /\ busy_until'[idx[p]] = IF u > 0 THEN u - 1 ELSE 0
          /\ timer'[p] = IF t > 0 THEN t - 1 ELSE t
      BY <2>1, <2>2
    <3> HIDE DEF u, t
    <3> QED BY <3>2, <3>3
  <2>3. ASSUME NEW p \in Pids, proc[p] = "arm"
        PROVE  busy_until'[idx[p]] <= TimerTicks(task_time[p])
    <3> DEFINE t == TimerTicks(task_time[p])  u == busy_until[idx[p]]
    <3>1. InLoop(p) /\ u <= t
      BY <2>3 DEF InLoop, TimerCoversBusy
    <3>2. u \in Nat /\ busy_until'[idx[p]] \in {u, u - 1}
      BY <2>1, <3>1
    <3>3. t \in Int
      <4> DEFINE d == task_time[p]
      <4>1. d \in TaskTimes \cup {0}
        BY DEF TypeOK
      <4> HIDE DEF d
      <4>2. d \in Int /\ TicksPerSecond \in Int
        BY <4>1, TimeAssumption
      <4> QED BY <4>2 DEF TimerTicks, d
    <3> HIDE DEF t, u
    <3>4. busy_until'[idx[p]] <= t
      BY <3>1, <3>2, <3>3
    <3> QED BY <3>4 DEF t
  <2>4. \A i \in Slots : busy_until[i] = 0 => busy_until'[i] = 0
    BY <1>10 DEF Tick
  <2> QED BY <1>10, <2>2, <2>3, <2>4 DEF Tick, TimerCoversBusy, InLoop
<1>11. ASSUME NEW p \in Pids, EpollWait(p) \/ ReadEvent(p) \/ Die(p)
       PROVE  TimerCoversBusy'
  BY <1>1, <1>11 DEF EpollWait, ReadEvent, Die, InLoop, TypeOK
<1>12. ASSUME NEW p \in Pids, NEW t \in TaskTimes, CheckTask(p, t)
       PROVE  TimerCoversBusy'
  BY <1>1, <1>12 DEF CheckTask, InLoop
<1>13. CASE SetTask \/ NotifyDriver \/ KillDriver \/ StartReaping
  BY <1>1, <1>13 DEF SetTask, NotifyDriver, KillDriver, StartReaping, InLoop
<1>14. CASE Cleanup \/ Exit \/ UNCHANGED vars
  BY <1>1, <1>14 DEF Cleanup, Exit, vars, InLoop
<1> QED
  BY <1>2, <1>3, <1>4, <1>5, <1>7, <1>8, <1>9, <1>10, <1>11, <1>12, <1>13, <1>14
     DEF Next, UserCommand, ManagerStep, DriverStep

(* A slot that create_driver may take has never been busy. *)
IdleWhenFree ==
  mgr \notin {"reap", "done"} => \A i \in Slots : ~active[i] => state[i] = AVAILABLE

(* A slot that create_driver may hand out is AVAILABLE: it was never used,  *)
(* since terminate_all alone clears `active'.                               *)
LEMMA IdleStep == TypeOK /\ Ownership /\ IdleWhenFree /\ [Next]_vars => IdleWhenFree'
<1> SUFFICES ASSUME TypeOK, Ownership, IdleWhenFree, [Next]_vars PROVE IdleWhenFree'
  OBVIOUS
<1> USE DEF slotVars, driverVars, mgrVars
<1>1. ASSUME UNCHANGED <<active, state>>, mgr \in {"reap", "done"} => mgr' \in {"reap", "done"}
      PROVE  IdleWhenFree'
  BY <1>1 DEF IdleWhenFree
<1>2. CASE RegisterDriver
  BY <1>2 DEF RegisterDriver, IdleWhenFree, TypeOK
<1>3. CASE ReapDriver
  BY <1>3 DEF ReapDriver, IdleWhenFree
<1>4. ASSUME NEW p \in Pids, AcceptTask(p) PROVE IdleWhenFree'
  BY <1>4 DEF AcceptTask, IdleWhenFree, Ownership, Holds, InLoop, TypeOK
<1>5. ASSUME NEW p \in Pids, FinishTask(p) PROVE IdleWhenFree'
  BY <1>5 DEF FinishTask, IdleWhenFree, TypeOK
<1>6. ASSUME NEW p \in Pids, ForkDriver(p) \/ Attach(p) \/ EpollWait(p) \/ ReadEvent(p)
                             \/ ArmTimer(p) \/ Die(p)
      PROVE  IdleWhenFree'
  BY <1>1, <1>6 DEF ForkDriver, Attach, EpollWait, ReadEvent, ArmTimer, Die
<1>7. ASSUME NEW p \in Pids, NEW t \in TaskTimes, CheckTask(p, t) PROVE IdleWhenFree'
  BY <1>1, <1>7 DEF CheckTask
<1>8. CASE SetTask \/ NotifyDriver \/ KillDriver \/ StartReaping
  BY <1>1, <1>8 DEF SetTask, NotifyDriver, KillDriver, StartReaping
<1>9. CASE Cleanup \/ Exit \/ Tick \/ UNCHANGED vars
  BY <1>1, <1>9 DEF Cleanup, Exit, Tick, vars
<1> QED
  BY <1>2, <1>3, <1>4, <1>5, <1>6, <1>7, <1>8, <1>9
     DEF Next, UserCommand, ManagerStep, DriverStep

(* If no system call fails, a driver is never released before the second   *)
(* its busy_until names.                                                    *)
THEOREM ReleaseIsNotEarly ==
  ASSUME ~SyscallsMayFail
  PROVE  Spec => NeverFreedEarly
<1> DEFINE Late == \A i \in Slots : state[i] = BUSY /\ state'[i] = AVAILABLE
                                       => busy_until[i] = 0
<1>1. Init => IdleWhenFree
  BY DEF Init, IdleWhenFree
<1>2. TypeOK /\ Ownership /\ TimerCoversBusy /\ IdleWhenFree /\ [Next]_vars => [Late]_vars
  <2> SUFFICES ASSUME TypeOK, Ownership, TimerCoversBusy, IdleWhenFree, Next PROVE Late
    BY DEF vars
  <2> USE DEF slotVars, driverVars, mgrVars, AVAILABLE, BUSY
  <2>1. ASSUME UNCHANGED state PROVE Late
    BY <2>1
  <2>2. CASE RegisterDriver
    BY <2>2 DEF RegisterDriver, IdleWhenFree, Ownership, TypeOK
  <2>3. ASSUME NEW p \in Pids, AcceptTask(p) PROVE Late
    BY <2>3 DEF AcceptTask, TypeOK
  <2>4. ASSUME NEW p \in Pids, FinishTask(p) PROVE Late
    <3>1. idx[p] \in Slots /\ busy_until[idx[p]] \in Nat /\ busy_until[idx[p]] <= 0
      BY <2>4 DEF FinishTask, InLoop, TimerCoversBusy, TypeOK
    <3> QED BY <2>4, <3>1 DEF FinishTask, TypeOK
  <2>5. ASSUME NEW p \in Pids, ForkDriver(p) \/ Attach(p) \/ EpollWait(p) \/ ReadEvent(p)
                               \/ ArmTimer(p) \/ Die(p)
        PROVE  Late
    BY <2>1, <2>5 DEF ForkDriver, Attach, EpollWait, ReadEvent, ArmTimer, Die
  <2>6. ASSUME NEW p \in Pids, NEW t \in TaskTimes, CheckTask(p, t) PROVE Late
    BY <2>1, <2>6 DEF CheckTask
  <2>7. CASE SetTask \/ NotifyDriver \/ KillDriver \/ StartReaping
    BY <2>1, <2>7 DEF SetTask, NotifyDriver, KillDriver, StartReaping
  <2>8. CASE Cleanup \/ Exit \/ Tick \/ ReapDriver
    BY <2>1, <2>8 DEF Cleanup, Exit, Tick, ReapDriver
  <2> QED
    BY <2>2, <2>3, <2>4, <2>5, <2>6, <2>7, <2>8
       DEF Next, UserCommand, ManagerStep, DriverStep
<1>3. TypeOK /\ Ownership /\ TimerCoversBusy /\ [Next]_vars => TimerCoversBusy'
  BY TimerStep
<1> QED
  BY <1>1, <1>2, <1>3, TypeInit, TypeStep, OwnershipInit, OwnershipStep, TimerInit,
     IdleStep, PTL DEF Spec, NeverFreedEarly

=============================================================================
