--------------------------- MODULE DriverManager ---------------------------
(***************************************************************************)
(* drive_manager/driver_manager.c: one manager process that reads commands *)
(* and up to MAX_DRIVERS forked driver processes.  They share a table of   *)
(* DriverSlot records (one variable per field below); each driver also has *)
(* an eventfd (written by the manager, read by the driver) and a private   *)
(* timerfd, both watched with epoll.                                       *)
(*                                                                         *)
(* A section of code under a slot's mutex is one step.  The accesses the   *)
(* code makes outside the mutex (send_task's test of `state', the whole of *)
(* create_driver) are steps of their own.                                  *)
(*                                                                         *)
(* Time.  A tick is 1/TicksPerSecond of a second.  `busy_until' holds the  *)
(* number of ticks until the slot's busy_until (a whole second of the      *)
(* clock read by time()) is reached, 0 once it is; the code only ever      *)
(* compares that field with time(NULL).  `timer' holds the ticks left on   *)
(* the timerfd, 0 when it has expired and can be read, -1 when disarmed.   *)
(***************************************************************************)
EXTENDS Integers, Sequences, FiniteSets

CONSTANTS
  MAX_DRIVERS,      \* number of slots
  Pids,             \* the process ids fork() may return
  TaskTimes,        \* task durations, in seconds, a user may ask for
  TicksPerSecond,   \* resolution of the timers relative to time()
  MaxSends,         \* bound: tasks sent in one behaviour
  SyscallsMayFail   \* whether the failure paths of system calls are taken

NoPid == 0
ASSUME SlotsAssumption == MAX_DRIVERS \in Nat \ {0}
ASSUME TimeAssumption  == /\ TaskTimes \subseteq Nat \ {0}
                          /\ TicksPerSecond \in Nat \ {0}
ASSUME BoundAssumption == MaxSends \in Nat
ASSUME PidAssumption   == NoPid \notin Pids
ASSUME FailAssumption  == SyscallsMayFail \in BOOLEAN

VARIABLES
  active, pid, state, task_timer, busy_until, event_fd,  \* the DriverSlots
  event,      \* [Pids -> BOOLEAN]: the eventfd counter is not zero
  timer,      \* [Pids -> Int]: the timerfd
  proc,       \* control point of each driver process
  idx,        \* driver_loop's idx
  batch,      \* the events epoll_wait returned, not yet handled
  task_time,  \* driver_loop's task_time
  sigterm,    \* SIGTERM is pending
  phase,      \* ticks since the last whole second
  mgr,        \* control point of the manager
  cursor,     \* loop index of terminate_all
  arg,        \* operands of the command being executed
  sent, done  \* history: tasks announced as sent / completed, per process

slotVars   == <<active, pid, state, task_timer, busy_until, event_fd>>
driverVars == <<event, timer, proc, idx, batch, task_time, sigterm>>
mgrVars    == <<mgr, cursor, arg>>
vars == <<slotVars, driverVars, phase, mgrVars, sent, done>>

Slots     == 0 .. MAX_DRIVERS - 1
NoSlot    == -1
AVAILABLE == "AVAILABLE"
BUSY      == "BUSY"

\* The event arrays epoll_wait(epfd, events, 2, -1) can return.
Batches == {<<"efd">>, <<"tfd">>, <<"efd", "tfd">>, <<"tfd", "efd">>}

Live(p) == proc[p] \notin {"unborn", "dead"}

(* find_slot: the slot of an active driver with this pid. *)
Holds(i, p) == active[i] /\ pid[i] = p
Registered(p) == \E i \in Slots : Holds(i, p)
find_slot(p) == IF Registered(p) THEN CHOOSE i \in Slots : Holds(i, p)
                                 ELSE NoSlot

-----------------------------------------------------------------------------
(* init_shm and main before the command loop. *)
Init ==
  /\ active     = [i \in Slots |-> FALSE]
  /\ pid        = [i \in Slots |-> NoPid]
  /\ state      = [i \in Slots |-> AVAILABLE]
  /\ task_timer = [i \in Slots |-> 0]
  /\ busy_until = [i \in Slots |-> 0]
  /\ event_fd   = [i \in Slots |-> FALSE]
  /\ event      = [p \in Pids |-> FALSE]
  /\ timer      = [p \in Pids |-> -1]
  /\ proc       = [p \in Pids |-> "unborn"]
  /\ idx        = [p \in Pids |-> NoSlot]
  /\ batch      = [p \in Pids |-> <<>>]
  /\ task_time  = [p \in Pids |-> 0]
  /\ sigterm    = [p \in Pids |-> FALSE]
  /\ phase = 0
  /\ mgr = "prompt"
  /\ cursor = 0
  /\ arg = [slot |-> NoSlot, pid |-> NoPid, time |-> 0]
  /\ sent = [p \in Pids |-> 0]
  /\ done = [p \in Pids |-> 0]

-----------------------------------------------------------------------------
(***************************************************************************)
(* The manager's commands.  A command that prints and returns early (no    *)
(* free slot, unknown pid, busy driver, failing eventfd or fork) changes   *)
(* nothing, so it is a stuttering step and shows only as a guard here.     *)
(***************************************************************************)

(* create_driver up to fork(): the child exists before the slot names it. *)
SomeSlot(i) == TRUE  \* mutant: `active' is not tested
FirstFree(i) == ~active[i] /\ \A j \in Slots : j < i => active[j]

ForkDriver(p) ==
  /\ mgr = "prompt"
  /\ proc[p] = "unborn"
  /\ proc' = [proc EXCEPT ![p] = "starting"]
  /\ \E i \in Slots : FirstFree(i) /\ arg' = [slot |-> i, pid |-> p, time |-> 0]
  /\ mgr' = "register"
  /\ UNCHANGED <<slotVars, event, timer, idx, batch, task_time, sigterm,
                 phase, cursor, sent, done>>

(* create_driver after fork(), in the parent.  find_slot reads `active' and *)
(* `pid' together, so the child sees these stores as one.                   *)
RegisterDriver ==
  /\ mgr = "register"
  /\ active'     = [active EXCEPT ![arg.slot] = TRUE]
  /\ pid'        = [pid EXCEPT ![arg.slot] = arg.pid]
  /\ state'      = [state EXCEPT ![arg.slot] = AVAILABLE]
  /\ task_timer' = [task_timer EXCEPT ![arg.slot] = 0]
  /\ busy_until' = [busy_until EXCEPT ![arg.slot] = 0]
  /\ event_fd'   = [event_fd EXCEPT ![arg.slot] = TRUE]
  /\ mgr' = "prompt"
  /\ UNCHANGED <<driverVars, phase, cursor, arg, sent, done>>

(* send_task's tests, made without the mutex. *)
CheckTask(p, t) ==
  /\ mgr = "prompt"
  /\ sent[p] < MaxSends
  /\ find_slot(p) # NoSlot
  /\ event_fd[find_slot(p)]
  /\ state[find_slot(p)] # BUSY
  /\ arg' = [slot |-> find_slot(p), pid |-> p, time |-> t]
  /\ mgr' = "settask"
  /\ UNCHANGED <<slotVars, driverVars, phase, cursor, sent, done>>

(* send_task's critical section. *)
SetTask ==
  /\ mgr = "settask"
  /\ task_timer' = [task_timer EXCEPT ![arg.slot] = arg.time]
  /\ mgr' = "notify"
  /\ UNCHANGED <<active, pid, state, busy_until, event_fd, driverVars, phase,
                 cursor, arg, sent, done>>

(* send_task's write to the eventfd and its "Task sent" line. *)
NotifyDriver ==
  /\ mgr = "notify"
  /\ event' = [event EXCEPT ![arg.pid] = TRUE]
  /\ sent' = [sent EXCEPT ![arg.pid] = @ + 1]
  /\ mgr' = "prompt"
  /\ UNCHANGED <<slotVars, timer, proc, idx, batch, task_time, sigterm, phase,
                 cursor, arg, done>>

(* exit, or end of input: terminate_all starts. *)
Exit ==
  /\ mgr = "prompt"
  /\ mgr' = "kill"
  /\ cursor' = 0
  /\ UNCHANGED <<slotVars, driverVars, phase, arg, sent, done>>

(* terminate_all's first loop: close the eventfd and kill. *)
SignalledIfIdle(i, p) == Holds(i, p) /\ state[i] = AVAILABLE  \* mutant
Signalled(i, p) == Holds(i, p)

KillDriver ==
  /\ mgr = "kill"
  /\ cursor < MAX_DRIVERS
  /\ event_fd' = [event_fd EXCEPT ![cursor] = IF active[cursor] THEN FALSE ELSE @]
  /\ sigterm' = [p \in Pids |-> sigterm[p] \/ Signalled(cursor, p)]
  /\ cursor' = cursor + 1
  /\ UNCHANGED <<active, pid, state, task_timer, busy_until, event, timer,
                 proc, idx, batch, task_time, phase, mgr, arg, sent, done>>

StartReaping ==
  /\ mgr = "kill"
  /\ cursor = MAX_DRIVERS
  /\ mgr' = "reap"
  /\ cursor' = 0
  /\ UNCHANGED <<slotVars, driverVars, phase, arg, sent, done>>

(* terminate_all's second loop: waitpid blocks until the driver is dead. *)
ReapableAnyway(i) == TRUE  \* mutant: waitpid with WNOHANG
Reapable(i) == active[i] => proc[pid[i]] = "dead"

ReapDriver ==
  /\ mgr = "reap"
  /\ cursor < MAX_DRIVERS
  /\ Reapable(cursor)
  /\ active' = [active EXCEPT ![cursor] = FALSE]
  /\ cursor' = cursor + 1
  /\ UNCHANGED <<pid, state, task_timer, busy_until, event_fd, driverVars,
                 phase, mgr, arg, sent, done>>

(* The rest of terminate_all: "Cleanup completed" and exit. *)
Cleanup ==
  /\ mgr = "reap"
  /\ cursor = MAX_DRIVERS
  /\ mgr' = "done"
  /\ UNCHANGED <<slotVars, driverVars, phase, cursor, arg, sent, done>>

-----------------------------------------------------------------------------
(***************************************************************************)
(* The driver process p.                                                   *)
(***************************************************************************)

(* driver_loop before its while loop; a child that cannot find its slot, or *)
(* cannot set up epoll, exits.                                              *)
AttachUnchecked(p) ==  \* mutant: idx == -1 is not tested
  /\ proc[p] = "starting"
  /\ idx' = [idx EXCEPT ![p] = find_slot(p)]
  /\ proc' = [proc EXCEPT ![p] = "wait"]
  /\ UNCHANGED <<slotVars, event, timer, batch, task_time, sigterm, phase,
                 mgrVars, sent, done>>

Attach(p) ==
  /\ proc[p] = "starting"
  /\ \/ /\ find_slot(p) # NoSlot
        /\ idx' = [idx EXCEPT ![p] = find_slot(p)]
        /\ proc' = [proc EXCEPT ![p] = "wait"]
     \/ /\ find_slot(p) = NoSlot \/ SyscallsMayFail
        /\ proc' = [proc EXCEPT ![p] = "dead"]
        /\ UNCHANGED idx
  /\ UNCHANGED <<slotVars, event, timer, batch, task_time, sigterm, phase,
                 mgrVars, sent, done>>

(* epoll_wait, level triggered: both descriptors may be ready at once. *)
Ready(p) == {f \in {"efd", "tfd"} : \/ f = "efd" /\ event[p]
                                    \/ f = "tfd" /\ timer[p] = 0}

EpollWait(p) ==
  /\ proc[p] = "wait"
  /\ \/ \E b \in Batches :
          /\ {b[k] : k \in 1 .. Len(b)} = Ready(p)
          /\ batch' = [batch EXCEPT ![p] = b]
          /\ proc' = [proc EXCEPT ![p] = "work"]
     \/ /\ SyscallsMayFail
        /\ proc' = [proc EXCEPT ![p] = "dead"]
        /\ UNCHANGED batch
  /\ UNCHANGED <<slotVars, event, timer, idx, task_time, sigterm, phase,
                 mgrVars, sent, done>>

(* After an event: the next of the batch, or back to epoll_wait. *)
NextEvent(p) ==
  /\ batch' = [batch EXCEPT ![p] = Tail(@)]
  /\ proc' = [proc EXCEPT ![p] = IF Len(batch[p]) = 1 THEN "wait" ELSE "work"]

(* safe_read(efd): resets the counter. *)
EventKept == TRUE  \* mutant: the eventfd is not read, so it stays ready
EventAfterRead == FALSE

ReadEvent(p) ==
  /\ proc[p] = "work"
  /\ Head(batch[p]) = "efd"
  /\ event' = [event EXCEPT ![p] = EventAfterRead]
  /\ proc' = [proc EXCEPT ![p] = "accept"]
  /\ UNCHANGED <<slotVars, timer, idx, batch, task_time, sigterm, phase,
                 mgrVars, sent, done>>

(* The critical section of the efd branch. *)
MayAcceptLong(p) == busy_until[idx[p]] = 0 /\ task_timer[idx[p]] > 1  \* mutant
MayAccept(p) == busy_until[idx[p]] = 0 /\ task_timer[idx[p]] > 0

\* busy_until = time(NULL) + task_time, in ticks from now.
BusyTicksUp(t) == (t + 1) * TicksPerSecond - phase  \* mutant: rounded up
BusyTicks(t) == t * TicksPerSecond - phase

AcceptTask(p) ==
  /\ proc[p] = "accept"
  /\ IF MayAccept(p)
     THEN /\ state' = [state EXCEPT ![idx[p]] = BUSY]
          /\ task_time' = [task_time EXCEPT ![p] = task_timer[idx[p]]]
          /\ busy_until' = [busy_until EXCEPT
                              ![idx[p]] = BusyTicks(task_timer[idx[p]])]
          /\ proc' = [proc EXCEPT ![p] = "arm"]
          /\ UNCHANGED batch
     ELSE /\ NextEvent(p)
          /\ UNCHANGED <<state, task_time, busy_until>>
  /\ UNCHANGED <<active, pid, task_timer, event_fd, event, timer, idx,
                 sigterm, phase, mgrVars, sent, done>>

(* timerfd_settime: replaces whatever was armed or had expired. *)
TimerTicksZero(t) == -1  \* mutant: an it_value of zero disarms the timer
TimerTicks(t) == t * TicksPerSecond

ArmTimer(p) ==
  /\ proc[p] = "arm"
  /\ \/ timer' = [timer EXCEPT ![p] = TimerTicks(task_time[p])]
     \/ SyscallsMayFail /\ UNCHANGED timer
  /\ NextEvent(p)
  /\ UNCHANGED <<slotVars, event, idx, task_time, sigterm, phase, mgrVars,
                 sent, done>>

(* The tfd branch; its read blocks while the timer has not expired. *)
FinishTask(p) ==
  /\ proc[p] = "work"
  /\ Head(batch[p]) = "tfd"
  /\ timer[p] = 0
  /\ timer' = [timer EXCEPT ![p] = -1]
  /\ state' = [state EXCEPT ![idx[p]] = AVAILABLE]
  /\ busy_until' = [busy_until EXCEPT ![idx[p]] = 0]
  /\ done' = [done EXCEPT ![p] = @ + 1]
  /\ NextEvent(p)
  /\ UNCHANGED <<active, pid, task_timer, event_fd, event, idx, task_time,
                 sigterm, phase, mgrVars, sent>>

(* The default action of SIGTERM. *)
Die(p) ==
  /\ sigterm[p]
  /\ Live(p)
  /\ proc' = [proc EXCEPT ![p] = "dead"]
  /\ UNCHANGED <<slotVars, event, timer, idx, batch, task_time, sigterm,
                 phase, mgrVars, sent, done>>

(* The clocks advance together. *)
Tick ==
  /\ phase' = (phase + 1) % TicksPerSecond
  /\ timer' = [p \in Pids |-> IF timer[p] > 0 THEN timer[p] - 1 ELSE timer[p]]
  /\ busy_until' = [i \in Slots |-> IF busy_until[i] > 0
                                    THEN busy_until[i] - 1 ELSE 0]
  /\ UNCHANGED <<active, pid, state, task_timer, event_fd, event, proc, idx,
                 batch, task_time, sigterm, mgrVars, sent, done>>

-----------------------------------------------------------------------------
ManagerStep ==
  \/ RegisterDriver \/ SetTask \/ NotifyDriver
  \/ KillDriver \/ StartReaping \/ ReapDriver \/ Cleanup

DriverStep(p) ==
  \/ Attach(p) \/ EpollWait(p) \/ ReadEvent(p) \/ AcceptTask(p)
  \/ ArmTimer(p) \/ FinishTask(p) \/ Die(p)

UserCommand ==
  \/ \E p \in Pids : ForkDriver(p)
  \/ \E p \in Pids, t \in TaskTimes : CheckTask(p, t)
  \/ Exit

Next == \/ UserCommand
        \/ ManagerStep
        \/ \E p \in Pids : DriverStep(p)
        \/ Tick

(* The scheduler runs every process that can run, and time passes; nobody  *)
(* promises that the user types another command.                           *)
Spec == Init /\ [][Next]_vars
FairSpec == /\ Spec
            /\ WF_vars(ManagerStep)
            /\ WF_vars(Tick)
            /\ \A p \in Pids : WF_vars(DriverStep(p))

-----------------------------------------------------------------------------
Control == {"unborn", "starting", "wait", "work", "accept", "arm", "dead"}
InLoop(p) == proc[p] \in {"wait", "work", "accept", "arm"}

(* Every variable stays in its type.  In particular a driver in its loop   *)
(* has a slot index (driver_loop's idx), a driver that is handling an      *)
(* event still has one in its batch, and a command in progress has its     *)
(* operands.                                                               *)
TypeOK ==
  /\ active \in [Slots -> BOOLEAN]
  /\ pid \in [Slots -> Pids \cup {NoPid}]
  /\ state \in [Slots -> {AVAILABLE, BUSY}]
  /\ task_timer \in [Slots -> TaskTimes \cup {0}]
  /\ busy_until \in [Slots -> Nat]
  /\ event_fd \in [Slots -> BOOLEAN]
  /\ event \in [Pids -> BOOLEAN]
  /\ timer \in [Pids -> Nat \cup {-1}]
  /\ proc \in [Pids -> Control]
  /\ idx \in [Pids -> Slots \cup {NoSlot}]
  /\ batch \in [Pids -> Batches \cup {<<>>}]
  /\ task_time \in [Pids -> TaskTimes \cup {0}]
  /\ sigterm \in [Pids -> BOOLEAN]
  /\ phase \in 0 .. TicksPerSecond - 1
  /\ mgr \in {"prompt", "register", "settask", "notify", "kill", "reap", "done"}
  /\ cursor \in 0 .. MAX_DRIVERS
  /\ arg \in [slot : Slots \cup {NoSlot}, pid : Pids \cup {NoPid},
              time : TaskTimes \cup {0}]
  /\ sent \in [Pids -> Nat]
  /\ done \in [Pids -> Nat]
  /\ mgr \in {"register", "settask", "notify"} => arg.slot \in Slots /\ arg.pid \in Pids
  /\ \A p \in Pids : /\ InLoop(p) => idx[p] \in Slots
                     /\ proc[p] \in {"work", "accept", "arm"} => batch[p] # <<>>

(* Two drivers in their loops never use the same slot: create_driver hands *)
(* a slot out once, whatever the order in which the children attach.       *)
ExclusiveSlots ==
  \A p, q \in Pids : InLoop(p) /\ InLoop(q) /\ idx[p] = idx[q] => p = q

(* terminate_all: when the manager prints "Cleanup completed" and exits,   *)
(* no driver is left running, not even one that was forked just before or  *)
(* that was busy, armed or between two events when it was killed.          *)
NoDriverOutlivesManager ==
  mgr = "done" => \A p \in Pids : ~Live(p)

One(b) == IF b THEN 1 ELSE 0

(* A driver never runs a task nobody sent: each completion, each armed or  *)
(* expired timer, each accepted task and each pending notification of a    *)
(* driver goes back to a different "Task sent" line of send_task.          *)
Accounted(p) == done[p] + One(timer[p] >= 0) + One(proc[p] \in {"accept", "arm"})
                        + One(event[p]) <= sent[p]
NoPhantomTask == \A p \in Pids : Accounted(p)

(* A driver never becomes available before the second its busy_until names *)
(* (the time get_status and get_drivers count down to), although that time *)
(* comes from time() and the release from a CLOCK_MONOTONIC timer which is *)
(* armed later.                                                            *)
NeverFreedEarly ==
  [][\A i \in Slots : (state[i] = BUSY /\ state'[i] = AVAILABLE)
                         => busy_until[i] = 0]_vars

(* driver_loop: "When the timer expires, the driver becomes available      *)
(* again": a busy driver is released, unless the manager shuts down first. *)
Stopping == mgr \in {"kill", "reap", "done"}
BusyEnds ==
  \A i \in Slots : (state[i] = BUSY) ~> (state[i] = AVAILABLE \/ Stopping)

(* A notified driver that reached its loop gets busy: the notification is  *)
(* not lost between epoll, the read of the eventfd and the critical        *)
(* section, even if a timer event of the same batch comes first.           *)
NotifiedGetsBusy ==
  \A p \in Pids : (event[p] /\ InLoop(p))
                     ~> (Stopping \/ (InLoop(p) /\ state[idx[p]] = BUSY))

(* The exit command always comes to an end: waitpid never waits for a      *)
(* driver that is not going to die.                                        *)
ExitCompletes == (mgr = "kill") ~> (mgr = "done")

-----------------------------------------------------------------------------
(* What the comments of driver_manager.c say of the program and the code   *)
(* does not guarantee.                                                     *)

(* Lines 410-412: create_driver "forks a child process, and initializes    *)
(* the corresponding shared memory entry"; an active slot belongs to a     *)
(* driver process that runs (no system call fails here).                   *)
ActiveSlotHasDriver ==
  \A i \in Slots : (active[i] /\ ~Stopping) => Live(pid[i])

(* Lines 464-468 and 217-220: send_task "Assigns a task to a driver", and  *)
(* the driver runs it until its timer expires; every task announced as     *)
(* sent to an attached driver is completed, unless the manager stops.      *)
SentTaskCompletes ==
  \A p \in Pids : \A n \in 1 .. MaxSends :
     (sent[p] >= n /\ InLoop(p)) ~> (done[p] >= n \/ Stopping)
=============================================================================
