# TLA+ models of Embedded-C

The repository is a collection of C programs (processes, threads, IPC, sockets,
a file manager, basic C exercises). This directory holds TLA+ models of its
concurrent programs, the TLC configurations that check them on small instances
and TLAPS proofs for every instance. `PROJECT.json` relates each definition to
the lines it models and lists runs, mutants, findings, hazards and theorems.

```
tlc -workers 2 -config DriverManagerSafety.cfg MCDriverManager
tlapm DriverManagerProofs.tla
```

## The system

| part | state | operations | what makes it hard | model |
|---|---|---|---|---|
| `drive_manager` | shared slot table, an eventfd and a timerfd per driver, manager's command | create, send, exit; driver: attach, take a task, finish | child runs before its parent registers it; unlocked test of `state`; two events in one epoll batch; two clocks; blocking `waitpid` | `DriverManager` |
| `message_queues/chat_common_room` | server queue, client list, history ring; per client a queue, two threads, display | join, message, leave, broadcast, replay, SIGINT | everybody blocks on full and empty queues; two threads per client; ring and display wrap | `MqChat`, `HistoryRing` |
| `shared_memory/chat_common_room` | shared array, mutex, condition variable; per client two threads, display, Clients window | join, text, quit, reader loop | lost and spurious wakeups; joining a thread that may sleep; an array that only grows | `ShmChat` |
| `threads_shop` | kiosks with a mutex each, needs, `buyers_done` | buyers, worker, main | trylock only; fixed search order; cancellation inside a critical section | `ThreadsShop` |
| `echo-client_echo-server` | table of addresses with counters; a raw socket per program | echo, goodbye, SIGINT | every socket gets every packet, or drops it; clients share one address; the table grows | `EchoServer` |
| `sockets/.../parallel_server_with_pool` | `busy` flags, pipes of bytes, backlogs | select, dispatch, serve | flags lag behind; a read takes parts of two messages | `PoolServer` |
| `simple_file_manager` | two panels, cursor, scroll, dialogs, terminal settings, file tree | keys, mouse, resize, copy, move, delete | one call of several failing; links; cursor and scroll after a reload | `FileTree`, `Panel`, `FileManager` |
| `pipes/bash_equivalent` | ends of the pipes in shell and stages | pipe, fork, dup2, close, wait | who sees end of file | `ShellPipeline` |
| other servers, `processes`, `basic_c` | see Not modelled | | | not modelled |
| one-shot IPC, socket, signal exercises | none to speak of | one exchange each | | not modelled |

The parts do not interact with one another: each is a program, or a server and
its clients, of its own. Within a part the interaction of processes and threads
is the model. `modules`, `cross_compile` and `Embedded systems` hold documents
and no program.

## Modules

**`DriverManager`** (`driver_manager.c`). One variable per field of `DriverSlot`
(functions on slots), one per kernel object of a driver (`event`, `timer`,
`batch` for what `epoll_wait` returned, `sigterm`) and a control point per
process. Code under a slot's mutex is one step; what the code does outside it is
split: `create_driver` is `ForkDriver` then `RegisterDriver`, `send_task` is
`CheckTask`, `SetTask`, `NotifyDriver`. Time is counted in ticks,
`TicksPerSecond` of them in a second of `time()`, so that the two clocks of the
code (whole seconds for `busy_until`, `CLOCK_MONOTONIC` for the timer) differ as
they do in reality. `SyscallsMayFail` enables the error paths of `epoll_*`,
`timerfd_create` and `timerfd_settime`. A command that only prints is a
stuttering step.

**`HistoryRing`**, **`BoundedLog`** (`server.c`, `push_history`). The ring with
its start and count, and what it promises: the last `MAX_HISTORY` messages in
order. `RingImplementsLog` is the refinement, with the order in which
`send_history_to_client` reads as the mapping.

**`MqChat`** extends `HistoryRing` with the server's loop (one step per
`mq_receive`, per `mq_send`, and per turn of its loop), both threads of each
client and SIGINT. Sizes of messages matter once: a text that fits the server's
queue but not a client's after the longer prefix (`LongTexts`). `log` and `got`
are history variables.

**`ShmChat`**. The main thread's critical sections are one step; the reader keeps
the mutex from `ReaderLock` to `ReaderUnlock`, one step per message. A write past
the end of `messages` sets `lock` to `Overrun`: the damage is not modelled
further, no thread gets the mutex again.

**`ThreadsShop`**. `goods--` and `goods += 200` are a read and a write, so the
mutexes are needed. `sleep` is time not scheduled.

**`FileTree`** (`dialog.c`, `process_tree` and `copy_file`). The tree is a function
from paths to directories, files (sequences of blocks) and links; the recursion is
an explicit stack of open directories, one step per system call or turn of a
loop. Calls that follow links resolve the path (`Walk`, `Open`, `Real`), the others
act on the entry (`Entry`), as in the kernel. `Faults` names calls that may fail for
reasons of their own, `MaxFaults` of them in one operation; `rename` is not counted,
it may fail for every file of a move (another device).
`readdir` may or may not return an entry made since `opendir`, and a directory that
is open is followed when it is renamed (`Carried`).

Paths have a length. `Stems` gives for each name the names that its first
characters make, and with them its length; `Size` counts the characters of a path.
The `snprintf` of `process_tree` is unchecked: `Joined` cuts what does not fit into
`MaxPath` characters (`PATH_MAX - 1`) to a shorter name or to the directory itself.
A path that is too long fails where the kernel is given it uncut, as the dialogs do
(`build_path_alloc`). A path with a slash at its end is treated like the one
without, and the root's own slash is not counted. `MaxOpen` is the number of
descriptors: each open directory takes one, `copy_file` two. `limits` records
whether a path was cut or descriptors ran out. The stack of the recursion, which
holds two paths per level, is taken to be large enough for `MaxOpen` levels.

**`Panel`** (`panel.c`): a panel as a record and its operations as operators.
**`FileManager`** extends it with `handle_input`, the two modal dialogs and the
commands, and runs `FileTree`'s steps between a confirmed dialog and the reload
of the panels. `laid` is the height `update_layout` saw last. The counters that
`run_app` leaves uninitialised hold any number of `Stray`. A crash (Enter on a
panel without a listing) is a state of its own.

**`ShellPipeline`** (`pipes/bash_equivalent`). Stage `i` writes pipe `i`; `sr`, `sw`,
`cr`, `cw` say which ends the shell and each stage hold. The programs run are
external: `gen` writes more than a pipe holds, `cat` copies, `head` stops after
one block, anything else does not exist. The files "missing" and "denied" cannot be
opened. `pipe` is taken to succeed: if it fails, the code goes on with whatever
`fd` held before.

**`PoolServer`**. One step per call that another process can see. The pipes carry
bytes, because `read` takes up to five of them; `straddled` records services of
which a read took parts of two messages. A backlog of one holds two connections.

**`EchoServer`**. `sendto` puts a copy into every socket that has room, each
program picks out its own. The client compares ports only; the model compares
addresses, which is the same as long as no other sender on the host uses port 8080
or 12345, and this is assumed of `Others`. SIGINT interrupts the blocking call or
comes just before it, both are modelled. `left` and a reply's `epoch` are history:
how often the address had said goodbye.

`MCDriverManager` and `MCEchoServer` add symmetry sets, `MCFileTree` the lengths of
names, `MCFileManager` these and the initial tree, `MCShellPipeline` the commands.
The other modules are run as they are.

## Runs

| run | instance | shows |
|---|---|---|
| `driver_safety` | 2 slots, 3 children, 2 tasks each, system calls may fail | types; `ExclusiveSlots`; `NoDriverOutlivesManager`: exit leaves nobody behind; `NoPhantomTask`: no driver runs a task nobody sent |
| `driver_liveness` | 1 slot, tasks of 1 and 2 s, 2 ticks per second, 3 tasks | `NeverFreedEarly`, `BusyEnds`, `NotifiedGetsBusy`, `ExitCompletes` |
| `driver_fork_race` | 1 slot | violated: `ActiveSlotHasDriver` |
| `mq_room` | 2 clients, 2 texts (one too long to relay), queues of 2 and 1, ring of 3, display of 2, one client may quit, SIGINT | types; `OrderedDelivery`; `DisplayIsRecent`; `LeftIsForgotten`; `RingImplementsLog` |
| `mq_delivery` | 2 clients, 2 texts, queues of 1 | `TextsAreDelivered` |
| `shm_room` | 2 clients, 2 texts, array of 5, display of 2 | types; `NoSleepOnUnread`; `DisplayIsRecent`; `RosterFollowsMessages`; `QuitExits`; `TextsAreDelivered` |
| `shop` | 2 buyers, 2 kiosks | types; `NothingIsLost`; `NeedsWereMet`; `ShopCloses` |
| `file_tree` | every tree of depth 2 over two names, links to one of them, names of one and two characters, paths of at most 7, 3 descriptors; one failing call per operation besides `rename` | `TreeTypeOK`; `NothingLost`; `CopyIsFaithful`; `DeleteStaysBelow`; `OperationsEnd` |
| `file_manager` | a tree with one directory and one file, one unreadable directory, terminals of 6 and 9 lines, one dialog | `CursorInListing`; `ArrowShowsCursor`; `TerminalRestored`; `ResizeIsNoticed` |
| `shell_pipeline` | up to 3 stages, pipes of one block, files that can or cannot be opened | `NoStrayEnds`; `PromptIsClean`; `PromptReturns` |
| `pool_server` | 2 services, 3 clients | `BusyFlagIsRight`; `EveryClientEnds` |
| `echo` | 2 clients, 1 other sender, 3 messages, sockets of 2 packets, a table of 1 entry | `TableIsConsistent`; `RepliesInOrder` |

Bounds. Three children for two slots let a slot stay with a dead child while
others attach. Two ticks per second are the least that separate the clocks, and
tasks of one and two seconds let a new task overlap the end of an old one. Rings,
displays and queues are smaller than the number of lines said, so they wrap or
fill; `shm_room`'s array of five takes the messages of two clients but for the
last, so it overflows as well. `MaxSends` and `MaxTexts` bound the length of a
behaviour. `mq_delivery` is the exception: its history is larger than what is said,
because a text that the ring has dropped does not reach a client that joins later;
`TextsAreDelivered` of `MqChat` is about texts the history still holds. `MaxGoods`
keeps the worker from filling a kiosk without end. In `mq_room` one of the two clients quits; with
both the run takes three times as long and also holds.
In `file_tree` seven characters let a directory that is copied into itself nest
until its path is cut, and let two names be cut to one; three descriptors run out in
a deletion that cut paths lead into the same directory again and again. Terminals of
6 and 9 lines have panels without a visible line, and with fewer and more lines than
entries. `MaxDialogs = 1` bounds the file manager; the theorems cover any number.
Three clients for two services let the listener turn one away and send two to the
same service. `InitCapacity = 1` lets the echo server's table grow.
Deadlock is checked for `DriverManager`, where time always passes, and for
`ShellPipeline`, which always comes back to its prompt; the other programs end, or
stay in states where only a user could continue.

Fairness. Every process or thread that can run is scheduled (weak fairness per
thread); users are never obliged to do anything. Beyond that:
- `MqChat`: strong fairness for a client's main thread, which competes for room
  in the server's queue; the kernel serves waiting senders of equal priority in
  order.
- `ThreadsShop`: a buyer that finds kiosks free again and again enters one, and
  `rand()` picks each kiosk again and again at a time when it is free. Threads
  sleep for seconds between visits. Without the second assumption the shop may
  stay open for ever: all searches start at kiosk 0.
- `FileTree`: the operation in progress goes on. `ShellPipeline`: the shell and every
  stage are scheduled. `PoolServer`: listener, services and clients that have
  connected are scheduled; weak fairness is enough, nothing competes for a slot.

## Where the program differs from what it says

`driver_fork_race` is a violated run (`findings` in `PROJECT.json`): a child that runs
before `create_driver` stored its pid exits, and its slot stays active for a dead
process.

Four more disagreements have a configuration in this directory but are not among
the runs of `PROJECT.json`; each ends with the counterexample:

| configuration | violated | what happens |
|---|---|---|
| `DriverManagerLostTask.cfg` (`MCDriverManager`) | `SentTaskCompletes` | two tasks sent in quick succession are announced as sent, one is run |
| `MqChatQuit.cfg` (`MqChat`) | `QuitExits` | a chat client does not get out after `/quit`: its reader waits in `mq_receive` and nothing will be sent to it |
| `MqChatStuck.cfg` (`MqChat`) | `BroadcastCompletes` | the server blocks for ever on the full queue of a client whose reader stopped |
| `ShmChatOverrun.cfg` (`ShmChat`) | `MessagesFit` | the shared-memory chat writes past its array after 2048 messages |

Seen while modelling, without a run of their own: `get_status` shows AVAILABLE in
the last fraction of a task's last second; an entry of the history that is too
long ends the replay (`server.c:107`); the Clients window of the message-queue
chat stays empty, because the client looks for "[SERVER]:User " and the server
writes "SERVER:User " (`client_core.c:37`); `client_count` of the shared-memory
chat never goes down.

File manager: copying a file onto itself truncates it (`dialog.c:98`; both panels
start in the same directory); a deletion goes through links into directories
elsewhere (`stat` at 230); a failed `write` is ignored and a failed `read` taken for
the end of the file, and a move then unlinks the source (108, 109, 284); paths cut by
`snprintf` (265 to 270, 314 to 318, 350) may name another file, so that two files are
moved to one, or the directory itself, into which a deletion then goes until
`opendir` fails; `selected` and `scroll` are not initialised when the first `scandir`
fails, but index nothing then (`app.c:34`); Enter on a panel without a listing uses
a null pointer (`panel.c:76`); near `PATH_MAX` even ".." cannot be entered; a click beside the buttons of a dialog confirms it (`modal.c:131`,
298); a confirmation opened with the mouse misses a resize; any mouse event over
a button runs its command (`ui.c:335`). Pool server: a read of "busyf" leaves a
service marked busy, "freeb" marks a busy one free; a late "ready" sends two
clients to one service; a client may be sent to a service that does not listen yet.
Echo: all clients share one entry, so the goodbye of one resets the numbers of the
others, and every client prints every reply; the entry of a client that leaves
stays although "Client removed" is printed; SIGINT may go unnoticed until the
next line or packet; end of file on a client's input makes it spin.

## Proofs

`DriverManagerProofs`, for every number of slots, set of pids and task times and
every clock resolution (assumptions: at least one slot and one tick per second,
tasks of at least one second, 0 is no pid):
- `TypeCorrect`.
- `SlotsAreExclusive`, `ShutdownIsComplete`, from the inductive invariant
  `TypeOK /\ Ownership`. `ExclusiveSlots` alone is not inductive: that a driver's
  index names an active slot with its pid, that active slots have different pids,
  and that every live driver is registered or about to be is what `create_driver`
  and `terminate_all` maintain. The reaping loop adds that slots below its index
  are inactive.
- `TasksComeFromUsers`, with `EventsReported`: an eventfd that epoll reported is
  still readable when the driver reads it.
- `ReleaseIsNotEarly`, when no system call fails, with `TimerCoversBusy`
  (`busy_until` is never after the expiry of the timer, in each control point of
  the driver) and `IdleWhenFree`. If `timerfd_settime` fails, an older timer that
  expired in the same batch can release the driver at once: the assumption is
  needed.

`MqChatProofs`, for every set of clients and every size of the queues, the history
and the displays; each invariant is inductive given those before it:
- `RingTypeCorrect` and `HistoryIsBoundedLog`: the refinement
  `RingSpec => RingImplementsLog`, each push an append with the oldest entry dropped
  when the ring is full. `ChatHistoryIsBoundedLog` is the same of the whole chat.
- `ChatTypeCorrect`, with `Control`: what the server has still to send to whom.
- `DisplaysAreRecent`, with `InFlight`: a queue is the end of what was put into it.
- `LeaversAreForgotten`, with `Lives`: JOIN comes before a client's other requests
  and LEAVE after them.
- `DeliveryIsOrdered`, with `Seen`: how far each client has seen the log, in each
  control point of broadcast and replay.

`ShmChatProofs`, for every set of users and every size of the array, the displays
and the Clients window: `RoomTypeCorrect` (inductive with `NotStarted`: a client
has no reader before it creates one), `NoLostWakeup`, `DisplaysAgree` and
`WindowFollowsMessages`. `DisplaysAgree` rests on `ShowIsLastN` (shifting a full
buffer and writing the last line keeps the most recent lines) and on posts leaving
earlier messages alone; `WindowFollowsMessages` on each user being announced once,
before it leaves, and on at most `MAX_CLIENTS` being announced.

`ThreadsShopProofs`, for every number of kiosks, finite set of buyers and load:
`ShopTypeCorrect`, `GoodsAreConserved`, `LastLineIsTrue`. The invariant says that a
thread in a kiosk holds its mutex and that what it has read of the goods is still
there when it writes. The sum over the kiosks needs an induction, which is done over
sets of numbers.

`PoolServerProofs`, for every number of services and clients: `PoolTypeCorrect` and
`FlagsAreRight`, from what can be in the pipe of a service at each of its control
points as long as every read took one message.

`FileManagerProofs`, for every finite initial tree, set of names, unreadable
directories, terminal heights, number of dialogs and content of uninitialised
counters: `FileManagerSafe` (with `TerminalIsRestored` and `ResizesAreNoticed`) and
`ArrowKeysShowCursor`. The inductive invariant adds that the tree stays finite
through every step of an operation (so that a listing has a length), that a panel's
counters are numbers, and that an open dialog has saved the settings of
`init_curses`. `LoadOK`, `EnterOK` and `MoveOK` state what the operations of a panel
leave behind.

`ShellPipelineProofs`, for every number of stages, capacity and set of commands:
`PipesAreClosed` and `PromptComesBackClean`. `NoStrayEnds` needs, for each position of
the shell in its loop, exactly which ends it holds; `PromptIsClean` needs that the
number of stages not yet waited for is at most the number of calls of `wait` left.

`EchoServerProofs`, for every set of senders, initial capacity and socket size:
`TableStaysConsistent` and `RepliesComeInOrder`. The invariant types the packets
under way (one that is for the server comes from an address other than the
server's) and orders the replies in each client's socket, after what it printed last
and not ahead of the table.

Only model-checked: all liveness (the prover handles neither fairness nor
`ENABLED`) and the properties of `FileTree`.

## Not modelled

- Drawing, formatting, and parsing of command lines beyond the operands they let
  through; what an external editor does to a file.
- `producer-consumer` server: its ring in shared memory is used by six processes
  without a lock, so that every access is a race. The part most worth adding.
- The simple parallel and the multiprotocol server: processes that share nothing,
  and one thread without state between requests.
- `processes/bash_equivalent`: the one-stage case of `ShellPipeline`.
- `basic_c` (phone book, calculators, array, bit and pointer exercises),
  `outrput_revers.c`: sequential functions of a few lines inside a menu.
- Exercises on IPC, sockets and signals that perform a single exchange and exit.
- Kills from outside of a process that holds a process-shared mutex: none of the
  mutexes is robust and the code has no recovery.
