# TLA+ verification of the T4P4S runtime

T4P4S compiles a P4 program to a software switch. The compiler
(`src/src/*.py`, `src/src/hardware_indep/`) generates C code; the
hand-written runtime (`src/src/hardware_dep/`) gives it packets, tables and a
connection to a controller, and the controller with its programs is there too.
The compiler is sequential text generation. The concurrency is in the runtime:
two pools of threads, one at each end of the control connection; queues and
memory cells shared between those threads and the data-plane cores; lookup
tables that are changed while cores use them, with no lock; and cores that share
tables, registers, static buffers and packet buffers. This project models that
part, checks it with TLC and proves parts of it with TLAPS.

## The system

| Component | State | Operations | Hard parts | What makes it correct |
|---|---|---|---|---|
| Backend (`shared/ctrl_plane/ctrl_plane_backend.c`): the switch's end of the control connection | cells, two fifos, socket, `shutdown`, `ctrl_is_initialized` | `create/launch/stop/destroy_backend`, `backend_processor`, `input_processor`, `output_processor`, `create_digest`, `add_digest_field`, `send_digest` | three threads, the cores and the main thread share cells; the connection can fail at any step | a cell has one owner and the right contents; none is lost; order is kept; the data plane starts only when configured |
| Memory cells (same file) | two linked lists under `memlock` | `touch_mem_cell`, `detouch_mem_cell`, the loops of `destroy_backend` | unlinking from the middle, stale `prev` on the unused list | every cell is on exactly one list |
| Fifo (`fifo.c`) | ring, `head`, `size`, `tail`, mutex, condition variable | `fifo_add_msg`, `fifo_remove_msg`, `fifo_wait` | `if` around `pthread_cond_wait`, silent drop when full | a bounded queue; no lost wakeup |
| Thread pool (`threadpool.c`) | job list, `qsize`, mutex, condition variable | `dispatch`, `do_work` | the mutex is unlocked twice; only the first job of a queue is signalled | every job is started once |
| Table replicas (`dpdk_lib_change_tables.c`, `dpdk_lib_init_tables.c`) | copies per socket, `active_replica`, a pointer per core | the `*_promote` functions, `change_replica`, lookups | no lock at all; a sleep stands for waiting | no copy is changed while in use; changes reach every core in order |
| Messages and handlers (`messages.c`, `handlers.c`) | a buffer under construction | `create_p4_*`, `add_p4_*`, `netconv_*`, `handle_p4_msg`, `unpack_*` | offsets kept by hand, byte order changed in place | what is decoded is what was built |
| Socket helpers (`sock_helpers.c`) | none | `read_p4_msg`, `write_p4_msg`, `read_fix`, `write_fix` | partial reads and writes, two messages to one socket | the stream is cut into the messages sent |
| Controller (`controller.c`) | two fifos, a pool of three threads, `select` set, descriptors | `execute_controller`, `send_p4_msg`, `output_processor`, `input_processor` | several switches on one output queue and one pool; stale descriptors | a switch gets messages once, in order and whole; every switch is served |
| Controller programs (`dpdk_*_controller.c`) | what they read from a file | `init`, `dhf`, the functions that fill tables | what is sent before `CTRL_INITIALIZED`, what a digest is answered with | a switch that is told to start is configured; what it reports is learned |
| Main loop (`dpdk/main.c`), ports (`dpdk_nicon.c`), set-up (`dpdk_lib_init_hw.c`) | receive queues, `tx_mbufs`, packet buffers | rx, handle, tx, broadcast, drain | who owns a packet buffer; bursts taken in part; queues that do not fill | no buffer is lost or freed twice; flows keep their order; all that is queued leaves |
| Tables (`dpdk_tables*.c`, `ternary_naive.c`) | entries, default action, `ext->size` | create, add, lookup, set default, flush | indices reused, defaults kept, empty tables | a lookup finds what the changes call for |
| Registers (`dpdkx_smem.c`) | values; the lock of a control block | read, write | read and write are separate | an `@atomic` block loses no count |


How they interact: `main` calls `init_control_plane` (generated by
`controlplane.c.py`), which creates and launches the backend with three
threads and 1000 cells and waits for `CTRL_INITIALIZED`; only then are the
cores started. `backend_processor` reads messages into cells and puts them into the input
queue; `input_processor` takes them out and calls `handle_p4_msg`, which calls
back into `recv_from_controller`, which changes tables through the promote
functions. Cores look packets up in the tables and send digests through
cells and the output queue to `output_processor`, which writes them to the
controller. There, the main thread of `execute_controller` accepts switches, hands two
jobs per switch to the pool, runs the program's `init` and reads digests into
the input queue; an `input_processor` passes them to the program's `dhf`, whose answers go
through the one output queue to an `output_processor`.

PROJECT.json lists all components, including those not modelled, and every
hazard found so far with its line.

## Modules

* `CtrlBackend` is the core. One action per step between two locks:
  everything done under `memlock` or under a fifo's lock is one step, and so
  is each access a thread makes on a cell it owns. `pc` has a label per thread
  (`select touch read add` for `backend_processor`; `wait remove check use
  detouch` for the two consumers, which share `FifoWait`, `FifoRemove`,
  `CheckCell` and `Detouch`; `idle fill send` for a core). `mem_cell[t]` is
  the local variable of that name. The pool is the set `unused` and a fifo is
  a sequence of cells; `MemCells` and `Fifo` show that the code's lists and
  rings behave so. Faults are a constant set: `noconnect` (launch_backend
  returns without threads), `eof` (the controller closes), `reset` (the
  connection is lost with what was on the wire), `stop` (stop_backend, whose
  `SIGUSR1` no thread of the process handles). Spurious wakeups and SIGPIPE are always
  possible. The controller is the environment: it sends numbered messages of
  the kinds the run allows. `launch_backend` only hands three jobs to the pool:
  each thread is `unborn` until `StartJob` starts it, at any time after that or never,
  because the pool may strand a job (`ThreadPool`). That it may
  start one twice is not modelled here: each job is one thread at most.
* `Channel` is the abstract specification of one direction of the connection.
* `Fifo` is `fifo.c` with the consumer loop; `BoundedQueue` is what it
  implements, by reading the ring from `head` (`Contents`).
* `MemCells` is the cell lists with real `next`/`prev` pointers; `CellPool` is
  the set of free cells they implement.
* `ThreadPool` is `do_work` and `dispatch`, one access to a shared field per
  step, because the double unlock makes critical sections overlap.
  Jobs are dispatched one after the other, at any time: in a row, as
  `launch_backend` does and the controller between two switches, or with pauses.
  `Ready` says whether all workers wait already, `Returning` which jobs end. The
  branches that test `pool->shutdown`
  and `pool->dont_accept` are left out: nothing sets either field.
* `TableReplica` is one table: the copies of each socket, the pointers of the
  cores, and a writer going through `FORALLNUMANODES` and `CHANGE_TABLE`. The
  application of a change to a copy takes two steps (`Apply`, `Applied`), so
  that a core may look in between. `numa_on` is chosen initially.
* `Messages` is `messages.c` and the unpacking of `handlers.c`, as operators on
  a buffer: header fields, and the structure found at each offset. Offsets,
  counts, limits and changes of byte order are those of the code; names and
  values are opaque, except for the length of a digest's fields:
  `add_digest_field` takes bits and copies as many bytes as these fill
  (`BytesOf`), and of a field that was given too few the controller sees
  something `Stale`. `CtrlPrograms` has, for each of the eight programs, what
  `main` and `init` send and what `dhf` answers, as sequences of messages built
  with the functions of `Messages`.
* `Controller` is `controller.c` with one of those programs: the select loop
  label by label, the pool as threads that test for a job under the mutex, let go of it, wait,
  and miss what is signalled before they do (`StartJob`, `Release`, `CondWait`; a job is
  never given back), both fifos as sequences (see `Fifo`), and a connection per switch
  that carries units, a header and a body per message, which may be written
  and read apart. A switch is the environment: it connects, reads, reports
  digests once initialised and may leave, with or without a reset. A scenario's
  `sleepCovers` says whether the `sleep(1)` between the two jobs of a switch is
  longer than the pool takes to start the first. What each program sends and
  answers is tabulated once (`Programs`, `Answers`). Messages are
  numbered in the order of the calls of `send_p4_msg`.
* `Tables` is the three kinds of table as operators on a table's state, and
  what they promise (`Promised`), said in terms of the changes made.
  `rte_hash` and `rte_lpm` are external.
* `DataPlane` is the cores: set-up checks, the main loop from drain to
  transmission, one table, one register. A packet is a number that travels in a
  numbered buffer. The computation of an LPM key goes unit by unit, because all cores
  use the same `reverse_buffer` and `key128`. Table changes are single steps between
  lookups (what happens inside one is `TableReplica`). `Relaunch` is the flush
  between two launches of a suite of tests.
* `CtrlBackendProofs`, `FifoProofs`, `MemCellsProofs`, `ThreadPoolProofs`,
  `MessagesProofs`, `ControllerProofs`, `DataPlaneProofs` and
  `TableReplicaProofs` hold the theorems. The `MC...` modules hold symmetry sets, the
  socket map and, for `Controller` and `DataPlane`, the scenarios: records that
  say which program, table, ports, packets and changes a behaviour has. `Init`
  chooses one, so that one run covers them all.

Every definition named `...Wrong...`, `...Not`, `...Silent` and so on below a
comment "Mutant" is a deliberately broken variant of the definition after it;
no specification uses it. Each property is known to fail for at least one.

## Runs

| Run | Checks | Bounds |
|---|---|---|
| `backend` | type correctness, ownership, contents, leaks, start order, order of both directions | 3 cells, 2 cores, 2 controller messages, 1 digest per core, all faults; cells and cores symmetric |
| `backend_progress` | every message handled, every digest written, start of the data plane | 2 cells, 1 core, 2 messages, 2 digests, the controller may close its end |
| `backend_unknown` | violated: a message of unknown type is skipped | 2 cells, 1 core |
| `fifo` | indices, wakeups, refinement of `BoundedQueue`, delivery | 3 slots, 5 messages, 3 consumers |
| `mem_cells` | both lists, refinement of `CellPool`, destruction | 5 cells |
| `pool` | locking and queue sound until the double unlock hits a mutex in use; a job put into an empty queue while every worker is in a job or waits is started while one is free | 2 workers, 3 jobs, one of which returns, spurious wakeups |
| `pool_lost_wakeup` | violated: a dispatched job is started while a worker is free | 3 waiting workers, 3 jobs |
| `pool_double_start` | violated: a job is started once | 3 starting workers, 3 jobs |
| `replica` | no read during a change, visibility, order | 3 cores on 2 sockets, 2 copies, 3 changes, NUMA on and off |
| `controller` | framing, order, decoding, configuration before start, forwarding before learning; what is sent arrives, what is reported is learned, both jobs of a switch are started | 14 scenarios with one switch (each program, with and without configuration, wrong lines, unknown digests, digests of `extern_Digest_pack`, too many addresses), 4 with two or three switches (one with a sleep that is too short), 2 with switches that leave, 1 with a queue of 3; up to 2 digests per switch, 3 threads, a spurious wakeup in three scenarios; no scenario sends more than 16 messages |
| `controller_packed` | violated: the forwarding table of a learning program has only addresses that were reported | 1 switch, `psa_l2fwd`, 1 digest of `extern_Digest_pack` |
| `data_plane` | packet buffers, flow order, lookups, register, transmission | 2 cores, 3 ports of which 1 or 2 are on the board, bursts and transmit queues of 2, 3 packet buffers, up to 4 packets, up to 3 changes of a table |

Why the bounds are enough: three cells let the two consumers and a core each own one while the
free list is empty, so every competition for a cell occurs, and the
pool can run dry. Two messages and two digests are enough to be reordered,
overtaken or lost. Three slots and five messages make the ring wrap with
head and tail in every relative position; three consumers are needed for a
signal to reach the wrong one. Five cells give a used list with a first, a
last and several middle elements. Three jobs are what `launch_backend`
dispatches: the first, one behind it in the queue, and one that comes when the queue
was emptied. Two workers and the thread that dispatches are three actors in the pool's
sections, one to hold the mutex, one whose second unlock frees it and one to come in; of two workers
one takes a job and the other competes for it or is taken by another. Two copies are
the code's default; two sockets and three cores give a socket
with two cores to be switched one after the other.
A third switch is the first for which the controller's pool has no thread, and
a second switch the first that competes for messages or inherits a
descriptor. The pool may
strand a job in every scenario with more than one switch, and any in the one
whose sleep is too short; a thread that wakes up
for no reason is tried with one switch and with two, which is where it can take a
job that another thread was woken for.
With three packet buffers a burst of two and a clone exhaust
the pool; with bursts of two, a burst can be taken not at all, in part or as a whole, and
a queue can be left half full. Three changes are what it takes to add, replace or
flush, and add again; LPM indices wrap at 2 or at 4 instead of 256. Port 2 is never on
the board, and port 1 not always.

`NoLeak` needs a fifo with room for all cells, as 1024 is for 1000: a full
fifo drops the cell it is given. `CHECK_DEADLOCK FALSE` is used where the
system really stops: the process may be ended by a signal or a null
pointer, the threads end after `stop_backend`, the pool has no more jobs, a
destroyed pool of cells does nothing, the controller waits in `select` when no
switch has anything to say, and the set-up of the data plane may end the program.

Type invariants are checked with another invariant of their module rather than
alone: in `ListsLinked`, `QueueSound`, `SeenInOrder` and `AtMostOnceInOrder`.
All of them are proved too.

### What the properties except, and why

Each exception was put in after TLC showed that the property fails without it. They
are behaviours of the code, and a reader should know them.

* `Fresh` (`StreamInSync`, `AtMostOnceInOrder`): `ReadEof` closes the descriptor of a
  switch that left, but its `output_processor` keeps the number. The next
  switch gets the same descriptor, and two threads write to it.
* `Settled` (the properties of a sole switch, `EverythingAnswered`): `send_p4_msg`
  does not notice that the queue is full and drops the message; the
  small-queue scenario shows it.
* `Started` (`InputHandled`, `DigestsWritten`, `DataPlaneStarts`) and `Runs`
  (`EverythingAnswered`): that the pool has started the jobs concerned. It need not:
  `pool_lost_wakeup` shows a job stranded that was dispatched right after another.
  Without the exceptions TLC finds messages nobody handles, and a main thread that waits for
  `CTRL_INITIALIZED` for ever.
* the premise of `Served`: the first job of the switch is alone in the queue, a thread is on its way
  to test for it and another is free. Between the second job of one switch (`controller.c:212`)
  and the first of the next (210) there is no pause; if the one is
  appended behind the other, nobody is woken for it. What `Served` then adds is that the pause between 210
  and 212 is enough for the second job, although threads wake up or find their job taken meanwhile.
* `Whole` (`EverythingAnswered`): a digest was built with the lengths `add_digest_field`
  takes. Those of `extern_Digest_pack` are not, see the findings.
* `alive`: `DigestsWritten` and `Served` speak of processes that go on.
* `scenario.name # "l3fwd"` (`ConfiguredWhenInitialised`): that program's `main` sends
  `CTRL_INITIALIZED` before any switch connects, and its `init` the entries after.
* `raced` (`LookupAgrees`): two cores that compute LPM keys at the same time use the
  same `reverse_buffer` and, for keys longer than 4 bytes, the same static `key128`;
  one may look up the other's key.
* `WithinLimits` (`LookupAgrees`): `ext->size` of an LPM table grows with every
  addition, also of a prefix that is there, is not reset by a flush, and is
  kept in 8 bits (before DPDK 17.05); after 256 additions an entry is overwritten.
  A ternary entry whose key has bits outside its mask never matches.
* `"atomic"` (`RegisterExact`): without `@atomic`, increments are lost.
* `lost` (`BuffersOwnedOnce`): see the broadcast below.

### Findings

* `handle_p4_msg` says it skips messages of unknown type (`handlers.c:60`) and
  then calls the callback with an uninitialised `ctrl_m` (run
  `backend_unknown`). The model lets `ctrl_m` hold any type.
* `do_work` unlocks the mutex before `pthread_cond_wait` unlocks it again
  (`threadpool.c:66-67`): another thread may then be in its critical section,
  and one job may be started twice (run `pool_double_start`).
* `dispatch` signals only when the queue was empty: a job dispatched right
  after another may never start although a worker waits (run
  `pool_lost_wakeup`). `launch_backend` dispatches three in a row, with
  threads created just before, so that the backend may run without its
  `input_processor` or `output_processor`.
* `extern_Digest_pack` (`dpdkx_digest.c:20-21`) passes 6 and 4 to `add_digest_field`, which takes
  bits, as the debug line above it and `test_backend.c:78` do: one byte of the address
  and one of the port are copied. The controller of `psa_l2fwd` learns an address that no
  packet had (run `controller_packed`).

Also noticed, and without a run: `threadpool.h` says that `dispatch` blocks
when all threads are busy; it queues the job and returns. `fifo_add_msg`
returns the queue also when it drops the message, so that the error path of
`send_digest` is never taken. `broadcast_packet` sends the clones to
`T4P4S_BROADCAST_PORT` (100), which is past the end of `tx_mbufs`, and neither
sends nor frees the packet itself. `dpdk_portfwd_controller.c` and
`dpdk_smgw_controller.c` never send `CTRL_INITIALIZED`, so that a switch they
control waits for ever. A lookup in an empty ternary table follows a null
pointer. `lpm_flush` frees `content[size]`, which holds no entry. A third
switch's jobs wait for ever in the controller's pool.

### Fairness

Threads are scheduled by the operating system, so each thread of the backend that
runs, the main thread once its flag is set, and a core inside a digest get weak fairness.
That the pool starts a job is not assumed anywhere in `CtrlBackend` (`Pool` has no
fairness): the properties say what follows once it has.
Nothing is assumed of the controller, of the network, of spurious wakeups, or of a
core's decision to send a digest. A consumer is one fairness condition over
all its steps. In `ThreadPool` threads compete for a mutex, which they find
free again and again: strong fairness. In `TableReplica` packets get finished and a
change that was begun is carried on; that a new one begins is not assumed.
In `Controller`, one condition of weak fairness stands for
all threads, those of the pool that look for a job included, and for what a
switch has begun: every behaviour is finite
(switches, digests, messages and spurious wakeups are), so that the system cannot be busy elsewhere for
ever, and the disjunction is as strong as fairness of each part. A switch is
not obliged to connect, to report or to leave. In `DataPlane` each core that has
receive queues runs a thread of its own that never waits for more than the
register's lock: weak fairness per core, and of the passing of its drain time.
Packets, changes and the driver's freeing of buffers need not happen.
`SleepCovers` is an assumption on time, not on scheduling: a lookup that began
before `usleep(TABCHANGE_SLEEP_MICROS)` is over after it. The code relies on
it; with `SleepCovers = FALSE`, `NoReadWhileChanging` fails. In the same way the
controller relies on its `sleep(1)`: where `sleepCovers` holds, every thread of the pool has a job or
waits when it is over; without that, `Served` fails. No assumption is made of the
time between two switches.

With `--no-numa`, `change_replica` still compares real socket numbers, so that
the cores of other sockets are never turned over: `NoReadWhileChanging` is
stated for the cores that are, and the other properties hold for all.

## Proofs

`FifoProofs`, for every capacity `N >= 1`, every finite set of consumers and
all messages: `TypeCorrect`, `RingCorrect` (the three indices agree),
`NoLostWakeup` (as many consumers are awake as there are messages, or all
are), `RingIsQueue` (the ring implements `BoundedQueue`). The refinement needs the
index arithmetic of one turn of the ring (`ModOneTurn`, `RingSteps`), type
correctness and `RingConsistent`, which says that writing at `tail + 1` is writing at the end of `Contents`.

`CtrlBackendProofs`, for every set of cells and cores, every queue capacity
and every set of faults: `TypeCorrect`, `OwnershipCorrect` (`CellsOwnedOnce`) and
`ContentsCorrect` (`MessagesIntact`). None of the three is inductive alone: that the
cell `input_processor` opens holds a controller message depends on nobody
having been given the cell meanwhile, and ownership depends on a thread that
adds or gives back a cell having one. So the inductive invariant `IInv` is
their conjunction. For ownership every action is first shown to be one of six
moves of a cell (`CellMove`: nothing, take, drop, queue, remove, give back;
lemma `ActionsMoveCells`), and each move to preserve it (`OwnershipMoves`);
types and contents are proved action by action. This covers what the runs do
not: queues that are full and drop.

Its second part adds `NoCellLost`: `NoLeak` holds whenever there are
finitely many cells and no more of them than a fifo has room for (`Roomy`).
`NoLeak` needs `IInv`, because that `fifo_add_msg` finds room follows from the
cells of a queue being different ones and not the one to be added
(`RoomForCell`, by the pigeonhole principle); it also needs `EmptyHanded`,
because a thread that takes a cell while it has another loses the other. Every
action is shown to be a careful move (`CarefulActions`) unless it is a failed
read or the last round of a consumer after `stop_backend`. `LeakBoundCorrect` is
`LeakBound` under the same assumption: such a step loses one cell, and either
it is the thread's last (`Ended`) or it finds the connection at its end for the first
time (`Late`); neither is ever undone (`EndsAreFinal`).

Its third part shows both directions to be a `Channel`:
`InputOrderCorrect` (`InputInOrder`) and `OutputOrderCorrect` (`DigestsInOrder`), for
any cores, faults and numbers of messages, under `Roomy` (a fifo that is full would drop).
The invariant says what is where (`InInv`, `OutInv`): the `n` messages handled are the
first `n` sent; those that follow are in the cells pending for the consumer (in
hand, then in the queue), then in the hand of `backend_processor`, then on the wire. Ownership
and contents come from `IInv`: a cell that is pending is written by nobody.
`ConfigCorrect` (`ConfiguredBeforeRunning`) follows from the order of the input:
the flag is set while `CTRL_INITIALIZED` is handled, so all before it were. It
assumes that no message is of an unknown kind, which the violating run
`backend_unknown` shows to be needed.

`ThreadPoolProofs` holds for any workers and any number of jobs.
`ExclusionCorrect` is `MutualExclusion`; `QueueCorrect` is `QueueSound`: the list from
`qhead` to `qtail` has the jobs counted in (`Added`) and not yet removed (`Taken`), in
order, and each job taken is at most one worker's and started at most once. Both
hold until the second unlock of `do_work` frees a mutex that another thread
holds (`disturbed`); the violating run `pool_double_start` shows what may happen after that.

`MemCellsProofs` holds for any number of cells. `ListsCorrect` (`ListsLinked`:
the pointers spell out both lists) is not inductive: that relinking the neighbours
of a cell leaves the rest alone follows from no cell being in two places
(`Partition`), and how far `destroy_backend` has come is said by the position that
its pointer has in the list (`Freeing`). `FreedCorrect` (`AllFreedOnce`) and
`EachCellCorrect` (`EachCellInOneList`) follow; `PoolCorrect` is the refinement
of `CellPool` (`ImplementsPool`): `touch_mem_cell` takes a cell that is free, by either
view, `detouch_mem_cell` gives back one that is not, and no other step changes the free cells.

`ControllerProofs` holds for any scenarios, switches, threads, digests and
capacities, with switches that leave at any time. `StreamCorrect` is
`StreamInSync`, `OrderOnceCorrect` is `AtMostOnceInOrder`. Both come from one inductive
invariant, `ControllerInv`, in three layers, each of which needs the ones before.
`Wired` relates descriptors, connections and the accept queue, and `JobsGiven`
says that for a descriptor only one switch has had there is one output job,
waiting or taken: only then does one thread write to such a switch. `TakenInOrder`
says that the queue ascends and that what was taken from it, whether a thread has it, the
socket or a switch, is older than what is in it; `WrittenOnce`, that the end
of a message is in one place only. With that, `Streams` says where a stream
is: the units on the way continue what was received, and what the
`output_processor` has still to write continues those (`Stream`, `Writer`).
Nothing is said of a switch whose descriptor was used before (`Fresh`). `Idling` says which
places a thread without a job can be at; looking for a job and waiting for one
changes nothing else (`StillIs`), so that the theorems hold whatever the pool starts or
strands and however long the sleep is.

The second part of `ControllerProofs` is about a sole switch: `ConfiguredCorrect` is
`ConfiguredWhenInitialised`, `LearnedCorrect` is `ForwardedBeforeLearned`. They
rest on three things. The programs: whatever the file holds, what `init` sends has the
initialised message last and nowhere else, and wherever an entry says that an address
was learned, one that forwards to it comes before (`InitComplete`, `DhfFilling`).
The senders: this stays true of everything that was sent, with what the main thread
and each `input_processor` have still to send, although they send in turns
(`Sending`). And the way: as long as nobody leaves and the queue has had room for
all, every message sent is in the queue, in a thread, in a connection or received
(`AllPlaced`), so that with `ControllerInv` the switch that has a message has all that
were sent before it (`EarlierRead`).

`MessagesProofs.RoundTrip` is about single messages: whatever the table, the values, the kinds of
match and how many matches and parameters there are, `handle_p4_msg` of `Build(m)`
is `m`, as long as the buffer had room for all of it (`fits`; `messages.c` returns a null
pointer where it has none, and its callers do not look). The builder appends structures and
counts them; the handler starts at a fixed offset and adds the size of each structure it
meets. The proof turns the folds of the builder into a chain of buffers, each made from the one before
(`Chain`), and shows by induction along it that what a call appends stays where it
is (`MatchesAre`, `ParametersAre`), and that the handler's offsets are those at which
the builder appended (`OffsetsAre`).
That `fits` is no empty hypothesis is the theorem's other half: a
message has room whenever its parts would, were each of the largest form (`Roomy`).

`ControllerProofs.DecodedCorrect` is `DecodedAsBuilt`: every program sends entries with one match and
at most three parameters, which are `Roomy` (`ShortMeant`, `ProgramsMean`), whatever it
reads from its file or from a digest. That all messages sent or still to be sent are such
(`AllMeant`) is kept with the rest of `Sending`; with `RoundTrip` they arrive as meant.

`DataPlaneProofs.RegisterCorrect` is `RegisterExact` for any cores, ports,
queues, packets and tables. The strengthening is `AboutToWrite`: a core between its read
and its write has a value no greater than the number of packets counted, and in an
atomic block has the lock and the value still in the register. All steps but the
two that touch the register leave these variables alone and bring nobody to the write
(`RegisterAlone`).

`DataPlaneProofs.BuffersCorrect` is `BuffersOwnedOnce` for any cores, ports, queues,
bursts, packets and table: no buffer is in two places, and none is lost except
by a broadcast. The invariant has the values variables may have
(`ValuesInv`), what a core at each label has in hand (`Control`) and `Ownership`,
which is said of an abstract family of places (`Owned`): every action
moves the front of one place to the end of another, empties one, or gives buffers to and
takes them from the driver. A handler is the composition of such
moves, one per packet it sends (`SendsOn`).

`DataPlaneProofs.OrderCorrect` is `PortOrder` for the same constants,
as long as no receive queue is given to two cores (`OneCoreEach`). DPDK demands
that, `check_lcore_params` does not check it, and without it two cores may
transmit packets of one queue in either order; the scenarios of run `data_plane`
satisfy it. The invariant is an order on the places a packet goes through
(`Earlier`: receive queue, burst, transmit queue) and on what the ports
transmitted (`Line`), kept by every one of those moves.

`DataPlaneProofs.LookupCorrect` is `LookupAgrees` for the same constants and any
changes: a lookup finds what `Promised` says, with the two exceptions named under
"What the properties except". The inductive invariant, `LookupInv`, was checked by TLC on the
scenarios of run `data_plane` before it was proved. `Row` relates the table to the changes
made so far, by kind: an exact table has at each position of `rte_hash` the newest entry of
that key (`ExactIs`); a ternary table has the entries that stand in the order in which they
were added (`TernaryIs`); an LPM table has for each prefix a rule whose index lies behind
`size` by as many as were added since (`LpmIs`, `Behind`). The last says how the
wrap of `size` does no harm within `WithinLimits`: nothing is said of the content of a rule
once more than `index_range` were added after its entry, but whatever was added after an entry
that stands stands too, since a flush would have removed both, so that these are never more than the
limit allows to stand (`BehindStanding`). `ChangeRow` has one lemma
per kind of table and change; `LookupFinds` one per kind of table. The cores' part: what they have in hand
has arrived (`NumberInv`), so that its key has the width that the program says; and a core
whose computation no other ran into has its own units in `reverse_buffer` and `key128` as far as it
has come (`KeyIs`), because two cores that compute at once are both `raced` (`BothRaced`).

`TableReplicaProofs.TypeCorrect` holds for any number of writers and copies.
`NoReadCorrect` is `NoReadWhileChanging` for any cores, sockets, copies and number
of changes, with NUMA and without, provided (`Careful`) that there are at least
two copies, that one thread changes tables, and that the sleep
outlasts the lookups before it. The invariant follows `CHANGE_TABLE`: a core whose
socket nobody is at is `Settled` (its pointer and any lookup are at the active
copy); while a copy is written, cores are settled and the copy is not the
active one (`OffTarget`: it is the next one exactly before the cores are turned over);
a core that was turned over points to the next copy, which is active
(`Turned`); after the sleep, a lookup that is not among those that were there before is at
that copy. That `Least` picks an element uses the library's theorem on minima
of well-founded relations.

The second part of `TableReplicaProofs` follows a change through the copies. `DoneCorrect` is
`DoneIsVisible` for any number of writers, cores, sockets and copies, with
nothing assumed of the sleep: while a change is under way, the copies of the
sockets behind it and, at its socket, the next copy and those before the target
have the change (`ReachedBy`), and a change that is done is in every copy there
is. `OrderCorrect` (`SeenInOrder`) and
`GrowCorrect` (`ViewsGrow`) hold for one writer: its changes are numbered, those
before the present one are done and so visible everywhere, and no copy has a later
one (`Numbered`).

The assumptions are those of the modules: `NoCell` is not a cell, cores are not
called like the three threads, capacities and numbers of cells, threads and copies are positive,
cores and sockets are finite sets of numbers and every core has a socket. A scenario of
`Controller` names one of the eight programs, with lines of a configuration with
which its `main` gets as far as to start the controller (a line that begins with no
code of `l3fwd_codes` or `smgw_codes` is `Wrong`: `read_config_from_file` stops at it);
one of `DataPlane` has packets that arrive at
receive queues there are, with keys of one length, and changes that
`change_table` can be given for its kind of table (`MayBeChanged`). TLC evaluates
them all.

Every safety invariant and action property of the passing runs has its theorem. Only
model-checked is liveness, which is out of the prover's reach: `InputHandled`,
`DigestsWritten` and `DataPlaneStarts` of the backend, `EveryMessageTaken`, `DestroyEnds`,
`SignalledStarts`, `ChangeArrives`, `EverythingAnswered`, `Served` and `Drained`.

The library's induction theorems take an operator as a parameter, which no backend can
instantiate. Where a proof needs induction on a number (a loop that was
cut short, the pigeonhole principle for descriptors, the folds of
`create_tables` and of the programs over their lines), it takes the least element of the set of counterexamples
(`LeastIn`, `LeastIs`, `FromZero`), which the library gives for the
well-founded order on `Nat`.

## Not modelled

* A second backend on a further launch: `launch_count` exceeds 1 only in suites
  of tests without ports, and the threads of the first backend, which share
  `ctrl_is_initialized` with it, run on. `Relaunch` covers what the tables go through.
* Two writers on `TableReplica` (`init_keyless_tables` on each starting core and
  `input_processor`). The module has a set of writers, and types are proved
  for any; the runs have one, since what two concurrent insertions do inside one copy of an
  `rte_hash` is outside the code.
* `dpdk_nicoff.c`, the driver for tests without ports: one thread replays fixed
  packets and ends the process on a difference.
* The Freescale target: not built by the scripts, dependent on vendor libraries.
* Indirect counters and meters, which only print; direct counters, which are
  atomic and never read. Header emission and resizing, parser and deparser:
  their control flow is that of the P4 program compiled. Externs: straight-line
  computations without state between packets.
* The use of `reverse_buffer` by the thread that adds LPM entries while a core
  reverses a key; what writing past `content`'s `max_size` does; the sum of
  `prefix_length` over the parts of a generated LPM key.
* A message longer than a cell: no peer in this repository sends one. The
  `*_NOREPLICA` and `*_SEQ` macros: nothing uses them.
* `destroy_controller`: no program calls it. `destroy_threadpool` appears as the signal that
  `stop_backend` raises.
* The compiler (sequential text generation), build scripts and example programs.

In the parts that are modelled, time is left out except for the
order it enforces, and so are byte formats inside a structure, memory exhaustion
and log output.
