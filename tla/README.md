# Operating-System-Concepts in TLA+

Models of the concurrent programs of this repository, with TLC configurations
and TLAPS proofs. The repository is a collection of independent C programs
(five homework sets); the ones that have threads, processes, locks or messages
are the subject here.

## 1. Inventory

| Part | State it keeps | Operations | How its parts interact | What is hard | What makes it correct |
|---|---|---|---|---|---|
| `hw4/Q1` product pipeline | five counting semaphores, two mutexes, one thread per product | `assembly`, `quality_check`, `packaging`, create/join/destroy | shared semaphores | a product waits for the next place while it holds the last | units conserved, no deadlock, everything shipped |
| `hw4/Q2` packets and ACKs | ring buffer (`head`, `tail`, `count`), `cb.lock`, one condition variable and mutex per sender | `sender` (store or drop, timed wait), `consumer` (fetch, signal) | shared buffer, signals | lost and stale signals, timeouts, wrap-around | buffer is a bounded FIFO queue, waits end |
| `hw4/Q3` intersection | a mutex per direction, `print_mutex` | `turn_right`, `go_straight`, `turn_left`, `safe_print`, `car_spawner` | nested mutexes, shared output | cars of different directions at once | no blocking, each car announced once |
| `hw4/Q4` agents on a grid | `map`, `maplock`, one thread per agent, a renderer with `prev_map` | placement, moves, comparison and drawing, freeing | shared grid under one mutex | placement races, freeing under the renderer | agents exclude each other, frames are whole |
| `hw5/Q4` chat server | list of clients with descriptors, its FIFO, `running` | J, M, L messages, `close`, signals, `cleanup` | FIFOs, SIGPIPE, console thread | clients that vanish, full FIFOs, shutdown at any step | every listed client is served, in order |
| `hw5/Q4` chat client | two descriptors, `running`, a receiving thread | connect, type a line, receive, `cleanup` from either thread | FIFOs, signals, two threads | cleanup racing poll and read | ends when the server shuts down |
| `hw5/Q1` primes over a pipe | pipe with its ends, child processes, `total_sum` | `fork`, `find_primes`, write, read to end of file, `wait` | one pipe | end of file against open write ends, SIGPIPE after a failed fork | the sum of all primes, whatever the order |
| `hw5/Q2` max pooling | matrices in shared memory, a process per row | `max_pool`, unchecked `fork`, counted `wait` | shared memory | failed forks, results of an earlier run | every row that has a process is right |
| `hw5/Q3` merge sort | array in shared memory, `pids`, a process per chunk and per merge | `merge`, `mergeSort`, `parMergeSort` | shared memory, `waitpid` | chunk boundaries, failed forks and `waitpid(-1)` | processes of a round stay apart, sorted permutation |
| `hw3` `sjf`, `srtf`, `HRRN`, `rr_priority` | process table, clock | sort, choose, run, account | none (sequential) | burst 0, ties, idle time, an unset index | tables add up, shortest-first is optimal |
| `hw3/multi_level_sched.c` | three queues with flags, `rem_after_interrupt`, `finished`, `completed` | fill the queues, a turn in each of them, interrupt by an arrival | none (sequential) | stale entries, double counting, carried-over quanta | clock counts work, ends early over stale entries only, levels in order |
| `hw2/A-HeapSearch` | array, result, threads or processes | recursive, threaded and forked search | shared result | skipped elements, check and store without a lock | what is found is there |
| `hw2/cpdir` | lists of directories and files, a thread each | traverse, mkdir all, copy all | file system, joins | mkdir before its parent's | loses whole subtrees only |
| `hw2/download` | list of addresses read with `fgets`, a child each | read, `fork`, `exit`, `wait` | the offset of the open file | `exit` moves the parent's offset, even in the middle of a line | no line passed over |
| `hw2/compile`, `hw2/sum_on_water`, `hw1` | files, arrays | compile, sum, menu | none | bounds | list operations |

`PROJECT.json` lists every one of them with its status, and the hazards of the
code with the line where each one bites.

## 2. Plan

Order: the programs with the richest interleavings first.

1. **Done.** `StagedLine`/`Pipeline`, `LossyQueue`/`Packets`, `Agents`,
   `Crossing`, `Chat`, `MergeSort`.
2. **Done.** The programs that fork or start threads and wait: `Primes`,
   `Pooling`, `HeapSearch`, `CpDir`, `Download`, and failed forks in
   `MergeSort`, all composed in `Programs` under the abstract `ForkJoin`; the
   schedulers `Schedulers` and `Mlfq`, composed in `Simulators`.
3. **Done.** Proofs: every invariant and action property of every run and every
   refinement of an abstract specification, but for the liveness half of the
   staged line; section 6.
4. **Next.** An abstract `Room` (a list of members and one mailbox each) that
   `Chat` implements.

Runs are kept to one per question; their bounds are in section 4.

## 3. Modules

`Pipeline` (`hw4/Q1/Q1.c`). `sem` and `owner` are the semaphores and mutexes,
`pc` the place of each product's thread. One action per semaphore or mutex
call, because that is where threads interleave; `printf` and `sleep` change
nothing shared. `StagedLine` is what it promises: items walk through five
places of bounded capacity and enter a place before they give up the previous
one. The mapping `atBar`, `straddlesBar` reads the place of an item off its
thread's label.

`Packets` (`hw4/Q2/Q2.c`). The fields of `cb`, its lock, the senders' mutexes,
and for each thread its label. `pthread_cond_timedwait` is three steps: give up
the mutex and sleep; be woken by a signal, the clock or (a constant) for no
reason; own the mutex again. A signal to a sender that does not sleep is lost.
A packet's random id is replaced by the number of the sender's round, and all
senders together make at most `MaxPackets` packets (`Made`).
The slot, the index and the count are stored in three steps (`StorePacket`,
`MoveTail`, `CountUp`; `MoveHead`, `CountDown`), so inside the lock they
disagree. `LossyQueue` is what the buffer promises; `queueBar` unrolls the ring
from `head`: a packet is in the queue once it is counted, and out of it once the
head has moved.

`Crossing` (`hw4/Q3/Q3.c`). One spawner per direction; the three movement
functions differ only in the movement they announce, so each of their steps is
one action. `log` is the output. It is checked in `Programs`.

`Agents` (`hw4/Q4/Q4.c`). The input (obstacles, starting cells, paths) is
chosen in `Init`. A move is lock, clear the old cell, mark the new one, unlock.
The renderer compares, draws and copies in one step under the lock; nobody else
writes then. `main` creates the threads, joins the agents only, destroys the
mutex and frees the grid. `ghosts` is the set of agents that found their
starting cell taken: the code leaves them unplaced but lets them walk.
After the free, drawing reads the old content or anything else.

`MergeSort` (`hw5/Q3/merge.c`). The parent's four loops (fork and wait for the
sections, fork and wait for the merges of a round) are one action per pass. A
child is the list of the calls of `merge` it still has to make, `todo`: those of
`mergeSort` on its section in their order (a recursive function), or just one. A
call copies both halves (`L`, `R`) and then stores one cell per step, so stores
of all children interleave. A child with nothing left to do has exited. A fork
that fails leaves its child in `failed`; the parent's `waitpid` for it has a pid of
-1 and takes any child that has ended, or none (`unwaited`).

`Primes` (`hw5/Q1/pipe.c`). Children test the numbers of their range and write
primes to a pipe of bounded size; who holds which end of the pipe is read off
the labels (`HasReader`, `HasWriter`). A failed fork makes `main` return at once:
the children that are left die of SIGPIPE at their next write.

`Pooling` (`hw5/Q2/max_pooling.c`). The result lies in a named shared memory
object that survives the program, so it holds anything at first. A row without
a process is `unborn`; waits are counted.

`HeapSearch` (`hw2/A-HeapSearch`). The recursive search is a recursive function;
the threads run over their sections, sharing an atomic result; the processes
check and store a plain one in two steps.

`CpDir` (`hw2/cpdir/cpdir.c`). A thread per directory (one `mkdir`), then one
per file (open, then copy); the traversal before them returns both lists. The
target may hold any part of an earlier copy. `mkdir` fails where the parent is
missing.

`Download` (`hw2/download/download.c`). `fgets` fills a buffer from an open file
whose offset the children share. A child inherits a copy of the buffer, and
its `exit` sets the offset back by what is unread in it, as POSIX asks of a
seekable input stream. A character is its place in the file: a `read` may end in
the middle of a line, and if a child has moved the offset back by then, `main`
joins the part it has with the characters from there (`Torn`).

`ForkJoin` is what those seven programs promise: workers start, end by
themselves, and the results are used when none is left. `Programs` holds all
seven, with the constants of each; a behaviour is a run of one of them, and
`Alive`, `Phase`, `Round` map its state to `ForkJoin`. `MCForkJoin` is its instance
for TLC: the sizes in the configuration, and a tree.

`Schedulers` (`hw3/sjf.c`, `srtf.c`, `HRRN.c`, `rr_priority.c`). One state machine
with the policy chosen in `Init`; a step is a decision. `chart` is the history
of who had the CPU in each unit of time, against which the fields the code
computes are checked. `Mlfq` (`hw3/multi_level_sched.c`). A step is a pass of the
outer loop, with the inner loops' outcome computed (`Pass`). The sorts of `Schedulers`
are folds over the indices of the loops, the inner one inside the outer.
`Simulators` holds both modules; `MCSchedulers` is its instance for TLC.

`Chat` (`hw5/Q4/server.c`, `client.c`). The server's main thread, its console
(`Close`), SIGINT and SIGTERM; each client's main and receiving thread, one `^C`
and a kill. A broadcast is one step per list entry, so clients act in between.
The server's handler runs `cleanup` wherever it finds the main thread, and what it
interrupts never goes on. If that is itself a `cleanup` (begun by `close`, or by the
other signal), the list still begins with the entries freed so far: the second
`free` kills the server, or goes unnoticed and the walk goes on. The notice and
the close of an entry are two steps, so the signal may come between them and the
client is told twice. A signal is blocked in its own handler, which never returns,
so each of the two comes once (`handling`).
A write to a FIFO whose reader is gone kills the writer: neither program
changes SIGPIPE, so the `EPIPE` branches (99-103, 118-122) are dead.
A write to a full client FIFO is dropped (non-blocking); to a full server FIFO
it blocks. `server.c` calls `removve_user` where it defines `remove_user`
(58): it does not link as it stands, and the calls are read as `remove_user`.
Message text, display names and the member count are left out; a message is its
type, its sender and, for a line, its number.

The `...Proofs` modules extend the module they are about: `PipelineProofs`,
`AgentsProofs`, `PacketsProofs`, `ChatProofs`, `ProgramsProofs` with
`MergeSortProofs` for one of its programs, and `SimulatorsProofs`.
`InductionLemmas` is what they need of induction (section 6).

`MCPipeline`, `MCAgents`, `MCChat`, `MCCpDir` are the other model-checking
instances (symmetry sets, trees). In `Programs` and `Simulators` TLC counts a program as
one action; that every action of each module is taken in them was seen with the
module coverage of TLC. Operators with the remark
"Mutant" are deliberate mistakes, one for each property, used to see
that the property can fail; no specification uses them.

## 4. Runs

| Run | Shows | Bounds, and why they are enough |
|---|---|---|
| `PipelineLine` | conservation, no deadlock, the staged line, termination | 4 products, pools of 2, 2, 1 and buffers of 1: each wait really blocks and several queue up for each place. The theorems lift the safety part to any number |
| `PacketsRing` | the buffer is a lossy FIFO queue, the ring is consistent, ACKs are earned, every wait ends | 2 senders, 2 consumers, 2 slots, 3 packets: the ring wraps, fills (a sender times out, a packet is dropped) and empties. The waits of one sender may end spuriously; `AcksEarned` speaks of the other, as POSIX lets the code promise no more |
| `ForkJoinPrograms` | the seven programs that start workers and wait: each is fork and join, ends, and gives the result | crossing: 2 directions, 2 cars each. Merge sort: all arrays of 7 cells over 2 values, 3 sections of 2, 2 and 3 cells, two rounds with an incomplete last block, every set of failed forks. Primes: up to 9, the first odd square, 3 children, a pipe of 2. Pooling: all 3x3 matrices over 2 values, windows cut short at both borders. Heap search: all arrays of 5 over less than, equal to, more than q; sections of unequal length. Copy: 3 levels with a file each. Download: 9 characters in lines of 2 and 3, reads of 4 that end in the middle of a line, 7 children: lines are read again and torn, joined parts fill `url` |
| `SchedulerRuns` | the five simulators: tables and clocks, optimality, levels, what a stale entry may cut short, termination | 3 processes. Bursts 0..3, arrivals 0, 1, 3 and a quantum of 2: ties, idle time, preemption, a divide by 0. For the levels, quanta of 8 and 16 as in the code, bursts 1, 9, 25, 40 (ending in each queue) and arrivals 0, 12, 30 (interrupting a turn in queue 2 and in queue 3) |
| `AgentsGrid` | exclusion of agents, whole frames, obstacles, termination | all inputs on a 2x2 grid with 2 agents, at most 1 obstacle, up to 2 moves each from U and R: both border tests, contention for one cell, following an agent into the cell it leaves |
| `ChatRoom` | completeness and order of what is delivered | 2 clients, 2 lines each, FIFOs of 2 messages: full FIFOs on both sides, leaving, and a client killed at any step |
| `ChatShutdown` | the list under join, leave and shutdown; what a client is sent begins with its welcome and ends with the notice; everybody on the list is told and ends | 2 clients, no lines, FIFOs of 2; `close`, a signal to the server at any step, also in the `cleanup` after `close`, `^C` in either thread of one client. Lines would only fill FIFOs, which joins, leaves and notices do too; the theorems have any number of them, and two signals |
| `PacketsDocAck` | *violated*: the reported ACK belongs to the packet (Q2.c:69) | 1 sender, 2 packets |
| `CpDirDoc` | *violated*: the directory structure exists before files are copied (cpdir's report:93) | 3 directories, 3 files |
| `AgentsDocCollide` | *violated*: no collisions (Q4.md:34) | 2 agents, 1 move |
| `AgentsDocFree` | *violated*: the renderer reads a consistent map (Q4.md:46) | 1 agent |
| `ChatDocSurvives` | *violated*: the server detects disconnected clients (report.md:210-211) | 2 clients |

Deadlock is checked in every run but those of the chat, where a server without clients
waits for input for ever.

Other places where a report and the code part, met while modelling and present
in the models though no run is kept for them: Q1.md:55-57 locks the mutex
before waiting for the machine, the code after (Q1.c:56-57); Q2.md:34-35
signals a *waiting* sender, but the sender may not wait yet (Q2.c:150);
report.md:100 sends S to all clients, but a J still in the FIFO when the room
closes is never read (server.c:259); report.md:259 detects a dead server, but
POLLHUP without POLLIN is ignored (client.c:69); report.md:291 removes the
client's FIFO, but a read on the closed descriptor ends the process before the
unlink (client.c:78, 122-129).

In the programs of `hw2` and `hw3`: the heap search's report says that each thread
checks whether each element in its segment matches, but behind an element that
is too large the loop steps over the next one (multi-thread.c:37-46), so a thread may
miss what is there: `AnswersRight` claims completeness of the threads only for
arrays without larger elements. `HRRN.c` reads arrival before burst (32) where
its sample input (85-92) has `3 0` first, so that the sample divides by zero at
62; with a late first arrival its loop ends at the sum of the bursts (54)
before everybody is served, and when nobody is ready it runs whatever index is
in an uninitialised variable (57). `TimesAddUp` exempts those inputs by
`Gapless`. `rr_priority.c` never ends with a burst of 0 (68), which
`SchedulersEnd` exempts; `srtf.c` counts a burst of 0 down below 0 for ever, and
such input is left out. `multi_level_sched.c` counts a stale queue entry as
another completed process (133-138, 198-202) and may end with processes
unserved, e.g. for bursts 1, 1, 25 and arrivals 0, 0, 12; a carried-over
quantum may take more than is left to do, so `remaining_time` becomes negative
(257-264); `CutShortByStaleHead` bounds what the first may do, no property the
second; and it waits for ever when nobody is in a queue (251). `download.c`
reads lines again when a child's `exit` moves the shared offset back (67), and
when `main` has read a part of a line by then, it joins that part with
characters from elsewhere (54): the address is torn, and the line it began in
may have no child of its own. `NoAddressSkipped` says what is left: `main` never
passes over a line.

## 5. Fairness

* `Pipeline`: weak fairness per thread. Each asks for a
  semaphore or mutex finitely often, so a thread cannot be overtaken for ever.
* `Programs`, `Simulators`: weak fairness of the whole next-state relation:
  some thread or process that can go on does. The programs poll nothing and are
  finite, so this is enough for them to end.
* `Packets`: weak fairness per thread and nothing about mutexes. Senders make a
  bounded number of packets (`MaxPackets`), consumers poll for ever; no progress of
  senders at `cb.lock` is claimed, because consumers that poll an empty buffer
  (131-135) may keep them out. `WaitEnds` only concerns `lock_conds`, which a
  consumer takes once per packet.
* `Agents`: strong fairness for taking `maplock`. Every thread, the
  renderer included, sleeps a second outside the lock after each use (52, 85),
  so the lock is free while others wait.
* `Chat`: weak fairness of all steps of the server's main thread, of the receiving
  threads, and of clients' main threads once they write or clean up, taken
  together: as long as one of these threads can go on, one of them does. That is
  less than fairness for each of them, and enough, because what is left to do
  after the room is closed is finite. What a user, an operator or a killer does
  is never assumed to happen.

## 6. Proofs

`PROJECT.json` lists the theorems. They hold for every value of the constants
that satisfies the assumption of the module: `PipelineAssumption` (finitely many
products, at least one machine of each kind and one slot in each buffer),
`AgentsAssumption` (finitely many agents, a grid of at least one cell, and
thread names that differ), `PacketsAssumption` (senders and consumers differ, at
least one slot, no packet is `None`), `ChatAssumption` (a FIFO holds at least
one message), `ProgramsAssumption` (what each of the seven programs asks of its
input: sizes at least one, no more sections than cells, a finite tree of
directories), `SimulatorsAssumption` (at least one process, a quantum of at
least one, bursts and arrivals that are not negative). TLC evaluates all of them
in the runs. They are about constants only; nothing is assumed of an operator.

Each proof has the same shape: a strengthening of the invariants that is
inductive, one lemma per kind of step, and the invariants as its consequences.

**Induction over data.** What a loop or a recursive function computes needs
induction, and the library's induction rules, which take an operator, cannot be
used with these provers. `InductionLemmas` does without: a set of numbers that
is not empty has a smallest member (`SmallestOf`, from the library's
well-foundedness of the order), so a proof picks the smallest counterexample;
and `Recursion` states for functions, rather than for operators, that an
equation whose right-hand side only looks at arguments of smaller measure has a
solution. From it come the recursive equations of `FoldFunctionOnSet`,
`FoldLeft` and `FlattenSeq`, of `mergeSort` and of `traverseDirectory` (whose
measure is the height of a directory in the tree); the recursive heap search has
its own, the least set that obeys it. `FiniteInduction` and `NumberInduction`
are the two inductions as sets: a family of subsets closed under adding a member
has the whole set, a set of numbers closed under successor has every number. The modules that a program is instanced from have
`Cardinality` and `IsFiniteSet` of their own; that they are the same as
everybody's is a lemma each.

**Pipeline.** `PipelineInv` is `Typed` (`TypeOK` but for the bound on the semaphores,
which follows), `Conservation` and `OwnerInside`. It is
inductive as it stands, because the history of a product is its label: which
units it holds is a function of where it stands (`HeldAt`). Every step is a
`sem_wait`, a `sem_post` or a mutex step, so `Conservation` needs three lemmas
(`WaitConserves`, `PostConserves`, `MutexStepConserves`) and a table of the
labels' units. From the invariant follow:

* `PipelineNeverStuck`: while a created product is not through, some thread can
  take a step. The argument walks the line from its end. Suppose nobody can
  step. Then nobody is inside a mutex's section, the mutexes are free and nobody
  waits for them; so nobody holds a packaging unit, all of them are free
  (`FreeIfUnheld`) and nobody waits for one; so nobody holds a slot of
  `buffer2`, and so on back to the assembly machines.
* `PipelineImplementsLine`: the refinement that the run `PipelineLine` checks on
  one instance. A product's label maps to the place it occupies. A unit is taken
  before the previous one is given back, so between the two a product straddles
  two places; the map counts it in the later one, and the abstract capacity is
  respected because the holders of a unit include its occupants
  (`OccupantsAreHolders`) and `Conservation` bounds the holders.

**Agents.** `GridInv` strengthens `ObstaclesStay` and the type invariant:

* `LockInv`: `maplock` belongs to an agent exactly at the labels between lock
  and unlock, and to the renderer at its own, as long as the mutex is not
  destroyed; once it is, every agent has returned. That is why the renderer's
  use of a destroyed mutex cannot hurt an agent any more.
* `MoveInv`: an agent halfway through a move still has a move to make, its old
  cell is cleared and its new cell is free. It survives because no other agent
  is inside (`OthersOutside`).
* `MarkInv`: every mark has a placed agent under it; and without ghosts (agents
  that found their starting cell taken) every agent that is not halfway has its
  own marked cell. `NoCollision` is not inductive, since it says nothing of the
  grid in the middle of a move.

From it follow `AgentsKeepObstacles`, `AgentsLeaveNoMark`, `AgentsNeverCollide`
and `FramesAreWhole`. The condition `ghosts = {}` is not a convenience: without
it the property is false, as `AgentsDocCollide` shows.

**Packets.** `PacketsInv` is typing, `LockInv` and `CondInv` (a mutex is owned
by the thread between its lock and its unlock), `SectionInv` and `RingInv`.
`RingInv` says how far the indices and the count are apart: the slots in use are
`inQueue` many from `head` on (one less than `count` while a consumer has still
to count down), and `tail` is behind them (one further while a sender has still
to count up). It is not inductive alone: that a store goes to a slot that does
not count, and that a fetched packet is still the oldest when the head moves, is
known from what the thread has seen since it took `cb.lock` (`SectionInv`), and
stays true because nobody else is inside (`SenderAlone`, `ConsumerAlone`). With
the lock free nobody is at the labels in between, hence `RingConsistent`. The
ring's `% BUFFER_SIZE` is replaced by `Wrap` (`ModIsWrap`).
`PacketsImplementQueue` shows each step to be one of `LossyQueue` or a stutter: a
dropped packet is refused, a counted one appended (`CountUpAccepts`), one the
head leaves behind is the first (`MoveHeadTakes`); the other stores do not show
(`StoreStutters`, `CountDownStutters`).
`AcksEarned` needs a count over all consumers (`AcksInv`): what a sender has
counted, plus one if its wait has been signalled, plus the consumers that have
taken a packet of its own and not signalled yet, is at most the number of its
packets taken. A signal moves one from the last to the middle, or is lost; a
return from the wait moves it to the first. It is claimed, as in the run, for
senders whose waits do not return spuriously.

**Chat.** `ChatInv` has a part for each client: it asks to join once and is
listed once (`JoinsOf`); what it is sent begins with the welcome and ends with
the notice, of which the first may be followed by as many more as there were
signals (`ShapeOf`, by `Shaped`; whom a `cleanup` has still to tell can be told
once more, `Spare`); only who stops running leaves the list (`LivesOf`); in a
broadcast who can be reached has the message or is still to be visited
(`ServingOf`); and the lines of each client go in their order from it through
the server's FIFO and the message being handled into every FIFO that lost none
(`LinesOf`). Each part has a lemma for a step of a client and one for a step of
the server; what the steps of either side can do is summed up once (`Moves`, and
`Serves` with the steps named after the code), so no part is checked against
every action. `SessionShape`, `EveryoneServed`, `LinesInOrder` and
`LiveClientsReachable` follow.

**Programs.** `ProgramsInv` is the invariant of whichever program runs.

* *Crossing* (`CrossingInv`): the lines of a direction are counted by its car's
  number, plus one while that car is announced.
* *Primes* (`PrimesInv`): `Balanced` adds up what `main` has summed, what is in
  the pipe and what each child has still to find, as running totals over the
  candidates; every step moves a prime from one to the next. `is_prime` is right
  by the usual argument on the smaller of two divisors (`CheckPrime`).
* *Pooling* (`PoolingInv`): the maxima stored so far are right, and who waits as
  often as there are rows waits for every child that was born.
* *Heap search* (`HeapInv`): nothing wanted lies in what a worker has passed;
  the sections cover the array. The recursive search is the least solution of
  its equation.
* *Copy* (`CpDirInv`): the directories that exist form a tree (`TreeInv`), no
  directory thread runs behind the join and no file thread before it
  (`PhaseInv`), so what a file thread finds out about its directory stays true
  (`CopyInv`). Of the recursive traversal it needs that directories are listed
  as directories and files as files (`Listing`).
* *Downloader* (`DownloadInv`): a line that begins before the shared offset, or
  before a place in `main`'s buffer, has a child or is in the buffer, ahead of
  that place (`FileCovered`), whoever moves the offset back. That a `read` which
  goes on elsewhere uncovers no line needs `NeverAhead`: the offset is never
  beyond the end of the buffer, so a place in the buffer is followed by the next
  one or by an earlier one. A line taken is then whole or torn (`LineIsAddress`).
  Children are numbered in the order of their start (`ChildrenNumbered`), so a
  new one takes no address from an earlier one.
* *Merge sort*: `SortBase` says where the parent is (`RoundInv`) and which calls
  each child has left, inside its section (`Shapes`: calls are nested or apart).
  Sections and pairs of blocks of a round are apart for any length and number of
  sections, hence `ChildrenApart`. `NothingLost` splits the count of a value
  into the share of the child that stores and the share of all others. `SortInv`
  says that a child's remaining calls sort its section given what its earlier
  calls have sorted; `main` waits for all of a round, so the blocks of the next
  are in order, `RoundsSorted`, unless a fork has failed.

`ProgramsImplementForkJoin` takes each action of each program: a worker starts,
a worker ends, `main` joins with nobody alive, gives up, or nothing shows.

**Simulators.** `SimulatorsInv` is the invariant of the program that runs.

* *Multi-level scheduler* (`MlfqInv`): each queue lists exactly the processes
  flagged for it, each once, and the flags are nested (`QueuesInv`), so no queue
  outgrows n (a part of `TypeOK`); who has not left the first queue is as it arrived (`FreshInv`);
  the clock is the sum of the bursts less the sum of what remains (`WorkInv`,
  also where an interrupted turn is put right afterwards). `LevelsInv` says what
  those who have left a queue have had and those who have not cannot have had,
  when all arrive together: then nothing interrupts, and every turn is full.
  `CutInv` is about the end of the loop: once a stale entry has been counted it
  heads the first queue that is not empty, and nobody enters a queue above it
  (`Blocked`), since the clock stands still and all who have arrived are through
  the first queue; so nothing else happens until the count is full.
* *One queue* (`SchedulersInv`): the number of units a process has had is its
  burst less what remains, all of them after its arrival, and the waiting time
  of who is completed goes by the last of them (`CountInv`). That holds through
  a turn if the process can use it (`ProperTurn`), which is what `PolicyInv`
  provides for each program: in `sjf.c` the completed ones are the first of the
  array; in `HRRN.c` the clock is the sum of the completed bursts, so on a
  `Gapless` input somebody is ready (`SomebodyReady`), and at its end everybody
  who needs the CPU has had it (`AllServed`). The sorts return an array of all
  processes, `exchange_sort` with a smallest key in front (`ExchangeSorts`),
  which is where `HRRN.c`'s clock starts.
* *Shortest first* (`SimulatorsShortestFirstOptimal`): the schedules of `sjf.c`
  and `srtf.c` have the least total turnaround time of all orders' schedules.
  `ShortestInv`, added to the invariant of the one-queue programs, says that
  `sjf.c` works through an array sorted by burst, and that every unit of the CPU
  so far went to a process that needed least of those that still needed some
  (`PreferredTurns`); TLC found it to hold on `SchedulerRuns` before it was
  proved. The rest is about two `Course`s of the same processes through time,
  one of which prefers the shortest. At every time, whichever processes are left
  out of the other course, as many can be left out of the preferring one so that
  its rest needs no more (`Leads`, kept by `LeadStays`: if the process that runs
  is left out, it changes places with one that is not). With those left out that
  the other course has not finished, nothing is left of its rest, so at no time
  has the other course fewer processes left (`FewerAreLeft`). Counting at each
  time who is not through is the same as adding up completion times
  (`TotalByTails`), so the sum is least too (`ShortestIsBest`). On the other side stands `TotalCompletion`, which folds
  over an order and, for each process, over the slots: its folds are shown to
  give each process exactly its units, after its arrival and in nobody else's
  slot (`CompletionFold`, `HorizonFits`), so each order's schedule is a
  `Timetable` and takes a `Course` of its own (`TimetableRuns`).

What stays with TLC is liveness and termination (`WaitEnds`, `ImplementsLiveLine`,
`AgentsReturn`, `ShutdownEndsClients`, `ProgramsEnd`, `SchedulersEnd`), because
temporal fairness and ENABLED are out of the prover's reach.

## 7. Not modelled

Failures of `pthread_create`, `malloc`, `mkfifo`, `pipe`, `mmap`, `opendir`; a signal
taken by the chat server's console thread, and a second one in a chat client.
End of file on a chat client's standard input makes its loop spin, which is the
same as a user who types nothing. In `hw2`, permissions, truncated path names
and libcurl itself; an address list whose last line has no newline, or with a line
longer than `url`. In `hw3`, printing and averages.
`test_performance.c` is a copy of `merge.c` with timing. `hw2/compile`,
`hw2/sum_on_water` and `hw1` are sequential input and output.
