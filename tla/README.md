# A verification project for zettelkasten_public_subset

The repository is a slip box: dated notes, and beside them programs that its
author wrote while learning C++, C and the Linux kernel. There is no single
application. What carries logic of its own, and what a test would hardly
reach, is the concurrent code: a task queue, a thread pool and a logger with a
worker thread in `2022-06-25-C++-notes/Sandbox`, a chat bot in
`2022-06-25-C++-notes/vk_bot`, a memory pool in the same Sandbox, and the
kernel modules in `2022-04-19-linux-modules`. This project models them in
TLA+, checks them with TLC and proves the most important results for all
values of the constants with TLAPS. Around that core lie some two hundred
sequential programs - lists, maps, owning pointers, trees, matchers, parsers,
matrices, hashes, SSA construction, small machines - whose operations are
modelled one by one and checked on all small inputs or all short sequences of
calls.

`PROJECT.json` lists every component with its status, every run, the source
lines each definition translates, the hazards the properties are for, the
mutant that shows each property can fail, and the theorems.

To check: `tlc -workers 2 -config <cfg> <module>` for every run of
`PROJECT.json`, `tlapm <module>` for the modules whose name ends in `Proofs`.

## Inventory

| Component | State | Operations | Interaction | What is hard |
|---|---|---|---|---|
| `TaskQueue` (task_queue.hpp) | deque of tasks, vector of workers, `m_running`, `m_stop_requested`, stop policy, mutex and condition variable | start, stop, wait_for_completion, set_num_workers, push_void_task, push_future_task, worker loop, destructor | clients push while one owner starts and stops; futures report to clients | `stop` stores its flag and notifies without the mutex; `push_void_task` unlocks a mutex its `unique_lock` still owns; pushes race with the stop and restart in wait_for_completion |
| `thread_pool` (thread_pool.hpp) | queue of jobs, counter of waiting threads, terminate and pause flags | add, clear, pause, wait, thread_task, destructor | clients call everything at once | flags written without the mutex; `wait` spins on a counter; `clear` and the destructor drop packaged tasks |
| `log_message_dispatcher` (logger2.hpp) | queue of messages, current batch, running and stop flags, policy | push, start, stop, the worker, destructor | every thread logs, one worker writes | the worker decides to end without another look at the queue; stop notifies without the mutex |
| vk_bot | ts of the long poll, the handler's nickname, `users.db`, open descriptors | one round: getLongPollServer, poll, construct handler, command, answer | the VK service, SQLite, cURL, web services | messages between two polls; process dies and restarts; every request leaks a descriptor |
| `MemoryPool` (memory_pool.hpp) | chain of blocks, current slot, free list threaded through freed objects | allocate, deallocate, newElement, deleteElement, destructor | any container | byte arithmetic at the end of a block; links written over objects |
| `StackAllocator` (memory_pool.hpp) | head, nodes in the pool | push, pop, clear, destructor | over a MemoryPool | nodes are read before they are given back, and clear walks the chain it frees |
| read-only-device | `already_open`, counter, message buffer, module references | init, exit, open, read, write, release | processes and rmmod | exclusive open, static buffer, reference counting |
| ioctl module and user program | region, class, device, cdev | init with rollback, exit, open, ioctl, release | user program opens during init and exit | failures of each acquisition |
| procfs modules (four) | /proc entries, static buffer and size, iterator counter | init, exit, read, write, seq_file start/next/show/stop | `cat` and `echo`, rmmod, modules of the same name | static data without a lock; clean-up by name |
| syscall-spy | saved pointer and table entry | init, exit, `funny_sys_open` | every process that calls open; other hooking modules | code that goes away under its callers |
| sysfs module | directory, file, value | init, exit, show, store | processes | failure between two creations |
| linked lists, deques, process queue | nodes with next (and prev), head, tail, a counter | push, pop, insert, erase, sort, copy, move, clear | copies and moves between lists | long sequences of legal calls; the first, last and only node |
| shared and unique pointers, optionals | control block or buffer, counters, `defined` | construct, copy, move, assign, reset, release, swap, destroy | several owners of one object | aliasing; self-assignment; the last owner |
| hash maps, bidirectional map, LRU cache | table or buckets, counts, list and map of iterators | insert, find, remove, refer, growth | two structures that must agree | removed slots, growth, the cache at its capacity |
| vectors, grid of figures, search trees | arrays or nodes on the heap | push, insert, erase, copy, move, traversals | none | growth and ownership |
| query container | the borrowed container and a buffer filled on demand | filter, take, skip, merge, map, reductions | steps of one chain | an empty buffer stands for "not filled" |
| POP3 client | options, directory, file of the mail | parse options, mkdir, one request per mail | server, file system, a second client | failing calls; clients of the same second |
| dialogs and notifiers | state of the automaton; subscribers by id | words of the user; subscribe, notify | user; callbacks | state shared through statics |
| buffered writer, retry, saved model | buffer; loop; numbers and a file | write and flush; call again; save and load | file that was cut off | limits and counts |
| atomic counters, compare-exchange | atomic and plain variables | one load, store or exchange at a time | threads | lost updates; one args_t for all threads |
| SSA form | blocks, dominators, frontiers, stacks of versions | build, place phis, rename | none | joins and loops |
| sorts, graph searches, puzzles, matchers, parsers, matrices, polynomials, hash padding | none | pure functions | none | edge cases of the input |
| Lua adapter (LuaAdapter, LuaFunction, LuaTable) | the stack and globals of one lua_State | load, get, set, push, pop, call, open and close tables | three wrappers share one stack; the Lua library | calls that leave a value behind when a type is not the expected one |
| sockets, ZMQ, sound, GUI | a connection or a library's state | calls of libraries | libraries | not modelled, see below |

Correctness, per component: a queue runs each accepted task once and in order
and never touches its deque without the mutex; waiting for completion means
completion; stopping returns and leaves nobody behind; a log loses nothing; a
bot answers each message at most once and by the right name; slots lie in
their blocks, apart from each other, and the free list never meets what
clients hold; an exclusive device has one opener; a module leaves the kernel as
it found it and is never removed under a caller; a container's links, counts
and owners are right after any sequence of calls and each call does to the
sequence or map what its name says; an algorithm computes what its problem
asks for.

## Modules and how they correspond to the code

Actions bear the names of methods or, where a method is split, of the method
and the point it is split at (`StopRequest`, `StopNotify`, `StopJoin` for
`stop`). A method is split where another thread can tell: at mutexes, at reads
and writes of atomics or plain variables that no lock covers, at blocking and
at callbacks. Variables keep the source's names; those that stand for a
program counter end in `pc`, and those marked *history* in a module record the
past for a property and guard nothing.

* **TaskQueue** - task_queue.hpp. `holder` is who the mutex thinks holds it:
  the second unlock in `push_void_task` releases whatever it finds, and
  `stolen` records that it hit another thread's lock (after that, the standard
  promises nothing and the safety properties are not claimed). Workers sleep
  on the condition variable, `notify_one` wakes one of them, and wakeups may
  be spurious.
* **FifoTasks** - the abstract specification of a task queue: tasks are
  accepted, begin in that order, each once, finish with a value or an
  exception, and only discarding the queue breaks a promise. `TaskQueue` and
  `ThreadPool` both implement it (`FifoSpec`, with INSTANCE ... WITH).
* **ThreadPool** - thread_pool.hpp; `lost` records that a worker fell asleep
  although its predicate had become true, which the stores without the mutex
  allow.
* **LogDispatcher** - the worker, `push`, `start` and `stop` of logger2.hpp. A
  push takes the mutex, appends and releases it in one step, as nobody can see
  the inside of that; the worker's section is several steps, as `stop` does
  not take the mutex. Levels, sinks and formatting are left out.
* **VkBot** - the loop of `init_bot`, the dispatch of `Command_handler` and
  every compiled command, one action per kind of message the code tells
  apart. A request costs a descriptor; with none left, SQLite fails silently
  and cURL returns an empty text. Any request may fail for other reasons too
  (`cURL::request` ignores the result of `curl_easy_perform`): `json::parse`
  does not survive the empty text, and a failed `messages.send` loses the
  answer without notice. The initial `users.db` is any an earlier process may
  have left.
* **MemoryPool** - memory_pool.hpp. A slot is a block and a byte offset, and
  the offsets are computed as in `allocateBlock` (`FirstSlot`, `LastSlot`), in
  bytes. What a slot holds is an object or the link that `deallocate` writes.
* **PoolStack** - `StackAllocator` on top of the operators of MemoryPool; it
  implements the abstract **LifoStack** (`IsStack`).
* **RdOnlyDevice, IoctlDevice, ProcEntries, ProcBuffer, SeqFile, SyscallSpy,
  SysfsValue** - one per kernel module, ProcEntries for the init, exit and
  read that four of them share. What the kernel does around the handlers
  (references of open files, removal of a /proc entry that waits for its
  callers, the system call table) is marked external in the map. In SyscallSpy a
  process is a stack of frames, since a hook calls the function it found and
  returns into its own module: a blocked open has a frame of the spy below it.
  A name that runs over the buffer of `funny_sys_open` leaves the frame
  `overrun`, of which nothing is said.
* **LinkedHeap** - nodes on a heap, what is reached along `next`, and what it
  means that a list is sound, used by **DoublyLinkedList** (list.cpp of
  2022-02-16), **SinglyLinkedLists** (sorted push, exam lists, counted list,
  kontener) and **Deques** (both list exercises of yandex_tasks, the list in C
  and the process queue).
* **SharedPtr, UniquePtr, Optional, Vectors, Area** - the owning classes, with their objects in `obj` and what they own in `heap` (or variables
  with the source's names). Each states `Sound`, an invariant, and `Refines`,
  what each operation does to the abstract value and to no other object.
  **Maps** does the same for the map of buckets (`Bucket...`), the LRU cache
  (`Lru...`) and the bidirectional map (`Bi...`), each with its own `Init`,
  `Next` and `Sound`, and **SearchStructures** for the map with open addressing
  (`Open...`) and the binary search trees.
* **Owners** - the pool, the stack over it, the owning pointers, optionals,
  vectors, the grid of figures and the three classes of Maps as one
  specification, a behaviour of which follows one of them; its `OwnersSound` and
  `OwnersRefine` gather theirs. It is what OwnersProofs is about, and
  MCContainers extends it by the lists, the open table and the trees, whose
  modules use recursion.
* **Query, Pop3Client, Exercises, LuaStack** - machines with a state and a
  `Sound` of their own; Exercises holds the buffered writer (`Writer...`),
  `DoWithRetry` (`Retry...`), the saved model (`Saved...`), the notifier
  (`Notifier...`), the dialogs and the atomic counters. cURL, the mail server, the
  Lua library, the file system and files that were cut off are external.
  LuaStack keeps, beside the stack of the Lua state, what the caller has opened
  and pushed; its property is about the difference between the two.
* **Algorithms** (sorts, graph searches, puzzles, the car table, the SSA form),
  **Parsers** (matchers, the suffix automaton, JSON, expressions, the lexer),
  **Algebra** (matrices, Strassen's multiplication and polynomials),
  **HashPadding** - algorithms as operators; loops are folds or recursion on
  what is left to do. Each is compared with a definition that
  shares nothing with the algorithm: a sorted permutation, the least sum over
  all paths, dominance by paths that avoid a block, the set of matching words,
  the triple sum of a product, the blocks the standard prescribes.
* **MCContainers, MCKernelModules, MCPrograms** - for TLC; the other modules
  with a run are checked as they are. They are unions: their parts do not meet,
  so a behaviour picks one of them (`part`) and the others stand still; only the
  clients of the pool and the stack work on the same state. One run then asks
  all the questions, and each instance keeps its own properties, which the
  union's named conjunctions gather (`IoctlSound`, `LinksSound`, ...).
  An algorithm is called once, with any of its `Inputs`.
* **TaskQueueProofs, ThreadPoolProofs, LogDispatcherProofs, VkBotProofs,
  MemoryPoolProofs** (with PoolStack), **OwnersProofs** (with **MapsProofs**),
  **KernelModulesProofs** - theorems.

## Runs

| Run | Shows | Bounds |
|---|---|---|
| `taskqueue` | the deque is guarded unless a double unlock stole a lock; `wait_for_completion` runs what was accepted; after `stop` all is quiet; FifoTasks; no wakeup of a push is lost unless a lock was stolen | 2 workers (1 or 2 started), a client of each push method, 2 tasks, 1 spurious wakeup |
| `taskqueue_stop` | **violated**: `stop` may wait for ever in `join` | 1 worker, 1 pusher, 1 task |
| `threadpool` | the waiting counter is exact and no front of an empty queue is taken (`WorkersSound`), futures settle, FifoTasks; jobs and the destructor make progress unless a notification is slept through | 2 workers, 2 clients, 2 jobs |
| `logger` | no message is lost, doubled or overtaken; a deferred stop drains the queue unless a batch is being written; progress | 2 threads, 3 messages, both policies, any number of restarts |
| `logger_deferred` | **violated**: a deferred stop loses what is logged while the last batch is written | 1 thread, 2 messages |
| `vkbot` | no message answered twice, nicknames up to date, a handled message has its answer sent off once, a bot left alone dies of its leaks | 2 users, all kinds of commands, 2 messages, 8 descriptors (a round uses up to 5, so both the full and the exhausted process are reached) |
| `vkbot_notfound` | **violated**: a search without results kills the process | 1 user, 1 message |
| `kernel` | all kernel modules, as a union: exclusive open and own message (`DeviceSound`), rollback (`IoctlSound`), entries, buffers and sequences of /proc (`FilesSound`), callers of the hook (`SpySound`), quiet exits, readers that end, a leak that stays | 3 processes, 2 writers, 2 readers, buffer of 2 bytes (full and overfull writes occur), 3 opens, 4 reads, 3 frames of a process (the hook of each module and the kernel's function) |
| `rdonly_exists` | **violated**: init reports a device that does not exist and never creates it | 1 process |
| `containers` | slots in their blocks and apart; exact free list and every block freed (`PoolSound`); the stack implements LifoStack, leaks nothing, and clear ends | 3 blocks of 31 bytes with slots of 8 (the tail of a block is too small for one more), 5 objects, so that a third block is opened and freed slots are used again |
| `containers` (lists, maps, trees, pointers) | `LinksSound`, `OwnersSound`: links, counts, indexes and owners after every sequence of calls; `OwnersRefine`, `StructuresRefine`: the effect of each call | two lists over 4 nodes; 3 pointers; tables that grow from 1, 2 or 3 slots to 12, so that probes pass removed slots before and after; a cache of 3 pages for 5; trees of up to 5 keys |
| `programs` | algorithms on all inputs against their definitions (`AlgorithmsSound`, `LanguagesSound`, `ArithmeticSound`, `HashesSound`); machines in all their states (`MachinesSound`); the last thread of compare_exchange.c ends (`LastJoins`) | arrays of up to 5, texts of up to 6, all graphs of 3 blocks and many of 4 (loops that are not natural among them), matrices up to 4x4 (both halves of an odd and an even size), message lengths on both sides of every boundary of the padding; 3 threads, 2 rounds |
| `programs_product` | **violated**: the assertion of polynomial.hpp on the product of two polynomials | the polynomials of the assertion |

Interleavings of two workers with two clients are what the races here need:
each known race of these classes involves one thread between a test and its
use, and one or two others. Bounds on counts (`MaxMsgs`, `MaxOpens`,
`MaxReads`, `MaxSpurious`, `MaxBlocks`) are constants that appear in guards.
Deadlock is not checked: a destroyed queue, an empty pool, an unloaded module
and a dead bot may stop.

Violated properties are findings, described in `PROJECT.json` with the line of
the code and the line that says otherwise.

### Fairness

Weak fairness of threads that can move (the scheduler of any desktop system):
workers, and clients or owners inside a call. Nobody is bound to begin a call,
to restart, to pause or to send a message, and spurious wakeups are never
bound to happen. `ThreadPool` needs strong fairness of taking the mutex: two
workers that wake and sleep in turn could otherwise keep a third thread from a
mutex that is free again and again; the futex-based mutexes of the platform
do not starve a waiter that way, though the standard does not promise it. The
logger needs weak fairness only. In `vkbot` the bot's own loop is fair, the
users are not. Readers of /proc files go on reading (`cat`). In `programs`
main and the threads of compare_exchange.c are weakly fair: none of them
blocks but in `pthread_join`. That does not bring two threads out of their
second loop, as they may exchange the two fields for ever; `LastJoins` says
that one thread alone gets out.

## What is proved

Every theorem holds for all values of the constants that satisfy the named
assumptions of its module, and TLC evaluates those assumptions in its runs.
Of the forty properties that the passing runs check, those named here are
theorems as well. None of them is inductive; what follows says what had to be
added.

*TaskQueueProofs* (all sets of workers, clients, tasks): `TypeCorrect`,
`GuardedDeque`, `CompletionDrains`, `StopQuiesces`, each of the form
`Spec => []P`, and `QueueIsFifo`, that the queue implements FifoTasks.
`GuardedDeque` needs to know what the predicate of the wait left behind
(`TakeOK`) and who is in the critical section (`LockOK`); `CompletionDrains`
needs that an unsettled task is in the deque or in a worker's hands
(`PendingOK`), which task each thread holds (`HandsOK`), which workers exist in
each phase of the owner (`PhaseOK`), and the crucial `DueOK`: under the
completion policy, once one worker has left, no task accepted before the call
is still in the deque, because a worker leaves only on an empty deque and later
pushes come behind. The refinement needs `QueueOK`: a task is at one place of
the deque or in the hands of one worker. It holds even where the double unlock
stole a lock, so the order of tasks survives in the model what exclusion does
not. Assumptions: the sets are disjoint as they should be, the set of workers
is finite, at least one worker is started.

*ThreadPoolProofs* (all sets of workers, clients, jobs): `WorkersAreSound`,
`DestructionSettles`, and the refinement `PoolIsFifo`. The waiting counter is
exact because it is the number of workers in the wait (`CountOK`, a fact about
the cardinality of a set that each step changes by one); a front is taken only
from a queue that is not empty because of who holds the mutex (`LockOK`). When
the destructor is done, every promise is settled because a pending job is
queued or in a worker's hands (`PendingOK`), and in the last phases there is
neither (`EndOK`). Assumptions: disjoint sets, finitely many workers.

*LogDispatcherProofs* (all sets of threads and messages): `MessagesConserved`,
from `BatchOK` (the batch is empty but while it is written) and facts about
concatenation; `DeferredStopDrains`, from `DrainOK`, which says where the
messages are that a stop has to wait for in each phase of the worker, and
`PhaseOK`.

*VkBotProofs* (all users, nicknames, numbers of messages and descriptors, any
crashes and restarts): `EachAnsweredOnce`, and the action properties
`AnswersUseLastNickname` and `RoundsAnswerOnce`. No message is answered twice
because the bot handles the one behind its ts (`Positions`) and answers were
sent off to messages at or before it, but between a round's end or a restart and the next
request for a ts (`Behind`): the request returns the newest ts, which is what
closes that gap. `Nicknames` ties the handler's copy of a nickname to users.db.

*MemoryPoolProofs* (all sizes with `SlotSize % Align = 0`,
`SlotSize >= PtrSize > 0` and the static_assert `BlockSize >= 2 * SlotSize`,
and any number of blocks and objects): `SlotsInBlock`, `SlotsApart`,
`ObjectsAreKept`, `PoolIsSound`; and for the stack over the pool
`StackIsStack`, the refinement of LifoStack, and `StackLeaksNothing`. The
invariant places the next slot behind all slots cut from the newest block
(`CutBefore`, `CurrentOK`). The arithmetic rests on `FirstSlotFits`: the padded
start of the first slot is aligned and at most `SlotSize`, which is why the
static_assert is enough for one slot to fit a block. The free slots are a path
(`FreePath`: a sequence without repetition of exactly the free slots, each
linked to the next and the last to null), the blocks a chain that counts down
(`BlocksOK`), and the nodes of the stack a second path through the slots that
are in use (`StackPath`). That the walks of `FreeListExact` and `Chained`,
which are recursive functions, follow these paths is proved by induction. The
library's induction theorems take an operator, which the provers cannot
instantiate; `SetInduction` has a set in its place and is derived from the
well-foundedness of `<` on the naturals, so that each use is first-order.

*OwnersProofs*, with *MapsProofs* for the classes of Maps (any finite sets of
cells, pointers, vectors and places, any values, kinds, deleters and pages;
assumed is `OwnersAssumption`: 0, which stands for nullptr, is no cell, the sets
and the greatest length are finite, an unknown kind is none of the known ones,
keys are naturals, a map starts with a bucket and does not grow by a factor of
0, the cache holds at least one page and there are cells for as many): `OwnersAreSound` and `OwnersRefined`, that is
`OwnersSpec => []OwnersSound` and `OwnersSpec => OwnersRefine`. Each class has
an invariant over its objects and its heap, and lemmas about the steps that its
member functions are made of.

* *SharedPtr* (`SharedInv`): cells are objects or counters; pointers share a
  counter if and only if they share an object, and the counter is the number of
  those pointers. A member function first releases what it had and then acquires,
  so the lemmas speak of a heap with cells that no pointer owns yet
  (`SharedOK(h, o, X)`), the state between the two. The count moves with the
  cardinality of a set that gains or loses one pointer.
* *UniquePtr* (`UniqueInv`): every live object has one owner, a pointer or the
  client that released it, and until a `swap` parts them its deleter is that of
  its pointer.
* *Optional* (`OptInv`): a value is there exactly where the flag says so.
* *Vectors* (`VecInv`): in three layers, each lost only by the call that the
  source gets wrong. Every buffer is of one vector (`VecFull`) until a list is
  assigned; every vector has a buffer of its own, of the capacity it keeps, which
  its items fit (`VecOwned`), until one is moved; types hold until an index
  is out of bounds. Growth keeps the elements (`VecReserve`, `VecFilled`).
* *Area* (`GridInv`): every object is in a place; every pointer is to an object
  that no other place has, until an unknown kind leaves a pointer behind.
* *LRU cache* (`LruInv`): the pages referred to, the last one first, are the
  specification's history; the nodes of the list, which are apart, hold its
  first `cache_size` pages in order, and the map has exactly their iterators.
  `Removed`, `MovedFront` and `RemovedFirst` say what the list operations do to
  such an order; since the page of an iterator is at one place of both, moving
  the node and moving the page to the front agree.
* *bi_map* (`BiInv`): every primary key leads to a secondary key with a value,
  which `emplace` never takes back or changes.
* *Map of buckets* (`BucketInv`): every bucket is a sequence of pairs with keys
  apart (`Bucket`), so that a search finds the one pair with a key (`FoundIn`),
  and there are no more pairs than `ElementsCount`. Keys are not apart across
  buckets, since growth moves no pair. Insertion and deletion change one bucket
  and keep the pairs of other keys in it (`SameBut`), from which the effect on
  what the map finds follows (`OthersKept`); when the number of buckets changes,
  the invariant speaks of the pairs only (`PairsKept`), as does the property.

The instances do not meet, so `OwnersInv` is the conjunction
of one for each `part` with those of MemoryPoolProofs for the stack.

*KernelModulesProofs* (any number of processes, writers, readers, opens and
reads, any size of buffer and message; assumed is that `PROCFS_MAX_SIZE` is not
0, that a static int starts as one of `Numbers` and that the bounds of reads and
of nesting are numbers): `DeviceIsExclusive`, `ExitIsQuiescent`, `IoctlIsSound`,
`FilesAreSound`, `SpyIsSound`, `LeakStays`. The modules share no variable, so
the invariant `KernelInv` is the conjunction of one for each. For the
read-only device it counts references (`RefsExact`: one for each process
inside the handlers and one more for each that holds the file), from which a
module without references has no caller (`OutIsIdle`); for the ioctl module
it says what is held at each step of init, rollback and exit (`HeldAt`); for
the static buffer, what a write that nobody overlaps may rely on
(`BufferAlone`, `BufferOwn`, `Kept`); for the spy, what the table and the saved
pointer are while it is hooked and after (`Hooked`, `Unhooked`), and that every
frame of every process is in code that is there or overrun (`FrameOk`,
`StacksOk`), which a call preserves as it pushes what the table or a saved
pointer leads to.

Only model-checked:

* everything under fairness: `TaskProgress`, `JobProgress`,
  `DestructorReturns`, `LogProgress`, `ReaderEnds`, `DiesOfLeaks`, `ClearEnds`,
  `LastJoins`. The prover has no rules for ENABLED;
* `LinksSound` and `StructuresRefine` of `containers` (the lists, the table
  with open addressing and the trees) and the properties of `programs`: `AlgorithmsSound`, `LanguagesSound`,
  `ArithmeticSound`, `HashesSound`, `MachinesSound`. Their modules use RECURSIVE
  operators or folds for trees, parsers, probes and walks along nodes, and what
  those compute for every input is an induction over data, out of the prover's
  reach; TLC compares it with its definition on bounded inputs.

## Limits and observations

* `WorkerCounts` excludes 0 although `hardware_concurrency()` may return 0:
  with no worker, `wait_for_completion` returns with every task queued.
* `set_exception_handler` of TaskQueue, and the setters of levels and sinks of
  the logger, are not modelled. They are not synchronised with the worker:
  `enable_write_to_file` replaces a stream that the worker may be writing to,
  and `m_log_level` has no initial value until `set_log_level` is called.
* `push_void_task` unlocks twice. Where the second unlock releases the lock of
  another thread, a worker may miss the wakeup of a push and a task stay in the
  deque while all workers sleep; `Guarded` and `TaskProgress` say nothing of
  what follows such an unlock (`stolen`).
* A constructor that throws in `newElement` loses the slot that was taken for
  it; constructors do not throw in the model of MemoryPool.
* A `shared_ptr` move-assigned from another owner of the same object leaves
  both as owners; `Refines` excepts that case.
* The hash of a removed slot, which growth asks for, is 2^64 - 1 in the map with
  open addressing, so that its probe goes on at slot 0.
* What is queued when the log dispatcher is destroyed goes with it; what was
  written until then is a beginning of what was logged.
* Hooks of open that were removed out of turn may lead to each other: a call then
  nests without end (`MaxNesting` bounds it). `sprintf` writes a file's name
  into 256 bytes without a limit.
* The read-only device does not check the class it makes; where that failed,
  rmmod faults and the module stays, half removed (`ExitOops`).
* Memory order: the atomics of TaskQueue and thread_pool are sequentially
  consistent by default and modelled so. The plain flags of the logger are
  data races; the model lets every read see the last write, which is what the
  compiled code does, as each read follows a call into the thread library.
* The read-only device says how often it was read and counts opens; the spy
  is given a user id and ignores it; a nickname with an apostrophe is reported
  as stored. These are noted, not checked.

Where the sequential code departs from what its name promises, the property
says exactly on which inputs, so that the run shows both that it departs there
and that it does nowhere else:

* *Bucket map*: growth and shrinking move no pair, so keys may be hidden or
  lost with their bucket; *query*: a step that leaves nothing makes the next
  operation start over from the whole container.
* *Lists*: assigning an empty doubly linked list changes nothing; `change` of
  the exam list and `++` of exam_3 leak; the counter of the counted list only
  goes down; `push` and `sorted_push` of kontener move what they are given,
  an lvalue too: a copy empties the strings of the list it is made from,
  `sorted_push` compares with an emptied value and prepends, and `clear` leaves
  the head dangling.
* *Unique pointer*: `swap` keeps the deleters, moving to itself frees.
* *SSA*: versions pushed for phis are not popped; the entry block's dominator
  is never set. *Car table*: a least price above the greatest one, with a car
  between, runs off the index.
* *Matchers*: `+` also accepts none, `?` does not give back, `.` and `\D` match
  the terminating null and run on; a class of regex/main.cpp refuses nothing;
  `contain` misses overlapping occurrences. *JSON*: the token of a string
  swallows the rest of its word, `false` and `null` are taken for other
  tokens, an array with an unknown token does not end. *Parsers*: `*` groups to
  the right and what follows a complete expression is ignored.
* *Strassen*: an odd size leaves junk; the older version reads one quarter
  twice. *Matrix*: assigning to itself clears the front, `transpose` changes
  the sizes only. *Polynomial*: adding a longer one doubles its coefficients,
  a product starts from its left operand and has the length of both together, so
  that it is not the one asserted beside it (`programs_product`), the derivative
  reads one past the end.
* *Hashes*: SHA-384/512 of messages that leave 112 to 119 bytes are not those
  of the standard; the SHA-256 of lightning writes behind its buffer and leaves
  padding unset, the MD5 of Sandbox writes behind its buffer when 56 or more
  bytes are left; objects of the SHA-256 of Sandbox share one
  state, and it hashes a text up to the first null only, as does the constructor
  of lightning's; its reading of a file ends at a byte 0xFF, which is EOF in
  a `char`.
* *Graphs*: `dijkstra_test` asserts distances of an array into which it puts
  nothing; the distances it names are those of the graph it means, and that is
  checked of the algorithm.
* *Machines*: the POP3 client ignores the results of mkdir, chdir, fopen and
  fwrite: clients of one second share a directory, and those that did not get
  into theirs share the one they were started in; all notifiers share one counter
  of ids; the writer stops at a null and never flushes with size 0;
  `DoWithRetry` with -1 calls twice and then throws; a model loaded from a file
  that was cut off keeps the bytes it had behind the cut, though the comment of
  save_load.h (line 14) asks `Load` to clear the old data; plain counters lose
  updates, though never all of them; two threads of compare_exchange.c may
  exchange the fields they share for ever.
* *Lua adapter*: `Get` of a global that is no number, boolean or string, `Call`
  of what is no function, a `Load` that fails and `Open` of a field that is no
  table leave a value on the stack; `DoString` keeps results and returns true
  where it fails; `Get` along a path pops down to one entry and so closes the
  tables it was nested in; arguments of another type, such as `const char *`,
  are counted by `Call` but not pushed, so that it calls what lies below.
  `GetType` asks for index 0, which is never a value.

## Not modelled

* Text output alone: the loggers other than logger2.hpp, tables, visitors, the
  JSON formatter, the logging kernel modules.
* Floating point (Fourier transform, sound, SIMD, Lorence) and the compression
  functions and CRC tables, whose reference would be the standard again.
* Third-party and generated code: AudioFile, lex.yy.c, CEF_renderer.
* Programs that are a straight line of library calls: sockets, ZMQ, SSL and
  asio clients, GUI and system information, demonstrations of Boost and the
  standard library.
* Type-level helpers without state, and the main program of Sandbox, nearly all
  of which is commented out.

`PROJECT.json` gives the reason for each.

## Plan

Done: the concurrent core (TaskQueue, ThreadPool, LogDispatcher), vk_bot, the
pool and the stack over it, the kernel modules, the containers, the algorithms
and the small machines; proofs of every safety property of the concurrent
core, the bot, the pool, the stack, the kernel modules, the owning classes,
the LRU cache, the bidirectional map and the map of buckets, and of their refinements of FifoTasks and LifoStack.

What is left are proofs:

1. The walk of LinkedHeap as a recursive function rather than an operator, and
   with it the lists, by the paths of MemoryPoolProofs.
2. The machines without a fold: the POP3 client, `DoWithRetry`, the notifier.
3. What small recursive functions compute, with `SetInduction`.
