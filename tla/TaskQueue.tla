----------------------------- MODULE TaskQueue -----------------------------
(***************************************************************************)
(* class TaskQueue of Sandbox/task_queue.hpp: worker threads that take     *)
(* std::function tasks from a deque guarded by a mutex and a condition     *)
(* variable.  One owner thread calls start, stop, wait_for_completion and  *)
(* the destructor (m_workers is not guarded, so the code allows only one); *)
(* any number of client threads push tasks concurrently.                   *)
(*                                                                         *)
(* Steps are split where another thread can observe the difference: at the *)
(* mutex, at the atomics read or written without it, at blocking on the    *)
(* condition variable and at running a task.                               *)
(***************************************************************************)
EXTENDS Naturals, Sequences, FiniteSets, Functions, TLC

CONSTANTS
    Workers,       \* identities for worker threads, reused after a join
    WorkerCounts,  \* the values given to the constructor or set_num_workers
    VoidPushers,   \* clients that call push_void_task
    FuturePushers, \* clients that call push_future_task
    Tasks,         \* the tasks clients may push, each of them once
    NoThread,      \* the mutex is free
    NoTask,        \* a thread has no task in hand
    MaxSpurious    \* bound on spurious wakeups of the condition variable

Pushers == VoidPushers \cup FuturePushers
Threads == Workers \cup Pushers

ASSUME TaskQueueAssumption ==
    /\ IsFiniteSet(Workers)
    /\ WorkerCounts \subseteq 1..Cardinality(Workers)
    /\ WorkerCounts # {}
    /\ Workers \cap Pushers = {}
    /\ VoidPushers \cap FuturePushers = {}
    /\ NoThread \notin Threads
    /\ NoTask \notin Tasks
    /\ MaxSpurious \in Nat

VARIABLES
    m_tasks,          \* std::deque of accepted tasks
    holder,           \* the thread m_locker thinks holds it, or NoThread
    m_workers,        \* the threads in the vector m_workers
    m_num_workers,    \* how many threads the next start() spawns
    m_running,        \* std::atomic<bool>
    m_stop_requested, \* std::atomic<bool>
    m_stop_policy,    \* "stop_after_current_task" or "wait_for_queue_completion"
    opc,              \* where the owner is
    wpc,              \* where each worker is
    ppc,              \* where each pusher is
    hand,             \* the task each thread pushes or runs
    future,           \* the state of each task's promise
    due,              \* history: tasks accepted when wait_for_completion began
    stolen,           \* history: an unlock released another thread's lock
    spurious          \* number of spurious wakeups so far

queueVars == <<m_tasks, hand, future>>
ownerVars == <<m_workers, m_num_workers, m_running, m_stop_requested,
               m_stop_policy, opc, due>>
vars == <<m_tasks, holder, m_workers, m_num_workers, m_running,
          m_stop_requested, m_stop_policy, opc, wpc, ppc, hand, future, due,
          stolen, spurious>>

OwnerPcs == {"idle", "notify", "join", "resume", "destroyed"}
WorkerPcs == {"off", "lock", "test", "block", "sleep", "take", "run", "exited"}
PusherPcs == {"idle", "lock", "emplace", "notify", "unlock_again"}
Policies == {"stop_after_current_task", "wait_for_queue_completion"}
Results == {"none", "pending", "value", "exception", "broken"}

Init ==
    /\ m_tasks = <<>>
    /\ holder = NoThread
    /\ m_workers = {}
    /\ m_num_workers \in WorkerCounts
    /\ m_running = FALSE
    /\ m_stop_requested = FALSE
    /\ m_stop_policy = "stop_after_current_task"
    /\ opc = "idle"
    /\ wpc = [w \in Workers |-> "off"]
    /\ ppc = [p \in Pushers |-> "idle"]
    /\ hand = [t \in Threads |-> NoTask]
    /\ future = [t \in Tasks |-> "none"]
    /\ due = {}
    /\ stolen = FALSE
    /\ spurious = 0

Sleepers == {w \in Workers : wpc[w] = "sleep"}

(* std::mutex: lock blocks while another thread holds it.  unlock by a      *)
(* thread that does not hold it is undefined; with the usual pthread mutex  *)
(* it frees the mutex whoever holds it, or has no effect.                   *)
MutexLock(t) == holder = NoThread /\ holder' = t

MutexUnlock(t) ==
    \/ holder \in {t, NoThread} /\ holder' = NoThread /\ UNCHANGED stolen
    \/ holder \notin {t, NoThread} /\ holder' = NoThread /\ stolen' = TRUE
    \/ holder \notin {t, NoThread} /\ UNCHANGED <<holder, stolen>>

(* The wakeups of std::condition_variable: a woken thread locks again.      *)
NotifyOne ==
    IF Sleepers = {} THEN UNCHANGED wpc
    ELSE \E w \in Sleepers : wpc' = [wpc EXCEPT ![w] = "lock"]

NotifyAll ==
    wpc' = [w \in Workers |-> IF w \in Sleepers THEN "lock" ELSE wpc[w]]

-----------------------------------------------------------------------------
(* The owner. *)

SpawnWorkers ==
    \E S \in SUBSET Workers :
        /\ Cardinality(S) = m_num_workers
        /\ m_workers' = S
        /\ wpc' = [w \in Workers |-> IF w \in S THEN "lock" ELSE "off"]

\* set_num_workers throws while running, which changes nothing.
SetNumWorkers(n) ==
    /\ opc = "idle"
    /\ ~m_running
    /\ m_num_workers' = n
    /\ UNCHANGED <<queueVars, holder, m_workers, m_running, m_stop_requested,
                   m_stop_policy, opc, wpc, ppc, due, stolen, spurious>>

Start ==
    /\ opc = "idle"
    /\ ~m_running
    /\ m_running' = TRUE
    /\ SpawnWorkers
    /\ UNCHANGED <<queueVars, holder, m_num_workers, m_stop_requested,
                   m_stop_policy, opc, ppc, due, stolen, spurious>>

\* stop() up to its notify_all; m_running is only read by the owner, and
\* m_stop_policy by workers that saw m_stop_requested, so the stores of
\* wait_for_completion and of stop are one step.
StopRequest(policy) ==
    /\ opc = "idle"
    /\ m_running
    /\ m_stop_policy' = policy
    /\ m_stop_requested' = TRUE
    /\ m_running' = FALSE
    /\ due' = {t \in Tasks : future[t] = "pending"}
    /\ opc' = "notify"
    /\ UNCHANGED <<queueVars, holder, m_workers, m_num_workers, wpc, ppc,
                   stolen, spurious>>

StopNotify ==
    /\ opc = "notify"
    /\ NotifyAll
    /\ opc' = "join"
    /\ UNCHANGED <<queueVars, holder, m_workers, m_num_workers, m_running,
                   m_stop_requested, m_stop_policy, ppc, due, stolen, spurious>>

\* Mutant: the workers are detached instead of joined.
StopDetach ==
    /\ opc = "join"
    /\ m_workers' = {}
    /\ m_stop_requested' = FALSE
    /\ opc' = IF m_stop_policy = "wait_for_queue_completion"
              THEN "resume" ELSE "idle"
    /\ UNCHANGED <<queueVars, holder, m_num_workers, m_running, m_stop_policy,
                   wpc, ppc, due, stolen, spurious>>

\* The joins, m_workers.clear() and the reset of m_stop_requested.
StopJoin ==
    /\ opc = "join"
    /\ \A w \in m_workers : wpc[w] = "exited"
    /\ wpc' = [w \in Workers |-> "off"]
    /\ m_workers' = {}
    /\ m_stop_requested' = FALSE
    /\ opc' = IF m_stop_policy = "wait_for_queue_completion"
              THEN "resume" ELSE "idle"
    /\ UNCHANGED <<queueVars, holder, m_num_workers, m_running, m_stop_policy,
                   ppc, due, stolen, spurious>>

\* wait_for_completion after its stop(): the policy again, then start().
Resume ==
    /\ opc = "resume"
    /\ m_stop_policy' = "stop_after_current_task"
    /\ m_running' = TRUE
    /\ SpawnWorkers
    /\ opc' = "idle"
    /\ UNCHANGED <<queueVars, holder, m_num_workers, m_stop_requested, ppc,
                   due, stolen, spurious>>

\* The end of the destructor, once its stop() has returned; the deque goes,
\* and with it the promises of the tasks in it.  Clients are done by then.
Destroy ==
    /\ opc = "idle"
    /\ ~m_running
    /\ \A p \in Pushers : ppc[p] = "idle"
    /\ opc' = "destroyed"
    /\ m_tasks' = <<>>
    /\ future' = [t \in Tasks |->
                    IF t \in Range(m_tasks) THEN "broken" ELSE future[t]]
    /\ UNCHANGED <<holder, m_workers, m_num_workers, m_running,
                   m_stop_requested, m_stop_policy, wpc, ppc, hand, due,
                   stolen, spurious>>

-----------------------------------------------------------------------------
(* A client: push_future_task and push_void_task. *)

\* The early return when a stop is requested changes nothing.
PushCheck(p, t) ==
    /\ ppc[p] = "idle"
    /\ opc # "destroyed"
    /\ ~m_stop_requested
    /\ future[t] = "none"
    /\ \A q \in Pushers : hand[q] # t
    /\ hand' = [hand EXCEPT ![p] = t]
    /\ ppc' = [ppc EXCEPT ![p] = "lock"]
    /\ UNCHANGED <<ownerVars, m_tasks, holder, wpc, future, stolen, spurious>>

PushLock(p) ==
    /\ ppc[p] = "lock"
    /\ MutexLock(p)
    /\ ppc' = [ppc EXCEPT ![p] = "emplace"]
    /\ UNCHANGED <<ownerVars, queueVars, wpc, stolen, spurious>>

\* Mutant: the task is moved from before it is put into the deque.
PushEmplaceMoved(p) ==
    /\ ppc[p] = "emplace"
    /\ hand' = [hand EXCEPT ![p] = NoTask]
    /\ m_tasks' = Append(m_tasks, hand'[p])
    /\ future' = [future EXCEPT ![hand[p]] = "pending"]
    /\ MutexUnlock(p)
    /\ ppc' = [ppc EXCEPT ![p] = "notify"]
    /\ UNCHANGED <<ownerVars, wpc, spurious>>

PushEmplace(p) ==
    /\ ppc[p] = "emplace"
    /\ m_tasks' = Append(m_tasks, hand[p])
    /\ future' = [future EXCEPT ![hand[p]] = "pending"]
    /\ hand' = [hand EXCEPT ![p] = NoTask]
    /\ MutexUnlock(p)
    /\ ppc' = [ppc EXCEPT ![p] = "notify"]
    /\ UNCHANGED <<ownerVars, wpc, spurious>>

\* Mutant: a push without its notify_one.
PushNotifyNobody(p) ==
    /\ ppc[p] = "notify"
    /\ ppc' = [ppc EXCEPT ![p] = "idle"]
    /\ UNCHANGED <<ownerVars, queueVars, holder, wpc, stolen, spurious>>

PushNotify(p) ==
    /\ ppc[p] = "notify"
    /\ NotifyOne
    /\ ppc' = [ppc EXCEPT ![p] = IF p \in VoidPushers THEN "unlock_again"
                                                       ELSE "idle"]
    /\ UNCHANGED <<ownerVars, queueVars, holder, stolen, spurious>>

\* push_void_task unlocks m_locker itself, so its unique_lock still owns the
\* mutex and unlocks it a second time when it goes out of scope.
PushUnlockAgain(p) ==
    /\ ppc[p] = "unlock_again"
    /\ MutexUnlock(p)
    /\ ppc' = [ppc EXCEPT ![p] = "idle"]
    /\ UNCHANGED <<ownerVars, queueVars, wpc, spurious>>

-----------------------------------------------------------------------------
(* A worker: the lambda of init_workers. *)

WorkerLock(w) ==
    /\ wpc[w] = "lock"
    /\ MutexLock(w)
    /\ wpc' = [wpc EXCEPT ![w] = "test"]
    /\ UNCHANGED <<ownerVars, queueVars, ppc, stolen, spurious>>

\* Mutant: no predicate, so any wakeup is taken for a task.
WorkerTestNothing(w) ==
    /\ wpc[w] = "test"
    /\ wpc' = [wpc EXCEPT ![w] = "take"]
    /\ UNCHANGED <<ownerVars, queueVars, holder, ppc, stolen, spurious>>

\* The predicate of m_notifier.wait; m_stop_requested may change before the
\* worker blocks, because the owner does not hold the mutex when it sets it.
WorkerTest(w) ==
    /\ wpc[w] = "test"
    /\ wpc' = [wpc EXCEPT ![w] = IF m_tasks # <<>> \/ m_stop_requested
                                 THEN "take" ELSE "block"]
    /\ UNCHANGED <<ownerVars, queueVars, holder, ppc, stolen, spurious>>

WorkerBlock(w) ==
    /\ wpc[w] = "block"
    /\ MutexUnlock(w)
    /\ wpc' = [wpc EXCEPT ![w] = "sleep"]
    /\ UNCHANGED <<ownerVars, queueVars, ppc, spurious>>

WorkerSpurious(w) ==
    /\ wpc[w] = "sleep"
    /\ spurious < MaxSpurious
    /\ spurious' = spurious + 1
    /\ wpc' = [wpc EXCEPT ![w] = "lock"]
    /\ UNCHANGED <<ownerVars, queueVars, holder, ppc, stolen>>

\* Mutant: the stop policy is not looked at.
WorkerMustExitAtOnce == m_stop_requested

WorkerMustExit ==
    /\ m_stop_requested
    /\ m_tasks = <<>> \/ m_stop_policy = "stop_after_current_task"

WorkerExit(w) ==
    /\ wpc[w] = "take"
    /\ WorkerMustExit
    /\ MutexUnlock(w)
    /\ wpc' = [wpc EXCEPT ![w] = "exited"]
    /\ UNCHANGED <<ownerVars, queueVars, ppc, spurious>>

\* Mutant: the newest task is taken instead of the oldest.
WorkerTakeBack(w) ==
    /\ wpc[w] = "take"
    /\ ~WorkerMustExit
    /\ m_tasks # <<>>
    /\ hand' = [hand EXCEPT ![w] = m_tasks[Len(m_tasks)]]
    /\ m_tasks' = SubSeq(m_tasks, 1, Len(m_tasks) - 1)
    /\ MutexUnlock(w)
    /\ wpc' = [wpc EXCEPT ![w] = "run"]
    /\ UNCHANGED <<ownerVars, ppc, future, spurious>>

\* front() of an empty deque is undefined: nothing is modelled after it, and
\* TakeNonEmpty says that it never comes to that.
WorkerTake(w) ==
    /\ wpc[w] = "take"
    /\ ~WorkerMustExit
    /\ m_tasks # <<>>
    /\ hand' = [hand EXCEPT ![w] = Head(m_tasks)]
    /\ m_tasks' = Tail(m_tasks)
    /\ MutexUnlock(w)
    /\ wpc' = [wpc EXCEPT ![w] = "run"]
    /\ UNCHANGED <<ownerVars, ppc, future, spurious>>

\* task() returns or its exception is caught and stored or handled.
WorkerRun(w, r) ==
    /\ wpc[w] = "run"
    /\ future' = [future EXCEPT ![hand[w]] = r]
    /\ hand' = [hand EXCEPT ![w] = NoTask]
    /\ wpc' = [wpc EXCEPT ![w] = "lock"]
    /\ UNCHANGED <<ownerVars, m_tasks, holder, ppc, stolen, spurious>>

-----------------------------------------------------------------------------
Owner ==
    \/ \E n \in WorkerCounts : SetNumWorkers(n)
    \/ Start
    \/ \E policy \in Policies : StopRequest(policy)
    \/ StopNotify
    \/ StopJoin
    \/ Resume
    \/ Destroy

Pusher(p) ==
    \/ \E t \in Tasks : PushCheck(p, t)
    \/ PushLock(p)
    \/ PushEmplace(p)
    \/ PushNotify(p)
    \/ PushUnlockAgain(p)

WorkerStep(w) ==
    \/ WorkerLock(w)
    \/ WorkerTest(w)
    \/ WorkerBlock(w)
    \/ WorkerExit(w)
    \/ WorkerTake(w)
    \/ \E r \in {"value", "exception"} : WorkerRun(w, r)

\* A destroyed queue, and a queue nobody uses, may stay as they are.
Next ==
    \/ Owner
    \/ \E p \in Pushers : Pusher(p)
    \/ \E w \in Workers : WorkerStep(w) \/ WorkerSpurious(w)

Spec == Init /\ [][Next]_vars

\* Every started thread keeps running: a worker, a push once it began, and
\* the rest of a stop once it was requested.  Nobody has to call anything.
Fairness ==
    /\ \A w \in Workers : WF_vars(WorkerStep(w))
    /\ \A p \in Pushers :
           WF_vars(PushLock(p) \/ PushEmplace(p) \/ PushNotify(p)
                   \/ PushUnlockAgain(p))
    /\ WF_vars(StopNotify \/ StopJoin \/ Resume)

FairSpec == Spec /\ Fairness

-----------------------------------------------------------------------------
TypeOK ==
    /\ m_tasks \in Seq(Tasks)
    /\ holder \in Threads \cup {NoThread}
    /\ m_workers \in SUBSET Workers
    /\ m_num_workers \in WorkerCounts
    /\ m_running \in BOOLEAN
    /\ m_stop_requested \in BOOLEAN
    /\ m_stop_policy \in Policies
    /\ opc \in OwnerPcs
    /\ wpc \in [Workers -> WorkerPcs]
    /\ ppc \in [Pushers -> PusherPcs]
    /\ hand \in [Threads -> Tasks \cup {NoTask}]
    /\ future \in [Tasks -> Results]
    /\ due \in SUBSET Tasks
    /\ stolen \in BOOLEAN
    /\ spurious \in 0..MaxSpurious

InSection(t) ==
    IF t \in Workers THEN wpc[t] \in {"test", "block", "take"}
                     ELSE ppc[t] = "emplace"

(* Mutual exclusion on m_tasks (lines 114-123, 172-181, 197-221): unless a  *)
(* second unlock of push_void_task has released a lock that another thread  *)
(* held, the deque is touched by the holder of m_locker only.               *)
MutualExclusion ==
    ~stolen => \A t \in Threads : InSection(t) => holder = t

(* Line 179 calls front() without testing the deque again: unless a lock    *)
(* was stolen, the predicate of the wait still holds when it is reached.    *)
TakeNonEmpty ==
    ~stolen => \A w \in Workers :
        wpc[w] = "take" /\ ~WorkerMustExit => m_tasks # <<>>

(* Both: what the critical sections of the deque rely on.                   *)
Guarded == MutualExclusion /\ TakeNonEmpty

(* wait_for_completion keeps its name: when its stop() has joined the       *)
(* workers, every task accepted before the call has run, whatever clients   *)
(* pushed meanwhile.                                                        *)
WaitDrains ==
    opc = "resume" => \A t \in due : future[t] \in {"value", "exception"}

(* After stop() has returned and until the next start(), no worker is       *)
(* alive and no task is being run.                                          *)
StoppedIsQuiet ==
    opc \in {"idle", "resume", "destroyed"} /\ ~m_running =>
        \A w \in Workers : wpc[w] = "off" /\ hand[w] = NoTask

(* The queue implements the promise of FifoTasks: accepted tasks start in   *)
(* the order of the deque, each once, and are settled once.                 *)
Fifo == INSTANCE FifoTasks
            WITH pending <- m_tasks,
                 running <- {hand[w] : w \in Workers} \ {NoTask},
                 result <- future
FifoSpec == Fifo!FifoSpec

(* No wakeup is lost on the path of a push, however many workers sleep: a   *)
(* queued task of a running queue is run unless a stop is requested, or a   *)
(* push_void_task has unlocked the mutex of another thread.                 *)
TaskProgress ==
    \A t \in Tasks :
        m_running /\ future[t] = "pending" /\ t \in Range(m_tasks)
            ~> m_stop_requested \/ stolen \/ future[t] \in {"value", "exception"}

(* The end of run(), line 241: wait_for_completion, and any stop, returns.  *)
StopReturns == opc = "join" ~> opc # "join"
=============================================================================
