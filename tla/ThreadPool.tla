---------------------------- MODULE ThreadPool ----------------------------
(***************************************************************************)
(* class thread_pool of Sandbox/thread_pool.hpp.  The constructor starts   *)
(* the workers; clients add jobs, clear the queue, pause the pool and spin *)
(* in wait() concurrently; the destructor clears, asks the workers to end  *)
(* and joins them.  is_terminate, is_pause and threads_waiting are atomics *)
(* that are written without jobs_mutex, so every access is a step of its   *)
(* own where another thread can tell.                                      *)
(***************************************************************************)
EXTENDS Naturals, Sequences, FiniteSets, Functions

CONSTANTS
    Workers,   \* the threads of the pool
    Clients,   \* the threads that call its methods
    Jobs,      \* the jobs clients may add, each of them once
    NoThread,  \* jobs_mutex is free
    NoJob,     \* a thread has no job in hand
    MayPause   \* whether clients call pause()

Threads == Workers \cup Clients
Destructor == "destructor"

ASSUME ThreadPoolAssumption ==
    /\ IsFiniteSet(Workers)
    /\ Workers \cap Clients = {}
    /\ NoThread \notin Threads \cup {Destructor}
    /\ Destructor \notin Threads
    /\ NoJob \notin Jobs
    /\ MayPause \in BOOLEAN

VARIABLES
    jobs,            \* std::queue of jobs
    jobs_mutex,      \* the thread that holds it, or NoThread
    threads_waiting, \* std::atomic<std::size_t>
    is_terminate,    \* std::atomic<bool>
    is_pause,        \* std::atomic<bool>
    wpc,             \* where each worker is in thread_task
    cpc,             \* what each client is doing
    dpc,             \* where the destructor is
    hand,            \* the job each thread adds or runs
    future,          \* the future of each job
    lost             \* history: a worker fell asleep with its predicate true

vars == <<jobs, jobs_mutex, threads_waiting, is_terminate, is_pause, wpc, cpc,
          dpc, hand, future, lost>>
flags == <<is_terminate, is_pause>>
work == <<jobs, hand, future>>

WorkerPcs == {"top", "lock", "test", "predicate", "block", "sleep", "relock",
              "check", "run", "ended"}
CountedPcs == {"predicate", "block", "sleep", "relock"}
ClientPcs == {"idle", "add_lock", "emplace", "notify", "clear", "resume",
              "wait"}
DestructorPcs == {"alive", "clear", "terminate", "notify", "join", "dead"}
Results == {"none", "pending", "value", "exception", "broken"}

\* thread_pool(threads_count), with as many workers as asked for.
Init ==
    /\ jobs = <<>>
    /\ jobs_mutex = NoThread
    /\ threads_waiting = 0
    /\ is_terminate = FALSE
    /\ is_pause = FALSE
    /\ wpc = [w \in Workers |-> "top"]
    /\ cpc = [c \in Clients |-> "idle"]
    /\ dpc = "alive"
    /\ hand = [t \in Threads |-> NoJob]
    /\ future = [j \in Jobs |-> "none"]
    /\ lost = FALSE

Lock(t) == jobs_mutex = NoThread /\ jobs_mutex' = t
Unlock(t) == jobs_mutex = t /\ jobs_mutex' = NoThread

NotifyAll ==
    wpc' = [w \in Workers |-> IF wpc[w] = "sleep" THEN "relock" ELSE wpc[w]]

WorkerGoes(w, from, to) ==
    /\ wpc[w] = from
    /\ wpc' = [wpc EXCEPT ![w] = to]

ClientGoes(c, from, to) ==
    /\ cpc[c] = from
    /\ cpc' = [cpc EXCEPT ![c] = to]

NothingToDo == jobs = <<>> \/ is_pause
Predicate == is_terminate \/ ~NothingToDo

-----------------------------------------------------------------------------
(* A worker: thread_task. *)

WorkerTop(w) ==
    /\ WorkerGoes(w, "top", IF is_terminate THEN "ended" ELSE "lock")
    /\ UNCHANGED <<work, flags, jobs_mutex, threads_waiting, cpc, dpc, lost>>

WorkerLock(w) ==
    /\ WorkerGoes(w, "lock", "test")
    /\ Lock(w)
    /\ UNCHANGED <<work, flags, threads_waiting, cpc, dpc, lost>>

WorkerTest(w) ==
    /\ WorkerGoes(w, "test", IF NothingToDo THEN "predicate" ELSE "check")
    /\ threads_waiting' = threads_waiting + (IF NothingToDo THEN 1 ELSE 0)
    /\ UNCHANGED <<work, flags, jobs_mutex, cpc, dpc, lost>>

\* One evaluation of the predicate in jobs_avaliable.wait.
WorkerPredicate(w) ==
    /\ WorkerGoes(w, "predicate", IF Predicate THEN "check" ELSE "block")
    /\ threads_waiting' = threads_waiting - (IF Predicate THEN 1 ELSE 0)
    /\ UNCHANGED <<work, flags, jobs_mutex, cpc, dpc, lost>>

WorkerBlock(w) ==
    /\ WorkerGoes(w, "block", "sleep")
    /\ Unlock(w)
    /\ lost' = (lost \/ Predicate)
    /\ UNCHANGED <<work, flags, threads_waiting, cpc, dpc>>

\* Mutant: a wakeup is trusted, the predicate is not evaluated again.
WorkerRelockTrusting(w) ==
    /\ WorkerGoes(w, "relock", "check")
    /\ threads_waiting' = threads_waiting - 1
    /\ Lock(w)
    /\ UNCHANGED <<work, flags, cpc, dpc, lost>>

\* The mutex again after a notification or a spurious wakeup.
WorkerRelock(w) ==
    /\ WorkerGoes(w, "relock", "predicate")
    /\ Lock(w)
    /\ UNCHANGED <<work, flags, threads_waiting, cpc, dpc, lost>>

WorkerSpurious(w) ==
    /\ WorkerGoes(w, "sleep", "relock")
    /\ UNCHANGED <<work, flags, jobs_mutex, threads_waiting, cpc, dpc, lost>>

WorkerEnd(w) ==
    /\ WorkerGoes(w, "check", "ended")
    /\ is_terminate
    /\ Unlock(w)
    /\ UNCHANGED <<work, flags, threads_waiting, cpc, dpc, lost>>

\* Mutant: the job is copied out but not popped.
WorkerTakeNoPop(w) ==
    /\ WorkerGoes(w, "check", "run")
    /\ ~is_terminate
    /\ jobs # <<>>
    /\ hand' = [hand EXCEPT ![w] = Head(jobs)]
    /\ Unlock(w)
    /\ UNCHANGED <<jobs, future, flags, threads_waiting, cpc, dpc, lost>>

\* front() and pop() of an empty queue are undefined; CheckNonEmpty says that
\* the worker never gets there with one.
WorkerTake(w) ==
    /\ WorkerGoes(w, "check", "run")
    /\ ~is_terminate
    /\ jobs # <<>>
    /\ hand' = [hand EXCEPT ![w] = Head(jobs)]
    /\ jobs' = Tail(jobs)
    /\ Unlock(w)
    /\ UNCHANGED <<future, flags, threads_waiting, cpc, dpc, lost>>

\* The packaged_task stores the value or the exception in its future.
WorkerRun(w, r) ==
    /\ WorkerGoes(w, "run", "top")
    /\ future' = [future EXCEPT ![hand[w]] = r]
    /\ hand' = [hand EXCEPT ![w] = NoJob]
    /\ UNCHANGED <<jobs, flags, jobs_mutex, threads_waiting, cpc, dpc, lost>>

-----------------------------------------------------------------------------
(* The clients: add, clear, pause, wait.  They stop before the destructor. *)

AddBegin(c, j) ==
    /\ dpc = "alive"
    /\ future[j] = "none"
    /\ \A d \in Clients : hand[d] # j
    /\ ClientGoes(c, "idle", "add_lock")
    /\ hand' = [hand EXCEPT ![c] = j]
    /\ UNCHANGED <<jobs, future, flags, jobs_mutex, threads_waiting, wpc, dpc, lost>>

AddLock(c) ==
    /\ ClientGoes(c, "add_lock", "emplace")
    /\ Lock(c)
    /\ UNCHANGED <<work, flags, threads_waiting, wpc, dpc, lost>>

AddEmplace(c) ==
    /\ ClientGoes(c, "emplace", "notify")
    /\ jobs' = Append(jobs, hand[c])
    /\ future' = [future EXCEPT ![hand[c]] = "pending"]
    /\ hand' = [hand EXCEPT ![c] = NoJob]
    /\ Unlock(c)
    /\ UNCHANGED <<flags, threads_waiting, wpc, dpc, lost>>

\* Mutant: nobody is told of the job.
AddNotifyNobody(c) ==
    /\ ClientGoes(c, "notify", "idle")
    /\ UNCHANGED <<work, flags, jobs_mutex, threads_waiting, wpc, dpc, lost>>

AddNotify(c) ==
    /\ ClientGoes(c, "notify", "idle")
    /\ NotifyAll
    /\ UNCHANGED <<work, flags, jobs_mutex, threads_waiting, dpc, lost>>

\* What clear() does to the queue: the jobs go, and with them their promises.
DropJobs ==
    /\ jobs' = <<>>
    /\ future' = [j \in Jobs |-> IF j \in Range(jobs) THEN "broken" ELSE future[j]]
    /\ UNCHANGED hand

ClearLock(c) ==
    /\ dpc = "alive"
    /\ ClientGoes(c, "idle", "clear")
    /\ Lock(c)
    /\ UNCHANGED <<work, flags, threads_waiting, wpc, dpc, lost>>

Clear(c) ==
    /\ ClientGoes(c, "clear", "idle")
    /\ DropJobs
    /\ Unlock(c)
    /\ UNCHANGED <<flags, threads_waiting, wpc, dpc, lost>>

Pause(c, state) ==
    /\ MayPause
    /\ dpc = "alive"
    /\ is_pause' = state
    /\ ClientGoes(c, "idle", IF state THEN "idle" ELSE "resume")
    /\ UNCHANGED <<work, is_terminate, jobs_mutex, threads_waiting, wpc, dpc, lost>>

\* pause() reads is_pause back, which another client may have set meanwhile.
PauseNotify(c) ==
    /\ ClientGoes(c, "resume", "idle")
    /\ IF is_pause THEN UNCHANGED wpc ELSE NotifyAll
    /\ UNCHANGED <<work, flags, jobs_mutex, threads_waiting, dpc, lost>>

WaitBegin(c) ==
    /\ dpc = "alive"
    /\ ClientGoes(c, "idle", "wait")
    /\ UNCHANGED <<work, flags, jobs_mutex, threads_waiting, wpc, dpc, lost>>

\* The spin of wait() sees all workers waiting.
WaitEnd(c) ==
    /\ threads_waiting = Cardinality(Workers)
    /\ ClientGoes(c, "wait", "idle")
    /\ UNCHANGED <<work, flags, jobs_mutex, threads_waiting, wpc, dpc, lost>>

-----------------------------------------------------------------------------
(* The destructor. *)

DestructorGoes(from, to) == dpc = from /\ dpc' = to

DestroyLock ==
    /\ \A c \in Clients : cpc[c] = "idle"
    /\ DestructorGoes("alive", "clear")
    /\ Lock(Destructor)
    /\ UNCHANGED <<work, flags, threads_waiting, wpc, cpc, lost>>

DestroyClear ==
    /\ DestructorGoes("clear", "terminate")
    /\ DropJobs
    /\ Unlock(Destructor)
    /\ UNCHANGED <<flags, threads_waiting, wpc, cpc, lost>>

DestroyTerminate ==
    /\ DestructorGoes("terminate", "notify")
    /\ is_terminate' = TRUE
    /\ UNCHANGED <<work, is_pause, jobs_mutex, threads_waiting, wpc, cpc, lost>>

\* Mutant: the sleeping workers are not told.
DestroyNotifyNobody ==
    /\ DestructorGoes("notify", "join")
    /\ UNCHANGED <<work, flags, jobs_mutex, threads_waiting, wpc, cpc, lost>>

DestroyNotify ==
    /\ DestructorGoes("notify", "join")
    /\ NotifyAll
    /\ UNCHANGED <<work, flags, jobs_mutex, threads_waiting, cpc, lost>>

\* Mutant: the threads are not joined.
DestroyDetach ==
    /\ DestructorGoes("join", "dead")
    /\ UNCHANGED <<work, flags, jobs_mutex, threads_waiting, wpc, cpc, lost>>

DestroyJoin ==
    /\ DestructorGoes("join", "dead")
    /\ \A w \in Workers : wpc[w] = "ended"
    /\ UNCHANGED <<work, flags, jobs_mutex, threads_waiting, wpc, cpc, lost>>

-----------------------------------------------------------------------------
WorkerStep(w) ==
    \/ WorkerTop(w)
    \/ WorkerLock(w)
    \/ WorkerTest(w)
    \/ WorkerPredicate(w)
    \/ WorkerBlock(w)
    \/ WorkerRelock(w)
    \/ WorkerEnd(w)
    \/ WorkerTake(w)
    \/ \E r \in {"value", "exception"} : WorkerRun(w, r)

ClientCall(c) ==
    \/ \E j \in Jobs : AddBegin(c, j)
    \/ ClearLock(c)
    \/ \E state \in BOOLEAN : Pause(c, state)
    \/ WaitBegin(c)

ClientStep(c) ==
    \/ AddLock(c)
    \/ AddEmplace(c)
    \/ AddNotify(c)
    \/ Clear(c)
    \/ PauseNotify(c)
    \/ WaitEnd(c)

DestructorStep ==
    \/ DestroyClear
    \/ DestroyTerminate
    \/ DestroyNotify
    \/ DestroyJoin

Next ==
    \/ \E w \in Workers : WorkerStep(w) \/ WorkerSpurious(w)
    \/ \E c \in Clients : ClientCall(c) \/ ClientStep(c)
    \/ DestroyLock
    \/ DestructorStep

Spec == Init /\ [][Next]_vars

\* Threads keep running, and a thread that waits for the mutex gets it if it
\* is free again and again: spurious wakeups may go on for ever.
Fairness ==
    /\ \A w \in Workers : WF_vars(WorkerStep(w))
    /\ \A w \in Workers : SF_vars(WorkerLock(w) \/ WorkerRelock(w))
    /\ \A c \in Clients : WF_vars(ClientStep(c)) /\ SF_vars(AddLock(c))
    /\ WF_vars(DestructorStep)

FairSpec == Spec /\ Fairness

-----------------------------------------------------------------------------
TypeOK ==
    /\ jobs \in Seq(Jobs)
    /\ jobs_mutex \in Threads \cup {NoThread, Destructor}
    /\ threads_waiting \in 0..Cardinality(Workers)
    /\ is_terminate \in BOOLEAN
    /\ is_pause \in BOOLEAN
    /\ wpc \in [Workers -> WorkerPcs]
    /\ cpc \in [Clients -> ClientPcs]
    /\ dpc \in DestructorPcs
    /\ hand \in [Threads -> Jobs \cup {NoJob}]
    /\ future \in [Jobs -> Results]
    /\ lost \in BOOLEAN

(* threads_waiting (lines 119 and 123), which is written outside any        *)
(* common lock with wait(), counts exactly the workers inside the wait, so  *)
(* that wait() (line 110) returns only when no job is being run.            *)
WaitingCounted ==
    /\ threads_waiting = Cardinality({w \in Workers : wpc[w] \in CountedPcs})
    /\ threads_waiting = Cardinality(Workers) =>
           \A w \in Workers : wpc[w] # "run" /\ hand[w] = NoJob

(* Lines 128-129 take the front of the queue without testing it again: a    *)
(* worker that has passed the wait and is not told to end finds a job,      *)
(* although clear() and pause() run at any time.                            *)
CheckNonEmpty ==
    \A w \in Workers : wpc[w] = "check" /\ ~is_terminate => jobs # <<>>

(* Both hold at once: what wait() counts and what a worker finds.           *)
WorkersSound == WaitingCounted /\ CheckNonEmpty

(* After the destructor no promise is left open: every job that was added   *)
(* has run or its future is broken, and no worker is alive.                 *)
DestroyedSettles ==
    dpc = "dead" => /\ \A j \in Jobs : future[j] # "pending"
                    /\ \A w \in Workers : wpc[w] = "ended"

(* The pool implements the promise of FifoTasks: jobs start in the order    *)
(* they were added, each once, and only clear() breaks a promise.           *)
Fifo == INSTANCE FifoTasks
            WITH Tasks <- Jobs,
                 pending <- jobs,
                 running <- {hand[w] : w \in Workers} \ {NoJob},
                 result <- future
FifoSpec == Fifo!FifoSpec

(* A queued job does not wait for ever: it is run or cleared, unless the    *)
(* pool is paused or a worker slept through a notification.                 *)
JobProgress ==
    \A j \in Jobs : j \in Range(jobs) ~> j \notin Range(jobs) \/ is_pause \/ lost

(* The destructor returns, unless a worker that had found no work slept     *)
(* through its notify_all: line 68 sets is_terminate without jobs_mutex.    *)
DestructorReturns == dpc = "clear" ~> dpc = "dead" \/ lost
=============================================================================
