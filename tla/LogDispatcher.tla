--------------------------- MODULE LogDispatcher ---------------------------
(***************************************************************************)
(* log_message_dispatcher of Sandbox/logger2.hpp: threads push messages,   *)
(* one worker takes all that are queued at once and writes them without    *)
(* the mutex.  m_stop_requested is a plain bool that stop() sets without   *)
(* the mutex; every test of it follows a call that makes the compiler load *)
(* it again.  What a message looks like, and which sinks and levels it is  *)
(* written for, is left out: a message is handled when write_node is done. *)
(***************************************************************************)
EXTENDS Sequences, Functions, FiniteSets

CONSTANTS
    Writers,   \* threads that log
    Messages,  \* what they log, each message once
    NoMessage

ASSUME LogAssumption == NoMessage \notin Messages

VARIABLES
    m_queue,
    m_running,
    m_stop_requested,
    m_stop_policy,
    locked,    \* the worker holds m_locker; a push holds it within one step
    wpc,       \* where the worker is, "none" without a thread
    current,   \* current_nodes
    opc,       \* where the thread that starts and stops is
    ppc,       \* where each writer is in push
    hand,      \* the message it pushes
    accepted,  \* history: messages in the order they were queued
    handled,   \* history: messages in the order they were written
    due,       \* history: what calls of push that had returned when stop was
               \* called had queued and the worker not taken
    dueIdle,   \* history: all that was queued then, if the worker was not
               \* writing
    missed     \* history: stop's notification found the worker about to sleep
ownerVars == <<m_running, m_stop_requested, m_stop_policy, opc>>
writerVars == <<ppc, hand>>
stopVars == <<due, dueIdle, missed>>
vars == <<m_queue, ownerVars, locked, wpc, current, writerVars, accepted,
          handled, stopVars>>

Policies == {"instant_stop", "deferred_stop"}

\* The worker after the last look at the queue of a batch.
Writing == wpc \in {"write", "check"}

\* The constructor starts the worker.
Init ==
    /\ m_queue = <<>>
    /\ m_running = TRUE
    /\ m_stop_requested = FALSE
    /\ m_stop_policy \in Policies
    /\ locked = FALSE
    /\ wpc = "loop"
    /\ current = <<>>
    /\ opc = "idle"
    /\ ppc = [w \in Writers |-> "idle"]
    /\ hand = [w \in Writers |-> NoMessage]
    /\ accepted = <<>>
    /\ handled = <<>>
    /\ due = {}
    /\ dueIdle = {}
    /\ missed = FALSE

-----------------------------------------------------------------------------
(* start, stop and the destructor, by one thread *)

Start ==
    /\ opc = "idle"
    /\ ~m_running
    /\ m_stop_requested' = FALSE
    /\ m_running' = TRUE
    /\ wpc' = "loop"
    /\ due' = {}
    /\ dueIdle' = {}
    /\ missed' = FALSE
    /\ UNCHANGED <<m_queue, m_stop_policy, locked, current, opc, writerVars,
                   accepted, handled>>

StopRequest ==
    /\ opc = "idle"
    /\ m_running
    /\ m_stop_requested' = TRUE
    /\ opc' = "notify"
    /\ due' = Range(m_queue) \ Range(hand)
    /\ dueIdle' = IF Writing THEN {} ELSE Range(m_queue)
    /\ UNCHANGED <<m_queue, m_running, m_stop_policy, locked, wpc, current,
                   writerVars, accepted, handled, missed>>

\* notify_one: the worker is the only thread that ever waits.
Notified == IF wpc = "asleep" THEN "lock" ELSE wpc

StopNotify ==
    /\ opc = "notify"
    /\ opc' = "join"
    /\ wpc' = Notified
    /\ missed' = (wpc = "sleep")
    /\ UNCHANGED <<m_queue, m_running, m_stop_requested, m_stop_policy, locked,
                   current, writerVars, accepted, handled, due, dueIdle>>

StopJoin ==
    /\ opc = "join"
    /\ wpc = "none"
    /\ opc' = "idle"
    /\ m_running' = FALSE
    /\ UNCHANGED <<m_queue, m_stop_requested, m_stop_policy, locked, wpc,
                   current, writerVars, accepted, handled, stopVars>>

\* The destructor, after stop(); nobody may use the dispatcher any more.  What
\* is still queued is dropped with it.
Destroy ==
    /\ opc = "idle"
    /\ ~m_running
    /\ \A w \in Writers : ppc[w] = "idle"
    /\ opc' = "destroyed"
    /\ m_queue' = <<>>
    /\ UNCHANGED <<m_running, m_stop_requested, m_stop_policy, locked, wpc,
                   current, writerVars, accepted, handled, stopVars>>

-----------------------------------------------------------------------------
(* The worker *)

\* while (m_running), and the lock.
WorkerLock ==
    /\ wpc \in {"loop", "lock"}
    /\ wpc = "loop" => m_running
    /\ ~locked
    /\ locked' = TRUE
    /\ wpc' = "test"
    /\ UNCHANGED <<m_queue, ownerVars, current, writerVars, accepted, handled,
                   stopVars>>

\* The predicate of the wait.
WorkerTest ==
    /\ wpc = "test"
    /\ wpc' = IF m_stop_requested \/ m_queue # <<>> THEN "take" ELSE "sleep"
    /\ UNCHANGED <<m_queue, ownerVars, locked, current, writerVars, accepted,
                   handled, stopVars>>

\* wait() unlocks and blocks at once.
WorkerSleep ==
    /\ wpc = "sleep"
    /\ wpc' = "asleep"
    /\ locked' = FALSE
    /\ UNCHANGED <<m_queue, ownerVars, current, writerVars, accepted, handled,
                   stopVars>>

WorkerSpurious ==
    /\ wpc = "asleep"
    /\ wpc' = "lock"
    /\ UNCHANGED <<m_queue, ownerVars, locked, current, writerVars, accepted,
                   handled, stopVars>>

\* Mutant: the policies are taken for one another.
StopsSwapped(policy) == m_stop_requested /\ m_stop_policy # policy

StopsBy(policy) == m_stop_requested /\ m_stop_policy = policy

\* instant_stop: the thread ends, and its unique_lock unlocks.
WorkerQuit ==
    /\ wpc = "take"
    /\ StopsBy("instant_stop")
    /\ wpc' = "none"
    /\ locked' = FALSE
    /\ UNCHANGED <<m_queue, ownerVars, current, writerVars, accepted, handled,
                   stopVars>>

\* The whole queue becomes current_nodes.
WorkerTake ==
    /\ wpc = "take"
    /\ ~StopsBy("instant_stop")
    /\ current' = m_queue
    /\ m_queue' = <<>>
    /\ locked' = FALSE
    /\ wpc' = "write"
    /\ UNCHANGED <<ownerVars, writerVars, accepted, handled, stopVars>>

\* write_node of the next node.
WriteNode ==
    /\ wpc = "write"
    /\ current # <<>>
    /\ handled' = Append(handled, Head(current))
    /\ current' = Tail(current)
    /\ UNCHANGED <<m_queue, ownerVars, locked, wpc, writerVars, accepted,
                   stopVars>>

\* Mutant: m_queue.clear() is called at the end of the batch, without the lock.
WriteDoneClears ==
    /\ wpc = "write"
    /\ current = <<>>
    /\ wpc' = "check"
    /\ m_queue' = <<>>
    /\ UNCHANGED <<ownerVars, locked, current, writerVars, accepted, handled,
                   stopVars>>

WriteDone ==
    /\ wpc = "write"
    /\ current = <<>>
    /\ wpc' = "check"
    /\ UNCHANGED <<m_queue, ownerVars, locked, current, writerVars, accepted,
                   handled, stopVars>>

\* deferred_stop ends the thread here, without another look at the queue.
WorkerCheck ==
    /\ wpc = "check"
    /\ wpc' = IF StopsBy("deferred_stop") THEN "none" ELSE "loop"
    /\ UNCHANGED <<m_queue, ownerVars, locked, current, writerVars, accepted,
                   handled, stopVars>>

-----------------------------------------------------------------------------
(* push, from the destructor of a log_message_proxy with text in it *)

\* Messages somebody has not logged yet.
Fresh(m) == m \notin Range(accepted) /\ \A w \in Writers : hand[w] # m

\* The test of m_stop_requested, without the lock; the message is dropped if
\* a stop is requested, and may be logged later.
PushCheck(w, m) ==
    /\ opc # "destroyed"
    /\ ppc[w] = "idle"
    /\ Fresh(m)
    /\ ~m_stop_requested
    /\ ppc' = [ppc EXCEPT ![w] = "queue"]
    /\ hand' = [hand EXCEPT ![w] = m]
    /\ UNCHANGED <<m_queue, ownerVars, locked, wpc, current, accepted, handled,
                   stopVars>>

PushQueue(w) ==
    /\ ppc[w] = "queue"
    /\ ~locked
    /\ m_queue' = Append(m_queue, hand[w])
    /\ accepted' = Append(accepted, hand[w])
    /\ ppc' = [ppc EXCEPT ![w] = "notify"]
    /\ UNCHANGED <<ownerVars, locked, wpc, current, hand, handled, stopVars>>

\* Mutant: the notification is forgotten.
PushNotifyNobody(w) ==
    /\ ppc[w] = "notify"
    /\ ppc' = [ppc EXCEPT ![w] = "idle"]
    /\ hand' = [hand EXCEPT ![w] = NoMessage]
    /\ UNCHANGED <<m_queue, ownerVars, locked, wpc, current, accepted, handled,
                   stopVars>>

PushNotify(w) ==
    /\ ppc[w] = "notify"
    /\ wpc' = Notified
    /\ ppc' = [ppc EXCEPT ![w] = "idle"]
    /\ hand' = [hand EXCEPT ![w] = NoMessage]
    /\ UNCHANGED <<m_queue, ownerVars, locked, current, accepted, handled,
                   stopVars>>

-----------------------------------------------------------------------------
WorkerStep ==
    \/ WorkerLock \/ WorkerTest \/ WorkerSleep \/ WorkerQuit
    \/ WorkerTake \/ WriteNode \/ WriteDone \/ WorkerCheck

Push(w) == PushQueue(w) \/ PushNotify(w)

Next ==
    \/ Start \/ StopRequest \/ StopNotify \/ StopJoin \/ Destroy
    \/ WorkerStep
    \/ WorkerSpurious
    \/ \E w \in Writers : Push(w) \/ \E m \in Messages : PushCheck(w, m)

Spec == Init /\ [][Next]_vars

\* Threads run: the worker, and whoever notifies or joins.  Nobody is bound to
\* log, start or stop, and no spurious wakeup is bound to come.  Weak fairness
\* is enough for the worker's lock, as a push holds the mutex within one step.
FairSpec ==
    /\ Spec
    /\ WF_vars(WorkerStep)
    /\ WF_vars(StopNotify \/ StopJoin)
    /\ \A w \in Writers : WF_vars(PushNotify(w))

-----------------------------------------------------------------------------
(* Properties *)

\* No message is lost, doubled or overtaken, whoever stops and restarts the
\* worker: what was queued is written, in current_nodes or still in m_queue,
\* in this order; what a stop left in the queue goes with the dispatcher, and is
\* the end of what was queued.  push and the move of the whole queue share
\* m_locker for it.
Beginning(s, t) == \A i \in DOMAIN s : i \in DOMAIN t /\ s[i] = t[i]
Conserved ==
    IF opc = "destroyed" THEN Beginning(handled, accepted)
    ELSE handled \o current \o m_queue = accepted

\* A deferred stop writes what is queued, unless the worker is in the middle
\* of a batch when stop() is called.
DeferredDrains ==
    ~m_running /\ m_stop_policy = "deferred_stop" =>
        dueIdle \subseteq Range(handled)

\* A deferred stop writes everything that was logged before stop() was called.
DeferredStopWrites ==
    ~m_running /\ m_stop_policy = "deferred_stop" => due \subseteq Range(handled)

\* A queued message is written unless a stop is requested, and stop() returns
\* unless its notification, sent without the mutex, came between the test of
\* the worker and its sleep.
LogProgress ==
    /\ \A m \in Messages :
          m \in Range(accepted) ~> m \in Range(handled) \/ m_stop_requested
    /\ opc = "join" ~> opc # "join" \/ missed
=============================================================================
