-------------------------- MODULE TaskQueueProofs --------------------------
(***************************************************************************)
(* Proofs about TaskQueue, for any sets of workers, clients and tasks.     *)
(* The inductive invariant adds to the properties what each thread may     *)
(* rely on at each of its steps:                                           *)
(*   HandsOK   which threads hold a task, and that a task being pushed is  *)
(*             in nobody else's hands;                                     *)
(*   PhaseOK   which workers exist in each phase of the owner;             *)
(*   LockOK    who is inside the critical section;                         *)
(*   TakeOK    what the predicate of the wait left behind;                 *)
(*   PendingOK an unsettled task is in the deque or in a worker's hands;   *)
(*   DueOK     during wait_for_completion, once one worker has left, no    *)
(*             task accepted before the call is in the deque;              *)
(*   QueueOK   a task that waits in the deque is there once and in no      *)
(*             worker's hands: every step is one of FifoTasks.             *)
(***************************************************************************)
EXTENDS TaskQueue, FiniteSetTheorems, SequenceTheorems, TLAPS

HandsOK ==
    /\ \A p \in Pushers : ppc[p] \in {"lock", "emplace"} =>
           /\ hand[p] \in Tasks
           /\ future[hand[p]] = "none"
    /\ \A p \in Pushers : ppc[p] \notin {"lock", "emplace"} => hand[p] = NoTask
    /\ \A p, q \in Pushers : p # q /\ hand[p] # NoTask => hand[p] # hand[q]
    /\ \A w \in Workers : wpc[w] # "run" => hand[w] = NoTask
    /\ \A w \in Workers : wpc[w] = "run" =>
           /\ hand[w] \in Tasks
           /\ future[hand[w]] # "none"
    /\ \A i \in 1..Len(m_tasks) : future[m_tasks[i]] # "none"

PhaseOK ==
    /\ m_stop_requested <=> opc \in {"notify", "join"}
    /\ m_running => opc = "idle"
    /\ ~m_running /\ ~m_stop_requested => \A w \in Workers : wpc[w] = "off"
    /\ m_running \/ m_stop_requested =>
           /\ m_workers # {}
           /\ \A w \in Workers : wpc[w] # "off" <=> w \in m_workers
    /\ \A w \in Workers : wpc[w] = "exited" => m_stop_requested

LockOK == MutualExclusion

TakeOK ==
    ~stolen => \A w \in Workers :
        wpc[w] = "take" => m_tasks # <<>> \/ m_stop_requested

PendingOK ==
    \A t \in Tasks : future[t] = "pending" =>
        \/ \E i \in 1..Len(m_tasks) : m_tasks[i] = t
        \/ \E w \in Workers : wpc[w] = "run" /\ hand[w] = t

DueOK ==
    /\ m_stop_requested /\ m_stop_policy = "wait_for_queue_completion" =>
         /\ \A t \in due : future[t] \in {"pending", "value", "exception"}
         /\ (\E w \in Workers : wpc[w] = "exited") =>
              \A i \in 1..Len(m_tasks) : m_tasks[i] \notin due
    /\ WaitDrains

IInv == TypeOK /\ HandsOK /\ PhaseOK /\ LockOK /\ TakeOK /\ PendingOK /\ DueOK

USE DEF Threads, Pushers

(* The invariant holds of a freshly constructed queue. *)
LEMMA IInvInit == Init => IInv
<1> SUFFICES ASSUME Init PROVE IInv
  OBVIOUS
<1>1. TypeOK
  <2>1. MaxSpurious \in Nat
    BY TaskQueueAssumption DEF TaskQueueAssumption
  <2>2. /\ wpc \in [Workers -> WorkerPcs]
        /\ ppc \in [Pushers -> PusherPcs]
        /\ hand \in [Threads -> Tasks \cup {NoTask}]
        /\ future \in [Tasks -> Results]
    BY DEF Init, WorkerPcs, PusherPcs, Results
  <2>3. /\ m_running \in BOOLEAN
        /\ m_stop_requested \in BOOLEAN
        /\ stolen \in BOOLEAN
    BY DEF Init
  <2>4. /\ m_tasks \in Seq(Tasks)
        /\ spurious \in 0..MaxSpurious
        /\ holder \in Threads \cup {NoThread}
        /\ m_stop_policy \in Policies
        /\ opc \in OwnerPcs
    BY <2>1 DEF Init, Policies, OwnerPcs
  <2>5. QED
    BY <2>2, <2>3, <2>4 DEF Init, TypeOK
<1>2. HandsOK /\ PhaseOK /\ PendingOK
  BY DEF Init, HandsOK, PhaseOK, PendingOK
<1>3. LockOK /\ TakeOK /\ DueOK
  BY DEF Init, LockOK, MutualExclusion, InSection, TakeOK, DueOK, WaitDrains
<1>4. QED  BY <1>1, <1>2, <1>3 DEF IInv

(* Every step of the owner, a client or a worker preserves it. *)
LEMMA IInvStep == IInv /\ [Next]_vars => IInv'
<1> SUFFICES ASSUME IInv, [Next]_vars PROVE IInv'
  OBVIOUS
<1> USE TaskQueueAssumption
    DEF TaskQueueAssumption, IInv, TypeOK, queueVars, ownerVars, Policies,
        OwnerPcs, WorkerPcs, PusherPcs, Results
<1>1. ASSUME NEW n \in WorkerCounts, SetNumWorkers(n) PROVE IInv'
  <2>1. TypeOK'
    BY <1>1 DEF HandsOK, SetNumWorkers
  <2>2. HandsOK'
    BY <1>1 DEF HandsOK, PhaseOK, SetNumWorkers
  <2>3. PhaseOK'
    BY <1>1 DEF PhaseOK, SetNumWorkers
  <2>4. LockOK'
    BY <1>1 DEF LockOK, MutualExclusion, InSection, PhaseOK, SetNumWorkers
  <2>5. TakeOK'
    BY <1>1 DEF TakeOK, LockOK, MutualExclusion, InSection, PhaseOK, SetNumWorkers
  <2>6. PendingOK'
    BY <1>1 DEF PendingOK, HandsOK, PhaseOK, SetNumWorkers
  <2>7. DueOK'
    BY <1>1 DEF DueOK, WaitDrains, HandsOK, PhaseOK, PendingOK, SetNumWorkers
  <2>8. QED  BY <2>1, <2>2, <2>3, <2>4, <2>5, <2>6, <2>7 DEF IInv
<1>2. CASE Start
  <2>1. TypeOK'
    BY <1>2 DEF HandsOK, Start, SpawnWorkers
  <2>2. HandsOK'
    BY <1>2 DEF HandsOK, PhaseOK, Start, SpawnWorkers
  <2>3. PhaseOK'
    <3>1. PICK S \in SUBSET Workers :
             /\ Cardinality(S) = m_num_workers
             /\ m_workers' = S
             /\ wpc' = [w \in Workers |-> IF w \in S THEN "lock" ELSE "off"]
      BY <1>2 DEF Start, SpawnWorkers
    <3>2. S # {}
      <4>1. Cardinality(Workers) \in Nat
        BY FS_CardinalityType
      <4>2. m_num_workers # 0
        BY <4>1
      <4>3. QED  BY <3>1, <4>2, FS_EmptySet
    <3>3. QED  BY <1>2, <3>1, <3>2 DEF PhaseOK, Start
  <2>4. LockOK'
    BY <1>2 DEF LockOK, MutualExclusion, InSection, PhaseOK, Start, SpawnWorkers
  <2>5. TakeOK'
    BY <1>2 DEF TakeOK, LockOK, MutualExclusion, InSection, PhaseOK, Start, SpawnWorkers
  <2>6. PendingOK'
    BY <1>2 DEF PendingOK, HandsOK, PhaseOK, Start, SpawnWorkers
  <2>7. DueOK'
    BY <1>2 DEF DueOK, WaitDrains, HandsOK, PhaseOK, PendingOK, Start, SpawnWorkers
  <2>8. QED  BY <2>1, <2>2, <2>3, <2>4, <2>5, <2>6, <2>7 DEF IInv
<1>3. ASSUME NEW policy \in Policies, StopRequest(policy) PROVE IInv'
  <2>1. TypeOK'
    BY <1>3 DEF HandsOK, StopRequest
  <2>2. HandsOK'
    BY <1>3 DEF HandsOK, PhaseOK, StopRequest
  <2>3. PhaseOK'
    BY <1>3 DEF PhaseOK, StopRequest
  <2>4. LockOK'
    BY <1>3 DEF LockOK, MutualExclusion, InSection, PhaseOK, StopRequest
  <2>5. TakeOK'
    BY <1>3 DEF TakeOK, LockOK, MutualExclusion, InSection, PhaseOK, StopRequest
  <2>6. PendingOK'
    BY <1>3 DEF PendingOK, HandsOK, PhaseOK, StopRequest
  <2>7. DueOK'
    BY <1>3 DEF DueOK, WaitDrains, HandsOK, PhaseOK, PendingOK, StopRequest
  <2>8. QED  BY <2>1, <2>2, <2>3, <2>4, <2>5, <2>6, <2>7 DEF IInv
<1>4. CASE StopNotify
  <2>1. TypeOK'
    BY <1>4 DEF HandsOK, StopNotify, NotifyAll, Sleepers
  <2>2. HandsOK'
    BY <1>4 DEF HandsOK, PhaseOK, StopNotify, NotifyAll, Sleepers
  <2>3. PhaseOK'
    BY <1>4 DEF PhaseOK, StopNotify, NotifyAll, Sleepers
  <2>4. LockOK'
    BY <1>4 DEF LockOK, MutualExclusion, InSection, PhaseOK, StopNotify, NotifyAll, Sleepers
  <2>5. TakeOK'
    BY <1>4 DEF TakeOK, LockOK, MutualExclusion, InSection, PhaseOK, StopNotify, NotifyAll, Sleepers
  <2>6. PendingOK'
    BY <1>4 DEF PendingOK, HandsOK, PhaseOK, StopNotify, NotifyAll, Sleepers
  <2>7. DueOK'
    BY <1>4 DEF DueOK, WaitDrains, HandsOK, PhaseOK, PendingOK, StopNotify, NotifyAll, Sleepers
  <2>8. QED  BY <2>1, <2>2, <2>3, <2>4, <2>5, <2>6, <2>7 DEF IInv
<1>5. CASE StopJoin
  <2>1. TypeOK'
    BY <1>5 DEF HandsOK, StopJoin
  <2>2. HandsOK'
    BY <1>5 DEF HandsOK, PhaseOK, StopJoin
  <2>3. PhaseOK'
    BY <1>5 DEF PhaseOK, StopJoin
  <2>4. LockOK'
    BY <1>5 DEF LockOK, MutualExclusion, InSection, PhaseOK, StopJoin
  <2>5. TakeOK'
    BY <1>5 DEF TakeOK, LockOK, MutualExclusion, InSection, PhaseOK, StopJoin
  <2>6. PendingOK'
    BY <1>5 DEF PendingOK, HandsOK, PhaseOK, StopJoin
  <2>7. DueOK'
    BY <1>5 DEF DueOK, WaitDrains, HandsOK, PhaseOK, PendingOK, StopJoin
  <2>8. QED  BY <2>1, <2>2, <2>3, <2>4, <2>5, <2>6, <2>7 DEF IInv
<1>6. CASE Resume
  <2>1. TypeOK'
    BY <1>6 DEF HandsOK, Resume, SpawnWorkers
  <2>2. HandsOK'
    BY <1>6 DEF HandsOK, PhaseOK, Resume, SpawnWorkers
  <2>3. PhaseOK'
    <3>1. PICK S \in SUBSET Workers :
             /\ Cardinality(S) = m_num_workers
             /\ m_workers' = S
             /\ wpc' = [w \in Workers |-> IF w \in S THEN "lock" ELSE "off"]
      BY <1>6 DEF Resume, SpawnWorkers
    <3>2. S # {}
      <4>1. Cardinality(Workers) \in Nat
        BY FS_CardinalityType
      <4>2. m_num_workers # 0
        BY <4>1
      <4>3. QED  BY <3>1, <4>2, FS_EmptySet
    <3>3. QED  BY <1>6, <3>1, <3>2 DEF PhaseOK, Resume
  <2>4. LockOK'
    BY <1>6 DEF LockOK, MutualExclusion, InSection, PhaseOK, Resume, SpawnWorkers
  <2>5. TakeOK'
    BY <1>6 DEF TakeOK, LockOK, MutualExclusion, InSection, PhaseOK, Resume, SpawnWorkers
  <2>6. PendingOK'
    BY <1>6 DEF PendingOK, HandsOK, PhaseOK, Resume, SpawnWorkers
  <2>7. DueOK'
    BY <1>6 DEF DueOK, WaitDrains, HandsOK, PhaseOK, PendingOK, Resume, SpawnWorkers
  <2>8. QED  BY <2>1, <2>2, <2>3, <2>4, <2>5, <2>6, <2>7 DEF IInv
<1>7. CASE Destroy
  <2>1. TypeOK'
    BY <1>7 DEF HandsOK, Destroy, Range
  <2>2. HandsOK'
    BY <1>7 DEF HandsOK, PhaseOK, Destroy, Range
  <2>3. PhaseOK'
    BY <1>7 DEF PhaseOK, Destroy, Range
  <2>4. LockOK'
    BY <1>7 DEF LockOK, MutualExclusion, InSection, PhaseOK, Destroy, Range
  <2>5. TakeOK'
    BY <1>7 DEF TakeOK, LockOK, MutualExclusion, InSection, PhaseOK, Destroy, Range
  <2>6. PendingOK'
    BY <1>7 DEF PendingOK, HandsOK, PhaseOK, Destroy, Range
  <2>7. DueOK'
    BY <1>7 DEF DueOK, WaitDrains, HandsOK, PhaseOK, PendingOK, Destroy, Range
  <2>8. QED  BY <2>1, <2>2, <2>3, <2>4, <2>5, <2>6, <2>7 DEF IInv
<1>8. ASSUME NEW p \in Pushers, NEW t \in Tasks, PushCheck(p, t) PROVE IInv'
  <2>1. TypeOK'
    BY <1>8 DEF HandsOK, PushCheck
  <2>2. HandsOK'
    BY <1>8 DEF HandsOK, PhaseOK, PushCheck
  <2>3. PhaseOK'
    BY <1>8 DEF PhaseOK, PushCheck
  <2>4. LockOK'
    BY <1>8 DEF LockOK, MutualExclusion, InSection, PhaseOK, PushCheck
  <2>5. TakeOK'
    BY <1>8 DEF TakeOK, LockOK, MutualExclusion, InSection, PhaseOK, PushCheck
  <2>6. PendingOK'
    BY <1>8 DEF PendingOK, HandsOK, PhaseOK, PushCheck
  <2>7. DueOK'
    BY <1>8 DEF DueOK, WaitDrains, HandsOK, PhaseOK, PendingOK, PushCheck
  <2>8. QED  BY <2>1, <2>2, <2>3, <2>4, <2>5, <2>6, <2>7 DEF IInv
<1>9. ASSUME NEW p \in Pushers, PushLock(p) PROVE IInv'
  <2>1. TypeOK'
    BY <1>9 DEF HandsOK, PushLock, MutexLock
  <2>2. HandsOK'
    BY <1>9 DEF HandsOK, PhaseOK, PushLock, MutexLock
  <2>3. PhaseOK'
    BY <1>9 DEF PhaseOK, PushLock, MutexLock
  <2>4. LockOK'
    BY <1>9 DEF LockOK, MutualExclusion, InSection, PhaseOK, PushLock, MutexLock
  <2>5. TakeOK'
    BY <1>9 DEF TakeOK, LockOK, MutualExclusion, InSection, PhaseOK, PushLock, MutexLock
  <2>6. PendingOK'
    BY <1>9 DEF PendingOK, HandsOK, PhaseOK, PushLock, MutexLock
  <2>7. DueOK'
    BY <1>9 DEF DueOK, WaitDrains, HandsOK, PhaseOK, PendingOK, PushLock, MutexLock
  <2>8. QED  BY <2>1, <2>2, <2>3, <2>4, <2>5, <2>6, <2>7 DEF IInv
<1>10. ASSUME NEW p \in Pushers, PushEmplace(p) PROVE IInv'
  <2>a. hand[p] \in Tasks /\ future[hand[p]] = "none"
    BY <1>10 DEF HandsOK, PushEmplace
  <2>b. /\ m_tasks' \in Seq(Tasks) /\ Len(m_tasks') = Len(m_tasks) + 1
        /\ m_tasks'[Len(m_tasks) + 1] = hand[p]
        /\ \A i \in 1..Len(m_tasks) : m_tasks'[i] = m_tasks[i]
    BY <1>10, <2>a, AppendProperties DEF PushEmplace
  <2>1. TypeOK'
    BY <1>10, <2>a, <2>b DEF PushEmplace, MutexUnlock
  <2>2. HandsOK'
    BY <1>10 DEF HandsOK, PhaseOK, PushEmplace, MutexUnlock
  <2>3. PhaseOK'
    BY <1>10 DEF PhaseOK, PushEmplace, MutexUnlock
  <2>4. LockOK'
    BY <1>10 DEF LockOK, MutualExclusion, InSection, PhaseOK, PushEmplace, MutexUnlock
  <2>5. TakeOK'
    BY <1>10 DEF TakeOK, LockOK, MutualExclusion, InSection, PhaseOK, PushEmplace, MutexUnlock
  <2>6. PendingOK'
    BY <1>10 DEF PendingOK, HandsOK, PhaseOK, PushEmplace, MutexUnlock
  <2>7. DueOK'
    <3>1. /\ UNCHANGED <<m_stop_requested, m_stop_policy, due, wpc, opc>>
          /\ future' = [future EXCEPT ![hand[p]] = "pending"]
      BY <1>10 DEF PushEmplace
    <3>2. WaitDrains'
      BY <2>a, <3>1 DEF DueOK, WaitDrains
    <3>3. ASSUME m_stop_requested, m_stop_policy = "wait_for_queue_completion"
          PROVE /\ hand[p] \notin due
                /\ \A t \in due : future'[t] = future[t]
      BY <2>a, <3>1, <3>3 DEF DueOK
    <3>4. ASSUME m_stop_requested, m_stop_policy = "wait_for_queue_completion",
                 \E w \in Workers : wpc[w] = "exited",
                 NEW i \in 1..Len(m_tasks')
          PROVE m_tasks'[i] \notin due
      <4>1. CASE i = Len(m_tasks) + 1
        BY <2>b, <3>3, <3>4, <4>1
      <4>2. CASE i # Len(m_tasks) + 1
        <5>1. i \in 1..Len(m_tasks)
          BY <2>b, <4>2
        <5>2. QED  BY <2>b, <3>4, <5>1 DEF DueOK
      <4>3. QED  BY <4>1, <4>2
    <3>5. QED  BY <3>1, <3>2, <3>3, <3>4 DEF DueOK
  <2>8. QED  BY <2>1, <2>2, <2>3, <2>4, <2>5, <2>6, <2>7 DEF IInv
<1>11. ASSUME NEW p \in Pushers, PushNotify(p) PROVE IInv'
  <2>1. TypeOK'
    BY <1>11 DEF HandsOK, PushNotify, NotifyOne, Sleepers
  <2>2. HandsOK'
    BY <1>11 DEF HandsOK, PhaseOK, PushNotify, NotifyOne, Sleepers
  <2>3. PhaseOK'
    BY <1>11 DEF PhaseOK, PushNotify, NotifyOne, Sleepers
  <2>4. LockOK'
    BY <1>11 DEF LockOK, MutualExclusion, InSection, PhaseOK, PushNotify, NotifyOne, Sleepers
  <2>5. TakeOK'
    BY <1>11 DEF TakeOK, LockOK, MutualExclusion, InSection, PhaseOK, PushNotify, NotifyOne, Sleepers
  <2>6. PendingOK'
    BY <1>11 DEF PendingOK, HandsOK, PhaseOK, PushNotify, NotifyOne, Sleepers
  <2>7. DueOK'
    BY <1>11 DEF DueOK, WaitDrains, HandsOK, PhaseOK, PendingOK, PushNotify, NotifyOne, Sleepers
  <2>8. QED  BY <2>1, <2>2, <2>3, <2>4, <2>5, <2>6, <2>7 DEF IInv
<1>12. ASSUME NEW p \in Pushers, PushUnlockAgain(p) PROVE IInv'
  <2>1. TypeOK'
    BY <1>12 DEF HandsOK, PushUnlockAgain, MutexUnlock
  <2>2. HandsOK'
    BY <1>12 DEF HandsOK, PhaseOK, PushUnlockAgain, MutexUnlock
  <2>3. PhaseOK'
    BY <1>12 DEF PhaseOK, PushUnlockAgain, MutexUnlock
  <2>4. LockOK'
    BY <1>12 DEF LockOK, MutualExclusion, InSection, PhaseOK, PushUnlockAgain, MutexUnlock
  <2>5. TakeOK'
    BY <1>12 DEF TakeOK, LockOK, MutualExclusion, InSection, PhaseOK, PushUnlockAgain, MutexUnlock
  <2>6. PendingOK'
    BY <1>12 DEF PendingOK, HandsOK, PhaseOK, PushUnlockAgain, MutexUnlock
  <2>7. DueOK'
    BY <1>12 DEF DueOK, WaitDrains, HandsOK, PhaseOK, PendingOK, PushUnlockAgain, MutexUnlock
  <2>8. QED  BY <2>1, <2>2, <2>3, <2>4, <2>5, <2>6, <2>7 DEF IInv
<1>13. ASSUME NEW w \in Workers, WorkerLock(w) PROVE IInv'
  <2>1. TypeOK'
    BY <1>13 DEF HandsOK, WorkerLock, MutexLock
  <2>2. HandsOK'
    BY <1>13 DEF HandsOK, PhaseOK, WorkerLock, MutexLock
  <2>3. PhaseOK'
    BY <1>13 DEF PhaseOK, WorkerLock, MutexLock
  <2>4. LockOK'
    BY <1>13 DEF LockOK, MutualExclusion, InSection, PhaseOK, WorkerLock, MutexLock
  <2>5. TakeOK'
    BY <1>13 DEF TakeOK, LockOK, MutualExclusion, InSection, PhaseOK, WorkerLock, MutexLock
  <2>6. PendingOK'
    BY <1>13 DEF PendingOK, HandsOK, PhaseOK, WorkerLock, MutexLock
  <2>7. DueOK'
    BY <1>13 DEF DueOK, WaitDrains, HandsOK, PhaseOK, PendingOK, WorkerLock, MutexLock
  <2>8. QED  BY <2>1, <2>2, <2>3, <2>4, <2>5, <2>6, <2>7 DEF IInv
<1>14. ASSUME NEW w \in Workers, WorkerTest(w) PROVE IInv'
  <2>1. TypeOK'
    BY <1>14 DEF HandsOK, WorkerTest
  <2>2. HandsOK'
    BY <1>14 DEF HandsOK, PhaseOK, WorkerTest
  <2>3. PhaseOK'
    BY <1>14 DEF PhaseOK, WorkerTest
  <2>4. LockOK'
    BY <1>14 DEF LockOK, MutualExclusion, InSection, PhaseOK, WorkerTest
  <2>5. TakeOK'
    BY <1>14 DEF TakeOK, LockOK, MutualExclusion, InSection, PhaseOK, WorkerTest
  <2>6. PendingOK'
    BY <1>14 DEF PendingOK, HandsOK, PhaseOK, WorkerTest
  <2>7. DueOK'
    BY <1>14 DEF DueOK, WaitDrains, HandsOK, PhaseOK, PendingOK, WorkerTest
  <2>8. QED  BY <2>1, <2>2, <2>3, <2>4, <2>5, <2>6, <2>7 DEF IInv
<1>15. ASSUME NEW w \in Workers, WorkerBlock(w) PROVE IInv'
  <2>1. TypeOK'
    BY <1>15 DEF HandsOK, WorkerBlock, MutexUnlock
  <2>2. HandsOK'
    BY <1>15 DEF HandsOK, PhaseOK, WorkerBlock, MutexUnlock
  <2>3. PhaseOK'
    BY <1>15 DEF PhaseOK, WorkerBlock, MutexUnlock
  <2>4. LockOK'
    BY <1>15 DEF LockOK, MutualExclusion, InSection, PhaseOK, WorkerBlock, MutexUnlock
  <2>5. TakeOK'
    BY <1>15 DEF TakeOK, LockOK, MutualExclusion, InSection, PhaseOK, WorkerBlock, MutexUnlock
  <2>6. PendingOK'
    BY <1>15 DEF PendingOK, HandsOK, PhaseOK, WorkerBlock, MutexUnlock
  <2>7. DueOK'
    BY <1>15 DEF DueOK, WaitDrains, HandsOK, PhaseOK, PendingOK, WorkerBlock, MutexUnlock
  <2>8. QED  BY <2>1, <2>2, <2>3, <2>4, <2>5, <2>6, <2>7 DEF IInv
<1>16. ASSUME NEW w \in Workers, WorkerExit(w) PROVE IInv'
  <2>1. TypeOK'
    BY <1>16 DEF HandsOK, WorkerExit, MutexUnlock, WorkerMustExit
  <2>2. HandsOK'
    BY <1>16 DEF HandsOK, PhaseOK, WorkerExit, MutexUnlock, WorkerMustExit
  <2>3. PhaseOK'
    BY <1>16 DEF PhaseOK, WorkerExit, MutexUnlock, WorkerMustExit
  <2>4. LockOK'
    BY <1>16 DEF LockOK, MutualExclusion, InSection, PhaseOK, WorkerExit, MutexUnlock, WorkerMustExit
  <2>5. TakeOK'
    BY <1>16 DEF TakeOK, LockOK, MutualExclusion, InSection, PhaseOK, WorkerExit, MutexUnlock, WorkerMustExit
  <2>6. PendingOK'
    BY <1>16 DEF PendingOK, HandsOK, PhaseOK, WorkerExit, MutexUnlock, WorkerMustExit
  <2>7. DueOK'
    BY <1>16 DEF DueOK, WaitDrains, HandsOK, PhaseOK, PendingOK, WorkerExit, MutexUnlock, WorkerMustExit
  <2>8. QED  BY <2>1, <2>2, <2>3, <2>4, <2>5, <2>6, <2>7 DEF IInv
<1>17. ASSUME NEW w \in Workers, WorkerTake(w) PROVE IInv'
  <2>a. m_tasks \in Seq(Tasks) /\ m_tasks # <<>>
    BY <1>17 DEF WorkerTake
  <2>b. /\ Head(m_tasks) = m_tasks[1] /\ Head(m_tasks) \in Tasks
        /\ Tail(m_tasks) \in Seq(Tasks) /\ Len(Tail(m_tasks)) = Len(m_tasks) - 1
        /\ \A i \in 1..Len(m_tasks) - 1 : Tail(m_tasks)[i] = m_tasks[i + 1]
    BY <2>a, HeadTailProperties
  <2>1. TypeOK'
    BY <1>17, <2>b DEF WorkerTake, MutexUnlock
  <2>2. HandsOK'
    BY <1>17 DEF HandsOK, PhaseOK, WorkerTake, MutexUnlock, WorkerMustExit
  <2>3. PhaseOK'
    BY <1>17 DEF PhaseOK, WorkerTake, MutexUnlock, WorkerMustExit
  <2>4. LockOK'
    BY <1>17 DEF LockOK, MutualExclusion, InSection, PhaseOK, WorkerTake, MutexUnlock, WorkerMustExit
  <2>5. TakeOK'
    BY <1>17 DEF TakeOK, LockOK, MutualExclusion, InSection, PhaseOK, WorkerTake, MutexUnlock, WorkerMustExit
  <2>6. PendingOK'
    <3>1. /\ m_tasks' = Tail(m_tasks)
          /\ hand' = [hand EXCEPT ![w] = Head(m_tasks)]
          /\ wpc' = [wpc EXCEPT ![w] = "run"]
          /\ wpc[w] = "take"
          /\ UNCHANGED future
      BY <1>17 DEF WorkerTake
    <3>2. ASSUME NEW t \in Tasks, future[t] = "pending",
                 NEW i \in 1..Len(m_tasks), m_tasks[i] = t
          PROVE \/ wpc'[w] = "run" /\ hand'[w] = t
                \/ \E j \in 1..Len(m_tasks') : m_tasks'[j] = t
      <4>1. CASE i = 1
        BY <2>b, <3>1, <3>2, <4>1
      <4>2. CASE i # 1
        <5>1. i - 1 \in 1..Len(Tail(m_tasks)) /\ Tail(m_tasks)[i - 1] = m_tasks[i]
          BY <2>a, <2>b, <4>2
        <5>2. QED  BY <3>1, <3>2, <5>1
      <4>3. QED  BY <4>1, <4>2
    <3>3. ASSUME NEW t \in Tasks, NEW v \in Workers, wpc[v] = "run", hand[v] = t
          PROVE wpc'[v] = "run" /\ hand'[v] = t
      BY <3>1, <3>3
    <3>4. QED  BY <3>1, <3>2, <3>3 DEF PendingOK
  <2>7. DueOK'
    BY <1>17 DEF DueOK, WaitDrains, HandsOK, PhaseOK, PendingOK, WorkerTake, MutexUnlock, WorkerMustExit
  <2>8. QED  BY <2>1, <2>2, <2>3, <2>4, <2>5, <2>6, <2>7 DEF IInv
<1>18. ASSUME NEW w \in Workers, NEW r \in {"value", "exception"}, WorkerRun(w, r) PROVE IInv'
  <2>1. TypeOK'
    BY <1>18 DEF HandsOK, WorkerRun
  <2>2. HandsOK'
    BY <1>18 DEF HandsOK, PhaseOK, WorkerRun
  <2>3. PhaseOK'
    BY <1>18 DEF PhaseOK, WorkerRun
  <2>4. LockOK'
    BY <1>18 DEF LockOK, MutualExclusion, InSection, PhaseOK, WorkerRun
  <2>5. TakeOK'
    BY <1>18 DEF TakeOK, LockOK, MutualExclusion, InSection, PhaseOK, WorkerRun
  <2>6. PendingOK'
    BY <1>18 DEF PendingOK, HandsOK, PhaseOK, WorkerRun
  <2>7. DueOK'
    BY <1>18 DEF DueOK, WaitDrains, HandsOK, PhaseOK, PendingOK, WorkerRun
  <2>8. QED  BY <2>1, <2>2, <2>3, <2>4, <2>5, <2>6, <2>7 DEF IInv
<1>19. ASSUME NEW w \in Workers, WorkerSpurious(w) PROVE IInv'
  <2>1. TypeOK'
    BY <1>19 DEF HandsOK, WorkerSpurious
  <2>2. HandsOK'
    BY <1>19 DEF HandsOK, PhaseOK, WorkerSpurious
  <2>3. PhaseOK'
    BY <1>19 DEF PhaseOK, WorkerSpurious
  <2>4. LockOK'
    BY <1>19 DEF LockOK, MutualExclusion, InSection, PhaseOK, WorkerSpurious
  <2>5. TakeOK'
    BY <1>19 DEF TakeOK, LockOK, MutualExclusion, InSection, PhaseOK, WorkerSpurious
  <2>6. PendingOK'
    BY <1>19 DEF PendingOK, HandsOK, PhaseOK, WorkerSpurious
  <2>7. DueOK'
    BY <1>19 DEF DueOK, WaitDrains, HandsOK, PhaseOK, PendingOK, WorkerSpurious
  <2>8. QED  BY <2>1, <2>2, <2>3, <2>4, <2>5, <2>6, <2>7 DEF IInv
<1>20. CASE UNCHANGED vars
  BY <1>20 DEF vars, HandsOK, PhaseOK, LockOK, MutualExclusion, InSection, TakeOK,
     PendingOK, DueOK, WaitDrains
<1>21. CASE Owner
  BY <1>21, <1>1, <1>2, <1>3, <1>4, <1>5, <1>6, <1>7, Zenon DEF Owner
<1>22. ASSUME NEW p \in Pushers, Pusher(p)  PROVE IInv'
  BY <1>22, <1>8, <1>9, <1>10, <1>11, <1>12, Zenon DEF Pusher
<1>23. ASSUME NEW w \in Workers, WorkerStep(w)  PROVE IInv'
  BY <1>23, <1>13, <1>14, <1>15, <1>16, <1>17, <1>18, Zenon DEF WorkerStep
<1>24. QED  BY <1>19, <1>20, <1>21, <1>22, <1>23, Zenon DEF Next

(* The invariant above holds of every behaviour of task_queue.hpp. *)
THEOREM Invariance == Spec => []IInv
BY IInvInit, IInvStep, PTL DEF Spec

(* Type correctness: every step keeps every variable of the class in the    *)
(* set its declaration allows.                                              *)
THEOREM TypeCorrect == Spec => []TypeOK
<1>1. IInv => TypeOK
  BY DEF IInv
<1>2. QED  BY <1>1, Invariance, PTL

(* Mutual exclusion on the deque, and with it that front() of line 179 is   *)
(* never called on an empty deque, as long as no second unlock of           *)
(* push_void_task has released the lock of another thread.                  *)
THEOREM GuardedDeque == Spec => []Guarded
<1>1. IInv => MutualExclusion
  BY DEF IInv, LockOK
<1>2. IInv => TakeNonEmpty
  BY DEF IInv, TakeOK, TakeNonEmpty, WorkerMustExit
<1>3. IInv => Guarded
  BY <1>1, <1>2 DEF Guarded
<1>4. QED  BY <1>3, Invariance, PTL

(* wait_for_completion runs every task that was accepted before the call,   *)
(* for any number of workers above zero, clients and tasks.                 *)
THEOREM CompletionDrains == Spec => []WaitDrains
<1>1. IInv => WaitDrains
  BY DEF IInv, DueOK
<1>2. QED  BY <1>1, Invariance, PTL

(* Once stop() has returned no worker lives and no task runs.               *)
THEOREM StopQuiesces == Spec => []StoppedIsQuiet
<1>1. IInv => StoppedIsQuiet
  BY DEF IInv, PhaseOK, HandsOK, StoppedIsQuiet
<1>2. QED  BY <1>1, Invariance, PTL

-----------------------------------------------------------------------------
(* The queue implements FifoTasks.  To see that a task is in one place at a *)
(* time takes one more invariant; it holds even where a lock was stolen, as *)
(* every change of the deque is one step.                                   *)

QueueOK ==
    /\ \A i \in 1..Len(m_tasks) : future[m_tasks[i]] = "pending"
    /\ \A i, j \in 1..Len(m_tasks) : i # j => m_tasks[i] # m_tasks[j]
    /\ \A i \in 1..Len(m_tasks), w \in Workers : m_tasks[i] # hand[w]
    /\ \A w \in Workers : hand[w] # NoTask => future[hand[w]] = "pending"
    /\ \A v, w \in Workers : v # w /\ hand[v] # NoTask => hand[v] # hand[w]

\* The refinement mapping of the tasks that have begun and not finished.
Begun == {hand[w] : w \in Workers} \ {NoTask}

(* Steps that move no task keep QueueOK and are stuttering steps of         *)
(* FifoTasks.                                                               *)
LEMMA TasksStay ==
    ASSUME UNCHANGED queueVars
    PROVE  /\ QueueOK => QueueOK'
           /\ UNCHANGED Fifo!fifoVars
BY DEF queueVars, QueueOK, Fifo!fifoVars

(* push_void_task and push_future_task submit a task. *)
LEMMA PushSubmits ==
    ASSUME IInv, QueueOK, NEW p \in Pushers, PushEmplace(p)
    PROVE  QueueOK' /\ \E t \in Tasks : Fifo!Submit(t)
<1> USE TaskQueueAssumption DEF TaskQueueAssumption
<1>1. /\ hand[p] \in Tasks /\ future[hand[p]] = "none"
      /\ hand' = [hand EXCEPT ![p] = NoTask]
      /\ future' = [future EXCEPT ![hand[p]] = "pending"]
      /\ m_tasks' = Append(m_tasks, hand[p])
  BY DEF PushEmplace, IInv, HandsOK
<1>2. /\ m_tasks \in Seq(Tasks) /\ future \in [Tasks -> Results]
      /\ hand \in [Threads -> Tasks \cup {NoTask}]
  BY DEF IInv, TypeOK
<1>3. /\ Len(m_tasks') = Len(m_tasks) + 1
      /\ m_tasks'[Len(m_tasks) + 1] = hand[p]
      /\ \A i \in 1..Len(m_tasks) : m_tasks'[i] = m_tasks[i]
  BY <1>1, <1>2, AppendProperties
<1>4. \A w \in Workers : hand'[w] = hand[w] /\ hand[w] # hand[p]
  BY <1>1, <1>2 DEF QueueOK
<1>5. QueueOK'
  BY <1>1, <1>2, <1>3, <1>4 DEF QueueOK
<1>6. Begun' = Begun
  BY <1>4 DEF Begun
<1>7. PICK t \in Tasks : t = hand[p]
  BY <1>1
<1>8. Fifo!Submit(t)
  BY <1>1, <1>6, <1>7 DEF Fifo!Submit, Begun
<1>9. QED  BY <1>5, <1>8

(* A worker that takes the front of the deque begins it. *)
LEMMA TakeBegins ==
    ASSUME IInv, QueueOK, NEW w \in Workers, WorkerTake(w)
    PROVE  QueueOK' /\ Fifo!Begin
<1> USE TaskQueueAssumption DEF TaskQueueAssumption
<1>1. /\ m_tasks # <<>> /\ m_tasks' = Tail(m_tasks) /\ UNCHANGED future
      /\ hand' = [hand EXCEPT ![w] = Head(m_tasks)] /\ hand[w] = NoTask
  BY DEF WorkerTake, IInv, HandsOK
<1>2. /\ m_tasks \in Seq(Tasks) /\ future \in [Tasks -> Results]
      /\ hand \in [Threads -> Tasks \cup {NoTask}]
  BY DEF IInv, TypeOK
<1>3. /\ Head(m_tasks) = m_tasks[1] /\ Head(m_tasks) \in Tasks
      /\ Len(m_tasks) \in Nat /\ Len(m_tasks) >= 1
      /\ Len(m_tasks') = Len(m_tasks) - 1
      /\ \A i \in 1..Len(m_tasks) - 1 : m_tasks'[i] = m_tasks[i + 1]
  BY <1>1, <1>2, HeadTailProperties
<1>4. QueueOK'
  BY <1>1, <1>2, <1>3 DEF QueueOK
<1>5. Begun' = Begun \cup {Head(m_tasks)}
  BY <1>1, <1>2, <1>3 DEF Begun
<1>6. Fifo!Begin
  BY <1>1, <1>5 DEF Fifo!Begin, Begun
<1>7. QED  BY <1>4, <1>6

(* A task that returns or throws is finished. *)
LEMMA RunFinishes ==
    ASSUME IInv, QueueOK, NEW w \in Workers, NEW r \in {"value", "exception"},
           WorkerRun(w, r)
    PROVE  QueueOK' /\ \E t \in Tasks : Fifo!Finish(t)
<1> USE TaskQueueAssumption DEF TaskQueueAssumption
<1>1. /\ UNCHANGED m_tasks /\ hand[w] \in Tasks
      /\ future' = [future EXCEPT ![hand[w]] = r]
      /\ hand' = [hand EXCEPT ![w] = NoTask]
  BY DEF WorkerRun, IInv, HandsOK
<1>2. /\ m_tasks \in Seq(Tasks) /\ future \in [Tasks -> Results]
      /\ hand \in [Threads -> Tasks \cup {NoTask}]
  BY DEF IInv, TypeOK
<1>3. \A v \in Workers : v # w => hand[v] # hand[w]
  BY <1>1 DEF QueueOK
<1>4. QueueOK'
  BY <1>1, <1>2, <1>3 DEF QueueOK
<1>5. hand[w] \in Begun /\ Begun' = Begun \ {hand[w]}
  BY <1>1, <1>2, <1>3 DEF Begun
<1>6. PICK t \in Tasks : t = hand[w]
  BY <1>1
<1>7. Fifo!Finish(t)
  BY <1>1, <1>5, <1>6 DEF Fifo!Finish, Begun
<1>8. QED  BY <1>4, <1>7

(* The destructor discards what is queued. *)
LEMMA DestroyDiscards ==
    ASSUME IInv, QueueOK, Destroy
    PROVE  QueueOK' /\ Fifo!Discard
<1>1. \A w \in Workers : hand[w] = NoTask
  BY DEF Destroy, IInv, PhaseOK, HandsOK
<1>2. QueueOK'
  BY <1>1 DEF QueueOK, Destroy
<1>3. Fifo!Discard
  BY DEF Destroy, Fifo!Discard, Range, Fifo!Range
<1>4. QED  BY <1>2, <1>3

(* Every step of task_queue.hpp is a step of FifoTasks or leaves it         *)
(* unchanged, and a task stays in one place at a time.                      *)
LEMMA FifoStep ==
    IInv /\ QueueOK /\ [Next]_vars => QueueOK' /\ [Fifo!FifoNext]_Fifo!fifoVars
<1> SUFFICES ASSUME IInv, QueueOK, [Next]_vars
             PROVE  QueueOK' /\ [Fifo!FifoNext]_Fifo!fifoVars
  OBVIOUS
<1>1. CASE UNCHANGED queueVars
  BY <1>1, TasksStay
<1>2. ASSUME NEW p \in Pushers, NEW t \in Tasks, PushCheck(p, t)
      PROVE  QueueOK' /\ UNCHANGED Fifo!fifoVars
  <2>1. UNCHANGED <<m_tasks, future>> /\ \A w \in Workers : hand'[w] = hand[w]
    BY <1>2, TaskQueueAssumption
       DEF TaskQueueAssumption, PushCheck, IInv, TypeOK
  <2>2. QED  BY <2>1 DEF QueueOK, Fifo!fifoVars
<1>3. CASE Owner
  <2>1. CASE Destroy
    BY <2>1, DestroyDiscards DEF Fifo!FifoNext
  <2>2. QED
    BY <1>1, <1>3, <2>1 DEF Owner, SetNumWorkers, Start, StopRequest, StopNotify,
       StopJoin, Resume
<1>4. ASSUME NEW p \in Pushers, Pusher(p)
      PROVE  QueueOK' /\ [Fifo!FifoNext]_Fifo!fifoVars
  <2>1. CASE PushEmplace(p)
    BY <2>1, PushSubmits DEF Fifo!FifoNext
  <2>2. QED
    BY <1>1, <1>2, <1>4, <2>1 DEF Pusher, PushLock, PushNotify, PushUnlockAgain
<1>5. ASSUME NEW w \in Workers, WorkerStep(w) \/ WorkerSpurious(w)
      PROVE  QueueOK' /\ [Fifo!FifoNext]_Fifo!fifoVars
  <2>1. CASE WorkerTake(w)
    BY <2>1, TakeBegins DEF Fifo!FifoNext
  <2>2. ASSUME NEW r \in {"value", "exception"}, WorkerRun(w, r)
        PROVE  QueueOK' /\ [Fifo!FifoNext]_Fifo!fifoVars
    BY <2>2, RunFinishes DEF Fifo!FifoNext
  <2>3. QED
    BY <1>1, <1>5, <2>1, <2>2 DEF WorkerStep, WorkerLock, WorkerTest, WorkerBlock,
       WorkerExit, WorkerSpurious
<1>6. CASE UNCHANGED vars
  BY <1>1, <1>6 DEF vars, queueVars
<1>7. QED  BY <1>3, <1>4, <1>5, <1>6, Zenon DEF Next

(* task_queue.hpp implements FifoTasks: accepted tasks begin in the order   *)
(* of the deque, each once, every promise is settled once, and only the     *)
(* destructor breaks one.                                                   *)
THEOREM QueueIsFifo == Spec => FifoSpec
<1>1. Init => Fifo!FifoInit /\ QueueOK
  BY DEF Init, Fifo!FifoInit, QueueOK
<1>2. QED
  BY <1>1, Invariance, FifoStep, PTL DEF Spec, FifoSpec, Fifo!FifoSpec
=============================================================================
