------------------------- MODULE ThreadPoolProofs -------------------------
(***************************************************************************)
(* Proofs about ThreadPool, for any sets of workers, clients and jobs.     *)
(* The inductive invariant adds to the properties:                         *)
(*   LockOK    who holds jobs_mutex at each point of each thread;          *)
(*   HandsOK   which threads have a job in hand, never two the same one;   *)
(*   QueueOK   queued jobs are pending, each queued once, none of them     *)
(*             being run;                                                  *)
(*   PendingOK a pending job is queued or being run;                       *)
(*   EndOK     what is left of the pool in each phase of the destructor;   *)
(*   CountOK   threads_waiting is the number of workers in the wait.       *)
(***************************************************************************)
EXTENDS ThreadPool, FiniteSetTheorems, SequenceTheorems, TLAPS

Holding == {"test", "predicate", "block", "check"}
Entering == {"add_lock", "emplace"}

LockOK ==
    /\ \A w \in Workers : wpc[w] \in Holding <=> jobs_mutex = w
    /\ \A c \in Clients : cpc[c] \in {"emplace", "clear"} <=> jobs_mutex = c
    /\ dpc = "clear" <=> jobs_mutex = Destructor

HandsOK ==
    /\ \A c \in Clients : cpc[c] \in Entering =>
           hand[c] \in Jobs /\ future[hand[c]] = "none"
    /\ \A c \in Clients : cpc[c] \notin Entering => hand[c] = NoJob
    /\ \A c, d \in Clients : c # d /\ hand[c] # NoJob => hand[c] # hand[d]
    /\ \A w \in Workers : wpc[w] = "run" =>
           hand[w] \in Jobs /\ future[hand[w]] = "pending"
    /\ \A w \in Workers : wpc[w] # "run" => hand[w] = NoJob
    /\ \A v, w \in Workers : v # w /\ hand[v] # NoJob => hand[v] # hand[w]

QueueOK ==
    /\ \A i \in 1 .. Len(jobs) : future[jobs[i]] = "pending"
    /\ \A i, j \in 1 .. Len(jobs) : i # j => jobs[i] # jobs[j]
    /\ \A i \in 1 .. Len(jobs), w \in Workers : jobs[i] # hand[w]

PendingOK ==
    \A j \in Jobs : future[j] = "pending" =>
        \/ \E i \in 1 .. Len(jobs) : jobs[i] = j
        \/ \E w \in Workers : hand[w] = j

EndOK ==
    /\ is_terminate <=> dpc \in {"notify", "join", "dead"}
    /\ dpc # "alive" => \A c \in Clients : cpc[c] = "idle"
    /\ dpc \in {"terminate", "notify", "join", "dead"} => jobs = <<>>
    /\ dpc = "dead" => \A w \in Workers : wpc[w] = "ended"

Counted == {w \in Workers : wpc[w] \in CountedPcs}
CountOK == threads_waiting = Cardinality(Counted)

IInv ==
    /\ TypeOK /\ LockOK /\ HandsOK /\ QueueOK /\ PendingOK /\ EndOK
    /\ CountOK /\ CheckNonEmpty

USE DEF Threads, Destructor

(* A set of workers has between none and all of them. *)
LEMMA SomeWorkers ==
    ASSUME NEW S \in SUBSET Workers
    PROVE  /\ IsFiniteSet(S)
           /\ Cardinality(S) \in 0 .. Cardinality(Workers)
           /\ Cardinality(S) = Cardinality(Workers) => S = Workers
BY ThreadPoolAssumption, FS_Subset, FS_CardinalityType DEF ThreadPoolAssumption

(* A pool that the constructor has just made satisfies the invariant. *)
LEMMA IInvInit == Init => IInv
<1> SUFFICES ASSUME Init PROVE IInv
  OBVIOUS
<1>1. Counted = {}
  BY DEF Init, Counted, CountedPcs
<1>2. CountOK
  BY <1>1, FS_EmptySet DEF Init, CountOK
<1>3. /\ wpc \in [Workers -> WorkerPcs]
      /\ cpc \in [Clients -> ClientPcs]
      /\ hand \in [Threads -> Jobs \cup {NoJob}]
      /\ future \in [Jobs -> Results]
      /\ jobs \in Seq(Jobs)
  BY DEF Init, WorkerPcs, ClientPcs, Results
<1>4. is_terminate \in BOOLEAN /\ is_pause \in BOOLEAN /\ lost \in BOOLEAN
  BY DEF Init
<1>5. threads_waiting \in 0 .. Cardinality(Workers)
  BY <1>1, <1>2, SomeWorkers DEF CountOK
<1>6. TypeOK
  BY <1>3, <1>4, <1>5 DEF Init, TypeOK, DestructorPcs
<1>7. LockOK
  BY ThreadPoolAssumption DEF ThreadPoolAssumption, Init, LockOK, Holding
<1>8. HandsOK /\ QueueOK /\ PendingOK /\ EndOK /\ CheckNonEmpty
  BY DEF Init, HandsOK, Entering, QueueOK, PendingOK, EndOK, CheckNonEmpty
<1>9. QED  BY <1>2, <1>6, <1>7, <1>8 DEF IInv

(* Every step of a worker, a client or the destructor preserves it. *)
LEMMA IInvStep == IInv /\ [Next]_vars => IInv'
<1> SUFFICES ASSUME IInv, [Next]_vars PROVE IInv'
  OBVIOUS
<1> USE ThreadPoolAssumption
    DEF ThreadPoolAssumption, IInv, TypeOK, work, flags, WorkerPcs, ClientPcs,
        DestructorPcs, Results

<1>1. ASSUME NEW w \in Workers, WorkerTop(w) PROVE IInv'
  <2>1. LockOK'
    BY <1>1 DEF LockOK, Holding, WorkerTop, WorkerGoes
  <2>2. HandsOK'
    BY <1>1 DEF HandsOK, Entering, QueueOK, WorkerTop, WorkerGoes
  <2>3. QueueOK'
    BY <1>1 DEF QueueOK, HandsOK, Entering, WorkerTop, WorkerGoes
  <2>4. PendingOK'
    BY <1>1 DEF PendingOK, HandsOK, Entering, WorkerTop, WorkerGoes
  <2>5. EndOK'
    BY <1>1 DEF EndOK, WorkerTop, WorkerGoes
  <2>6. CountOK'
    <3>1. Counted' = Counted
      BY <1>1 DEF Counted, CountedPcs, WorkerTop, WorkerGoes
    <3>2. QED
      BY <1>1, <3>1 DEF CountOK, WorkerTop, WorkerGoes
  <2>7. CheckNonEmpty'
    BY <1>1 DEF CheckNonEmpty, LockOK, Holding, EndOK, WorkerTop, WorkerGoes
  <2>8. TypeOK'
    <3>1. threads_waiting' \in 0 .. Cardinality(Workers)
      BY <2>6, SomeWorkers DEF CountOK, Counted
    <3>2. QED
      BY <1>1, <3>1 DEF HandsOK, Entering, WorkerTop, WorkerGoes
  <2>9. QED  BY <2>1, <2>2, <2>3, <2>4, <2>5, <2>6, <2>7, <2>8 DEF IInv
<1>2. ASSUME NEW w \in Workers, WorkerLock(w) PROVE IInv'
  <2>1. LockOK'
    BY <1>2 DEF LockOK, Holding, WorkerLock, WorkerGoes, Lock
  <2>2. HandsOK'
    BY <1>2 DEF HandsOK, Entering, QueueOK, WorkerLock, WorkerGoes, Lock
  <2>3. QueueOK'
    BY <1>2 DEF QueueOK, HandsOK, Entering, WorkerLock, WorkerGoes, Lock
  <2>4. PendingOK'
    BY <1>2 DEF PendingOK, HandsOK, Entering, WorkerLock, WorkerGoes, Lock
  <2>5. EndOK'
    BY <1>2 DEF EndOK, WorkerLock, WorkerGoes, Lock
  <2>6. CountOK'
    <3>1. Counted' = Counted
      BY <1>2 DEF Counted, CountedPcs, WorkerLock, WorkerGoes, Lock
    <3>2. QED
      BY <1>2, <3>1 DEF CountOK, WorkerLock, WorkerGoes, Lock
  <2>7. CheckNonEmpty'
    BY <1>2 DEF CheckNonEmpty, LockOK, Holding, EndOK, WorkerLock, WorkerGoes, Lock
  <2>8. TypeOK'
    <3>1. threads_waiting' \in 0 .. Cardinality(Workers)
      BY <2>6, SomeWorkers DEF CountOK, Counted
    <3>2. QED
      BY <1>2, <3>1 DEF HandsOK, Entering, WorkerLock, WorkerGoes, Lock
  <2>9. QED  BY <2>1, <2>2, <2>3, <2>4, <2>5, <2>6, <2>7, <2>8 DEF IInv
<1>3. ASSUME NEW w \in Workers, WorkerTest(w) PROVE IInv'
  <2>1. LockOK'
    BY <1>3 DEF LockOK, Holding, WorkerTest, WorkerGoes, NothingToDo
  <2>2. HandsOK'
    BY <1>3 DEF HandsOK, Entering, QueueOK, WorkerTest, WorkerGoes, NothingToDo
  <2>3. QueueOK'
    BY <1>3 DEF QueueOK, HandsOK, Entering, WorkerTest, WorkerGoes, NothingToDo
  <2>4. PendingOK'
    BY <1>3 DEF PendingOK, HandsOK, Entering, WorkerTest, WorkerGoes, NothingToDo
  <2>5. EndOK'
    BY <1>3 DEF EndOK, WorkerTest, WorkerGoes, NothingToDo
  <2>6. CountOK'
    <3>1. CASE NothingToDo
      <4>1. w \notin Counted /\ Counted' = Counted \cup {w}
        BY <1>3, <3>1 DEF Counted, CountedPcs, WorkerTest, WorkerGoes
      <4>2. Cardinality(Counted \cup {w}) = Cardinality(Counted) + 1
        BY <4>1, SomeWorkers, FS_AddElement DEF Counted
      <4>3. QED  BY <1>3, <3>1, <4>1, <4>2 DEF CountOK, WorkerTest
    <3>2. CASE ~NothingToDo
      <4>1. Counted' = Counted
        BY <1>3, <3>2 DEF Counted, CountedPcs, WorkerTest, WorkerGoes
      <4>2. QED  BY <1>3, <3>2, <4>1 DEF CountOK, WorkerTest
    <3>3. QED  BY <3>1, <3>2
  <2>7. CheckNonEmpty'
    BY <1>3 DEF CheckNonEmpty, LockOK, Holding, EndOK, WorkerTest, WorkerGoes,
       NothingToDo
  <2>8. TypeOK'
    <3>1. threads_waiting' \in 0 .. Cardinality(Workers)
      BY <2>6, SomeWorkers DEF CountOK, Counted
    <3>2. QED
      BY <1>3, <3>1 DEF HandsOK, Entering, WorkerTest, WorkerGoes, NothingToDo
  <2>9. QED  BY <2>1, <2>2, <2>3, <2>4, <2>5, <2>6, <2>7, <2>8 DEF IInv
<1>4. ASSUME NEW w \in Workers, WorkerPredicate(w) PROVE IInv'
  <2>1. LockOK'
    BY <1>4 DEF LockOK, Holding, WorkerPredicate, WorkerGoes, Predicate, NothingToDo
  <2>2. HandsOK'
    BY <1>4 DEF HandsOK, Entering, QueueOK, WorkerPredicate, WorkerGoes, Predicate,
       NothingToDo
  <2>3. QueueOK'
    BY <1>4 DEF QueueOK, HandsOK, Entering, WorkerPredicate, WorkerGoes, Predicate,
       NothingToDo
  <2>4. PendingOK'
    BY <1>4 DEF PendingOK, HandsOK, Entering, WorkerPredicate, WorkerGoes, Predicate,
       NothingToDo
  <2>5. EndOK'
    BY <1>4 DEF EndOK, WorkerPredicate, WorkerGoes, Predicate, NothingToDo
  <2>6. CountOK'
    <3>1. CASE Predicate
      <4>1. w \in Counted /\ Counted' = Counted \ {w}
        BY <1>4, <3>1 DEF Counted, CountedPcs, WorkerPredicate, WorkerGoes
      <4>2. Cardinality(Counted \ {w}) = Cardinality(Counted) - 1
        BY <4>1, SomeWorkers, FS_RemoveElement DEF Counted
      <4>3. QED  BY <1>4, <3>1, <4>1, <4>2 DEF CountOK, WorkerPredicate
    <3>2. CASE ~Predicate
      <4>1. Counted' = Counted
        BY <1>4, <3>2 DEF Counted, CountedPcs, WorkerPredicate, WorkerGoes
      <4>2. QED  BY <1>4, <3>2, <4>1 DEF CountOK, WorkerPredicate
    <3>3. QED  BY <3>1, <3>2
  <2>7. CheckNonEmpty'
    BY <1>4 DEF CheckNonEmpty, LockOK, Holding, EndOK, WorkerPredicate, WorkerGoes,
       Predicate, NothingToDo
  <2>8. TypeOK'
    <3>1. threads_waiting' \in 0 .. Cardinality(Workers)
      BY <2>6, SomeWorkers DEF CountOK, Counted
    <3>2. QED
      BY <1>4, <3>1 DEF HandsOK, Entering, WorkerPredicate, WorkerGoes, Predicate,
         NothingToDo
  <2>9. QED  BY <2>1, <2>2, <2>3, <2>4, <2>5, <2>6, <2>7, <2>8 DEF IInv
<1>5. ASSUME NEW w \in Workers, WorkerBlock(w) PROVE IInv'
  <2>1. LockOK'
    BY <1>5 DEF LockOK, Holding, WorkerBlock, WorkerGoes, Unlock, Predicate,
       NothingToDo
  <2>2. HandsOK'
    BY <1>5 DEF HandsOK, Entering, QueueOK, WorkerBlock, WorkerGoes, Unlock,
       Predicate, NothingToDo
  <2>3. QueueOK'
    BY <1>5 DEF QueueOK, HandsOK, Entering, WorkerBlock, WorkerGoes, Unlock,
       Predicate, NothingToDo
  <2>4. PendingOK'
    BY <1>5 DEF PendingOK, HandsOK, Entering, WorkerBlock, WorkerGoes, Unlock,
       Predicate, NothingToDo
  <2>5. EndOK'
    BY <1>5 DEF EndOK, WorkerBlock, WorkerGoes, Unlock, Predicate, NothingToDo
  <2>6. CountOK'
    <3>1. Counted' = Counted
      BY <1>5 DEF Counted, CountedPcs, WorkerBlock, WorkerGoes, Unlock, Predicate,
         NothingToDo
    <3>2. QED
      BY <1>5, <3>1 DEF CountOK, WorkerBlock, WorkerGoes, Unlock, Predicate,
         NothingToDo
  <2>7. CheckNonEmpty'
    BY <1>5 DEF CheckNonEmpty, LockOK, Holding, EndOK, WorkerBlock, WorkerGoes,
       Unlock, Predicate, NothingToDo
  <2>8. TypeOK'
    <3>1. threads_waiting' \in 0 .. Cardinality(Workers)
      BY <2>6, SomeWorkers DEF CountOK, Counted
    <3>2. QED
      BY <1>5, <3>1 DEF HandsOK, Entering, WorkerBlock, WorkerGoes, Unlock, Predicate,
         NothingToDo
  <2>9. QED  BY <2>1, <2>2, <2>3, <2>4, <2>5, <2>6, <2>7, <2>8 DEF IInv
<1>6. ASSUME NEW w \in Workers, WorkerRelock(w) PROVE IInv'
  <2>1. LockOK'
    BY <1>6 DEF LockOK, Holding, WorkerRelock, WorkerGoes, Lock
  <2>2. HandsOK'
    BY <1>6 DEF HandsOK, Entering, QueueOK, WorkerRelock, WorkerGoes, Lock
  <2>3. QueueOK'
    BY <1>6 DEF QueueOK, HandsOK, Entering, WorkerRelock, WorkerGoes, Lock
  <2>4. PendingOK'
    BY <1>6 DEF PendingOK, HandsOK, Entering, WorkerRelock, WorkerGoes, Lock
  <2>5. EndOK'
    BY <1>6 DEF EndOK, WorkerRelock, WorkerGoes, Lock
  <2>6. CountOK'
    <3>1. Counted' = Counted
      BY <1>6 DEF Counted, CountedPcs, WorkerRelock, WorkerGoes, Lock
    <3>2. QED
      BY <1>6, <3>1 DEF CountOK, WorkerRelock, WorkerGoes, Lock
  <2>7. CheckNonEmpty'
    BY <1>6 DEF CheckNonEmpty, LockOK, Holding, EndOK, WorkerRelock, WorkerGoes, Lock
  <2>8. TypeOK'
    <3>1. threads_waiting' \in 0 .. Cardinality(Workers)
      BY <2>6, SomeWorkers DEF CountOK, Counted
    <3>2. QED
      BY <1>6, <3>1 DEF HandsOK, Entering, WorkerRelock, WorkerGoes, Lock
  <2>9. QED  BY <2>1, <2>2, <2>3, <2>4, <2>5, <2>6, <2>7, <2>8 DEF IInv
<1>7. ASSUME NEW w \in Workers, WorkerSpurious(w) PROVE IInv'
  <2>1. LockOK'
    BY <1>7 DEF LockOK, Holding, WorkerSpurious, WorkerGoes
  <2>2. HandsOK'
    BY <1>7 DEF HandsOK, Entering, QueueOK, WorkerSpurious, WorkerGoes
  <2>3. QueueOK'
    BY <1>7 DEF QueueOK, HandsOK, Entering, WorkerSpurious, WorkerGoes
  <2>4. PendingOK'
    BY <1>7 DEF PendingOK, HandsOK, Entering, WorkerSpurious, WorkerGoes
  <2>5. EndOK'
    BY <1>7 DEF EndOK, WorkerSpurious, WorkerGoes
  <2>6. CountOK'
    <3>1. Counted' = Counted
      BY <1>7 DEF Counted, CountedPcs, WorkerSpurious, WorkerGoes
    <3>2. QED
      BY <1>7, <3>1 DEF CountOK, WorkerSpurious, WorkerGoes
  <2>7. CheckNonEmpty'
    BY <1>7 DEF CheckNonEmpty, LockOK, Holding, EndOK, WorkerSpurious, WorkerGoes
  <2>8. TypeOK'
    <3>1. threads_waiting' \in 0 .. Cardinality(Workers)
      BY <2>6, SomeWorkers DEF CountOK, Counted
    <3>2. QED
      BY <1>7, <3>1 DEF HandsOK, Entering, WorkerSpurious, WorkerGoes
  <2>9. QED  BY <2>1, <2>2, <2>3, <2>4, <2>5, <2>6, <2>7, <2>8 DEF IInv
<1>8. ASSUME NEW w \in Workers, WorkerEnd(w) PROVE IInv'
  <2>1. LockOK'
    BY <1>8 DEF LockOK, Holding, WorkerEnd, WorkerGoes, Unlock
  <2>2. HandsOK'
    BY <1>8 DEF HandsOK, Entering, QueueOK, WorkerEnd, WorkerGoes, Unlock
  <2>3. QueueOK'
    BY <1>8 DEF QueueOK, HandsOK, Entering, WorkerEnd, WorkerGoes, Unlock
  <2>4. PendingOK'
    BY <1>8 DEF PendingOK, HandsOK, Entering, WorkerEnd, WorkerGoes, Unlock
  <2>5. EndOK'
    BY <1>8 DEF EndOK, WorkerEnd, WorkerGoes, Unlock
  <2>6. CountOK'
    <3>1. Counted' = Counted
      BY <1>8 DEF Counted, CountedPcs, WorkerEnd, WorkerGoes, Unlock
    <3>2. QED
      BY <1>8, <3>1 DEF CountOK, WorkerEnd, WorkerGoes, Unlock
  <2>7. CheckNonEmpty'
    BY <1>8 DEF CheckNonEmpty, LockOK, Holding, EndOK, WorkerEnd, WorkerGoes, Unlock
  <2>8. TypeOK'
    <3>1. threads_waiting' \in 0 .. Cardinality(Workers)
      BY <2>6, SomeWorkers DEF CountOK, Counted
    <3>2. QED
      BY <1>8, <3>1 DEF HandsOK, Entering, WorkerEnd, WorkerGoes, Unlock
  <2>9. QED  BY <2>1, <2>2, <2>3, <2>4, <2>5, <2>6, <2>7, <2>8 DEF IInv
<1>9. ASSUME NEW w \in Workers, WorkerTake(w) PROVE IInv'
  <2>a. /\ jobs # <<>> /\ jobs' = Tail(jobs)
        /\ hand' = [hand EXCEPT ![w] = Head(jobs)]
        /\ hand[w] = NoJob
        /\ UNCHANGED future
    BY <1>9 DEF WorkerTake, WorkerGoes, HandsOK
  <2>b. /\ Head(jobs) = jobs[1] /\ Len(Tail(jobs)) = Len(jobs) - 1
        /\ \A i \in 1 .. Len(jobs) - 1 : Tail(jobs)[i] = jobs[i + 1]
    BY <2>a, HeadTailProperties
  <2>1. LockOK'
    BY <1>9 DEF LockOK, Holding, WorkerTake, WorkerGoes, Unlock
  <2>2. HandsOK'
    BY <1>9 DEF HandsOK, Entering, QueueOK, WorkerTake, WorkerGoes, Unlock
  <2>3. QueueOK'
    BY <1>9 DEF QueueOK, HandsOK, Entering, WorkerTake, WorkerGoes, Unlock
  <2>4. PendingOK'
    <3>1. ASSUME NEW j \in Jobs, NEW i \in 1 .. Len(jobs), jobs[i] = j
          PROVE \/ \E k \in 1 .. Len(jobs') : jobs'[k] = j
                \/ \E v \in Workers : hand'[v] = j
      <4>1. CASE i = 1
        BY <2>a, <2>b, <3>1, <4>1
      <4>2. CASE i # 1
        <5>1. i - 1 \in 1 .. Len(jobs') /\ jobs'[i - 1] = j
          BY <2>a, <2>b, <3>1, <4>2
        <5>2. QED  BY <5>1
      <4>3. QED  BY <4>1, <4>2
    <3>2. ASSUME NEW j \in Jobs, NEW v \in Workers, hand[v] = j
          PROVE hand'[v] = j
      BY <2>a, <3>2
    <3>3. QED  BY <2>a, <3>1, <3>2 DEF PendingOK
  <2>5. EndOK'
    BY <1>9 DEF EndOK, WorkerTake, WorkerGoes, Unlock
  <2>6. CountOK'
    <3>1. Counted' = Counted
      BY <1>9 DEF Counted, CountedPcs, WorkerTake, WorkerGoes, Unlock
    <3>2. QED
      BY <1>9, <3>1 DEF CountOK, WorkerTake, WorkerGoes, Unlock
  <2>7. CheckNonEmpty'
    BY <1>9 DEF CheckNonEmpty, LockOK, Holding, EndOK, WorkerTake, WorkerGoes, Unlock
  <2>8. TypeOK'
    <3>1. threads_waiting' \in 0 .. Cardinality(Workers)
      BY <2>6, SomeWorkers DEF CountOK, Counted
    <3>2. QED
      BY <1>9, <3>1 DEF HandsOK, Entering, WorkerTake, WorkerGoes, Unlock
  <2>9. QED  BY <2>1, <2>2, <2>3, <2>4, <2>5, <2>6, <2>7, <2>8 DEF IInv
<1>10. ASSUME NEW w \in Workers, NEW r \in {"value", "exception"}, WorkerRun(w, r) PROVE IInv'
  <2>1. LockOK'
    BY <1>10 DEF LockOK, Holding, WorkerRun, WorkerGoes
  <2>2. HandsOK'
    BY <1>10 DEF HandsOK, Entering, QueueOK, WorkerRun, WorkerGoes
  <2>3. QueueOK'
    BY <1>10 DEF QueueOK, HandsOK, Entering, WorkerRun, WorkerGoes
  <2>4. PendingOK'
    BY <1>10 DEF PendingOK, HandsOK, Entering, WorkerRun, WorkerGoes
  <2>5. EndOK'
    BY <1>10 DEF EndOK, WorkerRun, WorkerGoes
  <2>6. CountOK'
    <3>1. Counted' = Counted
      BY <1>10 DEF Counted, CountedPcs, WorkerRun, WorkerGoes
    <3>2. QED
      BY <1>10, <3>1 DEF CountOK, WorkerRun, WorkerGoes
  <2>7. CheckNonEmpty'
    BY <1>10 DEF CheckNonEmpty, LockOK, Holding, EndOK, WorkerRun, WorkerGoes
  <2>8. TypeOK'
    <3>1. threads_waiting' \in 0 .. Cardinality(Workers)
      BY <2>6, SomeWorkers DEF CountOK, Counted
    <3>2. QED
      BY <1>10, <3>1 DEF HandsOK, Entering, WorkerRun, WorkerGoes
  <2>9. QED  BY <2>1, <2>2, <2>3, <2>4, <2>5, <2>6, <2>7, <2>8 DEF IInv
<1>11. ASSUME NEW c \in Clients, NEW j \in Jobs, AddBegin(c, j) PROVE IInv'
  <2>1. LockOK'
    BY <1>11 DEF LockOK, Holding, AddBegin, ClientGoes
  <2>2. HandsOK'
    BY <1>11 DEF HandsOK, Entering, QueueOK, AddBegin, ClientGoes
  <2>3. QueueOK'
    BY <1>11 DEF QueueOK, HandsOK, Entering, AddBegin, ClientGoes
  <2>4. PendingOK'
    BY <1>11 DEF PendingOK, HandsOK, Entering, AddBegin, ClientGoes
  <2>5. EndOK'
    BY <1>11 DEF EndOK, AddBegin, ClientGoes
  <2>6. CountOK'
    <3>1. Counted' = Counted
      BY <1>11 DEF Counted, CountedPcs, AddBegin, ClientGoes
    <3>2. QED
      BY <1>11, <3>1 DEF CountOK, AddBegin, ClientGoes
  <2>7. CheckNonEmpty'
    BY <1>11 DEF CheckNonEmpty, LockOK, Holding, EndOK, AddBegin, ClientGoes
  <2>8. TypeOK'
    <3>1. threads_waiting' \in 0 .. Cardinality(Workers)
      BY <2>6, SomeWorkers DEF CountOK, Counted
    <3>2. QED
      BY <1>11, <3>1 DEF HandsOK, Entering, AddBegin, ClientGoes
  <2>9. QED  BY <2>1, <2>2, <2>3, <2>4, <2>5, <2>6, <2>7, <2>8 DEF IInv
<1>12. ASSUME NEW c \in Clients, AddLock(c) PROVE IInv'
  <2>1. LockOK'
    BY <1>12 DEF LockOK, Holding, AddLock, ClientGoes, Lock
  <2>2. HandsOK'
    BY <1>12 DEF HandsOK, Entering, QueueOK, AddLock, ClientGoes, Lock
  <2>3. QueueOK'
    BY <1>12 DEF QueueOK, HandsOK, Entering, AddLock, ClientGoes, Lock
  <2>4. PendingOK'
    BY <1>12 DEF PendingOK, HandsOK, Entering, AddLock, ClientGoes, Lock
  <2>5. EndOK'
    BY <1>12 DEF EndOK, AddLock, ClientGoes, Lock
  <2>6. CountOK'
    <3>1. Counted' = Counted
      BY <1>12 DEF Counted, CountedPcs, AddLock, ClientGoes, Lock
    <3>2. QED
      BY <1>12, <3>1 DEF CountOK, AddLock, ClientGoes, Lock
  <2>7. CheckNonEmpty'
    BY <1>12 DEF CheckNonEmpty, LockOK, Holding, EndOK, AddLock, ClientGoes, Lock
  <2>8. TypeOK'
    <3>1. threads_waiting' \in 0 .. Cardinality(Workers)
      BY <2>6, SomeWorkers DEF CountOK, Counted
    <3>2. QED
      BY <1>12, <3>1 DEF HandsOK, Entering, AddLock, ClientGoes, Lock
  <2>9. QED  BY <2>1, <2>2, <2>3, <2>4, <2>5, <2>6, <2>7, <2>8 DEF IInv
<1>13. ASSUME NEW c \in Clients, AddEmplace(c) PROVE IInv'
  <2>1. LockOK'
    BY <1>13 DEF LockOK, Holding, AddEmplace, ClientGoes, Unlock
  <2>2. HandsOK'
    BY <1>13 DEF HandsOK, Entering, QueueOK, AddEmplace, ClientGoes, Unlock
  <2>3. QueueOK'
    BY <1>13 DEF QueueOK, HandsOK, Entering, AddEmplace, ClientGoes, Unlock
  <2>4. PendingOK'
    BY <1>13 DEF PendingOK, HandsOK, Entering, AddEmplace, ClientGoes, Unlock
  <2>5. EndOK'
    BY <1>13 DEF EndOK, AddEmplace, ClientGoes, Unlock
  <2>6. CountOK'
    <3>1. Counted' = Counted
      BY <1>13 DEF Counted, CountedPcs, AddEmplace, ClientGoes, Unlock
    <3>2. QED
      BY <1>13, <3>1 DEF CountOK, AddEmplace, ClientGoes, Unlock
  <2>7. CheckNonEmpty'
    BY <1>13 DEF CheckNonEmpty, LockOK, Holding, EndOK, AddEmplace, ClientGoes, Unlock
  <2>8. TypeOK'
    <3>1. threads_waiting' \in 0 .. Cardinality(Workers)
      BY <2>6, SomeWorkers DEF CountOK, Counted
    <3>2. QED
      BY <1>13, <3>1 DEF HandsOK, Entering, AddEmplace, ClientGoes, Unlock
  <2>9. QED  BY <2>1, <2>2, <2>3, <2>4, <2>5, <2>6, <2>7, <2>8 DEF IInv
<1>14. ASSUME NEW c \in Clients, AddNotify(c) PROVE IInv'
  <2>1. LockOK'
    BY <1>14 DEF LockOK, Holding, AddNotify, ClientGoes, NotifyAll
  <2>2. HandsOK'
    BY <1>14 DEF HandsOK, Entering, QueueOK, AddNotify, ClientGoes, NotifyAll
  <2>3. QueueOK'
    BY <1>14 DEF QueueOK, HandsOK, Entering, AddNotify, ClientGoes, NotifyAll
  <2>4. PendingOK'
    BY <1>14 DEF PendingOK, HandsOK, Entering, AddNotify, ClientGoes, NotifyAll
  <2>5. EndOK'
    BY <1>14 DEF EndOK, AddNotify, ClientGoes, NotifyAll
  <2>6. CountOK'
    <3>1. Counted' = Counted
      BY <1>14 DEF Counted, CountedPcs, AddNotify, ClientGoes, NotifyAll
    <3>2. QED
      BY <1>14, <3>1 DEF CountOK, AddNotify, ClientGoes, NotifyAll
  <2>7. CheckNonEmpty'
    BY <1>14 DEF CheckNonEmpty, LockOK, Holding, EndOK, AddNotify, ClientGoes,
       NotifyAll
  <2>8. TypeOK'
    <3>1. threads_waiting' \in 0 .. Cardinality(Workers)
      BY <2>6, SomeWorkers DEF CountOK, Counted
    <3>2. QED
      BY <1>14, <3>1 DEF HandsOK, Entering, AddNotify, ClientGoes, NotifyAll
  <2>9. QED  BY <2>1, <2>2, <2>3, <2>4, <2>5, <2>6, <2>7, <2>8 DEF IInv
<1>15. ASSUME NEW c \in Clients, ClearLock(c) PROVE IInv'
  <2>1. LockOK'
    BY <1>15 DEF LockOK, Holding, ClearLock, ClientGoes, Lock
  <2>2. HandsOK'
    BY <1>15 DEF HandsOK, Entering, QueueOK, ClearLock, ClientGoes, Lock
  <2>3. QueueOK'
    BY <1>15 DEF QueueOK, HandsOK, Entering, ClearLock, ClientGoes, Lock
  <2>4. PendingOK'
    BY <1>15 DEF PendingOK, HandsOK, Entering, ClearLock, ClientGoes, Lock
  <2>5. EndOK'
    BY <1>15 DEF EndOK, ClearLock, ClientGoes, Lock
  <2>6. CountOK'
    <3>1. Counted' = Counted
      BY <1>15 DEF Counted, CountedPcs, ClearLock, ClientGoes, Lock
    <3>2. QED
      BY <1>15, <3>1 DEF CountOK, ClearLock, ClientGoes, Lock
  <2>7. CheckNonEmpty'
    BY <1>15 DEF CheckNonEmpty, LockOK, Holding, EndOK, ClearLock, ClientGoes, Lock
  <2>8. TypeOK'
    <3>1. threads_waiting' \in 0 .. Cardinality(Workers)
      BY <2>6, SomeWorkers DEF CountOK, Counted
    <3>2. QED
      BY <1>15, <3>1 DEF HandsOK, Entering, ClearLock, ClientGoes, Lock
  <2>9. QED  BY <2>1, <2>2, <2>3, <2>4, <2>5, <2>6, <2>7, <2>8 DEF IInv
<1>16. ASSUME NEW c \in Clients, Clear(c) PROVE IInv'
  <2>a. \A w \in Workers : hand[w] \in Jobs => future'[hand[w]] = future[hand[w]]
    BY <1>16 DEF QueueOK, Clear, DropJobs, Range
  <2>b. \A j \in Jobs : future[j] = "none" => future'[j] = "none"
    BY <1>16 DEF QueueOK, Clear, DropJobs, Range
  <2>1. LockOK'
    BY <1>16 DEF LockOK, Holding, Clear, ClientGoes, Unlock, DropJobs, Range
  <2>2. HandsOK'
    BY <1>16, <2>a, <2>b DEF HandsOK, Entering, Clear, ClientGoes, DropJobs
  <2>3. QueueOK'
    BY <1>16 DEF QueueOK, HandsOK, Entering, Clear, ClientGoes, Unlock, DropJobs,
       Range
  <2>4. PendingOK'
    BY <1>16 DEF PendingOK, HandsOK, Entering, Clear, ClientGoes, Unlock, DropJobs,
       Range
  <2>5. EndOK'
    BY <1>16 DEF EndOK, Clear, ClientGoes, Unlock, DropJobs, Range
  <2>6. CountOK'
    <3>1. Counted' = Counted
      BY <1>16 DEF Counted, CountedPcs, Clear, ClientGoes, Unlock, DropJobs, Range
    <3>2. QED
      BY <1>16, <3>1 DEF CountOK, Clear, ClientGoes, Unlock, DropJobs, Range
  <2>7. CheckNonEmpty'
    BY <1>16 DEF CheckNonEmpty, LockOK, Holding, EndOK, Clear, ClientGoes, Unlock,
       DropJobs, Range
  <2>8. TypeOK'
    <3>1. threads_waiting' \in 0 .. Cardinality(Workers)
      BY <2>6, SomeWorkers DEF CountOK, Counted
    <3>2. QED
      BY <1>16, <3>1 DEF HandsOK, Entering, Clear, ClientGoes, Unlock, DropJobs, Range
  <2>9. QED  BY <2>1, <2>2, <2>3, <2>4, <2>5, <2>6, <2>7, <2>8 DEF IInv
<1>17. ASSUME NEW c \in Clients, NEW state \in BOOLEAN, Pause(c, state) PROVE IInv'
  <2>1. LockOK'
    BY <1>17 DEF LockOK, Holding, Pause, ClientGoes
  <2>2. HandsOK'
    BY <1>17 DEF HandsOK, Entering, QueueOK, Pause, ClientGoes
  <2>3. QueueOK'
    BY <1>17 DEF QueueOK, HandsOK, Entering, Pause, ClientGoes
  <2>4. PendingOK'
    BY <1>17 DEF PendingOK, HandsOK, Entering, Pause, ClientGoes
  <2>5. EndOK'
    BY <1>17 DEF EndOK, Pause, ClientGoes
  <2>6. CountOK'
    <3>1. Counted' = Counted
      BY <1>17 DEF Counted, CountedPcs, Pause, ClientGoes
    <3>2. QED
      BY <1>17, <3>1 DEF CountOK, Pause, ClientGoes
  <2>7. CheckNonEmpty'
    BY <1>17 DEF CheckNonEmpty, LockOK, Holding, EndOK, Pause, ClientGoes
  <2>8. TypeOK'
    <3>1. threads_waiting' \in 0 .. Cardinality(Workers)
      BY <2>6, SomeWorkers DEF CountOK, Counted
    <3>2. QED
      BY <1>17, <3>1 DEF HandsOK, Entering, Pause, ClientGoes
  <2>9. QED  BY <2>1, <2>2, <2>3, <2>4, <2>5, <2>6, <2>7, <2>8 DEF IInv
<1>18. ASSUME NEW c \in Clients, PauseNotify(c) PROVE IInv'
  <2>1. LockOK'
    BY <1>18 DEF LockOK, Holding, PauseNotify, ClientGoes, NotifyAll
  <2>2. HandsOK'
    BY <1>18 DEF HandsOK, Entering, QueueOK, PauseNotify, ClientGoes, NotifyAll
  <2>3. QueueOK'
    BY <1>18 DEF QueueOK, HandsOK, Entering, PauseNotify, ClientGoes, NotifyAll
  <2>4. PendingOK'
    BY <1>18 DEF PendingOK, HandsOK, Entering, PauseNotify, ClientGoes, NotifyAll
  <2>5. EndOK'
    BY <1>18 DEF EndOK, PauseNotify, ClientGoes, NotifyAll
  <2>6. CountOK'
    <3>1. Counted' = Counted
      BY <1>18 DEF Counted, CountedPcs, PauseNotify, ClientGoes, NotifyAll
    <3>2. QED
      BY <1>18, <3>1 DEF CountOK, PauseNotify, ClientGoes, NotifyAll
  <2>7. CheckNonEmpty'
    BY <1>18 DEF CheckNonEmpty, LockOK, Holding, EndOK, PauseNotify, ClientGoes,
       NotifyAll
  <2>8. TypeOK'
    <3>1. threads_waiting' \in 0 .. Cardinality(Workers)
      BY <2>6, SomeWorkers DEF CountOK, Counted
    <3>2. QED
      BY <1>18, <3>1 DEF HandsOK, Entering, PauseNotify, ClientGoes, NotifyAll
  <2>9. QED  BY <2>1, <2>2, <2>3, <2>4, <2>5, <2>6, <2>7, <2>8 DEF IInv
<1>19. ASSUME NEW c \in Clients, WaitBegin(c) PROVE IInv'
  <2>1. LockOK'
    BY <1>19 DEF LockOK, Holding, WaitBegin, ClientGoes
  <2>2. HandsOK'
    BY <1>19 DEF HandsOK, Entering, QueueOK, WaitBegin, ClientGoes
  <2>3. QueueOK'
    BY <1>19 DEF QueueOK, HandsOK, Entering, WaitBegin, ClientGoes
  <2>4. PendingOK'
    BY <1>19 DEF PendingOK, HandsOK, Entering, WaitBegin, ClientGoes
  <2>5. EndOK'
    BY <1>19 DEF EndOK, WaitBegin, ClientGoes
  <2>6. CountOK'
    <3>1. Counted' = Counted
      BY <1>19 DEF Counted, CountedPcs, WaitBegin, ClientGoes
    <3>2. QED
      BY <1>19, <3>1 DEF CountOK, WaitBegin, ClientGoes
  <2>7. CheckNonEmpty'
    BY <1>19 DEF CheckNonEmpty, LockOK, Holding, EndOK, WaitBegin, ClientGoes
  <2>8. TypeOK'
    <3>1. threads_waiting' \in 0 .. Cardinality(Workers)
      BY <2>6, SomeWorkers DEF CountOK, Counted
    <3>2. QED
      BY <1>19, <3>1 DEF HandsOK, Entering, WaitBegin, ClientGoes
  <2>9. QED  BY <2>1, <2>2, <2>3, <2>4, <2>5, <2>6, <2>7, <2>8 DEF IInv
<1>20. ASSUME NEW c \in Clients, WaitEnd(c) PROVE IInv'
  <2>1. LockOK'
    BY <1>20 DEF LockOK, Holding, WaitEnd, ClientGoes
  <2>2. HandsOK'
    BY <1>20 DEF HandsOK, Entering, QueueOK, WaitEnd, ClientGoes
  <2>3. QueueOK'
    BY <1>20 DEF QueueOK, HandsOK, Entering, WaitEnd, ClientGoes
  <2>4. PendingOK'
    BY <1>20 DEF PendingOK, HandsOK, Entering, WaitEnd, ClientGoes
  <2>5. EndOK'
    BY <1>20 DEF EndOK, WaitEnd, ClientGoes
  <2>6. CountOK'
    <3>1. Counted' = Counted
      BY <1>20 DEF Counted, CountedPcs, WaitEnd, ClientGoes
    <3>2. QED
      BY <1>20, <3>1 DEF CountOK, WaitEnd, ClientGoes
  <2>7. CheckNonEmpty'
    BY <1>20 DEF CheckNonEmpty, LockOK, Holding, EndOK, WaitEnd, ClientGoes
  <2>8. TypeOK'
    <3>1. threads_waiting' \in 0 .. Cardinality(Workers)
      BY <2>6, SomeWorkers DEF CountOK, Counted
    <3>2. QED
      BY <1>20, <3>1 DEF HandsOK, Entering, WaitEnd, ClientGoes
  <2>9. QED  BY <2>1, <2>2, <2>3, <2>4, <2>5, <2>6, <2>7, <2>8 DEF IInv
<1>21. CASE DestroyLock
  <2>1. LockOK'
    BY <1>21 DEF LockOK, Holding, DestroyLock, DestructorGoes, Lock
  <2>2. HandsOK'
    BY <1>21 DEF HandsOK, Entering, QueueOK, DestroyLock, DestructorGoes, Lock
  <2>3. QueueOK'
    BY <1>21 DEF QueueOK, HandsOK, Entering, DestroyLock, DestructorGoes, Lock
  <2>4. PendingOK'
    BY <1>21 DEF PendingOK, HandsOK, Entering, DestroyLock, DestructorGoes, Lock
  <2>5. EndOK'
    BY <1>21 DEF EndOK, DestroyLock, DestructorGoes, Lock
  <2>6. CountOK'
    <3>1. Counted' = Counted
      BY <1>21 DEF Counted, CountedPcs, DestroyLock, DestructorGoes, Lock
    <3>2. QED
      BY <1>21, <3>1 DEF CountOK, DestroyLock, DestructorGoes, Lock
  <2>7. CheckNonEmpty'
    BY <1>21 DEF CheckNonEmpty, LockOK, Holding, EndOK, DestroyLock, DestructorGoes,
       Lock
  <2>8. TypeOK'
    <3>1. threads_waiting' \in 0 .. Cardinality(Workers)
      BY <2>6, SomeWorkers DEF CountOK, Counted
    <3>2. QED
      BY <1>21, <3>1 DEF HandsOK, Entering, DestroyLock, DestructorGoes, Lock
  <2>9. QED  BY <2>1, <2>2, <2>3, <2>4, <2>5, <2>6, <2>7, <2>8 DEF IInv
<1>22. CASE DestroyClear
  <2>a. \A w \in Workers : hand[w] \in Jobs => future'[hand[w]] = future[hand[w]]
    BY <1>22 DEF QueueOK, DestroyClear, DropJobs, Range
  <2>b. \A j \in Jobs : future[j] = "none" => future'[j] = "none"
    BY <1>22 DEF QueueOK, DestroyClear, DropJobs, Range
  <2>1. LockOK'
    BY <1>22 DEF LockOK, Holding, DestroyClear, DestructorGoes, Unlock, DropJobs,
       Range
  <2>2. HandsOK'
    BY <1>22, <2>a, <2>b DEF HandsOK, Entering, DestroyClear, DropJobs
  <2>3. QueueOK'
    BY <1>22 DEF QueueOK, HandsOK, Entering, DestroyClear, DestructorGoes, Unlock,
       DropJobs, Range
  <2>4. PendingOK'
    BY <1>22 DEF PendingOK, HandsOK, Entering, DestroyClear, DestructorGoes, Unlock,
       DropJobs, Range
  <2>5. EndOK'
    BY <1>22 DEF EndOK, DestroyClear, DestructorGoes, Unlock, DropJobs, Range
  <2>6. CountOK'
    <3>1. Counted' = Counted
      BY <1>22 DEF Counted, CountedPcs, DestroyClear, DestructorGoes, Unlock,
         DropJobs, Range
    <3>2. QED
      BY <1>22, <3>1 DEF CountOK, DestroyClear, DestructorGoes, Unlock, DropJobs,
         Range
  <2>7. CheckNonEmpty'
    BY <1>22 DEF CheckNonEmpty, LockOK, Holding, EndOK, DestroyClear, DestructorGoes,
       Unlock, DropJobs, Range
  <2>8. TypeOK'
    <3>1. threads_waiting' \in 0 .. Cardinality(Workers)
      BY <2>6, SomeWorkers DEF CountOK, Counted
    <3>2. QED
      BY <1>22, <3>1 DEF HandsOK, Entering, DestroyClear, DestructorGoes, Unlock,
         DropJobs, Range
  <2>9. QED  BY <2>1, <2>2, <2>3, <2>4, <2>5, <2>6, <2>7, <2>8 DEF IInv
<1>23. CASE DestroyTerminate
  <2>1. LockOK'
    BY <1>23 DEF LockOK, Holding, DestroyTerminate, DestructorGoes
  <2>2. HandsOK'
    BY <1>23 DEF HandsOK, Entering, QueueOK, DestroyTerminate, DestructorGoes
  <2>3. QueueOK'
    BY <1>23 DEF QueueOK, HandsOK, Entering, DestroyTerminate, DestructorGoes
  <2>4. PendingOK'
    BY <1>23 DEF PendingOK, HandsOK, Entering, DestroyTerminate, DestructorGoes
  <2>5. EndOK'
    BY <1>23 DEF EndOK, DestroyTerminate, DestructorGoes
  <2>6. CountOK'
    <3>1. Counted' = Counted
      BY <1>23 DEF Counted, CountedPcs, DestroyTerminate, DestructorGoes
    <3>2. QED
      BY <1>23, <3>1 DEF CountOK, DestroyTerminate, DestructorGoes
  <2>7. CheckNonEmpty'
    BY <1>23 DEF CheckNonEmpty, LockOK, Holding, EndOK, DestroyTerminate,
       DestructorGoes
  <2>8. TypeOK'
    <3>1. threads_waiting' \in 0 .. Cardinality(Workers)
      BY <2>6, SomeWorkers DEF CountOK, Counted
    <3>2. QED
      BY <1>23, <3>1 DEF HandsOK, Entering, DestroyTerminate, DestructorGoes
  <2>9. QED  BY <2>1, <2>2, <2>3, <2>4, <2>5, <2>6, <2>7, <2>8 DEF IInv
<1>24. CASE DestroyNotify
  <2>1. LockOK'
    BY <1>24 DEF LockOK, Holding, DestroyNotify, DestructorGoes, NotifyAll
  <2>2. HandsOK'
    BY <1>24 DEF HandsOK, Entering, QueueOK, DestroyNotify, DestructorGoes, NotifyAll
  <2>3. QueueOK'
    BY <1>24 DEF QueueOK, HandsOK, Entering, DestroyNotify, DestructorGoes, NotifyAll
  <2>4. PendingOK'
    BY <1>24 DEF PendingOK, HandsOK, Entering, DestroyNotify, DestructorGoes,
       NotifyAll
  <2>5. EndOK'
    BY <1>24 DEF EndOK, DestroyNotify, DestructorGoes, NotifyAll
  <2>6. CountOK'
    <3>1. Counted' = Counted
      BY <1>24 DEF Counted, CountedPcs, DestroyNotify, DestructorGoes, NotifyAll
    <3>2. QED
      BY <1>24, <3>1 DEF CountOK, DestroyNotify, DestructorGoes, NotifyAll
  <2>7. CheckNonEmpty'
    BY <1>24 DEF CheckNonEmpty, LockOK, Holding, EndOK, DestroyNotify, DestructorGoes,
       NotifyAll
  <2>8. TypeOK'
    <3>1. threads_waiting' \in 0 .. Cardinality(Workers)
      BY <2>6, SomeWorkers DEF CountOK, Counted
    <3>2. QED
      BY <1>24, <3>1 DEF HandsOK, Entering, DestroyNotify, DestructorGoes, NotifyAll
  <2>9. QED  BY <2>1, <2>2, <2>3, <2>4, <2>5, <2>6, <2>7, <2>8 DEF IInv
<1>25. CASE DestroyJoin
  <2>1. LockOK'
    BY <1>25 DEF LockOK, Holding, DestroyJoin, DestructorGoes
  <2>2. HandsOK'
    BY <1>25 DEF HandsOK, Entering, QueueOK, DestroyJoin, DestructorGoes
  <2>3. QueueOK'
    BY <1>25 DEF QueueOK, HandsOK, Entering, DestroyJoin, DestructorGoes
  <2>4. PendingOK'
    BY <1>25 DEF PendingOK, HandsOK, Entering, DestroyJoin, DestructorGoes
  <2>5. EndOK'
    BY <1>25 DEF EndOK, DestroyJoin, DestructorGoes
  <2>6. CountOK'
    <3>1. Counted' = Counted
      BY <1>25 DEF Counted, CountedPcs, DestroyJoin, DestructorGoes
    <3>2. QED
      BY <1>25, <3>1 DEF CountOK, DestroyJoin, DestructorGoes
  <2>7. CheckNonEmpty'
    BY <1>25 DEF CheckNonEmpty, LockOK, Holding, EndOK, DestroyJoin, DestructorGoes
  <2>8. TypeOK'
    <3>1. threads_waiting' \in 0 .. Cardinality(Workers)
      BY <2>6, SomeWorkers DEF CountOK, Counted
    <3>2. QED
      BY <1>25, <3>1 DEF HandsOK, Entering, DestroyJoin, DestructorGoes
  <2>9. QED  BY <2>1, <2>2, <2>3, <2>4, <2>5, <2>6, <2>7, <2>8 DEF IInv
<1>26. CASE UNCHANGED vars
  BY <1>26 DEF vars, LockOK, HandsOK, QueueOK, PendingOK, EndOK, CountOK, Counted,
     CheckNonEmpty
<1>27. ASSUME NEW w \in Workers, WorkerStep(w)  PROVE IInv'
  BY <1>27, <1>1, <1>2, <1>3, <1>4, <1>5, <1>6, <1>8, <1>9, <1>10,
     Zenon DEF WorkerStep
<1>28. ASSUME NEW c \in Clients, ClientCall(c) \/ ClientStep(c)  PROVE IInv'
  BY <1>28, <1>11, <1>12, <1>13, <1>14, <1>15, <1>16, <1>17, <1>18, <1>19, <1>20,
     Zenon DEF ClientCall, ClientStep
<1>29. CASE DestructorStep
  BY <1>29, <1>22, <1>23, <1>24, <1>25, Zenon DEF DestructorStep
<1>30. QED
  BY <1>7, <1>21, <1>26, <1>27, <1>28, <1>29, Zenon DEF Next

(* The invariant above holds of every behaviour of thread_pool.hpp. *)
THEOREM PoolInvariance == Spec => []IInv
BY IInvInit, IInvStep, PTL DEF Spec

(* threads_waiting counts exactly the workers inside the wait although      *)
(* wait() reads it without a lock, so wait() returns only when no job is    *)
(* being run; and front() of line 128 never meets an empty queue, whatever  *)
(* clear() and pause() do meanwhile.                                        *)
THEOREM WorkersAreSound == Spec => []WorkersSound
<1>1. IInv => WaitingCounted
  <2> SUFFICES ASSUME IInv PROVE WaitingCounted
    OBVIOUS
  <2>1. threads_waiting = Cardinality({w \in Workers : wpc[w] \in CountedPcs})
    BY DEF IInv, CountOK, Counted
  <2>2. ASSUME threads_waiting = Cardinality(Workers), NEW w \in Workers
        PROVE wpc[w] # "run" /\ hand[w] = NoJob
    <3>1. Counted = Workers
      BY <2>2, SomeWorkers DEF IInv, CountOK, Counted
    <3>2. wpc[w] # "run"
      BY <3>1 DEF Counted, CountedPcs
    <3>3. QED  BY <3>2 DEF IInv, HandsOK
  <2>3. QED  BY <2>1, <2>2 DEF WaitingCounted
<1>2. IInv => WorkersSound
  BY <1>1 DEF IInv, WorkersSound
<1>3. QED  BY <1>2, PoolInvariance, PTL

(* When the destructor has returned, every job that was added has run or    *)
(* its future is broken, and no worker is alive.                            *)
THEOREM DestructionSettles == Spec => []DestroyedSettles
<1>1. IInv => DestroyedSettles
  <2> SUFFICES ASSUME IInv, dpc = "dead" PROVE
        /\ \A j \in Jobs : future[j] # "pending"
        /\ \A w \in Workers : wpc[w] = "ended"
    BY DEF DestroyedSettles
  <2>1. jobs = <<>> /\ \A w \in Workers : wpc[w] = "ended"
    BY DEF IInv, EndOK
  <2>2. \A w \in Workers : hand[w] = NoJob
    BY <2>1 DEF IInv, HandsOK
  <2>3. \A j \in Jobs : j # NoJob
    BY ThreadPoolAssumption DEF ThreadPoolAssumption
  <2>4. QED  BY <2>1, <2>2, <2>3 DEF IInv, PendingOK
<1>2. QED  BY <1>1, PoolInvariance, PTL

-----------------------------------------------------------------------------
(* The pool implements FifoTasks.  Begun is the refinement mapping of the   *)
(* tasks that have started and not finished.                                *)

Begun == {hand[w] : w \in Workers} \ {NoJob}

(* A step that leaves the queue, the futures and the hands of the workers   *)
(* alone is a stuttering step of FifoTasks.                                 *)
LEMMA FifoStutters ==
    ASSUME UNCHANGED <<jobs, future>>, \A w \in Workers : hand'[w] = hand[w]
    PROVE  UNCHANGED Fifo!fifoVars
BY DEF Fifo!fifoVars

(* Every step of the pool is one of FifoTasks or leaves it unchanged: add() *)
(* submits, taking the front begins, running finishes, clear() and the      *)
(* destructor discard, and nothing else touches the queue or a promise.     *)
LEMMA FifoStep == IInv /\ [Next]_vars => [Fifo!FifoNext]_Fifo!fifoVars
<1> SUFFICES ASSUME IInv, [Next]_vars PROVE [Fifo!FifoNext]_Fifo!fifoVars
  OBVIOUS
<1> USE ThreadPoolAssumption DEF ThreadPoolAssumption
<1>1. ASSUME NEW w \in Workers, WorkerTake(w) PROVE Fifo!Begin
  <2>1. /\ jobs # <<>> /\ jobs' = Tail(jobs) /\ UNCHANGED future
        /\ hand' = [hand EXCEPT ![w] = Head(jobs)] /\ hand[w] = NoJob
    BY <1>1 DEF WorkerTake, WorkerGoes, IInv, HandsOK
  <2>2. Head(jobs) \in Jobs /\ hand \in [Threads -> Jobs \cup {NoJob}]
    BY <2>1, HeadTailProperties DEF IInv, TypeOK
  <2>3. Begun' = Begun \cup {Head(jobs)}
    BY <2>1, <2>2 DEF Begun
  <2>4. QED  BY <2>1, <2>3 DEF Fifo!Begin, Begun
<1>2. ASSUME NEW w \in Workers, NEW r \in {"value", "exception"}, WorkerRun(w, r)
      PROVE \E t \in Jobs : Fifo!Finish(t)
  <2>1. /\ UNCHANGED jobs /\ future' = [future EXCEPT ![hand[w]] = r]
        /\ hand' = [hand EXCEPT ![w] = NoJob] /\ hand[w] \in Jobs
    BY <1>2 DEF WorkerRun, WorkerGoes, IInv, HandsOK
  <2>2. hand \in [Threads -> Jobs \cup {NoJob}]
    BY DEF IInv, TypeOK
  <2>3. \A v \in Workers : v # w => hand[v] # hand[w]
    BY <2>1 DEF IInv, HandsOK
  <2>4. hand[w] \in Begun /\ Begun' = Begun \ {hand[w]}
    BY <2>1, <2>2, <2>3 DEF Begun
  <2>5. PICK t \in Jobs : t = hand[w]
    BY <2>1
  <2>6. Fifo!Finish(t)
    BY <2>1, <2>4, <2>5 DEF Fifo!Finish, Begun
  <2>7. QED  BY <2>6
<1>3. ASSUME NEW c \in Clients, AddEmplace(c) PROVE \E t \in Jobs : Fifo!Submit(t)
  <2>1. /\ hand[c] \in Jobs /\ future[hand[c]] = "none"
        /\ jobs' = Append(jobs, hand[c])
        /\ future' = [future EXCEPT ![hand[c]] = "pending"]
        /\ hand' = [hand EXCEPT ![c] = NoJob]
    BY <1>3 DEF AddEmplace, ClientGoes, IInv, HandsOK, Entering
  <2>2. Begun' = Begun
    BY <2>1 DEF IInv, TypeOK, Begun
  <2>3. PICK t \in Jobs : t = hand[c]
    BY <2>1
  <2>4. Fifo!Submit(t)
    BY <2>1, <2>2, <2>3 DEF Fifo!Submit, Begun
  <2>5. QED  BY <2>4
<1>4. ASSUME DropJobs PROVE Fifo!Discard
  BY <1>4 DEF DropJobs, Fifo!Discard, Range, Fifo!Range
<1>5. ASSUME NEW c \in Clients, NEW j \in Jobs, AddBegin(c, j)
      PROVE UNCHANGED Fifo!fifoVars
  <2>1. \A w \in Workers : hand'[w] = hand[w]
    BY <1>5 DEF AddBegin, IInv, TypeOK
  <2>2. QED  BY <1>5, <2>1, FifoStutters DEF AddBegin
<1>6. ASSUME UNCHANGED work PROVE UNCHANGED Fifo!fifoVars
  BY <1>6, FifoStutters DEF work
<1>7. ASSUME NEW w \in Workers, WorkerStep(w) \/ WorkerSpurious(w)
      PROVE [Fifo!FifoNext]_Fifo!fifoVars
  <2>1. CASE WorkerTake(w)
    BY <1>1, <2>1 DEF Fifo!FifoNext
  <2>2. ASSUME NEW r \in {"value", "exception"}, WorkerRun(w, r)
        PROVE [Fifo!FifoNext]_Fifo!fifoVars
    BY <1>2, <2>2 DEF Fifo!FifoNext
  <2>3. CASE UNCHANGED work
    BY <1>6, <2>3
  <2>4. QED
    BY <1>7, <2>1, <2>2, <2>3 DEF WorkerStep, WorkerTop, WorkerLock, WorkerTest,
       WorkerPredicate, WorkerBlock, WorkerRelock, WorkerSpurious, WorkerEnd
<1>8. ASSUME NEW c \in Clients, ClientCall(c) \/ ClientStep(c)
      PROVE [Fifo!FifoNext]_Fifo!fifoVars
  <2>1. CASE AddEmplace(c)
    BY <1>3, <2>1 DEF Fifo!FifoNext
  <2>2. CASE Clear(c)
    BY <1>4, <2>2 DEF Clear, Fifo!FifoNext
  <2>3. ASSUME NEW j \in Jobs, AddBegin(c, j) PROVE [Fifo!FifoNext]_Fifo!fifoVars
    BY <1>5, <2>3
  <2>4. CASE UNCHANGED work
    BY <1>6, <2>4
  <2>5. QED
    BY <1>8, <2>1, <2>2, <2>3, <2>4 DEF ClientCall, ClientStep, AddLock, AddNotify,
       ClearLock, Pause, PauseNotify, WaitBegin, WaitEnd
<1>9. CASE DestroyLock \/ DestructorStep
  <2>1. CASE DestroyClear
    BY <1>4, <2>1 DEF DestroyClear, Fifo!FifoNext
  <2>2. CASE UNCHANGED work
    BY <1>6, <2>2
  <2>3. QED
    BY <1>9, <2>1, <2>2 DEF DestroyLock, DestructorStep, DestroyTerminate,
       DestroyNotify, DestroyJoin
<1>10. CASE UNCHANGED vars
  BY <1>6, <1>10 DEF vars, work
<1>11. QED  BY <1>7, <1>8, <1>9, <1>10, Zenon DEF Next

(* thread_pool.hpp implements FifoTasks: jobs begin in the order they were  *)
(* added, each once, every future is settled once, and only clear() and the *)
(* destructor break a promise.                                              *)
THEOREM PoolIsFifo == Spec => FifoSpec
<1>1. Init => Fifo!FifoInit
  BY DEF Init, Fifo!FifoInit
<1>2. QED
  BY <1>1, PoolInvariance, FifoStep, PTL DEF Spec, FifoSpec, Fifo!FifoSpec
=============================================================================
