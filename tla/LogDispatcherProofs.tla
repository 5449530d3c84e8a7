------------------------ MODULE LogDispatcherProofs ------------------------
(***************************************************************************)
(* Theorems about LogDispatcher for every number of threads and messages:  *)
(* no message is lost, doubled or overtaken, and a deferred stop drains    *)
(* the queue unless it interrupts a batch.                                 *)
(***************************************************************************)
EXTENDS LogDispatcher, TLAPS

-----------------------------------------------------------------------------
(* Sequences of messages *)

(* Moving the whole of s into an empty place, and back-to-back sequences. *)
LEMMA ConcatEmpty ==
    ASSUME NEW S, NEW s \in Seq(S)
    PROVE  s \o <<>> = s /\ <<>> \o s = s
OBVIOUS

(* The head of t may be counted to s. *)
LEMMA ConcatHeadTail ==
    ASSUME NEW S, NEW s \in Seq(S), NEW t \in Seq(S), t # <<>>
    PROVE  /\ Append(s, Head(t)) \o Tail(t) = s \o t
           /\ Head(t) \in S /\ Tail(t) \in Seq(S)
           /\ Append(s, Head(t)) \in Seq(S)
OBVIOUS

(* An element may be appended to the last of two sequences. *)
LEMMA ConcatAppend ==
    ASSUME NEW S, NEW s \in Seq(S), NEW t \in Seq(S), NEW m \in S
    PROVE  /\ s \o Append(t, m) = Append(s \o t, m)
           /\ Append(t, m) \in Seq(S)
OBVIOUS

(* A sequence is the beginning of itself with more behind it. *)
LEMMA BeginningConcat ==
    ASSUME NEW S, NEW s \in Seq(S), NEW t \in Seq(S), NEW u \in Seq(S)
    PROVE  Beginning(s, s \o t \o u)
BY DEF Beginning

(* What a sequence holds, with one more element. *)
LEMMA RangeAppend ==
    ASSUME NEW S, NEW s \in Seq(S), NEW m \in S
    PROVE  Range(Append(s, m)) = Range(s) \cup {m}
<1>1. Append(s, m) \in Seq(S) /\ Len(Append(s, m)) = Len(s) + 1
      /\ Append(s, m)[Len(s) + 1] = m
      /\ \A i \in 1 .. Len(s) : Append(s, m)[i] = s[i]
  OBVIOUS
<1>2. Range(s) = {s[i] : i \in 1 .. Len(s)}  BY DEF Range
<1>3. Range(Append(s, m)) = {Append(s, m)[i] : i \in 1 .. Len(s) + 1}
  BY <1>1 DEF Range
<1>4. Range(Append(s, m)) \subseteq Range(s) \cup {m}  BY <1>1, <1>2, <1>3
<1>5. Range(s) \cup {m} \subseteq Range(Append(s, m))  BY <1>1, <1>2, <1>3
<1>6. QED  BY <1>4, <1>5

(* What a sequence holds is its head and what its tail holds. *)
LEMMA RangeHeadTail ==
    ASSUME NEW S, NEW s \in Seq(S), s # <<>>
    PROVE  Range(s) \subseteq {Head(s)} \cup Range(Tail(s))
<1>1. /\ Len(s) \in Nat \ {0} /\ Len(Tail(s)) = Len(s) - 1
      /\ Tail(s) \in Seq(S) /\ Head(s) = s[1]
      /\ \A i \in 1 .. Len(s) - 1 : Tail(s)[i] = s[i + 1]
  OBVIOUS
<1>2. Range(s) = {s[i] : i \in 1 .. Len(s)}  BY DEF Range
<1>3. Range(Tail(s)) = {Tail(s)[i] : i \in 1 .. Len(s) - 1}
  <2>1. DOMAIN Tail(s) = 1 .. Len(Tail(s))  BY <1>1
  <2>2. QED  BY <1>1, <2>1, Zenon DEF Range
<1>4. ASSUME NEW i \in 1 .. Len(s)  PROVE s[i] \in {Head(s)} \cup Range(Tail(s))
  <2>1. CASE i = 1  BY <1>1, <2>1
  <2>2. CASE i # 1
    <3>1. i - 1 \in 1 .. Len(s) - 1 /\ Tail(s)[i - 1] = s[i]  BY <1>1, <2>2
    <3>2. QED  BY <1>3, <3>1
  <2>3. QED  BY <2>1, <2>2
<1>5. QED  BY <1>2, <1>4

-----------------------------------------------------------------------------
(* The inductive invariant *)

Types ==
    /\ m_queue \in Seq(Messages) /\ current \in Seq(Messages)
    /\ accepted \in Seq(Messages) /\ handled \in Seq(Messages)
    /\ ppc \in [Writers -> {"idle", "queue", "notify"}]
    /\ hand \in [Writers -> Messages \cup {NoMessage}]
    /\ wpc \in {"loop", "lock", "test", "sleep", "asleep", "take", "write",
                "check", "none"}
    /\ opc \in {"idle", "notify", "join", "destroyed"}

\* A writer inside push has a message and a dispatcher.
HandOK == \A w \in Writers :
    ppc[w] # "idle" => hand[w] \in Messages /\ opc # "destroyed"

\* current_nodes is empty but while the worker writes it.
BatchOK == wpc # "write" => current = <<>>

\* stop() is under way with the flag set, and the thread is gone when it ends;
\* without a stop it is there.
PhaseOK ==
    /\ opc \in {"notify", "join"} => m_running /\ m_stop_requested
    /\ opc = "idle" /\ m_running => ~m_stop_requested
    /\ opc = "destroyed" => ~m_running
    /\ ~m_running => wpc = "none"
    /\ m_running /\ ~m_stop_requested => wpc # "none"

\* Where the messages are that a deferred stop has still to write.
DrainOK ==
    /\ ~m_stop_requested => dueIdle = {}
    /\ m_stop_policy = "deferred_stop" =>
         \/ wpc \notin {"write", "check", "none"}
              /\ dueIdle \subseteq Range(handled) \cup Range(m_queue)
         \/ wpc = "write" /\ dueIdle \subseteq Range(handled) \cup Range(current)
         \/ wpc \in {"check", "none"} /\ dueIdle \subseteq Range(handled)

IInv == Types /\ HandOK /\ BatchOK /\ PhaseOK /\ DrainOK /\ Conserved

(* The constructor establishes the invariant. *)
LEMMA IInvInit == Init => IInv
<1> SUFFICES ASSUME Init PROVE IInv  OBVIOUS
<1>1. Types  BY DEF Init, Types
<1>2. HandOK /\ BatchOK /\ PhaseOK  BY DEF Init, HandOK, BatchOK, PhaseOK
<1>3. DrainOK  BY DEF Init, DrainOK, Range
<1>4. Conserved  BY DEF Init, Conserved
<1>5. QED  BY <1>1, <1>2, <1>3, <1>4 DEF IInv

(* Steps that leave the messages and the writers where they are. *)
LEMMA IInvFrame ==
    ASSUME IInv, UNCHANGED <<m_queue, current, accepted, handled, ppc, hand>>,
           opc = "destroyed" <=> opc' = "destroyed",
           wpc' \in {"loop", "lock", "test", "sleep", "asleep", "take", "write",
                     "check", "none"},
           opc' \in {"idle", "notify", "join", "destroyed"},
           BatchOK', PhaseOK', DrainOK'
    PROVE  IInv'
<1>1. Types'  BY DEF IInv, Types
<1>2. HandOK' /\ Conserved'  BY DEF IInv, HandOK, Conserved
<1>3. QED  BY <1>1, <1>2 DEF IInv

(* The thread that starts, stops and destroys. *)
LEMMA IInvOwner ==
    ASSUME IInv, Start \/ StopRequest \/ StopNotify \/ StopJoin \/ Destroy
    PROVE  IInv'
<1> USE DEF IInv, Types
<1>1. CASE Start
  <2>1. wpc = "none" /\ current = <<>>  BY <1>1 DEF Start, PhaseOK, BatchOK
  <2>2. BatchOK' /\ PhaseOK'  BY <1>1, <2>1 DEF Start, BatchOK, PhaseOK
  <2>3. DrainOK'  BY <1>1 DEF Start, DrainOK
  <2>4. QED  BY <1>1, <2>2, <2>3, IInvFrame DEF Start, writerVars
<1>2. CASE StopRequest
  <2>1. ~m_stop_requested /\ wpc # "none"  BY <1>2 DEF StopRequest, PhaseOK
  <2>2. BatchOK' /\ PhaseOK'  BY <1>2, <2>1 DEF StopRequest, BatchOK, PhaseOK
  <2>3. DrainOK'
    <3>1. CASE Writing
      <4>1. dueIdle' = {} /\ wpc' \in {"write", "check"} /\ m_stop_requested'
        BY <1>2, <3>1 DEF StopRequest, Writing
      <4>2. QED  BY <4>1 DEF DrainOK
    <3>2. CASE ~Writing
      <4>1. /\ dueIdle' = Range(m_queue) /\ m_queue' = m_queue
            /\ wpc' \notin {"write", "check", "none"} /\ m_stop_requested'
        BY <1>2, <2>1, <3>2 DEF StopRequest, Writing
      <4>2. QED  BY <4>1 DEF DrainOK
    <3>3. QED  BY <3>1, <3>2
  <2>4. QED  BY <1>2, <2>2, <2>3, IInvFrame DEF StopRequest, writerVars
<1>3. CASE StopNotify
  <2>1. BatchOK' /\ PhaseOK'
    BY <1>3 DEF StopNotify, Notified, BatchOK, PhaseOK
  <2>2. DrainOK'  BY <1>3 DEF StopNotify, Notified, DrainOK
  <2>3. QED
    BY <1>3, <2>1, <2>2, IInvFrame DEF StopNotify, Notified, writerVars
<1>4. CASE StopJoin
  <2>1. BatchOK' /\ PhaseOK'  BY <1>4 DEF StopJoin, BatchOK, PhaseOK
  <2>2. DrainOK'  BY <1>4 DEF StopJoin, DrainOK, stopVars
  <2>3. QED  BY <1>4, <2>1, <2>2, IInvFrame DEF StopJoin, writerVars
<1>5. CASE Destroy
  <2>1. BatchOK' /\ PhaseOK'  BY <1>5 DEF Destroy, BatchOK, PhaseOK
  <2>2. DrainOK'  BY <1>5 DEF Destroy, DrainOK, PhaseOK, stopVars
  <2>3. Types' /\ HandOK'  BY <1>5 DEF Destroy, Types, HandOK, writerVars, stopVars
  <2>4. Conserved'
    <3>1. handled \o current \o m_queue = accepted  BY <1>5 DEF Destroy, Conserved
    <3>2. Beginning(handled, accepted)  BY <3>1, BeginningConcat DEF Types
    <3>3. QED  BY <1>5, <3>2 DEF Destroy, Conserved, Beginning
  <2>5. QED  BY <2>1, <2>2, <2>3, <2>4
<1>6. QED  BY <1>1, <1>2, <1>3, <1>4, <1>5

(* The steps of the worker outside a batch. *)
LEMMA IInvWait ==
    ASSUME IInv,
           WorkerLock \/ WorkerTest \/ WorkerSleep \/ WorkerSpurious
             \/ WorkerQuit \/ WriteDone \/ WorkerCheck
    PROVE  IInv'
<1> USE DEF IInv, Types, ownerVars, writerVars, stopVars
<1>1. CASE WorkerLock
  <2>1. BatchOK' /\ PhaseOK'  BY <1>1 DEF WorkerLock, BatchOK, PhaseOK
  <2>2. DrainOK'  BY <1>1 DEF WorkerLock, DrainOK
  <2>3. QED  BY <1>1, <2>1, <2>2, IInvFrame DEF WorkerLock
<1>2. CASE WorkerTest
  <2>1. BatchOK' /\ PhaseOK'  BY <1>2 DEF WorkerTest, BatchOK, PhaseOK
  <2>2. DrainOK'  BY <1>2 DEF WorkerTest, DrainOK
  <2>3. QED  BY <1>2, <2>1, <2>2, IInvFrame DEF WorkerTest
<1>3. CASE WorkerSleep
  <2>1. BatchOK' /\ PhaseOK'  BY <1>3 DEF WorkerSleep, BatchOK, PhaseOK
  <2>2. DrainOK'  BY <1>3 DEF WorkerSleep, DrainOK
  <2>3. QED  BY <1>3, <2>1, <2>2, IInvFrame DEF WorkerSleep
<1>4. CASE WorkerSpurious
  <2>1. BatchOK' /\ PhaseOK'  BY <1>4 DEF WorkerSpurious, BatchOK, PhaseOK
  <2>2. DrainOK'  BY <1>4 DEF WorkerSpurious, DrainOK
  <2>3. QED  BY <1>4, <2>1, <2>2, IInvFrame DEF WorkerSpurious
<1>5. CASE WorkerQuit
  <2>1. BatchOK' /\ PhaseOK'  BY <1>5 DEF WorkerQuit, StopsBy, BatchOK, PhaseOK
  <2>2. DrainOK'  BY <1>5 DEF WorkerQuit, StopsBy, DrainOK
  <2>3. QED  BY <1>5, <2>1, <2>2, IInvFrame DEF WorkerQuit
<1>6. CASE WriteDone
  <2>1. BatchOK' /\ PhaseOK'  BY <1>6 DEF WriteDone, BatchOK, PhaseOK
  <2>2. Range(current) = {}  BY <1>6 DEF WriteDone, Range
  <2>3. DrainOK'  BY <1>6, <2>2 DEF WriteDone, DrainOK
  <2>4. QED  BY <1>6, <2>1, <2>3, IInvFrame DEF WriteDone
<1>7. CASE WorkerCheck
  <2>1. BatchOK' /\ PhaseOK'
    BY <1>7 DEF WorkerCheck, StopsBy, BatchOK, PhaseOK
  <2>2. DrainOK'  BY <1>7 DEF WorkerCheck, DrainOK
  <2>3. QED  BY <1>7, <2>1, <2>2, IInvFrame DEF WorkerCheck
<1>8. QED  BY <1>1, <1>2, <1>3, <1>4, <1>5, <1>6, <1>7

(* The worker takes the whole queue. *)
LEMMA IInvTake ==
    ASSUME IInv, WorkerTake
    PROVE  IInv'
<1> USE DEF IInv, ownerVars, writerVars, stopVars, WorkerTake
<1>1. current = <<>>  BY DEF BatchOK
<1>2. Types'  BY DEF Types
<1>3. HandOK' /\ BatchOK' /\ PhaseOK'  BY DEF HandOK, BatchOK, PhaseOK
<1>4. DrainOK'  BY DEF DrainOK
<1>5. Conserved'
  <2>1. handled \o current = handled  BY <1>1, ConcatEmpty DEF Types
  <2>2. handled \o m_queue \in Seq(Messages)  BY DEF Types
  <2>3. handled \o m_queue \o <<>> = handled \o m_queue  BY <2>2, ConcatEmpty
  <2>4. QED  BY <2>1, <2>3 DEF Conserved
<1>6. QED  BY <1>2, <1>3, <1>4, <1>5

(* The worker writes one message of its batch. *)
LEMMA IInvWrite ==
    ASSUME IInv, WriteNode
    PROVE  IInv'
<1> USE DEF IInv, ownerVars, writerVars, stopVars, WriteNode
<1>1. /\ handled' \o current' = handled \o current
      /\ Head(current) \in Messages /\ current' \in Seq(Messages)
      /\ handled' \in Seq(Messages)
  BY ConcatHeadTail DEF Types
<1>2. Types'  BY <1>1 DEF Types
<1>3. HandOK' /\ BatchOK' /\ PhaseOK'  BY DEF HandOK, BatchOK, PhaseOK
<1>4. DrainOK'
  <2>1. Range(handled') = Range(handled) \cup {Head(current)}
    BY <1>1, RangeAppend DEF Types
  <2>2. Range(current) \subseteq {Head(current)} \cup Range(current')
    BY RangeHeadTail DEF Types
  <2>3. QED  BY <2>1, <2>2 DEF DrainOK
<1>5. Conserved'
  <2>1. opc' # "destroyed" /\ handled \o current \o m_queue = accepted
    BY DEF PhaseOK, Conserved
  <2>2. (handled' \o current') \o m_queue' = accepted'  BY <1>1, <2>1
  <2>3. QED  BY <2>1, <2>2 DEF Conserved
<1>6. QED  BY <1>2, <1>3, <1>4, <1>5

(* The three steps of push. *)
LEMMA IInvPush ==
    ASSUME IInv, NEW w \in Writers,
           Push(w) \/ \E m \in Messages : PushCheck(w, m)
    PROVE  IInv'
<1> USE DEF IInv, ownerVars, writerVars, stopVars
<1>1. ASSUME NEW m \in Messages, PushCheck(w, m)  PROVE IInv'
  <2>1. Types'  BY <1>1 DEF PushCheck, Types
  <2>2. HandOK'  BY <1>1 DEF PushCheck, HandOK, Types
  <2>3. BatchOK' /\ PhaseOK'  BY <1>1 DEF PushCheck, BatchOK, PhaseOK
  <2>4. DrainOK' /\ Conserved'  BY <1>1 DEF PushCheck, DrainOK, Conserved
  <2>5. QED  BY <2>1, <2>2, <2>3, <2>4
<1>2. CASE PushQueue(w)
  <2>1. hand[w] \in Messages  BY <1>2 DEF PushQueue, HandOK
  <2>2. /\ m_queue' = Append(m_queue, hand[w]) /\ m_queue' \in Seq(Messages)
        /\ accepted' = Append(accepted, hand[w]) /\ accepted' \in Seq(Messages)
    BY <1>2, <2>1 DEF PushQueue, Types
  <2>3. Types'  BY <1>2, <2>2 DEF PushQueue, Types
  <2>4. HandOK'  BY <1>2, <2>1 DEF PushQueue, HandOK, Types
  <2>5. BatchOK' /\ PhaseOK'  BY <1>2 DEF PushQueue, BatchOK, PhaseOK
  <2>6. DrainOK'
    <3>1. Range(m_queue') = Range(m_queue) \cup {hand[w]}
      BY <2>1, <2>2, RangeAppend DEF Types
    <3>2. QED  BY <1>2, <3>1 DEF PushQueue, DrainOK
  <2>7. Conserved'
    <3> DEFINE done == handled \o current
    <3>1. done \in Seq(Messages) /\ m_queue \in Seq(Messages)  BY DEF Types
    <3> HIDE DEF done
    <3>2. done \o Append(m_queue, hand[w]) = Append(done \o m_queue, hand[w])
      BY <2>1, <3>1, ConcatAppend
    <3>3. opc # "destroyed" /\ opc' = opc  BY <1>2 DEF PushQueue, HandOK
    <3>4. done \o m_queue = accepted  BY <3>3 DEF Conserved, done
    <3>5. done' = done  BY <1>2 DEF PushQueue, done
    <3>6. done \o m_queue' = accepted'  BY <2>2, <3>2, <3>4
    <3>7. QED  BY <3>3, <3>5, <3>6 DEF Conserved, done
  <2>8. QED  BY <2>3, <2>4, <2>5, <2>6, <2>7
<1>3. CASE PushNotify(w)
  <2>1. Types'  BY <1>3 DEF PushNotify, Notified, Types
  <2>2. HandOK'  BY <1>3 DEF PushNotify, HandOK, Types
  <2>3. BatchOK' /\ PhaseOK'  BY <1>3 DEF PushNotify, Notified, BatchOK, PhaseOK
  <2>4. DrainOK' /\ Conserved'
    BY <1>3 DEF PushNotify, Notified, DrainOK, Conserved
  <2>5. QED  BY <2>1, <2>2, <2>3, <2>4
<1>4. QED  BY <1>1, <1>2, <1>3 DEF Push

(* Every reachable state satisfies the invariant. *)
LEMMA Invariance == Spec => []IInv
<1>1. IInv /\ [Next]_vars => IInv'
  <2> SUFFICES ASSUME IInv, [Next]_vars PROVE IInv'  OBVIOUS
  <2>1. CASE Start \/ StopRequest \/ StopNotify \/ StopJoin \/ Destroy
    BY <2>1, IInvOwner
  <2>2. CASE WorkerStep \/ WorkerSpurious
    BY <2>2, IInvWait, IInvTake, IInvWrite DEF WorkerStep
  <2>3. CASE \E w \in Writers : Push(w) \/ \E m \in Messages : PushCheck(w, m)
    BY <2>3, IInvPush
  <2>4. CASE UNCHANGED vars
    BY <2>4 DEF vars, ownerVars, writerVars, stopVars, IInv, Types, HandOK,
                BatchOK, PhaseOK, DrainOK, Conserved
  <2>5. QED  BY <2>1, <2>2, <2>3, <2>4 DEF Next
<1>2. QED  BY <1>1, IInvInit, PTL DEF Spec

-----------------------------------------------------------------------------
(* The theorems *)

(* What push queued is written, in current_nodes or still queued, each      *)
(* message once and in the order of the calls, through any number of stops. *)
THEOREM MessagesConserved == Spec => []Conserved
<1>1. IInv => Conserved  BY DEF IInv
<1>2. QED  BY <1>1, Invariance, PTL

(* A deferred stop writes what is queued, unless it comes while the worker  *)
(* writes a batch.                                                          *)
THEOREM DeferredStopDrains == Spec => []DeferredDrains
<1>1. IInv => DeferredDrains
  BY DEF IInv, PhaseOK, DrainOK, DeferredDrains
<1>2. QED  BY <1>1, Invariance, PTL
=============================================================================
