------------------------- MODULE KernelModulesProofs -------------------------
(***************************************************************************)
(* What TLC checks of the kernel modules on a small instance, proved for   *)
(* any number of processes, writers and readers, any size of the buffer    *)
(* and of the message and any number of opens and reads.  Each module has  *)
(* an inductive invariant of its own; since they share no variable, their  *)
(* conjunction is one of the composition.                                  *)
(***************************************************************************)
EXTENDS MCKernelModules, FiniteSetTheorems, SequenceTheorems, TLAPS

-----------------------------------------------------------------------------
(* read-only-device.c.  A process holds one reference from the call of     *)
(* open to the end of release, and a second one of its own while the file  *)
(* is open; the count is their sum.                                        *)

Callers == {p \in Procs : pc[p] \in Inside}
Holders == {p \in Procs : pc[p] \in {"open", "put"}}

RefsExact == refs = Cardinality(Callers) + Cardinality(Holders)
OutIsIdle == mod \in {"out", "stuck"} => Callers = {}
MineIsMsg == \A p \in Procs : pc[p] \in {"get", "open"} => mine[p] = msg

DeviceInv ==
    /\ TypeOK /\ ExclusiveOpen /\ ReadsOwnMessage
    /\ RefsExact /\ OutIsIdle /\ MineIsMsg

\* Both sets are finite, and grow and shrink by one.
LEMMA DeviceCounts ==
    /\ Cardinality(Procs) \in Nat
    /\ Cardinality(Callers) \in 0 .. Cardinality(Procs)
    /\ Cardinality(Holders) \in 0 .. Cardinality(Procs)
    /\ Cardinality(Callers) = 0 => Callers = {}
    /\ \A p \in Procs \ Callers : Cardinality(Callers \cup {p}) = Cardinality(Callers) + 1
    /\ \A p \in Callers : Cardinality(Callers \ {p}) = Cardinality(Callers) - 1
    /\ \A p \in Procs \ Holders : Cardinality(Holders \cup {p}) = Cardinality(Holders) + 1
    /\ \A p \in Holders : Cardinality(Holders \ {p}) = Cardinality(Holders) - 1
<1> USE RdOnlyDeviceAssumption DEF RdOnlyDeviceAssumption
<1>1. /\ IsFiniteSet(Callers) /\ Callers \subseteq Procs
      /\ IsFiniteSet(Holders) /\ Holders \subseteq Procs
  BY FS_Subset DEF Callers, Holders
<1>2. /\ Cardinality(Procs) \in Nat
      /\ Cardinality(Callers) \in 0 .. Cardinality(Procs)
      /\ Cardinality(Holders) \in 0 .. Cardinality(Procs)
  BY <1>1, FS_Subset, FS_CardinalityType
<1>3. Cardinality(Callers) = 0 => Callers = {}
  BY <1>1, FS_EmptySet
<1>4. \A p \in Procs \ Callers : Cardinality(Callers \cup {p}) = Cardinality(Callers) + 1
  BY <1>1, FS_AddElement
<1>5. \A p \in Callers : Cardinality(Callers \ {p}) = Cardinality(Callers) - 1
  BY <1>1, FS_RemoveElement
<1>6. \A p \in Procs \ Holders : Cardinality(Holders \cup {p}) = Cardinality(Holders) + 1
  BY <1>1, FS_AddElement
<1>7. \A p \in Holders : Cardinality(Holders \ {p}) = Cardinality(Holders) - 1
  BY <1>1, FS_RemoveElement
<1> QED
  BY <1>2, <1>3, <1>4, <1>5, <1>6, <1>7

\* The head of a message and the chunk behind it are a longer head: reads can
\* be cut up anywhere.
LEMMA ChunksJoin ==
    ASSUME NEW c \in Nat, NEW k \in 0 .. MsgLen, NEW n \in k .. MsgLen
    PROVE  /\ SubSeq(Message(c), 1, 0) = <<>>
           /\ SubSeq(Message(c), k + 1, n) \in Seq(Nat \X (1 .. MsgLen))
           /\ Len(SubSeq(Message(c), k + 1, n)) = n - k
           /\ SubSeq(Message(c), 1, k) \o SubSeq(Message(c), k + 1, n) = SubSeq(Message(c), 1, n)
<1> USE RdOnlyDeviceAssumption DEF RdOnlyDeviceAssumption
<1> DEFINE T == Nat \X (1 .. MsgLen)
<1>1. Message(c) \in Seq(T) /\ Len(Message(c)) = MsgLen
  BY DEF Message
<1> DEFINE m == Message(c)
           h == SubSeq(m, 1, k)
           t == SubSeq(m, k + 1, n)
           r == SubSeq(m, 1, n)
<1>2. m \in Seq(T) /\ Len(m) = MsgLen
  BY <1>1
<1> HIDE DEF m, T
<1>3. /\ h \in Seq(T) /\ Len(h) = k /\ \A i \in 1 .. k : h[i] = m[i]
  BY <1>2, SubSeqProperties
<1>4. /\ t \in Seq(T) /\ Len(t) = n - k /\ \A i \in 1 .. n - k : t[i] = m[k + i]
  BY <1>2, SubSeqProperties
<1>5. /\ r \in Seq(T) /\ Len(r) = n /\ \A i \in 1 .. n : r[i] = m[i]
  BY <1>2, SubSeqProperties
<1>6. SubSeq(m, 1, 0) = <<>>
  BY <1>2, SubSeqProperties, EmptySeq
<1> HIDE DEF h, t, r
<1>7. /\ h \o t \in Seq(T) /\ Len(h \o t) = n
      /\ \A i \in 1 .. n : (h \o t)[i] = IF i <= k THEN h[i] ELSE t[i - k]
  <2>1. /\ h \o t \in Seq(T) /\ Len(h \o t) = Len(h) + Len(t)
        /\ \A i \in 1 .. Len(h) + Len(t) :
               (h \o t)[i] = IF i <= Len(h) THEN h[i] ELSE t[i - Len(h)]
    BY <1>3, <1>4, ConcatProperties
  <2>2. Len(h) = k /\ Len(t) = n - k /\ Len(h) + Len(t) = n
    BY <1>3, <1>4
  <2> QED
    BY <2>1, <2>2
<1>8. \A i \in 1 .. n : (h \o t)[i] = r[i]
  BY <1>3, <1>4, <1>5, <1>7
<1>9. h \o t = r
  BY <1>5, <1>7, <1>8, SeqEqual
<1> QED
  BY <1>4, <1>6, <1>9 DEF m, h, t, r, T

\* Every step of insmod, of rmmod and of a process keeps it.
LEMMA DeviceStep == ASSUME DeviceInv, [Next]_vars PROVE DeviceInv'
<1> USE RdOnlyDeviceAssumption DEF RdOnlyDeviceAssumption, TypeOK, Pcs, Inside, Owners,
        NoClass, ProcGoes, module, file
<1>0. /\ TypeOK /\ ExclusiveOpen /\ ReadsOwnMessage
      /\ RefsExact /\ OutIsIdle /\ MineIsMsg
  BY DEF DeviceInv
<1>a. Cardinality(Procs) \in Nat /\ Cardinality(Callers) \in 0 .. Cardinality(Procs)
      /\ Cardinality(Holders) \in 0 .. Cardinality(Procs)
  BY DeviceCounts
<1>b. Cardinality(Callers') \in 0 .. Cardinality(Procs) /\ Cardinality(Holders') \in 0 .. Cardinality(Procs)
  <2>1. Callers' \subseteq Procs /\ Holders' \subseteq Procs
    BY DEF Callers, Holders
  <2> QED
    BY <2>1, FS_Subset, FS_CardinalityType
<1>c. <<>> \in Seq(Nat \X (1 .. MsgLen))
  OBVIOUS
<1>d. refs = Cardinality(Callers) + Cardinality(Holders)
  BY <1>0 DEF RefsExact
<1>e. pc \in [Procs -> Pcs] /\ already_open \in {0, 1}
  BY <1>0
<1>f. /\ got \in [Procs -> Seq(Nat \X (1 .. MsgLen))] /\ offset \in [Procs -> 0 .. MsgLen]
      /\ mine \in [Procs -> Nat] /\ msg \in Nat /\ counter \in Nat
  BY <1>0
<1>1. CASE Register
  <2>a. Callers' = Callers /\ Holders' = Holders
    BY <1>0, <1>1 DEF Register, Callers, Holders
  <2>b. refs' = Cardinality(Callers') + Cardinality(Holders')
    <3>1. Cardinality(Callers') = Cardinality(Callers) /\ Cardinality(Holders') = Cardinality(Holders)
      BY <2>a, DeviceCounts
    <3>2. refs' = refs
      BY <1>1 DEF Register
    <3> QED
      BY <1>a, <1>d, <3>1, <3>2
  <2>1. TypeOK'
    <3>1. refs' \in 0 .. 2 * Cardinality(Procs)
      BY <1>a, <1>b, <2>b
    <3>2. got' \in [Procs -> Seq(Nat \X (1 .. MsgLen))] /\ offset' \in [Procs -> 0 .. MsgLen]
      BY <1>f, <1>1, <1>c DEF Register
    <3> QED
      BY <1>0, <1>1, <3>1, <3>2 DEF Register
  <2>2. ExclusiveOpen' /\ ReadsOwnMessage' /\ OutIsIdle' /\ MineIsMsg'
    BY <1>0, <1>e, <1>1, <2>a
       DEF Register, ExclusiveOpen, ReadsOwnMessage, OutIsIdle, MineIsMsg
  <2>4. RefsExact'
    BY <2>b DEF RefsExact
  <2> QED
    BY <2>1, <2>2, <2>4 DEF DeviceInv
<1>2. ASSUME NEW r \in {"class", "error"}, ClassCreate(r) PROVE DeviceInv'
  <2>a. Callers' = Callers /\ Holders' = Holders
    BY <1>0, <1>2 DEF ClassCreate, Callers, Holders
  <2>b. refs' = Cardinality(Callers') + Cardinality(Holders')
    <3>1. Cardinality(Callers') = Cardinality(Callers) /\ Cardinality(Holders') = Cardinality(Holders)
      BY <2>a, DeviceCounts
    <3>2. refs' = refs
      BY <1>2 DEF ClassCreate
    <3> QED
      BY <1>a, <1>d, <3>1, <3>2
  <2>1. TypeOK'
    <3>1. refs' \in 0 .. 2 * Cardinality(Procs)
      BY <1>a, <1>b, <2>b
    <3>2. got' \in [Procs -> Seq(Nat \X (1 .. MsgLen))] /\ offset' \in [Procs -> 0 .. MsgLen]
      BY <1>f, <1>2, <1>c DEF ClassCreate
    <3> QED
      BY <1>0, <1>2, <3>1, <3>2 DEF ClassCreate
  <2>2. ExclusiveOpen' /\ ReadsOwnMessage' /\ OutIsIdle' /\ MineIsMsg'
    BY <1>0, <1>e, <1>2, <2>a
       DEF ClassCreate, ExclusiveOpen, ReadsOwnMessage, OutIsIdle, MineIsMsg
  <2>4. RefsExact'
    BY <2>b DEF RefsExact
  <2> QED
    BY <2>1, <2>2, <2>4 DEF DeviceInv
<1>3. CASE Exit
  <2>a. Callers' = Callers /\ Holders' = Holders
    BY <1>0, <1>3 DEF Exit, Callers, Holders
  <2>b. refs' = Cardinality(Callers') + Cardinality(Holders')
    <3>1. Cardinality(Callers') = Cardinality(Callers) /\ Cardinality(Holders') = Cardinality(Holders)
      BY <2>a, DeviceCounts
    <3>2. refs' = refs
      BY <1>3 DEF Exit
    <3> QED
      BY <1>a, <1>d, <3>1, <3>2
  <2>c. \A q \in Procs : pc[q] = "idle"
    <3>1. Callers = {}
      BY <1>a, <1>d, <1>3, DeviceCounts DEF Exit
    <3> QED
      BY <1>0, <3>1 DEF Callers
  <2>1. TypeOK'
    <3>1. refs' \in 0 .. 2 * Cardinality(Procs)
      BY <1>a, <1>b, <2>b
    <3>2. got' \in [Procs -> Seq(Nat \X (1 .. MsgLen))] /\ offset' \in [Procs -> 0 .. MsgLen]
      BY <1>f, <1>3, <1>c DEF Exit
    <3> QED
      BY <1>0, <1>3, <3>1, <3>2 DEF Exit
  <2>2. ExclusiveOpen'
    BY <1>0, <1>e, <1>3, <2>c DEF Exit, ExclusiveOpen
  <2>3. ReadsOwnMessage'
    BY <1>0, <1>3 DEF Exit, ReadsOwnMessage
  <2>4. RefsExact'
    BY <2>b DEF RefsExact
  <2>5. OutIsIdle'
    BY <1>0, <1>3, <2>a, <2>c DEF Exit, OutIsIdle, Callers
  <2>6. MineIsMsg'
    BY <1>0, <1>3, <2>c DEF Exit, MineIsMsg, ExclusiveOpen
  <2> QED
    BY <2>1, <2>2, <2>3, <2>4, <2>5, <2>6 DEF DeviceInv
<1>3o. CASE ExitOops
  <2>a. Callers' = Callers /\ Holders' = Holders
    BY <1>0, <1>3o DEF ExitOops, Callers, Holders
  <2>b. refs' = Cardinality(Callers') + Cardinality(Holders')
    <3>1. Cardinality(Callers') = Cardinality(Callers) /\ Cardinality(Holders') = Cardinality(Holders)
      BY <2>a, DeviceCounts
    <3>2. refs' = refs
      BY <1>3o DEF ExitOops
    <3> QED
      BY <1>a, <1>d, <3>1, <3>2
  <2>c. \A q \in Procs : pc[q] = "idle"
    <3>1. Callers = {}
      BY <1>a, <1>d, <1>3o, DeviceCounts DEF ExitOops
    <3> QED
      BY <1>0, <3>1 DEF Callers
  <2>1. TypeOK'
    <3>1. refs' \in 0 .. 2 * Cardinality(Procs)
      BY <1>a, <1>b, <2>b
    <3>2. got' \in [Procs -> Seq(Nat \X (1 .. MsgLen))] /\ offset' \in [Procs -> 0 .. MsgLen]
      BY <1>f, <1>3o, <1>c DEF ExitOops
    <3> QED
      BY <1>0, <1>3o, <3>1, <3>2 DEF ExitOops
  <2>2. ExclusiveOpen'
    BY <1>0, <1>e, <1>3o, <2>c DEF ExitOops, ExclusiveOpen
  <2>3. ReadsOwnMessage'
    BY <1>0, <1>3o DEF ExitOops, ReadsOwnMessage
  <2>4. RefsExact'
    BY <2>b DEF RefsExact
  <2>5. OutIsIdle'
    BY <1>0, <1>3o, <2>a, <2>c DEF ExitOops, OutIsIdle, Callers
  <2>6. MineIsMsg'
    BY <1>0, <1>3o, <2>c DEF ExitOops, MineIsMsg, ExclusiveOpen
  <2> QED
    BY <2>1, <2>2, <2>3, <2>4, <2>5, <2>6 DEF DeviceInv
<1>4. ASSUME NEW p \in Procs, KernelOpen(p) PROVE DeviceInv'
  <2>a. Callers' = Callers \cup {p} /\ Holders' = Holders /\ p \notin Callers
    BY <1>0, <1>4 DEF KernelOpen, Callers, Holders
  <2>b. refs' = Cardinality(Callers') + Cardinality(Holders')
    <3>1. Cardinality(Callers') = Cardinality(Callers) + 1 /\ Cardinality(Holders') = Cardinality(Holders)
      BY <2>a, DeviceCounts
    <3>2. refs' = refs + 1
      BY <1>4 DEF KernelOpen
    <3> QED
      BY <1>a, <1>d, <3>1, <3>2
  <2>1. TypeOK'
    <3>1. refs' \in 0 .. 2 * Cardinality(Procs)
      BY <1>a, <1>b, <2>b
    <3>2. got' \in [Procs -> Seq(Nat \X (1 .. MsgLen))] /\ offset' \in [Procs -> 0 .. MsgLen]
      BY <1>f, <1>4, <1>c DEF KernelOpen
    <3> QED
      BY <1>0, <1>4, <3>1, <3>2 DEF KernelOpen
  <2>2. ExclusiveOpen' /\ ReadsOwnMessage' /\ OutIsIdle' /\ MineIsMsg'
    BY <1>0, <1>e, <1>4, <2>a
       DEF KernelOpen, ExclusiveOpen, ReadsOwnMessage, OutIsIdle, MineIsMsg
  <2>4. RefsExact'
    BY <2>b DEF RefsExact
  <2> QED
    BY <2>1, <2>2, <2>4 DEF DeviceInv
<1>5. ASSUME NEW p \in Procs, OpenExchange(p) PROVE DeviceInv'
  <2>a. \/ /\ already_open = 0 /\ pc[p] = "entered" /\ pc' = [pc EXCEPT ![p] = "format"]
           /\ refs' = refs /\ Callers' = Callers /\ Holders' = Holders
        \/ /\ already_open = 1 /\ pc[p] = "entered" /\ pc' = [pc EXCEPT ![p] = "idle"]
           /\ refs' = refs - 1 /\ Callers' = Callers \ {p} /\ p \in Callers /\ Holders' = Holders
    BY <1>0, <1>5 DEF OpenExchange, Callers, Holders
  <2>b. refs' = Cardinality(Callers') + Cardinality(Holders')
    <3>1. p \in Callers => Cardinality(Callers \ {p}) = Cardinality(Callers) - 1
      BY DeviceCounts
    <3> QED
      <4>1. CASE already_open = 0
        BY <1>a, <1>d, <2>a, <4>1
      <4>2. CASE already_open = 1
        <5>1. refs' = refs - 1 /\ Callers' = Callers \ {p} /\ p \in Callers /\ Holders' = Holders
          BY <2>a, <4>2
        <5>2. Cardinality(Callers') = Cardinality(Callers) - 1 /\ Cardinality(Holders') = Cardinality(Holders)
          BY <3>1, <5>1
        <5> QED
          BY <1>a, <1>d, <5>1, <5>2
      <4> QED
        BY <1>e, <4>1, <4>2
  <2>1. TypeOK'
    <3>1. refs' \in 0 .. 2 * Cardinality(Procs)
      BY <1>a, <1>b, <2>b
    <3>2. got' \in [Procs -> Seq(Nat \X (1 .. MsgLen))] /\ offset' \in [Procs -> 0 .. MsgLen]
      BY <1>f, <1>5, <1>c DEF OpenExchange
    <3> QED
      BY <1>0, <1>5, <3>1, <3>2 DEF OpenExchange
  <2>2. ExclusiveOpen'
    <3>1. ExclusiveOpen /\ already_open' = 1
      BY <1>0, <1>5 DEF OpenExchange
    <3> QED
      BY <1>e, <2>a, <3>1 DEF ExclusiveOpen
  <2>3. ReadsOwnMessage' /\ OutIsIdle' /\ MineIsMsg'
    BY <1>0, <1>5, <2>a
       DEF OpenExchange, ReadsOwnMessage, OutIsIdle, MineIsMsg, ExclusiveOpen
  <2>4. RefsExact'
    BY <2>b DEF RefsExact
  <2> QED
    BY <2>1, <2>2, <2>3, <2>4 DEF DeviceInv
<1>6. ASSUME NEW p \in Procs, OpenFormat(p) PROVE DeviceInv'
  <2>a. Callers' = Callers /\ Holders' = Holders
    BY <1>0, <1>6 DEF OpenFormat, Callers, Holders
  <2>b. refs' = Cardinality(Callers') + Cardinality(Holders')
    <3>1. Cardinality(Callers') = Cardinality(Callers) /\ Cardinality(Holders') = Cardinality(Holders)
      BY <2>a, DeviceCounts
    <3>2. refs' = refs
      BY <1>6 DEF OpenFormat
    <3> QED
      BY <1>a, <1>d, <3>1, <3>2
  <2>1. TypeOK'
    <3>1. refs' \in 0 .. 2 * Cardinality(Procs)
      BY <1>a, <1>b, <2>b
    <3>2. got' \in [Procs -> Seq(Nat \X (1 .. MsgLen))] /\ offset' \in [Procs -> 0 .. MsgLen]
      BY <1>f, <1>6, <1>c DEF OpenFormat
    <3> QED
      <4>1. counter' \in Nat /\ msg' \in Nat /\ mine' \in [Procs -> Nat]
        BY <1>f, <1>6 DEF OpenFormat
      <4>2. pc' \in [Procs -> Pcs]
        BY <1>e, <1>6 DEF OpenFormat
      <4>3. UNCHANGED <<mod, class, node, said, already_open>>
        BY <1>6 DEF OpenFormat
      <4>4. /\ mod \in {"out", "registered", "in", "stuck"} /\ class \in {NoClass, "class", "error"}
            /\ node \in BOOLEAN /\ said \in {"nothing", "already exists", "created"}
            /\ already_open \in {0, 1}
        BY <1>0
      <4> QED
        BY <3>1, <3>2, <4>1, <4>2, <4>3, <4>4
  <2>2. ExclusiveOpen' /\ ReadsOwnMessage' /\ OutIsIdle' /\ MineIsMsg'
    BY <1>0, <1>e, <1>6, <2>a
       DEF OpenFormat, ExclusiveOpen, ReadsOwnMessage, OutIsIdle, MineIsMsg
  <2>4. RefsExact'
    BY <2>b DEF RefsExact
  <2> QED
    BY <2>1, <2>2, <2>4 DEF DeviceInv
<1>7. ASSUME NEW p \in Procs, OpenGet(p) PROVE DeviceInv'
  <2>a. Callers' = Callers /\ Holders' = Holders \cup {p} /\ p \notin Holders
    BY <1>0, <1>7 DEF OpenGet, Callers, Holders
  <2>b. refs' = Cardinality(Callers') + Cardinality(Holders')
    <3>1. Cardinality(Callers') = Cardinality(Callers) /\ Cardinality(Holders') = Cardinality(Holders) + 1
      BY <2>a, DeviceCounts
    <3>2. refs' = refs + 1
      BY <1>7 DEF OpenGet
    <3> QED
      BY <1>a, <1>d, <3>1, <3>2
  <2>1. TypeOK'
    <3>1. refs' \in 0 .. 2 * Cardinality(Procs)
      BY <1>a, <1>b, <2>b
    <3>2. got' \in [Procs -> Seq(Nat \X (1 .. MsgLen))] /\ offset' \in [Procs -> 0 .. MsgLen]
      BY <1>f, <1>7, <1>c DEF OpenGet
    <3> QED
      BY <1>0, <1>7, <3>1, <3>2 DEF OpenGet
  <2>2. ExclusiveOpen' /\ OutIsIdle' /\ MineIsMsg'
    BY <1>0, <1>e, <1>7, <2>a
       DEF OpenGet, ExclusiveOpen, OutIsIdle, MineIsMsg
  <2>3. ReadsOwnMessage'
    <3>1. SubSeq(Message(mine[p]), 1, 0) = <<>>
      BY <1>f, ChunksJoin
    <3>2. ReadsOwnMessage
      BY <1>0
    <3> QED
      BY <1>e, <1>f, <1>7, <3>1, <3>2 DEF OpenGet, ReadsOwnMessage
  <2>4. RefsExact'
    BY <2>b DEF RefsExact
  <2> QED
    BY <2>1, <2>2, <2>3, <2>4 DEF DeviceInv
<1>8. ASSUME NEW p \in Procs, NEW length \in 1 .. MsgLen, Read(p, length) PROVE DeviceInv'
  <2>a. Callers' = Callers /\ Holders' = Holders
    BY <1>0, <1>8 DEF Read, Callers, Holders
  <2>b. refs' = Cardinality(Callers') + Cardinality(Holders')
    <3>1. Cardinality(Callers') = Cardinality(Callers) /\ Cardinality(Holders') = Cardinality(Holders)
      BY <2>a, DeviceCounts
    <3>2. refs' = refs
      BY <1>8 DEF Read
    <3> QED
      BY <1>a, <1>d, <3>1, <3>2
  <2> DEFINE upto == offset[p] + length
             end == IF upto < MsgLen THEN upto ELSE MsgLen
             chunk == SubSeq(Message(msg), offset[p] + 1, end)
  <2>c. /\ pc[p] = "open" /\ offset[p] < MsgLen
        /\ got' = [got EXCEPT ![p] = got[p] \o chunk]
        /\ offset' = [offset EXCEPT ![p] = offset[p] + Len(chunk)]
        /\ UNCHANGED <<module, refs, already_open, counter, msg, pc, mine>>
    BY <1>8 DEF Read
  <2>d. /\ offset[p] \in 0 .. MsgLen /\ end \in offset[p] .. MsgLen /\ end \in 0 .. MsgLen
        /\ msg \in Nat /\ mine[p] = msg
        /\ got[p] = SubSeq(Message(msg), 1, offset[p])
    <3>1. MineIsMsg /\ ReadsOwnMessage
      BY <1>0
    <3> QED
      <4>1. offset[p] \in 0 .. MsgLen /\ msg \in Nat
        BY <1>f
      <4>2. end \in offset[p] .. MsgLen /\ end \in 0 .. MsgLen
        BY <4>1, <2>c
      <4>3. mine[p] = msg /\ got[p] = SubSeq(Message(msg), 1, offset[p])
        BY <2>c, <3>1 DEF MineIsMsg, ReadsOwnMessage
      <4> QED
        BY <4>1, <4>2, <4>3
  <2>0. 0 \in 0 .. MsgLen /\ end \in 0 .. MsgLen
    BY <2>d
  <2> HIDE DEF end
  <2>e. /\ got[p] \o chunk = SubSeq(Message(msg), 1, end)
        /\ Len(chunk) = end - offset[p]
    <3>1. /\ SubSeq(Message(msg), 1, offset[p]) \o SubSeq(Message(msg), offset[p] + 1, end)
                 = SubSeq(Message(msg), 1, end)
          /\ Len(SubSeq(Message(msg), offset[p] + 1, end)) = end - offset[p]
      BY <2>d, ChunksJoin
    <3> QED
      BY <2>d, <3>1
  <2>f. SubSeq(Message(msg), 1, end) \in Seq(Nat \X (1 .. MsgLen))
    <3>1. SubSeq(Message(msg), 0 + 1, end) \in Seq(Nat \X (1 .. MsgLen))
      BY <2>0, <2>d, ChunksJoin
    <3>2. 0 + 1 = 1
      OBVIOUS
    <3> QED
      BY <3>1, <3>2
  <2> HIDE DEF chunk
  <2>g. /\ got' = [got EXCEPT ![p] = SubSeq(Message(msg), 1, end)]
        /\ offset' = [offset EXCEPT ![p] = end]
    <3>1. offset[p] + Len(chunk) = end
      BY <2>d, <2>e
    <3> QED
      BY <2>c, <2>e, <3>1
  <2>1. TypeOK'
    <3>1. refs' \in 0 .. 2 * Cardinality(Procs)
      BY <1>a, <1>b, <2>b
    <3>2. got' \in [Procs -> Seq(Nat \X (1 .. MsgLen))] /\ offset' \in [Procs -> 0 .. MsgLen]
      BY <1>0, <2>d, <2>f, <2>g
    <3> QED
      BY <1>0, <1>8, <3>1, <3>2 DEF Read
  <2>2. ExclusiveOpen' /\ OutIsIdle' /\ MineIsMsg'
    BY <1>0, <1>e, <1>8, <2>a
       DEF Read, ExclusiveOpen, OutIsIdle, MineIsMsg
  <2>3. ReadsOwnMessage'
    BY <1>0, <2>c, <2>d, <2>g DEF ReadsOwnMessage
  <2>4. RefsExact'
    BY <2>b DEF RefsExact
  <2> QED
    BY <2>1, <2>2, <2>3, <2>4 DEF DeviceInv
<1>9. ASSUME NEW p \in Procs, ReadEnd(p) PROVE DeviceInv'
  <2>a. Callers' = Callers /\ Holders' = Holders
    BY <1>0, <1>9 DEF ReadEnd, Callers, Holders
  <2>b. refs' = Cardinality(Callers') + Cardinality(Holders')
    <3>1. Cardinality(Callers') = Cardinality(Callers) /\ Cardinality(Holders') = Cardinality(Holders)
      BY <2>a, DeviceCounts
    <3>2. refs' = refs
      BY <1>9 DEF ReadEnd
    <3> QED
      BY <1>a, <1>d, <3>1, <3>2
  <2>1. TypeOK'
    <3>1. refs' \in 0 .. 2 * Cardinality(Procs)
      BY <1>a, <1>b, <2>b
    <3>2. got' \in [Procs -> Seq(Nat \X (1 .. MsgLen))] /\ offset' \in [Procs -> 0 .. MsgLen]
      BY <1>f, <1>9, <1>c DEF ReadEnd
    <3> QED
      BY <1>0, <1>9, <3>1, <3>2 DEF ReadEnd
  <2>2. ExclusiveOpen' /\ OutIsIdle' /\ MineIsMsg'
    BY <1>0, <1>e, <1>9, <2>a
       DEF ReadEnd, ExclusiveOpen, OutIsIdle, MineIsMsg
  <2>3. ReadsOwnMessage'
    <3>1. SubSeq(Message(mine[p]), 1, 0) = <<>>
      BY <1>f, ChunksJoin
    <3>2. ReadsOwnMessage
      BY <1>0
    <3> QED
      BY <1>e, <1>f, <1>9, <3>1, <3>2 DEF ReadEnd, ReadsOwnMessage
  <2>4. RefsExact'
    BY <2>b DEF RefsExact
  <2> QED
    BY <2>1, <2>2, <2>3, <2>4 DEF DeviceInv
<1>10. ASSUME NEW p \in Procs, ReleaseClear(p) PROVE DeviceInv'
  <2>a. Callers' = Callers /\ Holders' = Holders
    BY <1>0, <1>10 DEF ReleaseClear, Callers, Holders
  <2>b. refs' = Cardinality(Callers') + Cardinality(Holders')
    <3>1. Cardinality(Callers') = Cardinality(Callers) /\ Cardinality(Holders') = Cardinality(Holders)
      BY <2>a, DeviceCounts
    <3>2. refs' = refs
      BY <1>10 DEF ReleaseClear
    <3> QED
      BY <1>a, <1>d, <3>1, <3>2
  <2>1. TypeOK'
    <3>1. refs' \in 0 .. 2 * Cardinality(Procs)
      BY <1>a, <1>b, <2>b
    <3>2. got' \in [Procs -> Seq(Nat \X (1 .. MsgLen))] /\ offset' \in [Procs -> 0 .. MsgLen]
      BY <1>f, <1>10, <1>c DEF ReleaseClear
    <3> QED
      BY <1>0, <1>10, <3>1, <3>2 DEF ReleaseClear
  <2>2. ExclusiveOpen'
    <3>1. ExclusiveOpen /\ already_open' = 0 /\ pc[p] = "open" /\ pc' = [pc EXCEPT ![p] = "put"]
      BY <1>0, <1>10 DEF ReleaseClear
    <3> QED
      BY <1>e, <3>1 DEF ExclusiveOpen
  <2>3. ReadsOwnMessage' /\ OutIsIdle' /\ MineIsMsg'
    BY <1>0, <1>10, <2>a
       DEF ReleaseClear, ReadsOwnMessage, OutIsIdle, MineIsMsg, ExclusiveOpen
  <2>4. RefsExact'
    BY <2>b DEF RefsExact
  <2> QED
    BY <2>1, <2>2, <2>3, <2>4 DEF DeviceInv
<1>11. ASSUME NEW p \in Procs, ReleasePut(p) PROVE DeviceInv'
  <2>a. Callers' = Callers /\ Holders' = Holders \ {p} /\ p \in Holders
    BY <1>0, <1>11 DEF ReleasePut, Callers, Holders
  <2>b. refs' = Cardinality(Callers') + Cardinality(Holders')
    <3>1. Cardinality(Callers') = Cardinality(Callers) /\ Cardinality(Holders') = Cardinality(Holders) - 1
      BY <2>a, DeviceCounts
    <3>2. refs' = refs - 1
      BY <1>11 DEF ReleasePut
    <3> QED
      BY <1>a, <1>d, <3>1, <3>2
  <2>1. TypeOK'
    <3>1. refs' \in 0 .. 2 * Cardinality(Procs)
      BY <1>a, <1>b, <2>b
    <3>2. got' \in [Procs -> Seq(Nat \X (1 .. MsgLen))] /\ offset' \in [Procs -> 0 .. MsgLen]
      BY <1>f, <1>11, <1>c DEF ReleasePut
    <3> QED
      BY <1>0, <1>11, <3>1, <3>2 DEF ReleasePut
  <2>2. ExclusiveOpen' /\ ReadsOwnMessage' /\ OutIsIdle' /\ MineIsMsg'
    BY <1>0, <1>e, <1>11, <2>a
       DEF ReleasePut, ExclusiveOpen, ReadsOwnMessage, OutIsIdle, MineIsMsg
  <2>4. RefsExact'
    BY <2>b DEF RefsExact
  <2> QED
    BY <2>1, <2>2, <2>4 DEF DeviceInv
<1>12. ASSUME NEW p \in Procs, KernelClose(p) PROVE DeviceInv'
  <2>a. Callers' = Callers \ {p} /\ Holders' = Holders /\ p \in Callers
    BY <1>0, <1>12 DEF KernelClose, Callers, Holders
  <2>b. refs' = Cardinality(Callers') + Cardinality(Holders')
    <3>1. Cardinality(Callers') = Cardinality(Callers) - 1 /\ Cardinality(Holders') = Cardinality(Holders)
      BY <2>a, DeviceCounts
    <3>2. refs' = refs - 1
      BY <1>12 DEF KernelClose
    <3> QED
      BY <1>a, <1>d, <3>1, <3>2
  <2>1. TypeOK'
    <3>1. refs' \in 0 .. 2 * Cardinality(Procs)
      BY <1>a, <1>b, <2>b
    <3>2. got' \in [Procs -> Seq(Nat \X (1 .. MsgLen))] /\ offset' \in [Procs -> 0 .. MsgLen]
      BY <1>f, <1>12, <1>c DEF KernelClose
    <3> QED
      BY <1>0, <1>12, <3>1, <3>2 DEF KernelClose
  <2>2. ExclusiveOpen' /\ ReadsOwnMessage' /\ OutIsIdle' /\ MineIsMsg'
    BY <1>0, <1>e, <1>12, <2>a
       DEF KernelClose, ExclusiveOpen, ReadsOwnMessage, OutIsIdle, MineIsMsg
  <2>4. RefsExact'
    BY <2>b DEF RefsExact
  <2> QED
    BY <2>1, <2>2, <2>4 DEF DeviceInv
<1>13. CASE UNCHANGED vars
  BY <1>0, <1>13 DEF vars, DeviceInv, ExclusiveOpen, ReadsOwnMessage, RefsExact,
     OutIsIdle, MineIsMsg, Callers, Holders
<1> QED
  BY <1>1, <1>2, <1>3, <1>3o, <1>4, <1>5, <1>6, <1>7, <1>8, <1>9, <1>10, <1>11, <1>12, <1>13
     DEF Next, Write

-----------------------------------------------------------------------------
(* ioctl.c.  What is held is determined by the step of init or exit.       *)

HeldAt ==
    [out |-> {}, class |-> {"region"}, device |-> {"region", "class"},
     cdev |-> {"region", "class", "device"}, in |-> Ioctl!Resources,
     exit_class |-> {"region", "class", "cdev"},
     exit_cdev |-> {"region", "cdev"}, exit_region |-> {"region"}]
Looping == {u \in Procs : upc[u] = "loop"}

IoctlInv ==
    /\ IoctlSound
    /\ held = HeldAt[step]
    /\ driverRefs = Cardinality(Looping)

\* What the count of loops does when one program enters or leaves its loop.
LEMMA LoopingCounts ==
    ASSUME upc \in [Procs -> {"start", "loop", "failed"}], NEW u \in Procs
    PROVE  /\ Cardinality(Looping) \in 0 .. Cardinality(Procs)
           /\ Cardinality(Looping \cup {u}) \in 0 .. Cardinality(Procs)
           /\ Cardinality(Looping \ {u}) \in 0 .. Cardinality(Procs)
           /\ upc[u] # "loop" => Cardinality(Looping \cup {u}) = Cardinality(Looping) + 1
           /\ upc[u] = "loop" => Cardinality(Looping \ {u}) = Cardinality(Looping) - 1
           /\ upc[u] # "loop" => Looping \ {u} = Looping
<1> USE RdOnlyDeviceAssumption DEF RdOnlyDeviceAssumption
<1>1. /\ IsFiniteSet(Looping)
      /\ Looping \subseteq Procs /\ Looping \cup {u} \subseteq Procs /\ Looping \ {u} \subseteq Procs
  BY FS_Subset DEF Looping
<1>2. u \in Looping <=> upc[u] = "loop"
  BY DEF Looping
<1>3. /\ Cardinality(Looping) \in 0 .. Cardinality(Procs)
      /\ Cardinality(Looping \cup {u}) \in 0 .. Cardinality(Procs)
      /\ Cardinality(Looping \ {u}) \in 0 .. Cardinality(Procs)
  BY <1>1, FS_Subset, FS_CardinalityType
<1>4. upc[u] # "loop" => Cardinality(Looping \cup {u}) = Cardinality(Looping) + 1
  BY <1>1, <1>2, FS_AddElement
<1>5. upc[u] = "loop" => Cardinality(Looping \ {u}) = Cardinality(Looping) - 1
  BY <1>1, <1>2, FS_RemoveElement
<1> QED
  BY <1>2, <1>3, <1>4, <1>5

\* The two names of one operator.
LEMMA SameCardinality == \A S : Ioctl!Cardinality(S) = Cardinality(S)
BY DEF Ioctl!Cardinality, Cardinality

\* What a step of a user program must see to.
LEMMA IoctlUserStep ==
    ASSUME IoctlInv, UNCHANGED <<step, held>>,
           upc' \in [Procs -> {"start", "loop", "failed"}],
           \A u \in Procs : upc'[u] = "loop" => step = "in",
           last' \in [Procs -> {"none", "pid", "argument"}],
           driverRefs' = Cardinality(Looping'),
           driverRefs' \in 0 .. Cardinality(Procs)
    PROVE  IoctlInv'
<1>1. Ioctl!TypeOK'
  <2>1. last' \in [Procs -> Ioctl!Replies]
    BY DEF Ioctl!Replies
  <2>2. /\ step' \in {"out", "in"} \cup Ioctl!InitSteps \cup Ioctl!ExitSteps
        /\ held' \subseteq Ioctl!Resources
    BY DEF IoctlInv, IoctlSound, Ioctl!TypeOK
  <2> QED
    BY <2>1, <2>2, SameCardinality DEF Ioctl!TypeOK
<1>2. (Ioctl!AllOrNothing /\ Ioctl!Nested)'
  BY DEF IoctlInv, IoctlSound, Ioctl!AllOrNothing, Ioctl!Nested
<1>3. (Ioctl!OpenKeepsModule /\ Ioctl!CommandsKnown)'
  BY DEF Ioctl!OpenKeepsModule, Ioctl!CommandsKnown
<1>4. (held = HeldAt[step])'
  BY DEF IoctlInv, HeldAt
<1> QED
  BY <1>1, <1>2, <1>3, <1>4 DEF IoctlInv, IoctlSound

\* Every step of init, of exit and of a user program keeps it.
LEMMA IoctlStep == ASSUME IoctlInv, [Ioctl!Next]_ioctl PROVE IoctlInv'
<1> USE DEF IoctlInv, IoctlSound, Ioctl!TypeOK, Ioctl!AllOrNothing, Ioctl!Nested,
            Ioctl!OpenKeepsModule, Ioctl!CommandsKnown, Ioctl!Resources,
            Ioctl!InitSteps, Ioctl!ExitSteps, Ioctl!Replies, Ioctl!user, HeldAt
<1>0. ASSUME upc' = upc PROVE Cardinality(Looping') = Cardinality(Looping)
  BY <1>0 DEF Looping
<1>1. CASE Ioctl!AllocRegion
  BY <1>1, <1>0 DEF Ioctl!AllocRegion
<1>2. CASE Ioctl!CreateClass
  BY <1>2, <1>0 DEF Ioctl!CreateClass
<1>3. CASE Ioctl!CreateDevice
  BY <1>3, <1>0 DEF Ioctl!CreateDevice
<1>4. CASE Ioctl!AddCdev
  BY <1>4, <1>0 DEF Ioctl!AddCdev
<1>5. CASE Ioctl!DestroyDevice
  <2>1. Looping = {}
    BY <1>5, FS_Subset, FS_EmptySet, RdOnlyDeviceAssumption
       DEF Ioctl!DestroyDevice, RdOnlyDeviceAssumption, Looping
  <2> QED
    BY <1>0, <1>5, <2>1 DEF Ioctl!DestroyDevice, Looping
<1>6. CASE Ioctl!DestroyClass
  BY <1>6, <1>0 DEF Ioctl!DestroyClass
<1>7. CASE Ioctl!DelCdev
  BY <1>7, <1>0 DEF Ioctl!DelCdev
<1>8. CASE Ioctl!FreeRegion
  BY <1>8, <1>0 DEF Ioctl!FreeRegion
<1>9. CASE UNCHANGED ioctl
  BY <1>0, <1>9 DEF ioctl
<1>10. ASSUME NEW u \in Procs, Ioctl!UserOpen(u) PROVE IoctlInv'
  <2>1. CASE {"device", "cdev"} \subseteq held /\ step \notin Ioctl!ExitSteps
    <3>1. step = "in"
      BY <2>1
    <3>2. /\ upc' = [upc EXCEPT ![u] = "loop"] /\ upc[u] = "start"
          /\ driverRefs' = driverRefs + 1
          /\ UNCHANGED <<step, held, last>>
      BY <1>10, <2>1 DEF Ioctl!UserOpen, Ioctl!OwnerRefs
    <3>3. Looping' = Looping \cup {u}
      BY <3>2 DEF Looping
    <3>4. driverRefs' = Cardinality(Looping') /\ driverRefs' \in 0 .. Cardinality(Procs)
      BY <3>2, <3>3, LoopingCounts
    <3> QED
      BY <3>1, <3>2, <3>4, IoctlUserStep
  <2>2. CASE ~({"device", "cdev"} \subseteq held /\ step \notin Ioctl!ExitSteps)
    <3>1. /\ upc' = [upc EXCEPT ![u] = "failed"] /\ upc[u] = "start"
          /\ UNCHANGED <<driverRefs, step, held, last>>
      BY <1>10, <2>2 DEF Ioctl!UserOpen
    <3>2. Looping' = Looping
      BY <3>1 DEF Looping
    <3> QED
      BY <3>1, <3>2, IoctlUserStep
  <2> QED
    BY <2>1, <2>2
<1>11. ASSUME NEW u \in Procs, NEW cmd \in {1, 2}, Ioctl!UserIoctl(u, cmd) PROVE IoctlInv'
  <2>1. Ioctl!Reply(cmd, 8) \in {"pid", "argument"}
    BY DEF Ioctl!Reply
  <2>2. /\ last' = [last EXCEPT ![u] = Ioctl!Reply(cmd, 8)]
        /\ UNCHANGED <<upc, driverRefs, step, held>>
    BY <1>11, <2>1 DEF Ioctl!UserIoctl
  <2> QED
    BY <1>0, <2>1, <2>2, IoctlUserStep
<1>12. ASSUME NEW u \in Procs, Ioctl!UserExit(u) PROVE IoctlInv'
  <2>1. /\ upc' = [upc EXCEPT ![u] = "start"] /\ upc[u] = "loop"
        /\ driverRefs' = driverRefs - 1
        /\ last' = [last EXCEPT ![u] = "none"]
        /\ UNCHANGED <<step, held>>
    BY <1>12 DEF Ioctl!UserExit, Ioctl!OwnerRefs
  <2>2. Looping' = Looping \ {u}
    BY <2>1 DEF Looping
  <2>3. driverRefs' = Cardinality(Looping') /\ driverRefs' \in 0 .. Cardinality(Procs)
    BY <2>1, <2>2, LoopingCounts
  <2> QED
    BY <2>1, <2>3, IoctlUserStep
<1>13. ASSUME NEW u \in Procs, Ioctl!UserRestart(u) PROVE IoctlInv'
  <2>1. /\ upc' = [upc EXCEPT ![u] = "start"] /\ upc[u] = "failed"
        /\ UNCHANGED <<driverRefs, step, held, last>>
    BY <1>13 DEF Ioctl!UserRestart
  <2>2. Looping' = Looping
    BY <2>1 DEF Looping
  <2> QED
    BY <2>1, <2>2, IoctlUserStep
<1> QED
  BY <1>1, <1>2, <1>3, <1>4, <1>5, <1>6, <1>7, <1>8, <1>9, <1>10, <1>11, <1>12, <1>13 DEF Ioctl!Next, Ioctl!ModuleNext

-----------------------------------------------------------------------------
(* read-write-procfs-file.c.  A write that nothing has overlapped so far   *)
(* is alone, and the static size and buffer are what it made them.         *)

Kept(w) == IF len[w] > PROCFS_MAX_SIZE THEN PROCFS_MAX_SIZE ELSE len[w]

BufferAlone ==
    \A v, w \in Writers :
        Buffer!Active(v) /\ Buffer!Active(w) /\ ~overlapped[v] => v = w

BufferOwn ==
    \A w \in Writers : ~overlapped[w] =>
        /\ wpc[w] = "clamp" => procfs_buf_size = len[w]
        /\ wpc[w] \in {"copy", "terminate", "return"} => procfs_buf_size = Kept(w)
        /\ wpc[w] \in {"terminate", "return"} => copied[w] = Kept(w)
        /\ wpc[w] = "terminate" => content = [by |-> w, n |-> Kept(w)]

BufferInv ==
    /\ Buffer!TypeOK
    /\ Buffer!CopyFits /\ Buffer!ReturnsCopied /\ Buffer!PrintsOwn
    /\ BufferAlone /\ BufferOwn

\* The place of the terminator: behind a text that leaves room for it, and at
\* the first byte of a full buffer.
LEMMA Terminator ==
    ASSUME NEW n \in Nat
    PROVE  /\ n % PROCFS_MAX_SIZE \in 0 .. PROCFS_MAX_SIZE - 1
           /\ n < PROCFS_MAX_SIZE => n % PROCFS_MAX_SIZE = n
           /\ n = PROCFS_MAX_SIZE => n % PROCFS_MAX_SIZE = 0
BY KernelAssumption DEF KernelAssumption

\* Every access of a writer to the size or the buffer keeps it.
LEMMA BufferStep == ASSUME BufferInv, [Buffer!Next]_buffer PROVE BufferInv'
<1> USE KernelAssumption DEF KernelAssumption, Buffer!TypeOK, Buffer!Active,
        Buffer!Pcs, Buffer!Texts, Buffer!Lengths, Buffer!EFAULT, Buffer!WriterGoes, Kept
<1>0. /\ Buffer!TypeOK /\ Buffer!CopyFits /\ Buffer!ReturnsCopied /\ Buffer!PrintsOwn
      /\ BufferAlone /\ BufferOwn
  BY DEF BufferInv
<1>1. ASSUME NEW w \in Writers, NEW n \in Buffer!Lengths, Buffer!WriteSize(w, n) PROVE BufferInv'
  <2>1. Buffer!TypeOK'
    <3>1. overlapped' \in [Writers -> BOOLEAN]
      BY <1>0, <1>1, Zenon DEF Buffer!WriteSize
    <3>2. /\ procfs_buf_size' = n /\ wpc' = [wpc EXCEPT ![w] = "clamp"]
          /\ len' = [len EXCEPT ![w] = n] /\ copied' = [copied EXCEPT ![w] = 0]
          /\ overrun' = [overrun EXCEPT ![w] = FALSE]
          /\ UNCHANGED <<content, result, printed>>
      BY <1>1 DEF Buffer!WriteSize
    <3> QED
      BY <1>0, <3>1, <3>2
  <2>2. Buffer!CopyFits'
    BY <1>0, <1>1 DEF Buffer!WriteSize, Buffer!CopyFits, BufferOwn
  <2>3. Buffer!ReturnsCopied'
    BY <1>0, <1>1 DEF Buffer!WriteSize, Buffer!ReturnsCopied, BufferOwn
  <2>4. Buffer!PrintsOwn'
    BY <1>0, <1>1 DEF Buffer!WriteSize, Buffer!PrintsOwn, BufferOwn
  <2>5. BufferAlone'
    BY <1>0, <1>1 DEF Buffer!WriteSize, BufferAlone
  <2>6. BufferOwn'
    BY <1>0, <1>1 DEF Buffer!WriteSize, BufferOwn, BufferAlone
  <2> QED
    BY <2>1, <2>2, <2>3, <2>4, <2>5, <2>6 DEF BufferInv
<1>2. ASSUME NEW w \in Writers, Buffer!WriteClamp(w) PROVE BufferInv'
  <2>1. Buffer!TypeOK'
    BY <1>0, <1>2 DEF Buffer!WriteClamp
  <2>2. Buffer!CopyFits'
    BY <1>0, <1>2 DEF Buffer!WriteClamp, Buffer!CopyFits, BufferOwn
  <2>3. Buffer!ReturnsCopied'
    BY <1>0, <1>2 DEF Buffer!WriteClamp, Buffer!ReturnsCopied, BufferOwn
  <2>4. Buffer!PrintsOwn'
    BY <1>0, <1>2 DEF Buffer!WriteClamp, Buffer!PrintsOwn, BufferOwn
  <2>5. BufferAlone'
    BY <1>0, <1>2 DEF Buffer!WriteClamp, BufferAlone
  <2>6. BufferOwn'
    BY <1>0, <1>2 DEF Buffer!WriteClamp, BufferOwn, BufferAlone
  <2> QED
    BY <2>1, <2>2, <2>3, <2>4, <2>5, <2>6 DEF BufferInv
<1>3. ASSUME NEW w \in Writers, Buffer!WriteCopy(w) PROVE BufferInv'
  <2>1. Buffer!TypeOK'
    BY <1>0, <1>3 DEF Buffer!WriteCopy
  <2>2. Buffer!CopyFits'
    BY <1>0, <1>3 DEF Buffer!WriteCopy, Buffer!CopyFits, BufferOwn
  <2>3. Buffer!ReturnsCopied'
    BY <1>0, <1>3 DEF Buffer!WriteCopy, Buffer!ReturnsCopied, BufferOwn
  <2>4. Buffer!PrintsOwn'
    BY <1>0, <1>3 DEF Buffer!WriteCopy, Buffer!PrintsOwn, BufferOwn
  <2>5. BufferAlone'
    BY <1>0, <1>3 DEF Buffer!WriteCopy, BufferAlone
  <2>6. BufferOwn'
    BY <1>0, <1>3 DEF Buffer!WriteCopy, BufferOwn, BufferAlone
  <2> QED
    BY <2>1, <2>2, <2>3, <2>4, <2>5, <2>6 DEF BufferInv
<1>4. ASSUME NEW w \in Writers, Buffer!WriteFault(w) PROVE BufferInv'
  <2>1. Buffer!TypeOK'
    BY <1>0, <1>4 DEF Buffer!WriteFault
  <2>2. Buffer!CopyFits'
    BY <1>0, <1>4 DEF Buffer!WriteFault, Buffer!CopyFits, BufferOwn
  <2>3. Buffer!ReturnsCopied'
    BY <1>0, <1>4 DEF Buffer!WriteFault, Buffer!ReturnsCopied, BufferOwn
  <2>4. Buffer!PrintsOwn'
    BY <1>0, <1>4 DEF Buffer!WriteFault, Buffer!PrintsOwn, BufferOwn
  <2>5. BufferAlone'
    BY <1>0, <1>4 DEF Buffer!WriteFault, BufferAlone
  <2>6. BufferOwn'
    BY <1>0, <1>4 DEF Buffer!WriteFault, BufferOwn, BufferAlone
  <2> QED
    BY <2>1, <2>2, <2>3, <2>4, <2>5, <2>6 DEF BufferInv
<1>5. ASSUME NEW w \in Writers, Buffer!WriteTerminate(w) PROVE BufferInv'
  <2>1. Buffer!TypeOK'
    BY <1>0, <1>5, Terminator DEF Buffer!WriteTerminate
  <2>2. Buffer!CopyFits'
    BY <1>0, <1>5, Terminator DEF Buffer!WriteTerminate, Buffer!CopyFits, BufferOwn
  <2>3. Buffer!ReturnsCopied'
    BY <1>0, <1>5, Terminator DEF Buffer!WriteTerminate, Buffer!ReturnsCopied, BufferOwn
  <2>4. Buffer!PrintsOwn'
    BY <1>0, <1>5, Terminator DEF Buffer!WriteTerminate, Buffer!PrintsOwn, BufferOwn
  <2>5. BufferAlone'
    BY <1>0, <1>5, Terminator DEF Buffer!WriteTerminate, BufferAlone
  <2>6. BufferOwn'
    BY <1>0, <1>5, Terminator DEF Buffer!WriteTerminate, BufferOwn, BufferAlone
  <2> QED
    BY <2>1, <2>2, <2>3, <2>4, <2>5, <2>6 DEF BufferInv
<1>6. ASSUME NEW w \in Writers, Buffer!WriteReturn(w) PROVE BufferInv'
  <2>1. Buffer!TypeOK'
    BY <1>0, <1>6 DEF Buffer!WriteReturn
  <2>2. Buffer!CopyFits'
    BY <1>0, <1>6 DEF Buffer!WriteReturn, Buffer!CopyFits, BufferOwn
  <2>3. Buffer!ReturnsCopied'
    BY <1>0, <1>6 DEF Buffer!WriteReturn, Buffer!ReturnsCopied, BufferOwn
  <2>4. Buffer!PrintsOwn'
    BY <1>0, <1>6 DEF Buffer!WriteReturn, Buffer!PrintsOwn, BufferOwn
  <2>5. BufferAlone'
    BY <1>0, <1>6 DEF Buffer!WriteReturn, BufferAlone
  <2>6. BufferOwn'
    BY <1>0, <1>6 DEF Buffer!WriteReturn, BufferOwn, BufferAlone
  <2> QED
    BY <2>1, <2>2, <2>3, <2>4, <2>5, <2>6 DEF BufferInv
<1>7. CASE UNCHANGED buffer
  BY <1>0, <1>7 DEF buffer, BufferInv, Buffer!CopyFits, Buffer!ReturnsCopied,
     Buffer!PrintsOwn, BufferAlone, BufferOwn
<1> QED
  BY <1>1, <1>2, <1>3, <1>4, <1>5, <1>6, <1>7 DEF Buffer!Next

-----------------------------------------------------------------------------
(* The procfs modules.  An entry belongs to a module of its name, and an   *)
(* open file leads to a loaded module.                                     *)

EntriesInv ==
    /\ Entries!TypeOK
    /\ Entries!LoadedHasEntry /\ Entries!GoneLeavesNothing
    /\ \A n \in Entries!Names : entry[n] \in Mods => NameOf[entry[n]] = n
    /\ \A r \in Readers : opened[r] \in Mods => opened[r] \in loaded

\* Each init, failing init and exit, and each call of a reader, keeps it.
LEMMA EntriesStep == ASSUME EntriesInv, [Entries!Next]_entries PROVE EntriesInv'
<1> USE DEF EntriesInv, Entries!TypeOK, Entries!LoadedHasEntry,
            Entries!GoneLeavesNothing, Entries!Idle, Entries!reader
<1>0. /\ "none" \notin Mods
      /\ \A m \in Mods : NameOf[m] \in Entries!Names
  BY DEF Mods, Entries!Names
<1> USE <1>0
<1>1. ASSUME NEW m \in Mods, Entries!ProcInit(m) PROVE EntriesInv'
  BY <1>1 DEF Entries!ProcInit
<1>2. ASSUME NEW m \in Mods, Entries!ProcInitFails(m) PROVE EntriesInv'
  BY <1>2 DEF Entries!ProcInitFails, Entries!vars
<1>3. ASSUME NEW m \in Mods, Entries!ProcInitFailsByName(m) PROVE EntriesInv'
  BY <1>3 DEF Entries!ProcInitFailsByName
<1>4. ASSUME NEW m \in Mods, Entries!ProcExit(m) PROVE EntriesInv'
  BY <1>4 DEF Entries!ProcExit
<1>5. ASSUME NEW r \in Readers, NEW n \in Entries!Names, Entries!Open(r, n) PROVE EntriesInv'
  BY <1>5 DEF Entries!Open
<1>6. ASSUME NEW r \in Readers, Entries!ReadEnter(r) PROVE EntriesInv'
  BY <1>6 DEF Entries!ReadEnter
<1>7. ASSUME NEW r \in Readers, Entries!ReadText(r) PROVE EntriesInv'
  BY <1>7 DEF Entries!ReadText
<1>8. ASSUME NEW r \in Readers, Entries!ReadEnd(r) PROVE EntriesInv'
  BY <1>8 DEF Entries!ReadEnd
<1>9. ASSUME NEW r \in Readers, Entries!ReadFault(r) PROVE EntriesInv'
  BY <1>9 DEF Entries!ReadFault
<1>10. ASSUME NEW r \in Readers, Entries!Close(r) PROVE EntriesInv'
  BY <1>10 DEF Entries!Close
<1>11. CASE UNCHANGED entries
  BY <1>11 DEF entries
<1> QED
  BY <1>1, <1>2, <1>3, <1>4, <1>5, <1>6, <1>7, <1>8, <1>9, <1>10, <1>11 DEF Entries!Next, Entries!ReaderNext

-----------------------------------------------------------------------------
(* seq-file-procfs-file.c.  Every sequence that has not stored yet is      *)
(* still missing in the counter and in every value loaded from it; without *)
(* overlapping reads nothing else is.                                      *)

Reading == {f \in Procs : rpc[f] # "idle"}
NoLine(f) == rpc[f] = "show" \/ (rpc[f] = "idle" /\ index[f] = 0 /\ ~ends[f])

IterCount ==
    /\ iterCounter + Cardinality(Reading) <= started
    /\ \A f \in Procs : rpc[f] = "store" => temp[f] + Cardinality(Reading) <= started

IterExact ==
    ~raced => /\ iterCounter + Cardinality(Reading) = started
              /\ \A f, g \in Reading : f = g
              /\ \A f \in Procs : rpc[f] = "store" => temp[f] = iterCounter

IterLines ==
    /\ lines \in [Procs -> Seq(0 .. MaxReads)]
    /\ \A f \in Procs : /\ Len(lines[f]) = IF NoLine(f) THEN 0 ELSE 1
                        /\ f \in Reading => index[f] = 0 /\ ~ends[f]

IterInv ==
    /\ Iter!TypeOK
    /\ Iter!OneLinePerPass /\ Iter!CountsSequences /\ Iter!NeverAhead
    /\ IterCount /\ IterExact /\ IterLines

\* How the set of reads underway changes.
LEMMA ReadingCounts ==
    ASSUME NEW f \in Procs
    PROVE  /\ Cardinality(Reading) \in Nat
           /\ Cardinality(Reading) = 0 <=> Reading = {}
           /\ f \notin Reading => Cardinality(Reading \cup {f}) = Cardinality(Reading) + 1
           /\ f \in Reading => /\ Cardinality(Reading \ {f}) = Cardinality(Reading) - 1
                               /\ Cardinality(Reading) > 0
<1>1. IsFiniteSet(Reading)
  BY FS_Subset, RdOnlyDeviceAssumption DEF Reading, RdOnlyDeviceAssumption
<1>2. Cardinality(Reading) \in Nat
  BY <1>1, FS_CardinalityType
<1>3. Cardinality(Reading) = 0 <=> Reading = {}
  BY <1>1, FS_EmptySet
<1>4. f \notin Reading => Cardinality(Reading \cup {f}) = Cardinality(Reading) + 1
  BY <1>1, FS_AddElement
<1>5. f \in Reading => Cardinality(Reading \ {f}) = Cardinality(Reading) - 1
  BY <1>1, FS_RemoveElement
<1> QED
  BY <1>2, <1>3, <1>4, <1>5

\* Every handler that the library calls keeps it.
LEMMA IterStep == ASSUME IterInv, [Iter!Next]_iter PROVE IterInv'
<1> USE KernelAssumption DEF KernelAssumption, Iter!TypeOK, Iter!Pcs, Iter!Goes
<1>0. /\ Iter!TypeOK /\ Iter!OneLinePerPass /\ Iter!CountsSequences /\ Iter!NeverAhead
      /\ IterCount /\ IterExact /\ IterLines
  BY DEF IterInv
<1>1. ASSUME NEW f \in Procs, Iter!Start(f) PROVE IterInv'
  <2>a. Reading' = Reading \cup {f} /\ f \notin Reading
    BY <1>0, <1>1 DEF Iter!Start, Reading
  <2>b. /\ Cardinality(Reading) \in Nat
        /\ Cardinality(Reading') = Cardinality(Reading) + 1
    BY <2>a, ReadingCounts
  <2>c. (\A g \in Procs : rpc'[g] = "idle") => Cardinality(Reading') = 0
    BY FS_EmptySet DEF Reading
  <2>d. /\ rpc[f] = "idle" /\ rpc' = [rpc EXCEPT ![f] = "show"]
        /\ started < MaxReads /\ started' = started + 1
        /\ index[f] = 0 /\ UNCHANGED <<iterCounter, index, temp>>
        /\ ends' = [ends EXCEPT ![f] = FALSE]
        /\ lines' = [lines EXCEPT ![f] = IF ends[f] THEN <<>> ELSE @]
    BY <1>1 DEF Iter!Start
  <2>e. /\ iterCounter \in Nat /\ started \in Nat
        /\ rpc \in [Procs -> Iter!Pcs] /\ temp \in [Procs -> Nat]
    BY <1>0
  <2>f. raced' \in BOOLEAN /\ (~raced' => ~raced /\ Reading = {})
    BY <1>0, <1>1, Zenon DEF Iter!Start, Reading
  <2>g. \A g \in Procs : lines'[g] = IF g = f THEN <<>> ELSE lines[g]
    BY <1>0, <2>d, <2>a DEF IterLines, NoLine
  <2>h. lines' \in [Procs -> Seq(0 .. MaxReads)]
    <3>1. <<>> \in Seq(0 .. MaxReads)
      OBVIOUS
    <3> QED
      BY <1>0, <2>d, <2>g, <3>1 DEF IterLines
  <2>1. Iter!TypeOK'
    BY <1>0, <2>d, <2>e, <2>f, <2>h
  <2>2. IterCount'
    BY <1>0, <2>b, <2>d, <2>e DEF IterCount
  <2>3. IterExact'
    <3> SUFFICES ASSUME ~raced, Reading = {}
                 PROVE  /\ iterCounter' + Cardinality(Reading') = started'
                        /\ \A g, h \in Reading' : g = h
                        /\ \A g \in Procs : rpc'[g] = "store" => temp'[g] = iterCounter'
      BY <2>f DEF IterExact
    <3>1. iterCounter' + Cardinality(Reading') = started'
      BY <1>0, <2>b, <2>d, <2>e DEF IterExact
    <3>2. \A g \in Procs : rpc'[g] # "store"
      BY <2>d, <2>e DEF Reading
    <3> QED
      BY <2>a, <3>1, <3>2
  <2>4. IterLines'
    BY <1>0, <2>a, <2>d, <2>e, <2>g, <2>h DEF IterLines, NoLine, Reading
  <2>5. Iter!OneLinePerPass'
    BY <1>0, <1>1, <2>a, <2>b, <2>4 DEF Iter!Start, Iter!OneLinePerPass, IterLines, NoLine, Reading
  <2>6. Iter!CountsSequences'
    BY <1>0, <1>1, <2>a, <2>b, <2>3, <2>c DEF Iter!Start, Iter!CountsSequences, IterExact
  <2>7. Iter!NeverAhead'
    BY <1>0, <1>1, <2>a, <2>b, <2>2 DEF Iter!Start, Iter!NeverAhead, IterCount, IterLines, NoLine
  <2> QED
    BY <2>1, <2>2, <2>3, <2>4, <2>5, <2>6, <2>7 DEF IterInv
<1>2. ASSUME NEW f \in Procs, Iter!StartAtEnd(f) PROVE IterInv'
  <2>a. Reading' = Reading /\ f \notin Reading
    BY <1>0, <1>2 DEF Iter!StartAtEnd, Reading
  <2>b. /\ Cardinality(Reading) \in Nat
        /\ Cardinality(Reading') = Cardinality(Reading)
    BY <2>a, ReadingCounts
  <2>c. (\A g \in Procs : rpc'[g] = "idle") => Cardinality(Reading') = 0
    BY FS_EmptySet DEF Reading
  <2>1. Iter!TypeOK'
    BY <1>0, <1>2, <2>a, <2>b DEF Iter!StartAtEnd, IterCount, IterLines
  <2>2. IterCount'
    BY <1>0, <1>2, <2>a, <2>b DEF Iter!StartAtEnd, IterCount
  <2>3. IterExact'
    BY <1>0, <1>2, <2>a, <2>b DEF Iter!StartAtEnd, IterExact
  <2>4. IterLines'
    BY <1>0, <1>2, <2>a, <2>b DEF Iter!StartAtEnd, IterLines, NoLine, Reading
  <2>5. Iter!OneLinePerPass'
    BY <1>0, <1>2, <2>a, <2>b, <2>4 DEF Iter!StartAtEnd, Iter!OneLinePerPass, IterLines, NoLine, Reading
  <2>6. Iter!CountsSequences'
    BY <1>0, <1>2, <2>a, <2>b, <2>3, <2>c DEF Iter!StartAtEnd, Iter!CountsSequences, IterExact
  <2>7. Iter!NeverAhead'
    BY <1>0, <1>2, <2>a, <2>b, <2>2 DEF Iter!StartAtEnd, Iter!NeverAhead, IterCount, IterLines, NoLine
  <2> QED
    BY <2>1, <2>2, <2>3, <2>4, <2>5, <2>6, <2>7 DEF IterInv
<1>3. ASSUME NEW f \in Procs, Iter!Show(f) PROVE IterInv'
  <2>a. Reading' = Reading /\ f \in Reading
    BY <1>0, <1>3 DEF Iter!Show, Reading
  <2>b. /\ Cardinality(Reading) \in Nat
        /\ Cardinality(Reading') = Cardinality(Reading)
        /\ Cardinality(Reading) > 0
    BY <2>a, ReadingCounts
  <2>c. (\A g \in Procs : rpc'[g] = "idle") => Cardinality(Reading') = 0
    BY FS_EmptySet DEF Reading
  <2>d. /\ rpc[f] = "show" /\ rpc' = [rpc EXCEPT ![f] = "next"]
        /\ lines' = [lines EXCEPT ![f] = Append(@, iterCounter)]
        /\ UNCHANGED <<iterCounter, index, temp, ends, started, raced>>
    BY <1>3 DEF Iter!Show
  <2>e. lines[f] \in Seq(0 .. MaxReads) /\ Len(lines[f]) = 0 /\ iterCounter \in 0 .. MaxReads
    BY <1>0, <2>d DEF IterLines, NoLine
  <2>f. Append(lines[f], iterCounter) \in Seq(0 .. MaxReads) /\ Len(Append(lines[f], iterCounter)) = 1
    BY <2>e, AppendProperties
  <2>g. lines' \in [Procs -> Seq(0 .. MaxReads)]
    BY <1>0, <2>d, <2>f DEF IterLines
  <2>1. Iter!TypeOK'
    BY <1>0, <2>d, <2>g
  <2>2. IterCount'
    BY <1>0, <1>3, <2>a, <2>b DEF Iter!Show, IterCount
  <2>3. IterExact'
    BY <1>0, <1>3, <2>a, <2>b DEF Iter!Show, IterExact
  <2>4. IterLines'
    BY <1>0, <2>a, <2>d, <2>f, <2>g DEF IterLines, NoLine, Reading
  <2>5. Iter!OneLinePerPass'
    BY <1>0, <1>3, <2>a, <2>b, <2>4 DEF Iter!Show, Iter!OneLinePerPass, IterLines, NoLine, Reading
  <2>6. Iter!CountsSequences'
    BY <1>0, <1>3, <2>a, <2>b, <2>3, <2>c DEF Iter!Show, Iter!CountsSequences, IterExact
  <2>7. Iter!NeverAhead'
    BY <1>0, <1>3, <2>a, <2>b, <2>2 DEF Iter!Show, Iter!NeverAhead, IterCount, IterLines, NoLine
  <2> QED
    BY <2>1, <2>2, <2>3, <2>4, <2>5, <2>6, <2>7 DEF IterInv
<1>4. ASSUME NEW f \in Procs, Iter!NextLoad(f) PROVE IterInv'
  <2>a. Reading' = Reading /\ f \in Reading
    BY <1>0, <1>4 DEF Iter!NextLoad, Reading
  <2>b. /\ Cardinality(Reading) \in Nat
        /\ Cardinality(Reading') = Cardinality(Reading)
        /\ Cardinality(Reading) > 0
    BY <2>a, ReadingCounts
  <2>c. (\A g \in Procs : rpc'[g] = "idle") => Cardinality(Reading') = 0
    BY FS_EmptySet DEF Reading
  <2>1. Iter!TypeOK'
    BY <1>0, <1>4, <2>a, <2>b DEF Iter!NextLoad, IterCount, IterLines
  <2>2. IterCount'
    BY <1>0, <1>4, <2>a, <2>b DEF Iter!NextLoad, IterCount
  <2>3. IterExact'
    BY <1>0, <1>4, <2>a, <2>b DEF Iter!NextLoad, IterExact
  <2>4. IterLines'
    BY <1>0, <1>4, <2>a, <2>b DEF Iter!NextLoad, IterLines, NoLine, Reading
  <2>5. Iter!OneLinePerPass'
    BY <1>0, <1>4, <2>a, <2>b, <2>4 DEF Iter!NextLoad, Iter!OneLinePerPass, IterLines, NoLine, Reading
  <2>6. Iter!CountsSequences'
    BY <1>0, <1>4, <2>a, <2>b, <2>3, <2>c DEF Iter!NextLoad, Iter!CountsSequences, IterExact
  <2>7. Iter!NeverAhead'
    BY <1>0, <1>4, <2>a, <2>b, <2>2 DEF Iter!NextLoad, Iter!NeverAhead, IterCount, IterLines, NoLine
  <2> QED
    BY <2>1, <2>2, <2>3, <2>4, <2>5, <2>6, <2>7 DEF IterInv
<1>5. ASSUME NEW f \in Procs, Iter!NextStore(f) PROVE IterInv'
  <2>a. Reading' = Reading \ {f} /\ f \in Reading
    BY <1>0, <1>5 DEF Iter!NextStore, Reading
  <2>b. /\ Cardinality(Reading) \in Nat
        /\ Cardinality(Reading') = Cardinality(Reading) - 1
        /\ Cardinality(Reading) > 0
    BY <2>a, ReadingCounts
  <2>c. (\A g \in Procs : rpc'[g] = "idle") => Cardinality(Reading') = 0
    BY FS_EmptySet DEF Reading
  <2>1. Iter!TypeOK'
    BY <1>0, <1>5, <2>a, <2>b DEF Iter!NextStore, IterCount, IterLines
  <2>d. /\ rpc[f] = "store" /\ rpc' = [rpc EXCEPT ![f] = "idle"]
        /\ iterCounter' = temp[f] + 1 /\ started' = started /\ raced' = raced
        /\ \A g \in Procs \ {f} : temp'[g] = temp[g]
    BY <1>0, <1>5 DEF Iter!NextStore
  <2>e. /\ iterCounter \in Nat /\ started \in Nat
        /\ rpc \in [Procs -> Iter!Pcs] /\ temp \in [Procs -> Nat]
    BY <1>0
  <2>2. IterCount'
    <3>1. iterCounter' + Cardinality(Reading') <= started'
      BY <1>0, <2>b, <2>d, <2>e DEF IterCount
    <3>2. ASSUME NEW g \in Procs, rpc'[g] = "store"
          PROVE  temp'[g] + Cardinality(Reading') <= started'
      BY <1>0, <2>b, <2>d, <2>e, <3>2 DEF IterCount
    <3> QED
      BY <3>1, <3>2 DEF IterCount
  <2>3. IterExact'
    <3> SUFFICES ASSUME ~raced
                 PROVE  /\ iterCounter' + Cardinality(Reading') = started'
                        /\ \A g, h \in Reading' : g = h
                        /\ \A g \in Procs : rpc'[g] = "store" => temp'[g] = iterCounter'
      BY <2>d DEF IterExact
    <3>1. iterCounter' + Cardinality(Reading') = started'
      BY <1>0, <2>b, <2>d, <2>e DEF IterExact
    <3>2. \A g \in Reading' : FALSE
      BY <1>0, <2>a DEF IterExact
    <3> QED
      BY <3>1, <3>2 DEF Reading
  <2>4. IterLines'
    BY <1>0, <1>5, <2>a, <2>b DEF Iter!NextStore, IterLines, NoLine, Reading
  <2>5. Iter!OneLinePerPass'
    BY <1>0, <1>5, <2>a, <2>b, <2>4 DEF Iter!NextStore, Iter!OneLinePerPass, IterLines, NoLine, Reading
  <2>6. Iter!CountsSequences'
    BY <1>0, <1>5, <2>a, <2>b, <2>3, <2>c DEF Iter!NextStore, Iter!CountsSequences, IterExact
  <2>7. Iter!NeverAhead'
    BY <1>0, <1>5, <2>a, <2>b, <2>2 DEF Iter!NextStore, Iter!NeverAhead, IterCount, IterLines, NoLine
  <2> QED
    BY <2>1, <2>2, <2>3, <2>4, <2>5, <2>6, <2>7 DEF IterInv
<1>6. CASE UNCHANGED iter
  BY <1>0, <1>6 DEF iter, IterInv, Iter!OneLinePerPass, Iter!CountsSequences,
     Iter!NeverAhead, IterCount, IterExact, IterLines, Reading, NoLine
<1> QED
  BY <1>1, <1>2, <1>3, <1>4, <1>5, <1>6 DEF Iter!Next

-----------------------------------------------------------------------------
(* syscall-spy.c.  While the hooks are put in and taken out in turn, the   *)
(* saved functions are a chain to the kernel's own, and a process that is  *)
(* in a hook finds the next function of the chain.                         *)

Unhooked ==
    IF other = "out" THEN table = "sys_open"
    ELSE table = "other_open" /\ saved = "sys_open"
Hooked ==
    \/ other = "out" /\ table = "funny_sys_open" /\ original = "sys_open"
    \/ other = "in" /\ table = "funny_sys_open" /\ original = "other_open" /\ saved = "sys_open"
    \/ other = "in" /\ table = "other_open" /\ saved = "funny_sys_open" /\ original = "sys_open"

\* Where a frame may stand: in a hook that is in, and before the call of the
\* spy the function it will call is in too.
FrameOk(frame) ==
    \/ frame \in {"sys_open", "overrun"}
    \/ frame \in Spy!OtherFrames /\ other = "in"
    \/ /\ frame \in Spy!SpyFrames
       /\ spc \in {"in", "sleep"}
       /\ frame = "funny_sys_open" /\ original = "other_open" => other = "in"

StacksOk == \A p \in Procs : \A i \in DOMAIN cpc[p] : FrameOk(cpc[p][i])

SpyTable ==
    /\ spc \in {"hook", "in", "sleep"} => original # "NULL"
    /\ other = "in" => saved # "NULL"
    /\ ~disorder =>
           /\ IF spc = "in" THEN Hooked ELSE Unhooked
           /\ spc \in {"hook", "sleep"} => original \in {"sys_open", "other_open"}

SpyInv ==
    /\ SpySound
    /\ SpyTable
    /\ ~disorder /\ ~slow => StacksOk

\* A step that leaves the stacks alone keeps the invariant, if it keeps the
\* types, the table and the places of the frames.
LEMMA SpyKeeps ==
    ASSUME Spy!TypeOK', Spy!TableValid', SpyTable',
           ~disorder' /\ ~slow' => StacksOk'
    PROVE  SpyInv'
<1>1. Spy!RunsPresentCode'
  <2>1. CASE disorder' \/ slow'
    BY <2>1 DEF Spy!RunsPresentCode
  <2>2. CASE ~disorder' /\ ~slow'
    <3>1. ASSUME NEW p \in Procs, NEW i \in DOMAIN cpc'[p]
          PROVE  cpc'[p][i] \in Spy!Present' \cup {"overrun"}
      <4>1. FrameOk(cpc[p][i])'
        BY <2>2 DEF StacksOk
      <4> QED
        BY <4>1 DEF FrameOk, Spy!Present, Spy!SpyFrames, Spy!OtherFrames
    <3> QED
      BY <3>1 DEF Spy!RunsPresentCode
  <2> QED
    BY <2>1, <2>2
<1> QED
  BY <1>1 DEF SpyInv, SpySound

\* A call leaves the frames below it and adds the place it returns to and the
\* function it calls.
LEMMA SpyCall ==
    ASSUME cpc \in [Procs -> Seq(Spy!Frames)],
           NEW p \in Procs, cpc[p] # <<>>,
           NEW back \in Spy!Frames, NEW function \in Spy!Frames,
           Spy!Call(p, back, function)
    PROVE  /\ cpc' \in [Procs -> Seq(Spy!Frames)]
           /\ \A q \in Procs : \A i \in DOMAIN cpc'[q] :
                  \/ i \in DOMAIN cpc[q] /\ cpc'[q][i] = cpc[q][i]
                  \/ cpc'[q][i] \in {back, function}
<1> DEFINE s == cpc[p]
           r == [s EXCEPT ![Len(s)] = back]
<1>1. s \in Seq(Spy!Frames) /\ Len(s) \in 1 .. Len(s) /\ Len(s) \in Nat
  BY EmptySeq
<1>2. r \in Seq(Spy!Frames) /\ Len(r) = Len(s)
      /\ \A i \in 1 .. Len(s) : r[i] = s[i] \/ r[i] = back
  BY <1>1
<1>3. /\ Append(r, function) \in Seq(Spy!Frames)
      /\ DOMAIN Append(r, function) = 1 .. Len(s) + 1
      /\ \A i \in 1 .. Len(s) + 1 :
             \/ i \in DOMAIN s /\ Append(r, function)[i] = s[i]
             \/ Append(r, function)[i] \in {back, function}
  <2> HIDE DEF r
  <2> QED
    BY <1>1, <1>2
<1>4. cpc' = [cpc EXCEPT ![p] = Append(r, function)]
  BY DEF Spy!Call
<1> HIDE DEF r, s
<1> QED
  BY <1>3, <1>4 DEF s

\* A return leaves the frames below.
LEMMA SpyReturn ==
    ASSUME cpc \in [Procs -> Seq(Spy!Frames)],
           NEW p \in Procs, cpc[p] # <<>>,
           Spy!Return(p)
    PROVE  /\ cpc' \in [Procs -> Seq(Spy!Frames)]
           /\ \A q \in Procs : \A i \in DOMAIN cpc'[q] :
                  i \in DOMAIN cpc[q] /\ cpc'[q][i] = cpc[q][i]
<1> DEFINE s == cpc[p]
           r == SubSeq(s, 1, Len(s) - 1)
<1>1. s \in Seq(Spy!Frames) /\ Len(s) \in Nat \ {0}
  BY EmptySeq
<1>2. /\ r \in Seq(Spy!Frames)
      /\ \A i \in DOMAIN r : i \in DOMAIN s /\ r[i] = s[i]
  BY <1>1
<1>3. cpc' = [cpc EXCEPT ![p] = r]
  BY DEF Spy!Return
<1> HIDE DEF r, s
<1> QED
  BY <1>2, <1>3 DEF s

\* Every step of the two modules and of the processes keeps it.
LEMMA SpyStep == ASSUME SpyInv, [Spy!Next]_spy PROVE SpyInv'
<1> USE DEF SpySound, Spy!TypeOK, Spy!TableValid, SpyTable,
            Spy!Present, Spy!Functions, Hooked, Unhooked
<1>0. Spy!TypeOK /\ Spy!TableValid /\ SpyTable /\ (~disorder /\ ~slow => StacksOk)
  BY DEF SpyInv
<1>f. /\ "funny_sys_open" \in Spy!Frames /\ "funny_return" \in Spy!Frames
      /\ "other_return" \in Spy!Frames
      /\ Spy!Functions \subseteq Spy!Frames
  BY DEF Spy!Frames, Spy!SpyFrames, Spy!OtherFrames
<1>1. CASE Spy!InitAcquire
  <2>1. Spy!TypeOK' /\ Spy!TableValid' /\ SpyTable'
    BY <1>0, <1>1 DEF Spy!InitAcquire
  <2>2. ~disorder' /\ ~slow' => StacksOk'
    BY <1>0, <1>1 DEF Spy!InitAcquire, StacksOk, FrameOk
  <2> QED
    BY <2>1, <2>2, SpyKeeps
<1>2. CASE Spy!InitSave
  <2>1. Spy!TypeOK' /\ Spy!TableValid' /\ SpyTable'
    BY <1>0, <1>2 DEF Spy!InitSave
  <2>2. ~disorder' /\ ~slow' => StacksOk'
    BY <1>0, <1>2 DEF Spy!InitSave, StacksOk, FrameOk
  <2> QED
    BY <2>1, <2>2, SpyKeeps
<1>3. CASE Spy!InitHook
  <2>1. Spy!TypeOK' /\ Spy!TableValid' /\ SpyTable'
    BY <1>0, <1>3 DEF Spy!InitHook, Spy!SpyFrames, Spy!OtherFrames
  <2>2. ~disorder' /\ ~slow' => StacksOk'
    BY <1>0, <1>3 DEF Spy!InitHook, StacksOk, FrameOk
  <2> QED
    BY <2>1, <2>2, SpyKeeps
<1>4. CASE Spy!ExitRestore
  <2>1. Spy!TypeOK' /\ Spy!TableValid' /\ SpyTable'
    BY <1>0, <1>4 DEF Spy!ExitRestore, Spy!SpyFrames, Spy!OtherFrames
  <2>2. ~disorder' /\ ~slow' => StacksOk'
    BY <1>0, <1>4 DEF Spy!ExitRestore, StacksOk, FrameOk
  <2> QED
    BY <2>1, <2>2, SpyKeeps
<1>5. CASE Spy!ExitSleep
  <2>1. Spy!TypeOK' /\ Spy!TableValid' /\ SpyTable'
    BY <1>0, <1>5 DEF Spy!ExitSleep, Spy!SpyFrames, Spy!OtherFrames
  <2>2. ~disorder' /\ ~slow' => StacksOk'
    BY <1>0, <1>5 DEF Spy!ExitSleep, Spy!Inside, StacksOk, FrameOk
  <2> QED
    BY <2>1, <2>2, SpyKeeps
<1>6. CASE Spy!OtherHook
  <2>1. Spy!TypeOK' /\ Spy!TableValid' /\ SpyTable'
    BY <1>0, <1>6 DEF Spy!OtherHook, Spy!SpyFrames, Spy!OtherFrames
  <2>2. ~disorder' /\ ~slow' => StacksOk'
    BY <1>0, <1>6 DEF Spy!OtherHook, StacksOk, FrameOk
  <2> QED
    BY <2>1, <2>2, SpyKeeps
<1>7. CASE Spy!OtherUnhook
  <2>1. Spy!TypeOK' /\ Spy!TableValid' /\ SpyTable'
    BY <1>0, <1>7 DEF Spy!OtherUnhook, Spy!SpyFrames, Spy!OtherFrames
  <2>2. ~disorder' /\ ~slow' => StacksOk'
    BY <1>0, <1>7 DEF Spy!OtherUnhook, Spy!Inside, StacksOk, FrameOk
  <2> QED
    BY <2>1, <2>2, SpyKeeps
<1>8. ASSUME NEW p \in Procs, UNCHANGED Spy!modules,
             cpc' \in [Procs -> Seq(Spy!Frames)],
             ~disorder /\ ~slow => StacksOk'
      PROVE  SpyInv'
  <2>1. Spy!TypeOK' /\ Spy!TableValid' /\ SpyTable'
    BY <1>0, <1>8 DEF Spy!modules
  <2>2. ~disorder' /\ ~slow' => StacksOk'
    BY <1>8 DEF Spy!modules
  <2> QED
    BY <2>1, <2>2, SpyKeeps
<1>9. ASSUME NEW p \in Procs, Spy!Enter(p) PROVE SpyInv'
  <2>1. /\ UNCHANGED Spy!modules
        /\ cpc' = [cpc EXCEPT ![p] = <<table>>]
        /\ <<table>> \in Seq(Spy!Frames)
    BY <1>0, <1>9, <1>f DEF Spy!Enter
  <2>2. FrameOk(table)' \/ disorder \/ slow
    BY <1>0, <2>1 DEF FrameOk, Spy!modules, Spy!SpyFrames, Spy!OtherFrames
  <2>3. ~disorder /\ ~slow => StacksOk'
    <3>1. SUFFICES ASSUME ~disorder, ~slow, NEW q \in Procs, NEW i \in DOMAIN cpc'[q]
                   PROVE  FrameOk(cpc[q][i])'
      BY DEF StacksOk
    <3>2. CASE q = p
      BY <2>1, <2>2, <3>1, <3>2, <1>0 DEF Spy!modules, FrameOk
    <3>3. CASE q # p
      BY <1>0, <2>1, <3>1, <3>3 DEF StacksOk, FrameOk, Spy!modules
    <3> QED
      BY <3>2, <3>3
  <2> QED
    BY <1>0, <1>8, <2>1, <2>3
<1>10. ASSUME NEW p \in Procs, Spy!FunnySysOpen(p) PROVE SpyInv'
  <2>1. /\ UNCHANGED Spy!modules /\ cpc[p] # <<>> /\ spc # "out"
        /\ cpc[p][Len(cpc[p])] = "funny_sys_open" /\ Len(cpc[p]) \in DOMAIN cpc[p]
        /\ Spy!Call(p, "funny_return", original) /\ original \in Spy!Frames
    BY <1>0, <1>10, <1>f, EmptySeq DEF Spy!FunnySysOpen, Spy!At
  <2>2. ~disorder /\ ~slow => FrameOk("funny_return") /\ FrameOk(original)
    BY <1>0, <2>1 DEF StacksOk, FrameOk, Spy!SpyFrames, Spy!OtherFrames
  <2>3. /\ cpc' \in [Procs -> Seq(Spy!Frames)]
        /\ \A q \in Procs : \A i \in DOMAIN cpc'[q] :
               \/ i \in DOMAIN cpc[q] /\ cpc'[q][i] = cpc[q][i]
               \/ cpc'[q][i] \in {"funny_return", original}
    BY <1>0, <1>f, <2>1, SpyCall
  <2>4. ~disorder /\ ~slow => StacksOk'
    BY <1>0, <2>1, <2>2, <2>3 DEF StacksOk, FrameOk, Spy!modules
  <2> QED
    BY <1>8, <2>1, <2>3, <2>4
<1>11. ASSUME NEW p \in Procs, Spy!FunnySysOpenReturn(p) PROVE SpyInv'
  BY <1>0, <1>8, <1>11, SpyReturn
     DEF Spy!FunnySysOpenReturn, Spy!At, StacksOk, FrameOk, Spy!modules
<1>12. ASSUME NEW p \in Procs, Spy!FunnySysOpenOverrun(p) PROVE SpyInv'
  <2>1. /\ UNCHANGED Spy!modules
        /\ cpc' = [cpc EXCEPT ![p] = <<"overrun">>]
        /\ <<"overrun">> \in Seq(Spy!Frames)
    BY <1>12 DEF Spy!FunnySysOpenOverrun, Spy!Frames
  <2>2. ~disorder /\ ~slow => StacksOk'
    BY <1>0, <2>1 DEF StacksOk, FrameOk, Spy!modules
  <2> QED
    BY <1>0, <1>8, <2>1, <2>2
<1>13. ASSUME NEW p \in Procs, Spy!OtherOpen(p) PROVE SpyInv'
  <2>1. /\ UNCHANGED Spy!modules /\ cpc[p] # <<>> /\ other = "in"
        /\ Spy!Call(p, "other_return", saved) /\ saved \in Spy!Frames
    BY <1>0, <1>13, <1>f DEF Spy!OtherOpen, Spy!At
  <2>2. ~disorder /\ ~slow => FrameOk("other_return") /\ FrameOk(saved)
    BY <1>0, <2>1 DEF FrameOk, Spy!SpyFrames, Spy!OtherFrames
  <2>3. /\ cpc' \in [Procs -> Seq(Spy!Frames)]
        /\ \A q \in Procs : \A i \in DOMAIN cpc'[q] :
               \/ i \in DOMAIN cpc[q] /\ cpc'[q][i] = cpc[q][i]
               \/ cpc'[q][i] \in {"other_return", saved}
    BY <1>0, <1>f, <2>1, SpyCall
  <2>4. ~disorder /\ ~slow => StacksOk'
    BY <1>0, <2>1, <2>2, <2>3 DEF StacksOk, FrameOk, Spy!modules
  <2> QED
    BY <1>8, <2>1, <2>3, <2>4
<1>14. ASSUME NEW p \in Procs, Spy!OtherReturn(p) PROVE SpyInv'
  BY <1>0, <1>8, <1>14, SpyReturn
     DEF Spy!OtherReturn, Spy!At, StacksOk, FrameOk, Spy!modules
<1>15. ASSUME NEW p \in Procs, Spy!SysOpen(p) PROVE SpyInv'
  BY <1>0, <1>8, <1>15, SpyReturn
     DEF Spy!SysOpen, Spy!At, StacksOk, FrameOk, Spy!modules
<1>16. CASE UNCHANGED spy
  BY <1>16 DEF spy, SpyInv, StacksOk, FrameOk, Spy!RunsPresentCode
<1> QED
  BY <1>1, <1>2, <1>3, <1>4, <1>5, <1>6, <1>7, <1>9, <1>10, <1>11, <1>12, <1>13, <1>14,
     <1>15, <1>16 DEF Spy!Next

-----------------------------------------------------------------------------
(* sysfs-module.c.  The directory is there without the module just when an *)
(* init has failed halfway, and then nothing loads the module again.       *)

SysfsInv ==
    /\ Sysfs!TypeOK
    /\ attribute <=> sysfsMod = "in"
    /\ leaked <=> directory /\ sysfsMod = "out"
    /\ sysfsMod # "out" => directory

\* Each call of init and exit, each store and each show keeps it, and none of
\* them ends the leak.
LEMMA SysfsStep ==
    ASSUME SysfsInv, [Sysfs!Next]_sysfs
    PROVE  /\ SysfsInv'
           /\ sysfsMod' = "out" /\ directory' => leaked'
           /\ leaked => leaked' /\ directory' /\ sysfsMod' = "out"
<1> USE KernelAssumption DEF KernelAssumption, SysfsInv, Sysfs!TypeOK, Sysfs!value
<1>1. CASE Sysfs!CreateObject
  BY <1>1 DEF Sysfs!CreateObject
<1>2. CASE Sysfs!CreateFile
  BY <1>2 DEF Sysfs!CreateFile
<1>3. CASE Sysfs!CreateFileFails
  BY <1>3 DEF Sysfs!CreateFileFails
<1>4. CASE Sysfs!Exit
  BY <1>4 DEF Sysfs!Exit
<1>5. ASSUME NEW text \in Numbers \cup {Junk}, Sysfs!Store(text)
      PROVE  /\ SysfsInv'
             /\ sysfsMod' = "out" /\ directory' => leaked'
             /\ leaked => leaked' /\ directory' /\ sysfsMod' = "out"
  BY <1>5 DEF Sysfs!Store
<1>6. ASSUME NEW p \in Procs, Sysfs!Show(p)
      PROVE  /\ SysfsInv'
             /\ sysfsMod' = "out" /\ directory' => leaked'
             /\ leaked => leaked' /\ directory' /\ sysfsMod' = "out"
  BY <1>6 DEF Sysfs!Show
<1>7. CASE UNCHANGED sysfs
  BY <1>7 DEF sysfs
<1> QED
  BY <1>1, <1>2, <1>3, <1>4, <1>5, <1>6, <1>7 DEF Sysfs!Next

-----------------------------------------------------------------------------
(* The composition *)

KernelInv ==
    /\ DeviceInv /\ IoctlInv /\ BufferInv /\ EntriesInv /\ IterInv /\ SpyInv
    /\ SysfsInv

\* Modules that are not loaded, and processes that do nothing.
LEMMA KernelInvInit == KernelInit => KernelInv
<1> SUFFICES ASSUME KernelInit PROVE KernelInv
  OBVIOUS
<1> USE RdOnlyDeviceAssumption, KernelAssumption
    DEF RdOnlyDeviceAssumption, KernelAssumption, KernelInit
<1>1. DeviceInv
  <2>1. Callers = {} /\ Holders = {}
    BY DEF Init, Callers, Holders, Inside, Pcs
  <2>2. Cardinality(Callers) = 0 /\ Cardinality(Holders) = 0 /\ Cardinality(Procs) \in Nat
    BY <2>1, FS_EmptySet, FS_CardinalityType
  <2>3. TypeOK
    <3>1. <<>> \in Seq(Nat \X (1 .. MsgLen)) /\ 0 \in 0 .. MsgLen
      OBVIOUS
    <3>2. got \in [Procs -> Seq(Nat \X (1 .. MsgLen))] /\ offset \in [Procs -> 0 .. MsgLen]
      BY <3>1 DEF Init
    <3>3. refs \in 0 .. 2 * Cardinality(Procs)
      BY <2>2 DEF Init
    <3> QED
      BY <3>2, <3>3 DEF Init, TypeOK, Pcs, NoClass
  <2>4. ExclusiveOpen /\ ReadsOwnMessage /\ MineIsMsg
    BY DEF Init, ExclusiveOpen, ReadsOwnMessage, MineIsMsg, Owners
  <2> QED
    BY <2>1, <2>2, <2>3, <2>4 DEF Init, DeviceInv, RefsExact, OutIsIdle
<1>2. IoctlInv
  <2>1. Looping = {}
    BY DEF Ioctl!Init, Looping
  <2>2. Cardinality(Looping) = 0 /\ Cardinality(Procs) \in Nat
    BY <2>1, FS_EmptySet, FS_CardinalityType
  <2>3. Ioctl!TypeOK
    BY <2>2, SameCardinality DEF Ioctl!Init, Ioctl!TypeOK, Ioctl!Replies
  <2>4. /\ Ioctl!AllOrNothing /\ Ioctl!Nested /\ Ioctl!OpenKeepsModule /\ Ioctl!CommandsKnown
        /\ held = HeldAt[step]
    BY DEF Ioctl!Init, Ioctl!AllOrNothing, Ioctl!Nested, Ioctl!OpenKeepsModule,
           Ioctl!CommandsKnown, HeldAt
  <2> QED
    BY <2>2, <2>3, <2>4 DEF Ioctl!Init, IoctlInv, IoctlSound
<1>3. BufferInv
  BY DEF Buffer!Init, BufferInv, Buffer!TypeOK, Buffer!CopyFits, Buffer!ReturnsCopied,
         Buffer!PrintsOwn, BufferAlone, BufferOwn, Buffer!Active, Buffer!Pcs, Buffer!Texts,
         Buffer!Lengths, Buffer!Nobody, Buffer!EFAULT, Kept
<1>4. EntriesInv
  BY DEF Entries!Init, EntriesInv, Entries!TypeOK, Entries!LoadedHasEntry,
         Entries!GoneLeavesNothing, Mods
<1>5. IterInv
  <2>1. Reading = {}
    BY DEF Iter!Init, Reading
  <2>2. Cardinality(Reading) = 0
    BY <2>1, FS_EmptySet
  <2>3. <<>> \in Seq(0 .. MaxReads)
    OBVIOUS
  <2>4. lines \in [Procs -> Seq(0 .. MaxReads)] /\ \A f \in Procs : lines[f] = <<>>
    BY <2>3 DEF Iter!Init
  <2>5. Iter!TypeOK
    <3>1. iterCounter \in 0 .. MaxReads /\ started \in 0 .. MaxReads /\ temp \in [Procs -> 0 .. MaxReads]
      BY DEF Iter!Init
    <3>2. index \in [Procs -> {0, 1}] /\ rpc \in [Procs -> Iter!Pcs]
      BY DEF Iter!Init, Iter!Pcs
    <3>3. ends \in [Procs -> BOOLEAN] /\ raced \in BOOLEAN
      BY DEF Iter!Init
    <3> QED
      BY <2>4, <3>1, <3>2, <3>3 DEF Iter!TypeOK
  <2>6. IterCount /\ IterExact /\ Iter!CountsSequences
    BY <2>1, <2>2 DEF Iter!Init, IterCount, IterExact, Iter!CountsSequences
  <2>7. IterLines /\ Iter!OneLinePerPass /\ Iter!NeverAhead
    BY <2>1, <2>4 DEF Iter!Init, IterLines, NoLine, Iter!OneLinePerPass, Iter!NeverAhead
  <2> QED
    BY <2>5, <2>6, <2>7 DEF IterInv
<1>6. SpyInv
  <2>1. <<>> \in Seq(Spy!Frames)
    OBVIOUS
  <2>2. Spy!TypeOK
    BY <2>1 DEF Spy!Init, Spy!TypeOK, Spy!Functions
  <2>3. Spy!TableValid /\ SpyTable
    BY DEF Spy!Init, Spy!TableValid, Spy!Present, SpyTable, Unhooked
  <2>4. StacksOk /\ Spy!RunsPresentCode
    BY DEF Spy!Init, StacksOk, Spy!RunsPresentCode
  <2> QED
    BY <2>2, <2>3, <2>4 DEF SpyInv, SpySound
<1>7. SysfsInv
  BY DEF Sysfs!Init, SysfsInv, Sysfs!TypeOK
<1> QED
  BY <1>1, <1>2, <1>3, <1>4, <1>5, <1>6, <1>7 DEF KernelInv

\* A step is a step of one of the modules, and the others stutter.
LEMMA KernelParts ==
    ASSUME [KernelNext]_allVars
    PROVE  /\ [Next]_vars /\ [Ioctl!Next]_ioctl /\ [Buffer!Next]_buffer
           /\ [Entries!Next]_entries /\ [Iter!Next]_iter /\ [Spy!Next]_spy
           /\ [Sysfs!Next]_sysfs
BY DEF KernelNext, allVars

\* So each module's invariant is kept by a step of the composition.
LEMMA KernelInvStep == KernelInv /\ [KernelNext]_allVars => KernelInv'
BY KernelParts, DeviceStep, IoctlStep, BufferStep, EntriesStep, IterStep, SpyStep,
   SysfsStep DEF KernelInv

\* The kernel modules never leave what their code keeps true together.
THEOREM KernelInvariance == KernelSpec => []KernelInv
BY KernelInvInit, KernelInvStep, PTL DEF KernelSpec

\* atomic_cmpxchg in rdonly_device_open: one process at a time has the device
\* open, and it reads the message that its own open has formatted, for any
\* number of processes and any way to cut up the reads.
THEOREM DeviceIsExclusive == KernelSpec => []DeviceSound
<1>1. KernelInv => DeviceSound
  BY DEF KernelInv, DeviceInv, DeviceSound
<1> QED
  BY <1>1, KernelInvariance, PTL

\* rmmod of read-only-device.c never runs while a process is between the call
\* of open and the end of release: the references count the callers.
THEOREM ExitIsQuiescent == KernelSpec => ExitQuiescent
<1>1. ASSUME KernelInv, [KernelNext]_allVars
      PROVE  [mod = "in" /\ mod' # "in" => \A p \in Procs : pc[p] \notin Inside]_vars
  <2>1. CASE mod = "in" /\ mod' # "in" /\ ~UNCHANGED vars
    <3>1. DeviceInv'
      BY <1>1, KernelInvStep DEF KernelInv
    <3>2. Exit \/ ExitOops
      BY <1>1, <2>1, KernelParts DEF Next, Register, ClassCreate, KernelOpen, OpenExchange,
         OpenFormat, OpenGet, Read, ReadEnd, Write, ReleaseClear, ReleasePut, KernelClose, module, vars
    <3>3. pc' = pc
      BY <3>2 DEF Exit, ExitOops
    <3>4. mod' \in {"out", "stuck"}
      BY <3>2 DEF Exit, ExitOops
    <3> QED
      BY <3>1, <3>3, <3>4 DEF DeviceInv, OutIsIdle, Callers
  <2> QED
    BY <2>1
<1> QED
  BY <1>1, KernelInvariance, PTL DEF KernelSpec, ExitQuiescent

\* ioctl.c: init is all or nothing at any call that fails, exit gives back
\* everything in an order the kernel allows, a program in its ioctl loop keeps
\* the module loaded, and every command it sends is known.
THEOREM IoctlIsSound == KernelSpec => []IoctlSound
<1>1. KernelInv => IoctlSound
  BY DEF KernelInv, IoctlInv
<1> QED
  BY <1>1, KernelInvariance, PTL

\* The procfs and sysfs files: a write that ran alone stays in the buffer and
\* returns what it copied, a loaded module has its entry and a removed one
\* leaves nothing, each pass over /proc/iter gives one line, and its counter
\* is never ahead of the sequences and exact when no reads overlapped.
THEOREM FilesAreSound == KernelSpec => []FilesSound
<1>1. KernelInv => FilesSound
  BY DEF KernelInv, BufferInv, EntriesInv, IterInv, SysfsInv, FilesSound
<1> QED
  BY <1>1, KernelInvariance, PTL

\* syscall-spy.c: no process runs in or returns to code that is gone, and the call
\* table leads to code that is there, as long as no open outlasts msleep and
\* the hooks come and go in turn.
THEOREM SpyIsSound == KernelSpec => []SpySound
<1>1. KernelInv => SpySound
  BY DEF KernelInv, SpyInv
<1> QED
  BY <1>1, KernelInvariance, PTL

\* sysfs-module.c: only an init that fails halfway leaves the directory, and
\* it is left for good.
THEOREM LeakStays == KernelSpec => LeakIsPermanent
<1>1. ASSUME KernelInv, [KernelNext]_allVars
      PROVE  [/\ sysfsMod' = "out" /\ directory' => leaked'
              /\ leaked => leaked' /\ directory' /\ sysfsMod' = "out"]_sysfs
  BY <1>1, KernelParts, SysfsStep DEF KernelInv
<1> QED
  BY <1>1, KernelInvariance, PTL DEF KernelSpec, LeakIsPermanent, Sysfs!LeakIsPermanent,
     Sysfs!vars, sysfs
=============================================================================
