---------------------------- MODULE RdOnlyDevice ----------------------------
(***************************************************************************)
(* read-only-device-module/read-only-device.c: a character device that one *)
(* process at a time may open and that tells how often it was opened.      *)
(* Processes open, read, write and close it concurrently while the module  *)
(* is loaded and removed.  Every access to a static variable is a step.    *)
(***************************************************************************)
EXTENDS Naturals, Sequences, FiniteSets

CONSTANTS
    Procs,     \* the processes that use the device
    MsgLen,    \* length of the message sprintf makes, without its NUL
    MaxOpens   \* bound: successful opens of one module lifetime

ASSUME RdOnlyDeviceAssumption ==
    /\ IsFiniteSet(Procs)
    /\ MsgLen \in Nat \ {0}
    /\ MaxOpens \in Nat

VARIABLES
    mod,           \* the module: "out", "registered" (init running), "in", or
                   \* "stuck" in an exit that oopsed
    class,         \* the pointer class_create returned
    node,          \* whether device_create made /dev/read_only_device
    said,          \* what init printed about /dev/read_only_device
    refs,          \* the module's usage count
    already_open,  \* atomic_t
    counter,       \* the static counter of rdonly_device_open
    msg,           \* msg_buf: the count it tells
    pc,            \* where each process is
    offset,        \* *offset of the open file
    got,           \* the bytes a process has read since offset 0
    mine           \* history: the count formatted by the process's own open
vars == <<mod, class, node, said, refs, already_open, counter, msg, pc, offset,
          got, mine>>
module == <<mod, class, node, said>>
file == <<offset, got, mine>>

NoClass == "NULL"
Pcs == {"idle", "entered", "format", "get", "open", "put", "fput"}
Inside == Pcs \ {"idle"}
Owners == {"format", "get", "open"}

\* msg_buf as the reader sees it: byte i of the message that tells count c.
Message(c) == [i \in 1 .. MsgLen |-> <<c, i>>]

Init ==
    /\ mod = "out"
    /\ class = NoClass
    /\ node = FALSE
    /\ said = "nothing"
    /\ refs = 0
    /\ already_open = 0
    /\ counter = 0
    /\ msg = 0
    /\ pc = [p \in Procs |-> "idle"]
    /\ offset = [p \in Procs |-> 0]
    /\ got = [p \in Procs |-> <<>>]
    /\ mine = [p \in Procs |-> 0]

ProcGoes(p, from, to) ==
    /\ pc[p] = from
    /\ pc' = [pc EXCEPT ![p] = to]

-----------------------------------------------------------------------------
(* insmod and rmmod *)

\* register_chrdev succeeds: from here on the device can be opened.  When it
\* fails init returns at once and the module stays out.
Register ==
    /\ mod = "out"
    /\ mod' = "registered"
    /\ UNCHANGED <<class, node, said, refs, already_open, counter, msg, pc,
                   file>>

\* class_create returns a class or an error pointer, never NULL; init takes
\* any pointer for a device that already exists.
ClassCreate(result) ==
    /\ mod = "registered"
    /\ mod' = "in"
    /\ class' = result
    /\ said' = IF result # NoClass THEN "already exists" ELSE "created"
    /\ node' = (node \/ result = NoClass)
    /\ UNCHANGED <<refs, already_open, counter, msg, pc, file>>

\* rmmod: refused while the usage count is not 0; once it is underway no new
\* open gets into the module, and its static data are gone when it ends.
Exit ==
    /\ mod = "in"
    /\ refs = 0
    /\ class # "error"
    /\ mod' = "out"
    /\ class' = NoClass
    /\ node' = FALSE
    /\ said' = "nothing"
    /\ already_open' = 0
    /\ counter' = 0
    /\ msg' = 0
    /\ UNCHANGED <<refs, pc, file>>

\* device_destroy looks for the device behind the error pointer that init took
\* for a class: rmmod dies in it, the module neither serves nor goes.
ExitOops ==
    /\ mod = "in"
    /\ refs = 0
    /\ class = "error"
    /\ mod' = "stuck"
    /\ UNCHANGED <<class, node, said, refs, already_open, counter, msg, pc,
                   file>>

-----------------------------------------------------------------------------
(* open *)

\* The kernel takes a reference for fops.owner before it calls open.
KernelOpen(p) ==
    /\ mod \in {"registered", "in"}
    /\ counter < MaxOpens
    /\ ProcGoes(p, "idle", "entered")
    /\ refs' = refs + 1
    /\ UNCHANGED <<module, already_open, counter, msg, file>>

\* Mutant: the result of the exchange is not looked at.
OpenAnyway(p) ==
    /\ already_open' = 1
    /\ ProcGoes(p, "entered", "format")
    /\ UNCHANGED <<module, refs, counter, msg, file>>

\* atomic_cmpxchg(&already_open, CDEV_NOT_USED, CDEV_EXCLUSIVE_OPEN); on
\* -EBUSY the kernel drops its reference.
OpenExchange(p) ==
    /\ already_open' = 1
    /\ \/ /\ already_open = 0
          /\ ProcGoes(p, "entered", "format")
          /\ refs' = refs
       \/ /\ already_open = 1
          /\ ProcGoes(p, "entered", "idle")
          /\ refs' = refs - 1
    /\ UNCHANGED <<module, counter, msg, file>>

\* sprintf(msg_buf, ..., counter++).
OpenFormat(p) ==
    /\ ProcGoes(p, "format", "get")
    /\ msg' = counter
    /\ counter' = counter + 1
    /\ mine' = [mine EXCEPT ![p] = counter]
    /\ UNCHANGED <<module, refs, already_open, offset, got>>

\* try_module_get and return 0: the file is open, at offset 0.
OpenGet(p) ==
    /\ ProcGoes(p, "get", "open")
    /\ refs' = refs + 1
    /\ offset' = [offset EXCEPT ![p] = 0]
    /\ got' = [got EXCEPT ![p] = <<>>]
    /\ UNCHANGED <<module, already_open, counter, msg, mine>>

-----------------------------------------------------------------------------
(* read, write, release *)

\* rdonly_device_read with bytes left: at most length of them are copied.
Read(p, length) ==
    /\ pc[p] = "open"
    /\ offset[p] < MsgLen
    /\ LET last == offset[p] + length
           chunk == SubSeq(Message(msg), offset[p] + 1,
                           IF last < MsgLen THEN last ELSE MsgLen)
       IN  /\ got' = [got EXCEPT ![p] = @ \o chunk]
           /\ offset' = [offset EXCEPT ![p] = @ + Len(chunk)]
    /\ UNCHANGED <<module, refs, already_open, counter, msg, pc, mine>>

\* rdonly_device_read at the NUL: 0, and the next read starts over.
ReadEnd(p) ==
    /\ pc[p] = "open"
    /\ offset[p] = MsgLen
    /\ offset' = [offset EXCEPT ![p] = 0]
    /\ got' = [got EXCEPT ![p] = <<>>]
    /\ UNCHANGED <<module, refs, already_open, counter, msg, pc, mine>>

\* rdonly_device_write: -EINVAL, nothing changes.
Write(p) ==
    /\ pc[p] = "open"
    /\ UNCHANGED vars

\* atomic_set(&already_open, CDEV_NOT_USED).
ReleaseClear(p) ==
    /\ ProcGoes(p, "open", "put")
    /\ already_open' = 0
    /\ UNCHANGED <<module, refs, counter, msg, file>>

\* Mutant: the reference of a caller that has not finished is dropped too.
ReleasePutTwice(p) ==
    /\ ProcGoes(p, "put", "fput")
    /\ refs' = refs - 2
    /\ UNCHANGED <<module, already_open, counter, msg, file>>

\* module_put.
ReleasePut(p) ==
    /\ ProcGoes(p, "put", "fput")
    /\ refs' = refs - 1
    /\ UNCHANGED <<module, already_open, counter, msg, file>>

\* The kernel drops the reference it took for fops.owner and the file.
KernelClose(p) ==
    /\ ProcGoes(p, "fput", "idle")
    /\ refs' = refs - 1
    /\ offset' = [offset EXCEPT ![p] = 0]
    /\ got' = [got EXCEPT ![p] = <<>>]
    /\ mine' = [mine EXCEPT ![p] = 0]
    /\ UNCHANGED <<module, already_open, counter, msg>>

-----------------------------------------------------------------------------
Next ==
    \/ Register
    \/ \E result \in {"class", "error"} : ClassCreate(result)
    \/ Exit
    \/ ExitOops
    \/ \E p \in Procs :
        \/ KernelOpen(p)
        \/ OpenExchange(p)
        \/ OpenFormat(p)
        \/ OpenGet(p)
        \/ \E length \in 1 .. MsgLen : Read(p, length)
        \/ ReadEnd(p)
        \/ Write(p)
        \/ ReleaseClear(p)
        \/ ReleasePut(p)
        \/ KernelClose(p)

Spec == Init /\ [][Next]_vars

-----------------------------------------------------------------------------
(* Properties *)

\* The static variables and the processes keep their types.
TypeOK ==
    /\ mod \in {"out", "registered", "in", "stuck"}
    /\ class \in {NoClass, "class", "error"}
    /\ node \in BOOLEAN
    /\ said \in {"nothing", "already exists", "created"}
    /\ refs \in 0 .. 2 * Cardinality(Procs)
    /\ already_open \in {0, 1}
    /\ counter \in Nat
    /\ msg \in Nat
    /\ pc \in [Procs -> Pcs]
    /\ offset \in [Procs -> 0 .. MsgLen]
    /\ got \in [Procs -> Seq(Nat \X (1 .. MsgLen))]
    /\ mine \in [Procs -> Nat]

\* atomic_cmpxchg lets one process at a time past open, and the flag is set
\* exactly as long as that process has the device.
ExclusiveOpen ==
    /\ \A p, q \in Procs : pc[p] \in Owners /\ pc[q] \in Owners => p = q
    /\ already_open = 1 <=> \E p \in Procs : pc[p] \in Owners

\* The bytes a process has read are the head of the message its own open
\* formatted, however reads are cut up and whoever else tries to open.
ReadsOwnMessage ==
    \A p \in Procs : pc[p] = "open" =>
        got[p] = SubSeq(Message(mine[p]), 1, offset[p])

\* Note.txt: the code must not go away under a process that has the file open.
\* The references taken by the kernel and by open are enough: rmmod never runs
\* while a process is between entering open and leaving release.
ExitQuiescent == [][mod = "in" /\ mod' # "in" =>
                        \A p \in Procs : pc[p] \notin Inside]_vars

\* What rdonly_device_init prints: "Device /dev/%s already exists." is said
\* of a device that exists.  The code takes the class that class_create has
\* just made for it.
SaidExists == said = "already exists" => node
=============================================================================
