--------------------------- MODULE MCKernelModules ---------------------------
(***************************************************************************)
(* The kernel modules of 2022-04-19-linux-modules for TLC.  They share no  *)
(* state, so a behaviour follows one of them, chosen at the start, beside  *)
(* the processes that use it; the others stay out.  The device with one    *)
(* opener is extended, the others are instances under their own names.     *)
(***************************************************************************)
EXTENDS RdOnlyDevice

CONSTANTS
    Writers, NoWriter, PROCFS_MAX_SIZE,   \* /proc/1k_buffer
    Readers,                              \* of the /proc files
    Numbers, Junk,                        \* what is stored in sysfs
    MaxReads,                             \* of /proc/iter
    MaxNesting                            \* of the hooks of open

\* sysfs_value starts at 0, and the buffer holds a byte.
ASSUME KernelAssumption ==
    /\ PROCFS_MAX_SIZE \in Nat \ {0}
    /\ 0 \in Numbers
    /\ MaxReads \in Nat
    /\ MaxNesting \in Nat

VARIABLES
    part,
    step, held, driverRefs, upc, last,
    procfs_buf_size, content, wpc, len, copied, result, printed, overlapped, overrun,
    loaded, entry, opened, position, inside, seen, wiped,
    iterCounter, index, rpc, temp, lines, ends, started, raced,
    spc, table, original, other, saved, cpc, slow, disorder,
    sysfsMod, directory, attribute, sysfs_value, told, leaked

\* The two modules of one name, the one that cleans up by name, and a module
\* of another author that has taken its name.
Mods == {"procfs_file", "read_only_procfs_file", "seq_file_procfs_file", "other"}
NameOf == [m \in Mods |-> IF m \in {"procfs_file", "read_only_procfs_file"}
                          THEN "rdonly_file" ELSE "iter"]

Ioctl == INSTANCE IoctlDevice WITH Users <- Procs, refs <- driverRefs
Buffer == INSTANCE ProcBuffer WITH pc <- wpc
Entries == INSTANCE ProcEntries WITH
    ByName <- {"seq_file_procfs_file"}, NoMod <- "none",
    file <- opened, offset <- position
Iter == INSTANCE SeqFile WITH Files <- Procs, counter <- iterCounter, pc <- rpc
Spy == INSTANCE SyscallSpy WITH pc <- cpc
Sysfs == INSTANCE SysfsValue WITH mod <- sysfsMod

Parts == {"device", "ioctl", "buffer", "entries", "iter", "spy", "sysfs"}
ioctl == <<step, held, driverRefs, upc, last>>
buffer == <<procfs_buf_size, content, wpc, len, copied, result, printed,
            overlapped, overrun>>
entries == <<loaded, entry, opened, position, inside, seen, wiped>>
iter == <<iterCounter, index, rpc, temp, lines, ends, started, raced>>
spy == <<spc, table, original, other, saved, cpc, slow, disorder>>
sysfs == <<sysfsMod, directory, attribute, sysfs_value, told, leaked>>
allVars == <<vars, part, ioctl, buffer, entries, iter, spy, sysfs>>

KernelInit ==
    /\ part \in Parts
    /\ Init /\ Ioctl!Init /\ Buffer!Init /\ Entries!Init /\ Iter!Init
    /\ Spy!Init /\ Sysfs!Init

KernelNext ==
    /\ UNCHANGED part
    /\ IF part = "device" THEN Next ELSE UNCHANGED vars
    /\ IF part = "ioctl" THEN Ioctl!Next ELSE UNCHANGED ioctl
    /\ IF part = "buffer" THEN Buffer!Next ELSE UNCHANGED buffer
    /\ IF part = "entries" THEN Entries!Next ELSE UNCHANGED entries
    /\ IF part = "iter" THEN Iter!Next ELSE UNCHANGED iter
    /\ IF part = "spy" THEN Spy!Next ELSE UNCHANGED spy
    /\ IF part = "sysfs" THEN Sysfs!Next ELSE UNCHANGED sysfs

\* The readers of /proc files go on reading.
KernelSpec == KernelInit /\ [][KernelNext]_allVars /\ Entries!Fairness

-----------------------------------------------------------------------------
(* The properties of the instances, which state and explain them.          *)

\* read-only-device.c: one process at a time has the device open, and reads
\* the message of its own open.
DeviceSound == TypeOK /\ ExclusiveOpen /\ ReadsOwnMessage

\* ioctl.c: a failing init and exit undo everything in order, and a program
\* that has the device open keeps the module loaded; ioctl_user_space.c sends
\* commands that the driver knows.
IoctlSound ==
    /\ Ioctl!TypeOK
    /\ Ioctl!AllOrNothing /\ Ioctl!Nested
    /\ Ioctl!OpenKeepsModule
    /\ Ioctl!CommandsKnown

\* read-write-procfs-file.c: a write that no other overlaps stays in the
\* buffer, returns what it copied and prints its own text, or nothing if it
\* filled the buffer.  The procfs modules: a loaded module has its entry,
\* unless a clean-up by name took it; a removed one leaves no entry and no
\* caller behind.  seq-file-procfs-file.c: one line for each pass, and a
\* counter that is exact unless reads overlapped and never ahead.
FilesSound ==
    /\ Buffer!TypeOK /\ Entries!TypeOK /\ Iter!TypeOK /\ Sysfs!TypeOK
    /\ Buffer!CopyFits /\ Buffer!ReturnsCopied /\ Buffer!PrintsOwn
    /\ Entries!LoadedHasEntry /\ Entries!GoneLeavesNothing
    /\ Iter!OneLinePerPass /\ Iter!CountsSequences /\ Iter!NeverAhead

\* The procfs modules: cat comes to the end of the file.
ReaderEnds == Entries!ReaderEnds

\* syscall-spy.c: no process runs in code that is gone, and the table leads
\* to code that is there and is put back.
SpySound == Spy!TypeOK /\ Spy!RunsPresentCode /\ Spy!TableValid

\* sysfs-module.c: only an init that fails halfway leaves its directory, and
\* that keeps the module out for good.
LeakIsPermanent == Sysfs!LeakIsPermanent
=============================================================================
