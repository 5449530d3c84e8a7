----------------------------- MODULE SyscallSpy -----------------------------
(***************************************************************************)
(* syscall-spy-module/syscall-spy.c: the module saves the open entry of    *)
(* the system call table, puts its own function there and puts the saved   *)
(* one back when it is removed.  Processes call open all the while, and    *)
(* another module that hooks the same entry in the same way ("somebody     *)
(* else also played with the open syscall") comes and goes.  A hook calls  *)
(* the function it found and comes back to its own code afterwards, so a   *)
(* process is a stack of frames, the running function last.                *)
(***************************************************************************)
EXTENDS Naturals, Sequences

CONSTANTS
    Procs,        \* processes that call open
    MaxNesting    \* bound: frames of one process.  Hooks that lead to each
                  \* other for want of order nest without end.

VARIABLES
    spc,       \* the spy module: where it is in init and exit
    table,     \* sys_call_table[__NR_open]
    original,  \* original_sys_open of the spy
    other,     \* the other module: "out" or "in"
    saved,     \* the entry the other module found
    pc,        \* the frames of each process, none in user space
    slow,      \* history: a call was inside the spy when msleep ended
    disorder   \* history: a hook was removed that was not on top, or the
               \* entry changed while init was between save and store
vars == <<spc, table, original, other, saved, pc, slow, disorder>>

Functions == {"sys_open", "funny_sys_open", "other_open", "NULL"}
\* Where a frame stands: at the start of a function, at the place a hook's
\* call returns to, or nowhere, for buf was overrun.
SpyFrames == {"funny_sys_open", "funny_return"}
OtherFrames == {"other_open", "other_return"}
Frames == Functions \cup SpyFrames \cup OtherFrames \cup {"overrun"}

\* Code that is in memory.
Present ==
    {"sys_open"}
    \cup (IF spc # "out" THEN SpyFrames ELSE {})
    \cup (IF other = "in" THEN OtherFrames ELSE {})

\* Some process has a frame of the set.
Inside(frames) == \E p \in Procs : \E i \in DOMAIN pc[p] : pc[p][i] \in frames

Init ==
    /\ spc = "out"
    /\ table = "sys_open"
    /\ original = "NULL"
    /\ other = "out"
    /\ saved = "NULL"
    /\ pc = [p \in Procs |-> <<>>]
    /\ slow = FALSE
    /\ disorder = FALSE

-----------------------------------------------------------------------------
(* The spy module *)

\* The table is found; when it is not, init fails and nothing has changed.
InitAcquire ==
    /\ spc = "out"
    /\ spc' = "save"
    /\ UNCHANGED <<table, original, other, saved, pc, slow, disorder>>

InitSave ==
    /\ spc = "save"
    /\ spc' = "hook"
    /\ original' = table
    /\ UNCHANGED <<table, other, saved, pc, slow, disorder>>

\* Nothing keeps the entry from changing between the save and the store.
InitHook ==
    /\ spc = "hook"
    /\ spc' = "in"
    /\ disorder' = (disorder \/ table # original)
    /\ table' = "funny_sys_open"
    /\ UNCHANGED <<original, other, saved, pc, slow>>

\* exit puts the saved function back; when somebody else has replaced the
\* entry it only says so (pr_alert) and replaces it all the same.
ExitRestore ==
    /\ spc = "in"
    /\ spc' = "sleep"
    /\ disorder' = (disorder \/ table # "funny_sys_open")
    /\ table' = original
    /\ UNCHANGED <<original, other, saved, pc, slow>>

\* Mutant: exit returns at once.
ExitNoSleep ==
    /\ spc = "sleep"
    /\ spc' = "out"
    /\ original' = "NULL"
    /\ UNCHANGED <<table, other, saved, pc, slow, disorder>>

\* msleep(2000) is over and the module goes; a call that is still inside it,
\* or will come back to it, has taken more than two seconds.
ExitSleep ==
    /\ spc = "sleep"
    /\ spc' = "out"
    /\ original' = "NULL"
    /\ slow' = (slow \/ Inside(SpyFrames))
    /\ UNCHANGED <<table, other, saved, pc, disorder>>

-----------------------------------------------------------------------------
(* The other module *)

OtherHook ==
    /\ other = "out"
    /\ other' = "in"
    /\ saved' = table
    /\ table' = "other_open"
    /\ UNCHANGED <<spc, original, pc, slow, disorder>>

\* It leaves when nobody is in its code or in a hook that leads to it.
OtherUnhook ==
    /\ other = "in"
    /\ ~Inside(OtherFrames)
    /\ original = "other_open" => ~Inside({"funny_sys_open"})
    /\ other' = "out"
    /\ disorder' = (disorder \/ table # "other_open")
    /\ table' = saved
    /\ saved' = "NULL"
    /\ UNCHANGED <<spc, original, pc, slow>>

-----------------------------------------------------------------------------
(* Processes *)

At(p, frame) == pc[p] # <<>> /\ pc[p][Len(pc[p])] = frame
\* The running function calls another and will go on at back.
Call(p, back, function) ==
    /\ Len(pc[p]) < MaxNesting
    /\ pc' = [pc EXCEPT ![p] = Append([@ EXCEPT ![Len(@)] = back], function)]
Return(p) == pc' = [pc EXCEPT ![p] = SubSeq(@, 1, Len(@) - 1)]
modules == <<spc, table, original, other, saved, slow, disorder>>

\* The system call goes through the table.
Enter(p) ==
    /\ pc[p] = <<>>
    /\ pc' = [pc EXCEPT ![p] = <<table>>]
    /\ UNCHANGED modules

\* funny_sys_open logs the name, whoever calls, and calls the function that
\* was saved.
FunnySysOpen(p) ==
    /\ At(p, "funny_sys_open") /\ spc # "out"
    /\ Call(p, "funny_return", original)
    /\ UNCHANGED modules

\* __get_user fails: -EFAULT, without a call of the saved function.  The
\* other way out is behind the call.
FunnySysOpenReturn(p) ==
    /\ At(p, "funny_sys_open") \/ At(p, "funny_return")
    /\ spc # "out"
    /\ Return(p)
    /\ UNCHANGED modules

\* sprintf writes a long name past the 256 bytes of buf, over the frames of
\* the process: what it does then is undefined.
FunnySysOpenOverrun(p) ==
    /\ At(p, "funny_sys_open") /\ spc # "out"
    /\ pc' = [pc EXCEPT ![p] = <<"overrun">>]
    /\ UNCHANGED modules

OtherOpen(p) ==
    /\ At(p, "other_open") /\ other = "in"
    /\ Call(p, "other_return", saved)
    /\ UNCHANGED modules

OtherReturn(p) ==
    /\ At(p, "other_return") /\ other = "in"
    /\ Return(p)
    /\ UNCHANGED modules

\* The kernel's open, which may block for as long as it likes (a FIFO),
\* returns to the hook that called it.
SysOpen(p) ==
    /\ At(p, "sys_open")
    /\ Return(p)
    /\ UNCHANGED modules

-----------------------------------------------------------------------------
Next ==
    \/ InitAcquire \/ InitSave \/ InitHook \/ ExitRestore \/ ExitSleep
    \/ OtherHook \/ OtherUnhook
    \/ \E p \in Procs :
        \/ Enter(p) \/ FunnySysOpen(p) \/ FunnySysOpenReturn(p)
        \/ FunnySysOpenOverrun(p) \/ OtherOpen(p) \/ OtherReturn(p) \/ SysOpen(p)

Spec == Init /\ [][Next]_vars

-----------------------------------------------------------------------------
(* Properties *)

TypeOK ==
    /\ spc \in {"out", "save", "hook", "in", "sleep"}
    /\ table \in Functions \ {"NULL"}
    /\ original \in Functions
    /\ other \in {"out", "in"}
    /\ saved \in Functions
    /\ pc \in [Procs -> Seq(Frames)]
    /\ slow \in BOOLEAN
    /\ disorder \in BOOLEAN

\* A process never runs in, nor will return into, code that is gone, and
\* never calls through a null pointer, at any interleaving of calls with
\* loading and removing: saving before hooking and sleeping before leaving are
\* enough, as long as every open, the blocking ones included, takes less than
\* the two seconds, the modules hook and unhook in turn, and no name overruns
\* buf, after which nothing holds for that process.
RunsPresentCode ==
    \/ slow \/ disorder
    \/ \A p \in Procs : \A i \in DOMAIN pc[p] : pc[p][i] \in Present \cup {"overrun"}

\* The table leads to code that is there, and when both modules are out the
\* kernel's own function is back, as long as the modules hook in turn.
TableValid ==
    \/ disorder
    \/ /\ table \in Present
       /\ spc \in {"out", "save", "hook", "sleep"} /\ other = "out"
            => table = "sys_open"
=============================================================================
