----------------------------- MODULE IoctlDevice -----------------------------
(***************************************************************************)
(* ioctl-module: the driver ioctl.c, whose init acquires four things from  *)
(* the kernel and gives the earlier ones back when a later one fails, and  *)
(* the program ioctl_user_space.c, several of which run beside insmod and  *)
(* rmmod.                                                                  *)
(***************************************************************************)
EXTENDS Naturals, FiniteSets

CONSTANT Users    \* processes that run ioctl_user_space

VARIABLES
    step,   \* where the module is: "out", a step of init or exit, or "in"
    held,   \* what init has acquired and not given back
    refs,   \* the module's usage count
    upc,    \* where each user program is
    last    \* how the driver took the user's last command
vars == <<step, held, refs, upc, last>>
user == <<refs, upc, last>>

Resources == {"region", "class", "device", "cdev"}
InitSteps == {"class", "device", "cdev"}
ExitSteps == {"exit_class", "exit_cdev", "exit_region"}
Replies == {"none", "pid", "argument", "wrong", "ignored"}

Init ==
    /\ step = "out"
    /\ held = {}
    /\ refs = 0
    /\ upc = [u \in Users |-> "start"]
    /\ last = [u \in Users |-> "none"]

-----------------------------------------------------------------------------
(* ioctl_device_init: each call succeeds or undoes the calls before it *)

AllocRegion ==
    /\ step = "out"
    /\ step' = "class"
    /\ held' = held \cup {"region"}
    /\ UNCHANGED user

CreateClass ==
    /\ step = "class"
    /\ \/ step' = "device" /\ held' = held \cup {"class"}
       \/ step' = "out" /\ held' = held \ {"region"}
    /\ UNCHANGED user

\* Mutant: the class is forgotten when device_create fails.
CreateDeviceLeaky ==
    /\ step = "device"
    /\ \/ step' = "cdev" /\ held' = held \cup {"device"}
       \/ step' = "out" /\ held' = held \ {"region"}
    /\ UNCHANGED user

CreateDevice ==
    /\ step = "device"
    /\ \/ step' = "cdev" /\ held' = held \cup {"device"}
       \/ step' = "out" /\ held' = held \ {"class", "region"}
    /\ UNCHANGED user

AddCdev ==
    /\ step = "cdev"
    /\ \/ step' = "in" /\ held' = held \cup {"cdev"}
       \/ step' = "out" /\ held' = held \ {"device", "class", "region"}
    /\ UNCHANGED user

(* ioctl_device_exit: refused by the kernel while the module is in use *)

DestroyDevice ==
    /\ step = "in"
    /\ refs = 0
    /\ step' = "exit_class"
    /\ held' = held \ {"device"}
    /\ UNCHANGED user

DestroyClass ==
    /\ step = "exit_class"
    /\ step' = "exit_cdev"
    /\ held' = held \ {"class"}
    /\ UNCHANGED user

DelCdev ==
    /\ step = "exit_cdev"
    /\ step' = "exit_region"
    /\ held' = held \ {"cdev"}
    /\ UNCHANGED user

FreeRegion ==
    /\ step = "exit_region"
    /\ step' = "out"
    /\ held' = held \ {"region"}
    /\ UNCHANGED user

-----------------------------------------------------------------------------
(* ioctl_device_ioctl *)

Reply(cmd, arg) ==
    CASE cmd = 1 -> "pid"
      [] cmd = 2 /\ arg = 8 -> "argument"
      [] cmd = 2 /\ arg # 8 -> "wrong"
      [] OTHER -> "ignored"

\* fops.owner = THIS_MODULE: an open file holds one reference.
OwnerRefs == 1

(* ioctl_user_space: cmd is 1, 2 or anything else *)

\* open finds the node and the cdev, in a module that is not on its way out.
UserOpen(u) ==
    /\ upc[u] = "start"
    /\ IF {"device", "cdev"} \subseteq held /\ step \notin ExitSteps
       THEN upc' = [upc EXCEPT ![u] = "loop"] /\ refs' = refs + OwnerRefs
       ELSE upc' = [upc EXCEPT ![u] = "failed"] /\ UNCHANGED refs
    /\ UNCHANGED <<step, held, last>>

\* ioctl(fd, 0xFFAA + cmd, 8); the program ends when it is refused.
UserIoctl(u, cmd) ==
    /\ upc[u] = "loop"
    /\ LET reply == Reply(cmd, 8)
       IN  /\ last' = [last EXCEPT ![u] = reply]
           /\ IF reply = "wrong"
              THEN upc' = [upc EXCEPT ![u] = "start"] /\ refs' = refs - OwnerRefs
              ELSE UNCHANGED <<upc, refs>>
    /\ UNCHANGED <<step, held>>

\* Any other input, or none: the program exits and the kernel closes fd.
UserExit(u) ==
    /\ upc[u] = "loop"
    /\ upc' = [upc EXCEPT ![u] = "start"]
    /\ refs' = refs - OwnerRefs
    /\ last' = [last EXCEPT ![u] = "none"]
    /\ UNCHANGED <<step, held>>

\* The program is started again after it failed to open the device.
UserRestart(u) ==
    /\ upc[u] = "failed"
    /\ upc' = [upc EXCEPT ![u] = "start"]
    /\ UNCHANGED <<step, held, refs, last>>

-----------------------------------------------------------------------------
ModuleNext ==
    \/ AllocRegion \/ CreateClass \/ CreateDevice \/ AddCdev
    \/ DestroyDevice \/ DestroyClass \/ DelCdev \/ FreeRegion

Next ==
    \/ ModuleNext
    \/ \E u \in Users :
        \/ UserOpen(u)
        \/ \E cmd \in {1, 2} : UserIoctl(u, cmd)
        \/ UserExit(u)
        \/ UserRestart(u)

Spec == Init /\ [][Next]_vars

-----------------------------------------------------------------------------
(* Properties *)

TypeOK ==
    /\ step \in {"out", "in"} \cup InitSteps \cup ExitSteps
    /\ held \subseteq Resources
    /\ refs \in 0 .. Cardinality(Users)
    /\ upc \in [Users -> {"start", "loop", "failed"}]
    /\ last \in [Users -> Replies]

\* Note.txt: exit returns the kernel to the state before the module.  So does
\* every failing init: outside the module's life nothing of it is left, and a
\* loaded module has all it asked for.
AllOrNothing ==
    /\ step = "out" => held = {}
    /\ step = "in" => held = Resources

\* At every step of init, of a rollback and of exit, what the kernel has of
\* the module is consistent: no device without its class and its number, no
\* cdev without its number.
Nested ==
    /\ "device" \in held => {"class", "region"} \subseteq held
    /\ "cdev" \in held => "region" \in held

\* ioctl runs in code that is there: a program with the device open keeps the
\* module loaded.
OpenKeepsModule == \A u \in Users : upc[u] = "loop" => step = "in"

\* The two programs agree on the protocol: the driver knows every command
\* the user program sends and refuses none.
CommandsKnown == \A u \in Users : last[u] \in {"none", "pid", "argument"}
=============================================================================
