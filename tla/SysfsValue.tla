----------------------------- MODULE SysfsValue -----------------------------
(***************************************************************************)
(* sysfs-module/sysfs-module.c: a directory with one file through which    *)
(* processes show and store a number.  init makes the directory and then   *)
(* the file; sysfs refuses a second directory of the same name.            *)
(***************************************************************************)
EXTENDS Naturals, FiniteSets

CONSTANTS
    Procs,    \* processes that use the file
    Numbers,  \* numbers they store
    Junk      \* any text sscanf finds no number in

VARIABLES
    mod,          \* "out", "file" (init between its two calls) or "in"
    directory,    \* /sys/kernel/__sysfs_object exists
    attribute,    \* ... and holds sysfs_value
    sysfs_value,  \* static int
    told,         \* what each process last got from the file, or Junk
    leaked        \* history: an init that failed left the directory
vars == <<mod, directory, attribute, sysfs_value, told, leaked>>
value == <<sysfs_value, told>>

Init ==
    /\ mod = "out"
    /\ directory = FALSE
    /\ attribute = FALSE
    /\ sysfs_value = 0
    /\ told = [p \in Procs |-> Junk]
    /\ leaked = FALSE

\* Mutant: a directory that is there is taken for the module's own.
CreateObjectAgain ==
    /\ mod = "out"
    /\ mod' = "file"
    /\ directory' = TRUE
    /\ UNCHANGED <<attribute, value, leaked>>

\* kobject_create_and_add: fails, with -ENOMEM from init, when there is a
\* directory of that name.
CreateObject ==
    /\ mod = "out"
    /\ IF directory
       THEN UNCHANGED <<mod, directory>>
       ELSE mod' = "file" /\ directory' = TRUE
    /\ UNCHANGED <<attribute, value, leaked>>

CreateFile ==
    /\ mod = "file"
    /\ mod' = "in"
    /\ attribute' = TRUE
    /\ UNCHANGED <<directory, value, leaked>>

\* sysfs_create_file fails: init returns the error and keeps the object.
CreateFileFails ==
    /\ mod = "file"
    /\ mod' = "out"
    /\ leaked' = TRUE
    /\ UNCHANGED <<directory, attribute, value>>

\* kobject_put removes the directory with its file; the data go with the
\* module.
Exit ==
    /\ mod = "in"
    /\ mod' = "out"
    /\ directory' = FALSE
    /\ attribute' = FALSE
    /\ sysfs_value' = 0
    /\ told' = [p \in Procs |-> Junk]
    /\ UNCHANGED leaked

\* sscanf: a text without a number changes nothing and is accepted.
Store(text) ==
    /\ attribute
    /\ sysfs_value' = IF text \in Numbers THEN text ELSE sysfs_value
    /\ UNCHANGED <<mod, directory, attribute, told, leaked>>

Show(p) ==
    /\ attribute
    /\ told' = [told EXCEPT ![p] = sysfs_value]
    /\ UNCHANGED <<mod, directory, attribute, sysfs_value, leaked>>

Next ==
    \/ CreateObject \/ CreateFile \/ CreateFileFails \/ Exit
    \/ \E text \in Numbers \cup {Junk} : Store(text)
    \/ \E p \in Procs : Show(p)

Spec == Init /\ [][Next]_vars

-----------------------------------------------------------------------------
(* Properties *)

TypeOK ==
    /\ mod \in {"out", "file", "in"}
    /\ directory \in BOOLEAN
    /\ attribute \in BOOLEAN
    /\ sysfs_value \in Numbers
    /\ told \in [Procs -> Numbers \cup {Junk}]
    /\ leaked \in BOOLEAN

\* Note.txt: exit returns the kernel to the state before the module.  The
\* directory outlives the module only when sysfs_create_file failed, and after
\* such a failure for good: the module can never be loaded again.
LeakIsPermanent ==
    [][/\ mod' = "out" /\ directory' => leaked'
       /\ leaked => leaked' /\ directory' /\ mod' = "out"]_vars
=============================================================================
