----------------------------- MODULE ProcEntries -----------------------------
(***************************************************************************)
(* Loading, reading and removing the /proc files of procfs-file.c,         *)
(* read-only-procfs-file.c (the same code under another module name, and   *)
(* with the same /proc name), read-write-procfs-file.c and                 *)
(* seq-file-procfs-file.c.  The kernel refuses a second entry of a name,   *)
(* and a removal waits for the calls that are inside the entry's handlers. *)
(* Reading is procfile_read: the whole text or nothing.                    *)
(***************************************************************************)
EXTENDS Naturals, FiniteSets

CONSTANTS
    Mods,      \* the kernel modules
    Readers,   \* processes that read their files to the end, as cat does
    NameOf,    \* PROCFS_NAME / PROC_NAME of each module
    ByName,    \* modules whose failing init calls remove_proc_entry(name)
    NoMod

Names == {NameOf[m] : m \in Mods}

VARIABLES
    loaded,   \* the modules whose init returned 0
    entry,    \* /proc: the module each name belongs to
    file,     \* the module whose file a reader has open
    offset,   \* 0, or 1 for the end of the text
    inside,   \* readers that are inside procfile_read
    seen,     \* what the reader got last: "none", "text" or the "end"
    wiped     \* history: entries that an init that failed took from another
vars == <<loaded, entry, file, offset, inside, seen, wiped>>
reader == <<file, offset, inside, seen>>

Init ==
    /\ loaded = {}
    /\ entry = [n \in Names |-> NoMod]
    /\ file = [r \in Readers |-> NoMod]
    /\ offset = [r \in Readers |-> 0]
    /\ inside = {}
    /\ seen = [r \in Readers |-> "none"]
    /\ wiped = {}

\* remove_proc_entry and proc_remove return when nobody is inside.
Idle(m) == \A r \in inside : file[r] # m

-----------------------------------------------------------------------------
\* procfs_init with proc_create succeeding: the name was free.
ProcInit(m) ==
    /\ m \notin loaded
    /\ entry[NameOf[m]] = NoMod
    /\ entry' = [entry EXCEPT ![NameOf[m]] = m]
    /\ loaded' = loaded \cup {m}
    /\ wiped' = wiped \ {m}
    /\ UNCHANGED reader

\* proc_create returns NULL, for want of memory or because the name is taken;
\* proc_remove(NULL) does nothing and init returns -ENOMEM.
ProcInitFails(m) ==
    /\ m \notin loaded \cup ByName
    /\ UNCHANGED vars

\* The same failure in seq-file-procfs-file.c: the entry of that name is
\* removed, whoever made it.
ProcInitFailsByName(m) ==
    /\ m \in ByName \ loaded
    /\ LET owner == entry[NameOf[m]]
       IN  /\ Idle(owner)
           /\ wiped' = wiped \cup ({owner} \ {NoMod})
           /\ file' = [r \in Readers |->
                          IF file[r] = owner THEN NoMod ELSE file[r]]
    /\ entry' = [entry EXCEPT ![NameOf[m]] = NoMod]
    /\ UNCHANGED <<loaded, offset, inside, seen>>

\* Mutant: the module goes while its handlers run.
ProcExitAtOnce(m) ==
    /\ m \in loaded
    /\ loaded' = loaded \ {m}
    /\ entry' = [entry EXCEPT ![NameOf[m]] = IF @ = m THEN NoMod ELSE @]
    /\ wiped' = wiped \ {m}
    /\ UNCHANGED reader

\* procfs_exit: the entry is removed, and open files lead nowhere from then on.
ProcExit(m) ==
    /\ m \in loaded
    /\ Idle(m)
    /\ loaded' = loaded \ {m}
    /\ entry' = [entry EXCEPT ![NameOf[m]] = IF @ = m THEN NoMod ELSE @]
    /\ file' = [r \in Readers |-> IF file[r] = m THEN NoMod ELSE file[r]]
    /\ wiped' = wiped \ {m}
    /\ UNCHANGED <<offset, inside, seen>>

-----------------------------------------------------------------------------
Open(r, n) ==
    /\ file[r] = NoMod
    /\ entry[n] # NoMod
    /\ file' = [file EXCEPT ![r] = entry[n]]
    /\ offset' = [offset EXCEPT ![r] = 0]
    /\ seen' = [seen EXCEPT ![r] = "none"]
    /\ UNCHANGED <<loaded, entry, inside, wiped>>

\* The kernel calls procfile_read for a file whose entry is still there.
ReadEnter(r) ==
    /\ r \notin inside
    /\ file[r] # NoMod
    /\ seen[r] # "end"
    /\ inside' = inside \cup {r}
    /\ UNCHANGED <<loaded, entry, file, offset, seen, wiped>>

\* Mutant: *offset is not moved.
ReadTextAgain(r) ==
    /\ r \in inside
    /\ offset[r] = 0
    /\ seen' = [seen EXCEPT ![r] = "text"]
    /\ inside' = inside \ {r}
    /\ UNCHANGED <<loaded, entry, file, offset, wiped>>

\* The whole text is copied, whatever buf_len is.
ReadText(r) ==
    /\ r \in inside
    /\ offset[r] = 0
    /\ offset' = [offset EXCEPT ![r] = 1]
    /\ seen' = [seen EXCEPT ![r] = "text"]
    /\ inside' = inside \ {r}
    /\ UNCHANGED <<loaded, entry, file, wiped>>

\* Past the text: 0, the end of the file.
ReadEnd(r) ==
    /\ r \in inside
    /\ offset[r] = 1
    /\ seen' = [seen EXCEPT ![r] = "end"]
    /\ inside' = inside \ {r}
    /\ UNCHANGED <<loaded, entry, file, offset, wiped>>

\* copy_to_user fails: 0 as well, so the reader takes it for the end.
ReadFault(r) ==
    /\ r \in inside
    /\ offset[r] = 0
    /\ seen' = [seen EXCEPT ![r] = "end"]
    /\ inside' = inside \ {r}
    /\ UNCHANGED <<loaded, entry, file, offset, wiped>>

Close(r) ==
    /\ r \notin inside
    /\ file[r] # NoMod
    /\ seen[r] = "end"
    /\ file' = [file EXCEPT ![r] = NoMod]
    /\ offset' = [offset EXCEPT ![r] = 0]
    /\ UNCHANGED <<loaded, entry, inside, seen, wiped>>

ReaderNext(r) ==
    \/ \E n \in Names : Open(r, n)
    \/ ReadEnter(r) \/ ReadText(r) \/ ReadEnd(r) \/ ReadFault(r) \/ Close(r)

Next ==
    \/ \E m \in Mods :
        \/ ProcInit(m)
        \/ ProcInitFails(m)
        \/ ProcInitFailsByName(m)
        \/ ProcExit(m)
    \/ \E r \in Readers : ReaderNext(r)

\* A reader that has the file open goes on reading, and a call that has
\* entered procfile_read returns.
ReadsOn(r) == ReadEnter(r) \/ ReadText(r) \/ ReadEnd(r) \/ Close(r)
Fairness == \A r \in Readers : WF_vars(ReadsOn(r))

Spec == Init /\ [][Next]_vars
FairSpec == Spec /\ Fairness

-----------------------------------------------------------------------------
(* Properties *)

TypeOK ==
    /\ loaded \subseteq Mods
    /\ entry \in [Names -> Mods \cup {NoMod}]
    /\ file \in [Readers -> Mods \cup {NoMod}]
    /\ offset \in [Readers -> {0, 1}]
    /\ inside \subseteq Readers
    /\ seen \in [Readers -> {"none", "text", "end"}]
    /\ wiped \subseteq Mods

\* A loaded module has its /proc entry: two modules of one name cannot both
\* be loaded, and the second one's failing init leaves the first one's entry
\* alone.  Only the clean-up by name of the seq_file module takes the entry
\* of another module away.
LoadedHasEntry ==
    \A m \in loaded : entry[NameOf[m]] = m \/ m \in wiped

\* procfs_exit leaves nothing behind: no entry belongs to a module that is
\* out, and no call runs in its code.
GoneLeavesNothing ==
    /\ \A n \in Names : entry[n] \in loaded \cup {NoMod}
    /\ \A r \in inside : file[r] \in loaded

\* The comment on procfile_read: the read function must not be called
\* endlessly.  Every reader that opens a file comes to its end, or the file
\* goes away.
ReaderEnds == \A r \in Readers : file[r] # NoMod ~> file[r] = NoMod
=============================================================================
