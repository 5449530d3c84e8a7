------------------------------- MODULE SeqFile -------------------------------
(***************************************************************************)
(* The seq_file handlers of seq-file-procfs-file.c.  The seq_file library  *)
(* calls start, show, next and stop in one read, under a lock of the open  *)
(* file; counter is one static variable for all files, so readers of       *)
(* different files run the handlers at the same time.                      *)
(***************************************************************************)
EXTENDS Naturals, Sequences, FiniteSets

CONSTANTS
    Files,      \* open files of /proc/iter, each read by one process
    MaxReads    \* bound: sequences in one behaviour

VARIABLES
    counter,  \* the static counter of module_seq_start
    index,    \* *offset of each file, kept by the library between reads
    pc,       \* the handler each file's read is at
    temp,     \* the value of *ptr that next is incrementing
    lines,    \* the lines a file's reader got since the last end of file
    ends,     \* whether the last read of the file returned 0
    started,  \* history: sequences begun
    raced     \* history: two reads were inside at once
vars == <<counter, index, pc, temp, lines, ends, started, raced>>

Pcs == {"idle", "show", "next", "store"}

Init ==
    /\ counter = 0
    /\ index = [f \in Files |-> 0]
    /\ pc = [f \in Files |-> "idle"]
    /\ temp = [f \in Files |-> 0]
    /\ lines = [f \in Files |-> <<>>]
    /\ ends = [f \in Files |-> FALSE]
    /\ started = 0
    /\ raced = FALSE

Goes(f, from, to) ==
    /\ pc[f] = from
    /\ pc' = [pc EXCEPT ![f] = to]

\* module_seq_start at offset 0: a new sequence, on the static counter.
Start(f) ==
    /\ index[f] = 0
    /\ started < MaxReads
    /\ Goes(f, "idle", "show")
    /\ started' = started + 1
    /\ raced' = (raced \/ \E g \in Files : pc[g] # "idle")
    /\ ends' = [ends EXCEPT ![f] = FALSE]
    /\ lines' = [lines EXCEPT ![f] = IF ends[f] THEN <<>> ELSE @]
    /\ UNCHANGED <<counter, index, temp>>

\* module_seq_start past the first element: NULL, so read returns 0, and
\* the sequence may begin again.
StartAtEnd(f) ==
    /\ pc[f] = "idle"
    /\ index[f] # 0
    /\ index' = [index EXCEPT ![f] = 0]
    /\ ends' = [ends EXCEPT ![f] = TRUE]
    /\ UNCHANGED <<counter, pc, temp, lines, started, raced>>

\* module_seq_show prints *ptr.
Show(f) ==
    /\ Goes(f, "show", "next")
    /\ lines' = [lines EXCEPT ![f] = Append(@, counter)]
    /\ UNCHANGED <<counter, index, temp, ends, started, raced>>

\* module_seq_next: (*(size_t *)ptr)++ is a load and a store ...
NextLoad(f) ==
    /\ Goes(f, "next", "store")
    /\ temp' = [temp EXCEPT ![f] = counter]
    /\ UNCHANGED <<counter, index, lines, ends, started, raced>>

\* ... and (*offset)++; it returns NULL, and stop does nothing.
NextStore(f) ==
    /\ Goes(f, "store", "idle")
    /\ counter' = temp[f] + 1
    /\ index' = [index EXCEPT ![f] = @ + 1]
    /\ temp' = [temp EXCEPT ![f] = 0]
    /\ UNCHANGED <<lines, ends, started, raced>>

Next ==
    \E f \in Files :
        Start(f) \/ StartAtEnd(f) \/ Show(f) \/ NextLoad(f) \/ NextStore(f)

Spec == Init /\ [][Next]_vars

-----------------------------------------------------------------------------
(* Properties *)

TypeOK ==
    /\ counter \in 0 .. MaxReads
    /\ index \in [Files -> {0, 1}]
    /\ pc \in [Files -> Pcs]
    /\ temp \in [Files -> 0 .. MaxReads]
    /\ \A f \in Files : lines[f] \in Seq(0 .. MaxReads)
    /\ ends \in [Files -> BOOLEAN]
    /\ started \in 0 .. MaxReads
    /\ raced \in BOOLEAN

\* One pass over the file, from offset 0 to the read that returns 0, gives
\* one line: the comment on start says NULL ends the sequence, and cat stops.
OneLinePerPass ==
    \A f \in Files : /\ Len(lines[f]) <= 1
                     /\ ends[f] => Len(lines[f]) = 1

\* The counter counts the sequences exactly as long as reads do not overlap:
\* the increment is not atomic, and no lock covers two files.
CountsSequences ==
    (\A f \in Files : pc[f] = "idle") => counter = started \/ raced

\* Even when increments are lost, a reader never sees more sequences than
\* were begun before its own.
NeverAhead ==
    \A f \in Files : \A i \in DOMAIN lines[f] : lines[f][i] < started
=============================================================================
