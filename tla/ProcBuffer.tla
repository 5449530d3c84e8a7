----------------------------- MODULE ProcBuffer -----------------------------
(***************************************************************************)
(* procfile_write of read-write-procfs-file.c: processes write the file    *)
(* /proc/1k_buffer concurrently; the size and the buffer are static and no *)
(* lock guards them, so every access to the size is a step of its own.     *)
(* Only the length and the writer of what is in the buffer are kept.       *)
(***************************************************************************)
EXTENDS Integers, FiniteSets

CONSTANTS
    Writers,          \* processes that write the file
    NoWriter,         \* nobody has written yet
    PROCFS_MAX_SIZE   \* size of procfs_buf, a power of two

\* Lengths that matter: below, at and above the size of the buffer.
Lengths == 0 .. PROCFS_MAX_SIZE + 1

VARIABLES
    procfs_buf_size,  \* static size_t
    content,          \* procfs_buf: whose bytes it starts with and how many
    pc,               \* where each writer is in procfile_write
    len,              \* its buf_len
    copied,           \* how many bytes its copy_from_user moved
    result,           \* what the call returned
    printed,          \* the text pr_info printed: whose, and how long
    overlapped,       \* history: another call ran during this one
    overrun           \* history: its copy went past the end of procfs_buf
vars == <<procfs_buf_size, content, pc, len, copied, result, printed,
          overlapped, overrun>>

Nobody == [by |-> NoWriter, n |-> 0]
EFAULT == 14
Pcs == {"idle", "clamp", "copy", "terminate", "return"}
Active(w) == pc[w] # "idle"

Init ==
    /\ procfs_buf_size = 0
    /\ content = Nobody
    /\ pc = [w \in Writers |-> "idle"]
    /\ len = [w \in Writers |-> 0]
    /\ copied = [w \in Writers |-> 0]
    /\ result = [w \in Writers |-> 0]
    /\ printed = [w \in Writers |-> Nobody]
    /\ overlapped = [w \in Writers |-> FALSE]
    /\ overrun = [w \in Writers |-> FALSE]

WriterGoes(w, from, to) ==
    /\ pc[w] = from
    /\ pc' = [pc EXCEPT ![w] = to]

\* procfs_buf_size = buf_len.
WriteSize(w, n) ==
    /\ WriterGoes(w, "idle", "clamp")
    /\ procfs_buf_size' = n
    /\ len' = [len EXCEPT ![w] = n]
    /\ copied' = [copied EXCEPT ![w] = 0]
    /\ overlapped' = [v \in Writers |->
         IF v = w THEN \E u \in Writers \ {w} : Active(u)
         ELSE overlapped[v] \/ Active(v)]
    /\ overrun' = [overrun EXCEPT ![w] = FALSE]
    /\ UNCHANGED <<content, result, printed>>

\* The size is cut to PROCFS_MAX_SIZE.
WriteClamp(w) ==
    /\ WriterGoes(w, "clamp", "copy")
    /\ procfs_buf_size' = IF procfs_buf_size > PROCFS_MAX_SIZE
                          THEN PROCFS_MAX_SIZE ELSE procfs_buf_size
    /\ UNCHANGED <<content, len, copied, result, printed, overlapped, overrun>>

\* copy_from_user of as many bytes as the size says now.
WriteCopy(w) ==
    /\ WriterGoes(w, "copy", "terminate")
    /\ content' = [by |-> w, n |-> procfs_buf_size]
    /\ copied' = [copied EXCEPT ![w] = procfs_buf_size]
    /\ overrun' = [overrun EXCEPT ![w] = procfs_buf_size > PROCFS_MAX_SIZE]
    /\ UNCHANGED <<procfs_buf_size, len, result, printed, overlapped>>

\* copy_from_user fails: the size has changed, the buffer has not.
WriteFault(w) ==
    /\ WriterGoes(w, "copy", "idle")
    /\ result' = [result EXCEPT ![w] = -EFAULT]
    /\ UNCHANGED <<procfs_buf_size, content, len, copied, printed, overlapped,
                   overrun>>

\* procfs_buf[procfs_buf_size & (PROCFS_MAX_SIZE - 1)] = '\0' and pr_info: the
\* text ends at the first of its own end and the terminator.
WriteTerminate(w) ==
    /\ WriterGoes(w, "terminate", "return")
    /\ LET nul == procfs_buf_size % PROCFS_MAX_SIZE
       IN  content' = [content EXCEPT !.n = IF nul < @ THEN nul ELSE @]
    /\ printed' = [printed EXCEPT ![w] = content']
    /\ UNCHANGED <<procfs_buf_size, len, copied, result, overlapped, overrun>>

\* return procfs_buf_size, as it is now.
WriteReturn(w) ==
    /\ WriterGoes(w, "return", "idle")
    /\ result' = [result EXCEPT ![w] = procfs_buf_size]
    /\ UNCHANGED <<procfs_buf_size, content, len, copied, printed, overlapped,
                   overrun>>

Next ==
    \E w \in Writers :
        \/ \E n \in Lengths : WriteSize(w, n)
        \/ WriteClamp(w)
        \/ WriteCopy(w)
        \/ WriteFault(w)
        \/ WriteTerminate(w)
        \/ WriteReturn(w)

Spec == Init /\ [][Next]_vars

-----------------------------------------------------------------------------
(* Properties *)

Texts == [by : Writers \cup {NoWriter}, n : Lengths]

TypeOK ==
    /\ procfs_buf_size \in Lengths
    /\ content \in Texts
    /\ pc \in [Writers -> Pcs]
    /\ len \in [Writers -> Lengths]
    /\ copied \in [Writers -> Lengths]
    /\ result \in [Writers -> Lengths \cup {-EFAULT}]
    /\ printed \in [Writers -> Texts]
    /\ overlapped \in [Writers -> BOOLEAN]
    /\ overrun \in [Writers -> BOOLEAN]

\* copy_from_user stays inside procfs_buf in a write that no other write
\* overlapped: the clamp is between the store of the length and its use, and
\* only a second writer can store a longer one after it.
CopyFits == \A w \in Writers : overrun[w] => overlapped[w]

\* A write that ran alone returns the number of bytes it copied, which is all
\* of them or a full buffer.
ReturnsCopied ==
    \A w \in Writers :
        ~Active(w) /\ ~overlapped[w] /\ result[w] # -EFAULT =>
            /\ result[w] = copied[w]
            /\ copied[w] = IF len[w] > PROCFS_MAX_SIZE
                           THEN PROCFS_MAX_SIZE ELSE len[w]

\* A write that ran alone prints its own bytes: all of them if they left room
\* for the terminator, and none of them if they filled the buffer, because
\* the terminator of a full buffer lands on its first byte.
PrintsOwn ==
    \A w \in Writers :
        pc[w] = "return" /\ ~overlapped[w] =>
            printed[w] = [by |-> w, n |-> IF len[w] < PROCFS_MAX_SIZE
                                          THEN len[w] ELSE 0]
=============================================================================
