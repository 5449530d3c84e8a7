----------------------------- MODULE Pop3Client -----------------------------
(***************************************************************************)
(* 2021-09-02-POP3-protocol/pop3_client.c: each client fetches its mails,  *)
(* one file a mail, into a directory named after the second it started, or *)
(* where it was started, if it cannot make or enter that.                  *)
(* libcurl, the server and the file system are external: a request hands   *)
(* the mail over in blocks to pop3_fwrite_cb and may fail at any block.  A *)
(* block fills the buffer of stdio, so that a client writes it at once.    *)
(***************************************************************************)
EXTENDS Integers, Sequences, SequencesExt

CONSTANTS
    Clients,
    Seconds,      \* what current_time may give
    Arguments,    \* the command lines: argv without argv[0]
    Mails         \* the blocks of each mail of a mailbox

VARIABLES
    ctx,          \* of each client: pc, where, pop3_ctx_t and the counters of main
    files         \* files[directory][mail]: the writers of its blocks, or no file

Count(argument) == CASE argument = "1" -> 1 [] argument = "2" -> 2 [] argument = "3" -> 3 [] OTHER -> 0
NoFile == <<"none">>
Hole == "hole"
Indexes == 1 .. Len(Mails) + 1
Cwd == 0          \* the directory the clients are started in

\* pop3_ctx_init, and the state of main before it runs.
pop3_ctx_init ==
    [pc |-> "main", dir |-> Cwd, mail_count |-> 0, mail_index |-> 1,
     fd |-> FALSE, offset |-> 0, bytes_writed |-> 0, got |-> 0, lost |-> FALSE, reported |-> <<>>]

Init ==
    /\ ctx = [c \in Clients |-> pop3_ctx_init]
    /\ files = [dir \in Seconds \cup {Cwd} |-> [i \in Indexes |-> NoFile]]

Set(c, r) == ctx' = [ctx EXCEPT ![c] = r]

\* The --count given last counts; an option that ends the line reads the null
\* behind argv, which atoi does not survive.
parse_command_line_args(argv) ==
    LET numeric == {i \in DOMAIN argv : argv[i] \in {"--count", "--verbose"}}
        counts == {i \in DOMAIN argv : argv[i] = "--count"}
        last == CHOOSE i \in counts : \A j \in counts : j <= i
    IN  [crash |-> Len(argv) \in numeric,
         mail_count |-> IF counts = {} \/ Len(argv) \in numeric THEN 0 ELSE Count(argv[last + 1])]

\* Nobody looks at what mkdir and chdir say: clients of the same second share a
\* directory, and one that does not get into its own stays where it was started.
make_output_dir(r, second, entered) == [r EXCEPT !.dir = IF entered THEN second ELSE @]

\* main up to its loop; argc counts argv[0].
main(c) == \E argv \in Arguments, second \in Seconds, entered \in BOOLEAN, handle \in BOOLEAN :
    LET argc == Len(argv) + 1
        args == parse_command_line_args(argv)
    IN  /\ ctx[c].pc = "main"
        /\ Set(c, IF argc = 1 \/ argv[1] = "--help" \/ argc \notin {7, 9} \/ ~handle
                  THEN [ctx[c] EXCEPT !.pc = "refused"]
                  ELSE [make_output_dir(ctx[c], second, entered) EXCEPT
                           !.pc = IF args.crash THEN "crashed" ELSE "loop",
                           !.mail_count = args.mail_count])
        /\ UNCHANGED files

\* process_mail: fopen empties the file, or fails, which nobody looks at.
process_mail(c) ==
    /\ ctx[c].pc = "loop" /\ ctx[c].mail_index <= ctx[c].mail_count
    /\ \E opened \in BOOLEAN :
           /\ files' = IF opened THEN [files EXCEPT ![ctx[c].dir][ctx[c].mail_index] = <<>>] ELSE files
           /\ Set(c, [ctx[c] EXCEPT !.pc = "perform", !.fd = opened, !.offset = 0, !.got = 0])

Ours(c) == files[ctx[c].dir][ctx[c].mail_index]
Known(c) == ctx[c].mail_index <= Len(Mails)
Put(file, at, who) ==
    [i \in 1 .. (IF at + 1 > Len(file) THEN at + 1 ELSE Len(file)) |->
        IF i = at + 1 THEN who ELSE IF i \in DOMAIN file THEN file[i] ELSE Hole]

\* fwrite and fclose of the null of an fopen that failed.
UseNull(c) ==
    /\ ctx[c].pc = "perform" /\ Known(c) /\ ~ctx[c].fd
    /\ Set(c, [ctx[c] EXCEPT !.pc = "crashed"])
    /\ UNCHANGED files

\* A block: written behind what this client has written before, wherever the
\* file ends by now.  A full disk keeps nothing, and is not noticed.
pop3_fwrite_cb(c) ==
    /\ ctx[c].pc = "perform" /\ Known(c) /\ ctx[c].fd /\ ctx[c].got < Mails[ctx[c].mail_index]
    /\ \/ /\ files' = [files EXCEPT ![ctx[c].dir][ctx[c].mail_index] = Put(@, ctx[c].offset, c)]
          /\ Set(c, [ctx[c] EXCEPT !.got = @ + 1, !.offset = @ + 1, !.bytes_writed = @ + 1])
       \/ /\ UNCHANGED files
          /\ Set(c, [ctx[c] EXCEPT !.got = @ + 1, !.bytes_writed = @ + 1, !.lost = TRUE])

\* curl_easy_perform fails: exit(-1), which leaves the file as it is.
Refuse(c) ==
    /\ ctx[c].pc = "perform"
    /\ Set(c, [ctx[c] EXCEPT !.pc = "failed"])
    /\ UNCHANGED files

\* Mutant: bytes_writed is not set back.
pop3_requestAdds(c) ==
    /\ ctx[c].pc = "perform" /\ Known(c) /\ ctx[c].fd /\ ctx[c].got = Mails[ctx[c].mail_index]
    /\ Set(c, [ctx[c] EXCEPT !.pc = "loop", !.mail_index = @ + 1,
                             !.reported = Append(@, ctx[c].bytes_writed)])
    /\ UNCHANGED files

\* The whole mail came: fclose, the line of progress, the next mail.
pop3_request(c) ==
    /\ ctx[c].pc = "perform" /\ Known(c) /\ ctx[c].fd /\ ctx[c].got = Mails[ctx[c].mail_index]
    /\ Set(c, [ctx[c] EXCEPT !.pc = "loop", !.mail_index = @ + 1,
                             !.reported = Append(@, ctx[c].bytes_writed), !.bytes_writed = 0])
    /\ UNCHANGED files

Finish(c) ==
    /\ ctx[c].pc = "loop" /\ ctx[c].mail_index > ctx[c].mail_count
    /\ Set(c, [ctx[c] EXCEPT !.pc = "done"])
    /\ UNCHANGED files

Next == \E c \in Clients :
    main(c) \/ process_mail(c) \/ UseNull(c) \/ pop3_fwrite_cb(c) \/ Refuse(c) \/ pop3_request(c) \/ Finish(c)

-----------------------------------------------------------------------------
(* Properties *)

Begun(c) == ctx[c].pc \notin {"main", "refused"}
\* No other client is in the same directory, be it that of a second or Cwd.
Alone(c) == \A d \in Clients \ {c} : Begun(d) => ctx[d].dir # ctx[c].dir
Whole(c, i) == files[ctx[c].dir][i] = [b \in 1 .. Mails[i] |-> c]

\* While it has its directory to itself and the disk has room, a client that
\* runs, ends or fails has every mail before the one it is at whole, that one
\* as far as it came and none behind; and always, the line of progress of a
\* mail counts the blocks of that mail alone.
Sound == \A c \in Clients :
    /\ \A i \in DOMAIN ctx[c].reported : ctx[c].reported[i] = Mails[i]
    /\ ctx[c].pc = "done" => Len(ctx[c].reported) = ctx[c].mail_count
    /\ Begun(c) /\ ctx[c].pc # "crashed" /\ Alone(c) /\ ~ctx[c].lost =>
           \A i \in Indexes :
               IF i < ctx[c].mail_index THEN Whole(c, i)
               ELSE IF i = ctx[c].mail_index /\ ctx[c].pc \in {"perform", "failed"}
               THEN Ours(c) = IF ctx[c].fd THEN [b \in 1 .. ctx[c].got |-> c] ELSE NoFile
               ELSE files[ctx[c].dir][i] = NoFile
=============================================================================
