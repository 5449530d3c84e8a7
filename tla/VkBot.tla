-------------------------------- MODULE VkBot --------------------------------
(***************************************************************************)
(* vk_bot: init_bot's long-poll loop, Command_handler with its commands,   *)
(* the nickname table in users.db and the cURL requests.  Users write to   *)
(* the group at any time; the service numbers the messages.  Neither       *)
(* sqlite3_open nor curl_easy_init is ever undone, so every use costs a    *)
(* descriptor until the process ends.  A message is one of the kinds the   *)
(* code tells apart, and a reply is its kind and the nickname it starts    *)
(* with.                                                                   *)
(***************************************************************************)
EXTENDS Naturals, Sequences, FiniteSets

Kinds == {"silent", "blank", "empty", "short", "help", "hash", "media",
          "weather", "remove"}

CONSTANTS
    Users,
    Writes,     \* bound: kinds of messages users write, besides nicknames
    Names,      \* nicknames users ask for
    BadNames,   \* those of them that end the SQL string literal early
    NoName,     \* ""
    MaxMsgs,    \* bound: messages in one behaviour
    MaxFds      \* descriptors a process can have

ASSUME VkBotAssumption ==
    /\ IsFiniteSet(Users)
    /\ Writes \subseteq Kinds
    /\ BadNames \subseteq Names
    /\ NoName \notin Names
    /\ MaxMsgs \in Nat /\ MaxFds \in Nat

VARIABLES
    log,       \* the messages of the group, in the order of their ts
    pc,        \* where the bot is
    ts,        \* the ts getLongPollServer returned
    msg,       \* index in log of the message being handled
    nickname,  \* _nickname of the handler
    fds,       \* descriptors the process has used up
    db,        \* users.db: PREFIX of each USER_ID, or NoName
    reply,     \* the answer the command has prepared
    sent,      \* answers the service got: sequence of [to, what, nick]
    tried,     \* history: the messages whose answer was sent off
    asked,     \* history: the last nickname command executed for each user
    dropped    \* history: a statement was not executed
vars == <<log, pc, ts, msg, nickname, fds, db, reply, sent, tried, asked,
          dropped>>
store == <<db, asked, dropped>>
answers == <<sent, tried>>

Messages ==
    [from : Users, kind : Writes, name : {NoName}]
    \cup [from : Users, kind : {"add"}, name : Names]
Whats == {"empty query", "help", "hash", "media", "not found", "weather",
          "no such city", "set", "removed", "not set"}
NoReply == [to |-> 0, what |-> "none", nick |-> NoName]
Pcs == {"server", "poll", "construct", "command", "answer", "crashed"}

Init ==
    /\ log = <<>>
    /\ pc = "server"
    /\ ts = 0
    /\ msg = 0
    /\ nickname = NoName
    /\ fds = 0
    /\ db \in [Users -> (Names \ BadNames) \cup {NoName}]
    /\ reply = NoReply
    /\ sent = <<>>
    /\ tried = {}
    /\ asked = db
    /\ dropped = FALSE

\* A request or sqlite3_open: it can work while there are descriptors.
Works == fds < MaxFds
\* Mutant: the handle is closed after use.
UseAndClose == fds' = fds
Use == fds' = IF Works THEN fds + 1 ELSE fds

Sender == log[msg].from
Answer(what) == [to |-> msg, what |-> what, nick |-> NoName]
AnswerByName(what) == [to |-> msg, what |-> what, nick |-> nickname]

-----------------------------------------------------------------------------
Write(m) ==
    /\ Len(log) < MaxMsgs
    /\ log' = Append(log, m)
    /\ UNCHANGED <<pc, ts, msg, nickname, fds, store, reply, answers>>

\* Mutant: the loop goes on from the ts of the first request.
GetServerOnce ==
    /\ pc = "server"
    /\ Use
    /\ pc' = "poll"
    /\ UNCHANGED <<log, ts, msg, nickname, store, reply, answers>>

\* groups.getLongPollServer, in every round: ts is that of the newest
\* message.  Without an answer, or with an error for one, the JSON library
\* throws and nobody catches.
GetServer ==
    /\ pc = "server"
    /\ Use
    /\ \/ Works /\ pc' = "poll" /\ ts' = Len(log)
       \/ pc' = "crashed" /\ UNCHANGED ts
    /\ UNCHANGED <<log, msg, nickname, store, reply, answers>>

\* a_check returns with the messages after ts; only updates[0] is handled, and
\* only if it has a text.
PollUpdate ==
    /\ pc = "poll"
    /\ Works /\ Use
    /\ Len(log) > ts
    /\ msg' = ts + 1
    /\ pc' = "construct"
    /\ UNCHANGED <<log, ts, nickname, store, reply, answers>>

\* Sixty seconds without a message, or an answer that has no updates because
\* it tells of an error.
PollTimeout ==
    /\ pc = "poll"
    /\ Works /\ Use
    /\ pc' = "server"
    /\ UNCHANGED <<log, ts, msg, nickname, store, reply, answers>>

\* No answer, or one that is not JSON.
PollFails ==
    /\ pc = "poll"
    /\ pc' = "crashed"
    /\ Use
    /\ UNCHANGED <<log, ts, msg, nickname, store, reply, answers>>

\* Command_handler's members: return_nickname gives "" when users.db cannot be
\* opened.
Construct ==
    /\ pc = "construct"
    /\ pc' = "command"
    /\ Use
    /\ nickname' = IF Works THEN db[Sender] ELSE NoName
    /\ UNCHANGED <<log, ts, msg, store, reply, answers>>

-----------------------------------------------------------------------------
(* init_commands *)

Kind(kind) == pc = "command" /\ log[msg].kind = kind
Prepare(r) == pc' = "answer" /\ reply' = r
Crash == pc' = "crashed" /\ UNCHANGED reply
Silence == pc' = "server" /\ UNCHANGED reply

\* No text, or no command.
Ignore ==
    /\ Kind("silent")
    /\ Silence
    /\ UNCHANGED <<log, ts, msg, nickname, fds, store, answers>>

\* A text of blanks has no tokenized_message[0].
Blank ==
    /\ Kind("blank")
    /\ Crash
    /\ UNCHANGED <<log, ts, msg, nickname, fds, store, answers>>

\* The command alone.
EmptyQuery ==
    /\ Kind("empty")
    /\ Prepare(Answer("empty query"))
    /\ UNCHANGED <<log, ts, msg, nickname, fds, store, answers>>

\* The command and a blank: tokenized_message[1] is past the end.
ShortQuery ==
    /\ Kind("short")
    /\ Crash \/ Silence
    /\ UNCHANGED <<log, ts, msg, nickname, fds, store, answers>>

Help ==
    /\ Kind("help")
    /\ Prepare(Answer("help"))
    /\ UNCHANGED <<log, ts, msg, nickname, fds, store, answers>>

\* Mutant: the answer is not sent.
HashNoAnswer ==
    /\ Kind("hash")
    /\ Silence
    /\ UNCHANGED <<log, ts, msg, nickname, fds, store, answers>>

\* crc32_command and sha256_command.
Hash ==
    /\ Kind("hash")
    /\ Prepare(AnswerByName("hash"))
    /\ UNCHANGED <<log, ts, msg, nickname, fds, store, answers>>

\* The request of a search or for the weather has no answer: json::parse
\* throws.
RequestFails ==
    /\ Kind("media") \/ Kind("weather")
    /\ Use
    /\ Crash
    /\ UNCHANGED <<log, ts, msg, nickname, store, answers>>

\* _media_search with size items: rand() % size - 1 divides by zero when there
\* is none and is -1, an index nlohmann::json cannot make, for one value of
\* rand() when there are several.  An item without ids is not sent.
MediaSearch(size) ==
    /\ Kind("media")
    /\ Works /\ Use
    /\ \/ size # 1 /\ Crash
       \/ size > 0 /\ (Prepare(AnswerByName("media")) \/ Silence)
    /\ UNCHANGED <<log, ts, msg, nickname, store, answers>>

Weather(known) ==
    /\ Kind("weather")
    /\ Works /\ Use
    /\ Prepare(Answer(IF known THEN "weather" ELSE "no such city"))
    /\ UNCHANGED <<log, ts, msg, nickname, store, answers>>

\* insert_nickname: the result of sqlite3_exec is not looked at.
Insert(user, name) ==
    /\ Use
    /\ db' = [db EXCEPT ![user] = IF Works /\ name \notin BadNames THEN name
                                  ELSE @]
    /\ asked' = [asked EXCEPT ![user] = name]
    /\ dropped' = (dropped \/ ~Works \/ name \in BadNames)

AddNickname ==
    /\ Kind("add")
    /\ Insert(Sender, log[msg].name)
    /\ Prepare(Answer("set"))
    /\ UNCHANGED <<log, ts, msg, nickname, answers>>

\* Mutant: only the answer is given.
RemoveNothing ==
    /\ Kind("remove")
    /\ Use
    /\ asked' = [asked EXCEPT ![Sender] = NoName]
    /\ Prepare(Answer(IF nickname # NoName THEN "removed" ELSE "not set"))
    /\ UNCHANGED <<log, ts, msg, nickname, db, dropped, answers>>

RemoveNickname ==
    /\ Kind("remove")
    /\ Insert(Sender, NoName)
    /\ Prepare(Answer(IF nickname # NoName THEN "removed" ELSE "not set"))
    /\ UNCHANGED <<log, ts, msg, nickname, answers>>

\* messages.send: cURL::request does not look at what comes of it, so the
\* answer is lost when the request fails or has no descriptor.
Send(delivered) ==
    /\ pc = "answer"
    /\ pc' = "server"
    /\ Use
    /\ sent' = IF Works /\ delivered THEN Append(sent, reply) ELSE sent
    /\ tried' = tried \cup {reply.to}
    /\ reply' = NoReply
    /\ UNCHANGED <<log, ts, msg, nickname, store>>

\* The process is killed at any point, and a new one finds users.db.
Kill ==
    /\ pc # "crashed"
    /\ pc' = "crashed"
    /\ UNCHANGED <<log, ts, msg, nickname, fds, store, reply, answers>>

Restart ==
    /\ pc = "crashed"
    /\ pc' = "server"
    /\ ts' = 0
    /\ msg' = 0
    /\ nickname' = NoName
    /\ fds' = 0
    /\ reply' = NoReply
    /\ UNCHANGED <<log, store, answers>>

-----------------------------------------------------------------------------
Command ==
    \/ Ignore \/ Blank \/ EmptyQuery \/ ShortQuery \/ Help \/ Hash
    \/ \E size \in 0 .. 2 : MediaSearch(size)
    \/ \E known \in BOOLEAN : Weather(known)
    \/ RequestFails
    \/ AddNickname \/ RemoveNickname

Bot ==
    \/ GetServer \/ PollUpdate \/ PollTimeout \/ PollFails \/ Construct
    \/ Command
    \/ \E delivered \in BOOLEAN : Send(delivered)

Next ==
    \/ \E m \in Messages : Write(m)
    \/ Bot
    \/ Kill
    \/ Restart

Spec == Init /\ [][Next]_vars

\* The bot is one process that the scheduler runs; nothing makes the operator
\* restart it.
FairSpec == Spec /\ WF_vars(Bot)

-----------------------------------------------------------------------------
(* Properties *)

TypeOK ==
    /\ log \in Seq(Messages)
    /\ pc \in Pcs
    /\ ts \in 0 .. MaxMsgs
    /\ msg \in 0 .. MaxMsgs
    /\ nickname \in Names \cup {NoName}
    /\ fds \in 0 .. MaxFds
    /\ db \in [Users -> Names \cup {NoName}]
    /\ \A i \in DOMAIN sent : sent[i].to \in DOMAIN log /\ sent[i].what \in Whats
    /\ tried \subseteq DOMAIN log
    /\ asked \in [Users -> Names \cup {NoName}]
    /\ dropped \in BOOLEAN

\* No message is answered twice and answers go out in the order of the
\* messages, over crashes and restarts too: every round asks for the newest ts.
AnsweredOnce ==
    \A i, j \in DOMAIN sent : i < j => sent[i].to < sent[j].to

\* An answer that calls the user by a nickname uses the one of his last
\* nickname command that was executed, unless the statement could not be.
UsesLastNickname ==
    [][sent' # sent /\ sent'[Len(sent')].nick # NoName =>
         \/ sent'[Len(sent')].nick = asked[log[sent'[Len(sent')].to].from]
         \/ dropped]_vars

\* A round that got a message sends its answer off before it ends, unless the
\* message calls for none or the process dies; it does so once, over restarts
\* too, so an answer whose request fails is lost for good.
HandledIsTriedOnce ==
    /\ [][pc' = "server" /\ pc \in {"construct", "command", "answer"} =>
             msg \in tried' \/ log[msg].kind \in {"silent", "short", "media"}]_vars
    /\ [][pc = "answer" /\ pc' = "server" => msg \notin tried]_vars

\* Every round of the loop leaks descriptors, messages or not, so a bot that
\* is left alone dies: the first request without one gives json::parse an
\* empty string.
DiesOfLeaks == []<>(pc = "crashed")

\* What _media_search has an answer for, "not found": a search without a
\* result does not end the process.
SurvivesNotFound == [][MediaSearch(0) => pc' # "crashed"]_vars
=============================================================================
