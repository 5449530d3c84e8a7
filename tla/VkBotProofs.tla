----------------------------- MODULE VkBotProofs -----------------------------
(***************************************************************************)
(* What vk_bot answers, proved for any users, nicknames, number of         *)
(* messages and of descriptors, and any crashes and restarts: no message   *)
(* is answered twice, answers use the nickname that is in users.db, and a  *)
(* round that got a message sends its answer off once.                     *)
(***************************************************************************)
EXTENDS VkBot, SequenceTheorems, TLAPS

Nicks == Names \cup {NoName}
Replies == [to : Nat \ {0}, what : Whats, nick : Nicks]
Handling == pc \in {"construct", "command", "answer"}

\* The values have their types, the sequence of answers too.
Typed ==
    /\ log \in Seq(Messages)
    /\ pc \in Pcs
    /\ ts \in Nat /\ msg \in Nat
    /\ nickname \in Nicks
    /\ fds \in 0 .. MaxFds
    /\ db \in [Users -> Nicks] /\ asked \in [Users -> Nicks]
    /\ dropped \in BOOLEAN
    /\ sent \in Seq(Replies)
    /\ tried \subseteq Nat
    /\ pc = "answer" => reply \in Replies

\* The bot looks at the message behind the ts it was told last.
Positions ==
    /\ ts <= Len(log) /\ Len(log) <= MaxMsgs
    /\ msg <= Len(log)
    /\ Handling => msg = ts + 1
    /\ pc = "answer" => reply.to = msg

\* Answers were sent off to messages up to that ts, but between the end of a
\* round or a restart and the next request for a ts.
Behind ==
    /\ \A i \in DOMAIN sent : sent[i].to \in tried
    /\ \A m \in tried :
           /\ m \in 1 .. Len(log)
           /\ pc = "poll" \/ Handling => m <= ts

\* The handler's nickname, and that of its answer, are the ones of users.db,
\* which has every nickname asked for unless a statement was dropped.
Nicknames ==
    /\ dropped \/ db = asked
    /\ pc = "command" => nickname \in {NoName, db[Sender]}
    /\ pc = "answer" => reply.nick \in {NoName, db[Sender]}

BotInv == Typed /\ Positions /\ Behind /\ Nicknames /\ AnsweredOnce

\* The message that is handled is one of the log, of a user.
LEMMA SenderIsUser ==
    ASSUME Typed, Positions, Handling
    PROVE  /\ msg \in 1 .. Len(log) /\ log[msg] \in Messages
           /\ Sender \in Users /\ log[msg].name \in Nicks
<1>1. msg \in 1 .. Len(log)
  BY DEF Typed, Positions
<1>2. log[msg] \in Messages
  BY <1>1 DEF Typed
<1> QED
  BY <1>1, <1>2 DEF Messages, Sender, Nicks

\* The answers that messages.send got are numbered and each has a message.
LEMMA SentIsTyped ==
    ASSUME Typed
    PROVE  /\ DOMAIN sent = 1 .. Len(sent) /\ Len(sent) \in Nat /\ Len(log) \in Nat
           /\ \A i \in DOMAIN sent : sent[i] \in Replies /\ sent[i].to \in Nat \ {0}
<1>1. sent \in Seq(Replies) /\ log \in Seq(Messages)
  BY DEF Typed
<1>2. \A i \in DOMAIN sent : sent[i] \in Replies
  BY <1>1
<1>3. \A r \in Replies : r.to \in Nat \ {0}
  BY DEF Replies
<1> QED
  BY <1>1, <1>2, <1>3

\* A request uses up a descriptor of those that there are.
LEMMA UseBounded == ASSUME Typed, Use PROVE fds' \in 0 .. MaxFds
BY VkBotAssumption DEF VkBotAssumption, Typed, Use, Works

\* What a command that leaves users.db alone may do: die, be silent, or
\* prepare an answer to its message with no nickname or the handler's.
LEMMA CommandKeeps ==
    ASSUME BotInv, pc = "command",
           UNCHANGED <<log, ts, msg, nickname, store, answers>>,
           fds' \in 0 .. MaxFds,
           \/ pc' \in {"server", "crashed"}
           \/ /\ pc' = "answer"
              /\ reply' \in [to : {msg}, what : Whats, nick : {NoName, nickname}]
    PROVE  BotInv'
<1> USE DEF Handling, Pcs, store, answers
<1>0. Typed /\ Positions /\ Behind /\ Nicknames /\ AnsweredOnce /\ msg \in Nat \ {0}
  BY SenderIsUser DEF BotInv, Typed, Positions
<1>1. pc' = "answer" => reply' \in Replies /\ reply'.to = msg /\ reply'.nick \in {NoName, nickname}
  BY <1>0 DEF Typed, Replies, Nicks
<1>2. Typed'
  BY <1>0, <1>1 DEF Typed
<1>3. Positions' /\ Behind' /\ AnsweredOnce'
  BY <1>0, <1>1 DEF Positions, Behind, AnsweredOnce
<1>4. Nicknames'
  BY <1>0, <1>1 DEF Nicknames, Sender
<1> QED
  BY <1>2, <1>3, <1>4 DEF BotInv

\* insert_nickname and the answer of its command, which has no nickname.
LEMMA InsertKeeps ==
    ASSUME BotInv, pc = "command", NEW name \in Nicks, NEW what \in Whats,
           Insert(Sender, name), Prepare(Answer(what)),
           UNCHANGED <<log, ts, msg, nickname, answers>>
    PROVE  BotInv'
<1> USE DEF Handling, Pcs, answers
<1>0. Typed /\ Positions /\ Behind /\ Nicknames /\ AnsweredOnce /\ msg \in Nat \ {0}
      /\ Sender \in Users
  BY SenderIsUser DEF BotInv, Typed, Positions
<1>1. /\ pc' = "answer" /\ reply' \in Replies /\ reply'.to = msg /\ reply'.nick = NoName
      /\ fds' \in 0 .. MaxFds
  BY <1>0, UseBounded DEF Prepare, Answer, Replies, Nicks, Insert
<1>2. /\ db' \in [Users -> Nicks] /\ asked' \in [Users -> Nicks] /\ dropped' \in BOOLEAN
      /\ dropped' \/ db' = asked'
  <2>1. db' = [db EXCEPT ![Sender] = IF Works /\ name \notin BadNames THEN name ELSE db[Sender]]
        /\ asked' = [asked EXCEPT ![Sender] = name]
    BY DEF Insert
  <2>2. dropped' \in BOOLEAN /\ (~dropped' => ~dropped /\ Works /\ name \notin BadNames)
    BY <1>0, Zenon DEF Insert, Typed
  <2>3. db \in [Users -> Nicks] /\ asked \in [Users -> Nicks] /\ (dropped \/ db = asked)
    BY <1>0 DEF Typed, Nicknames
  <2> QED
    BY <1>0, <2>1, <2>2, <2>3
<1>3. Typed'
  BY <1>0, <1>1, <1>2 DEF Typed
<1>4. Positions' /\ Behind' /\ AnsweredOnce'
  BY <1>0, <1>1 DEF Positions, Behind, AnsweredOnce
<1>5. Nicknames'
  BY <1>1, <1>2 DEF Nicknames
<1> QED
  BY <1>3, <1>4, <1>5 DEF BotInv

\* Each command, whatever the message is.
LEMMA CommandStep == ASSUME BotInv, Command PROVE BotInv'
<1>0. Typed
  BY DEF BotInv
<1>1. fds \in 0 .. MaxFds
  BY <1>0 DEF Typed
<1> USE DEF Kind, Silence, Crash, Prepare, Answer, AnswerByName, Whats
<1>2. CASE Ignore
  BY <1>1, <1>2, CommandKeeps DEF Ignore
<1>3. CASE Blank
  BY <1>1, <1>3, CommandKeeps DEF Blank
<1>4. CASE EmptyQuery
  BY <1>1, <1>4, CommandKeeps DEF EmptyQuery
<1>5. CASE ShortQuery
  BY <1>1, <1>5, CommandKeeps DEF ShortQuery
<1>6. CASE Help
  BY <1>1, <1>6, CommandKeeps DEF Help
<1>7. CASE Hash
  BY <1>1, <1>7, CommandKeeps DEF Hash
<1>8. ASSUME NEW size \in 0 .. 2, MediaSearch(size) PROVE BotInv'
  <2>1. /\ pc = "command" /\ UNCHANGED <<log, ts, msg, nickname, store, answers>>
        /\ fds' \in 0 .. MaxFds
    BY <1>0, <1>8, UseBounded DEF MediaSearch
  <2>2. \/ pc' \in {"server", "crashed"}
        \/ /\ pc' = "answer"
           /\ reply' \in [to : {msg}, what : Whats, nick : {NoName, nickname}]
    <3>1. AnswerByName("media") \in [to : {msg}, what : Whats, nick : {NoName, nickname}]
      OBVIOUS
    <3>2. Crash \/ Silence \/ Prepare(AnswerByName("media"))
      BY <1>8 DEF MediaSearch
    <3> QED
      BY <3>1, <3>2
  <2> QED
    BY <2>1, <2>2, CommandKeeps
<1>9. ASSUME NEW known \in BOOLEAN, Weather(known) PROVE BotInv'
  <2>1. /\ pc = "command" /\ UNCHANGED <<log, ts, msg, nickname, store, answers>>
        /\ fds' \in 0 .. MaxFds
    BY <1>0, <1>9, UseBounded DEF Weather
  <2>2. \/ pc' \in {"server", "crashed"}
        \/ /\ pc' = "answer"
           /\ reply' \in [to : {msg}, what : Whats, nick : {NoName, nickname}]
    <3>1. \A what \in Whats : Answer(what) \in [to : {msg}, what : Whats, nick : {NoName, nickname}]
      OBVIOUS
    <3>2. Prepare(Answer("weather")) \/ Prepare(Answer("no such city"))
      BY <1>9 DEF Weather
    <3> QED
      BY <3>1, <3>2
  <2> QED
    BY <2>1, <2>2, CommandKeeps
<1>9f. CASE RequestFails
  <2>1. fds' \in 0 .. MaxFds
    BY <1>0, <1>9f, UseBounded DEF RequestFails
  <2> QED
    BY <1>9f, <2>1, CommandKeeps DEF RequestFails
<1> HIDE DEF Prepare, Answer
<1>10. CASE AddNickname
  <2>1. log[msg].name \in Nicks
    BY <1>10, SenderIsUser DEF AddNickname, Handling, BotInv
  <2> QED
    BY <1>10, <2>1, InsertKeeps DEF AddNickname
<1>11. CASE RemoveNickname
  <2>1. NoName \in Nicks
    BY DEF Nicks
  <2> QED
    BY <1>11, <2>1, InsertKeeps DEF RemoveNickname
<1> QED
  BY <1>2, <1>3, <1>4, <1>5, <1>6, <1>7, <1>8, <1>9, <1>9f, <1>10, <1>11 DEF Command

\* A bot that starts with the users.db of an earlier one and no message.
LEMMA BotInvInit == Init => BotInv
<1> SUFFICES ASSUME Init PROVE BotInv
  OBVIOUS
<1>1. Typed /\ Positions
  <2>1. <<>> \in Seq(Messages) /\ <<>> \in Seq(Replies)
    OBVIOUS
  <2>2. db \in [Users -> Nicks] /\ asked \in [Users -> Nicks] /\ NoName \in Nicks
    BY DEF Init, Nicks
  <2>3. Typed
    <3>1. /\ log = <<>> /\ pc = "server" /\ ts = 0 /\ msg = 0 /\ nickname = NoName /\ fds = 0
          /\ sent = <<>> /\ dropped = FALSE /\ tried = {}
      BY DEF Init
    <3>2. MaxFds \in Nat
      BY VkBotAssumption DEF VkBotAssumption
    <3>3. log \in Seq(Messages) /\ sent \in Seq(Replies)
      BY <2>1, <3>1
    <3>4. pc \in Pcs /\ pc # "answer" /\ ts \in Nat /\ msg \in Nat /\ fds \in 0 .. MaxFds
      BY <3>1, <3>2 DEF Pcs
    <3>5. nickname \in Nicks /\ dropped \in BOOLEAN
      BY <2>2, <3>1
    <3> QED
      BY <2>2, <3>1, <3>3, <3>4, <3>5 DEF Typed
  <2>4. Positions
    BY VkBotAssumption DEF VkBotAssumption, Init, Positions, Handling
  <2> QED
    BY <2>3, <2>4
<1>2. Behind /\ Nicknames /\ AnsweredOnce
  BY DEF Init, Behind, Nicknames, AnsweredOnce
<1> QED
  BY <1>1, <1>2 DEF BotInv

\* Every step of a user, of the bot and of the operator keeps it.
LEMMA BotInvStep == BotInv /\ [Next]_vars => BotInv'
<1> SUFFICES ASSUME BotInv, [Next]_vars PROVE BotInv'
  OBVIOUS
<1> USE VkBotAssumption DEF VkBotAssumption, Handling, Pcs, store, answers
<1>0. Typed /\ Positions /\ Behind /\ Nicknames /\ AnsweredOnce
  BY DEF BotInv
<1>1. ASSUME NEW m \in Messages, Write(m) PROVE BotInv'
  <2>1. /\ log' \in Seq(Messages) /\ Len(log') = Len(log) + 1 /\ Len(log) \in Nat
        /\ \A i \in 1 .. Len(log) : log'[i] = log[i]
    BY <1>0, <1>1, AppendProperties DEF Write, Typed
  <2>2. Handling => Sender' = Sender
    BY <1>0, <1>1, <2>1, SenderIsUser DEF Write, Sender
  <2>3. Typed'
    BY <1>0, <1>1, <2>1 DEF Write, Typed
  <2>4. Positions' /\ Behind' /\ AnsweredOnce'
    <3>1. UNCHANGED <<pc, ts, msg, reply, sent, tried>> /\ Len(log) < MaxMsgs
      BY <1>1 DEF Write
    <3>2. Positions'
      BY <1>0, <2>1, <3>1 DEF Positions, Typed
    <3>3. Behind'
      BY <1>0, <2>1, <3>1, SentIsTyped DEF Behind
    <3>4. AnsweredOnce'
      BY <1>0, <3>1 DEF AnsweredOnce
    <3> QED
      BY <3>2, <3>3, <3>4
  <2>5. Nicknames'
    BY <1>0, <1>1, <2>2 DEF Write, Nicknames
  <2> QED
    BY <2>3, <2>4, <2>5 DEF BotInv
<1>2. CASE GetServer
  <2>1. Typed'
    BY <1>0, <1>2, UseBounded DEF GetServer, Typed
  <2>2. Positions' /\ Behind' /\ AnsweredOnce'
    BY <1>0, <1>2 DEF GetServer, Typed, Positions, Behind, AnsweredOnce
  <2>3. Nicknames'
    BY <1>0, <1>2 DEF GetServer, Nicknames
  <2> QED
    BY <2>1, <2>2, <2>3 DEF BotInv
<1>3. CASE PollUpdate
  <2>1. Typed'
    BY <1>0, <1>3, UseBounded DEF PollUpdate, Typed
  <2>2. Positions'
    BY <1>0, <1>3 DEF PollUpdate, Typed, Positions
  <2>3. Behind' /\ AnsweredOnce'
    BY <1>0, <1>3 DEF PollUpdate, Behind, AnsweredOnce
  <2>4. Nicknames'
    BY <1>0, <1>3 DEF PollUpdate, Nicknames
  <2> QED
    BY <2>1, <2>2, <2>3, <2>4 DEF BotInv
<1>4. CASE PollTimeout \/ PollFails
  <2>1. Typed'
    BY <1>0, <1>4, UseBounded DEF PollTimeout, PollFails, Typed
  <2>2. Positions' /\ Behind' /\ AnsweredOnce' /\ Nicknames'
    BY <1>0, <1>4 DEF PollTimeout, PollFails, Positions, Behind, AnsweredOnce, Nicknames
  <2> QED
    BY <2>1, <2>2 DEF BotInv
<1>5. CASE Construct
  <2>1. Sender \in Users
    BY <1>0, <1>5, SenderIsUser DEF Construct
  <2>2. Typed'
    BY <1>0, <1>5, <2>1, UseBounded DEF Construct, Typed, Nicks
  <2>3. Positions' /\ Behind' /\ AnsweredOnce'
    BY <1>0, <1>5 DEF Construct, Positions, Behind, AnsweredOnce
  <2>4. Nicknames'
    BY <1>0, <1>5 DEF Construct, Nicknames, Sender
  <2> QED
    BY <2>2, <2>3, <2>4 DEF BotInv
<1>6. CASE Command
  BY <1>6, CommandStep
<1>7. ASSUME NEW delivered \in BOOLEAN, Send(delivered) PROVE BotInv'
  <2>1. /\ reply \in Replies /\ reply.to = msg /\ msg \in 1 .. Len(log)
        /\ sent \in Seq(Replies) /\ \A i \in 1 .. Len(sent) : sent[i].to < msg
        /\ tried' = tried \cup {msg} /\ pc' = "server"
    <3>1. pc = "answer"
      BY <1>7 DEF Send
    <3>2. /\ reply \in Replies /\ reply.to = msg /\ msg <= Len(log) /\ msg = ts + 1
          /\ sent \in Seq(Replies) /\ ts \in Nat
      BY <1>0, <3>1 DEF Typed, Positions
    <3>3. \A i \in DOMAIN sent : sent[i].to <= ts
      BY <1>0, <3>1 DEF Behind
    <3> QED
      BY <1>0, <1>7, <3>2, <3>3, SentIsTyped DEF Send
  <2>2. sent' = sent \/ sent' = Append(sent, reply)
    BY <1>7 DEF Send
  <2>3. CASE sent' = Append(sent, reply)
    <3>1. /\ sent' \in Seq(Replies) /\ Len(sent') = Len(sent) + 1 /\ Len(sent) \in Nat
          /\ \A i \in 1 .. Len(sent) : sent'[i] = sent[i]
          /\ sent'[Len(sent) + 1] = reply
      BY <2>1, <2>3, AppendProperties
    <3>2. Typed'
      BY <1>0, <1>7, <2>1, <3>1, UseBounded DEF Send, Typed
    <3>3. Behind'
      BY <1>0, <1>7, <2>1, <3>1 DEF Send, Behind
    <3>4. AnsweredOnce'
      <4>1. DOMAIN sent = 1 .. Len(sent) /\ DOMAIN sent' = 1 .. Len(sent) + 1
        BY <2>1, <3>1
      <4>2. \A i, j \in 1 .. Len(sent) : i < j => sent'[i].to < sent'[j].to
        BY <1>0, <3>1, <4>1 DEF AnsweredOnce
      <4>3. \A i \in 1 .. Len(sent) : sent'[i].to < sent'[Len(sent) + 1].to
        BY <2>1, <3>1
      <4> QED
        BY <3>1, <4>1, <4>2, <4>3 DEF AnsweredOnce
    <3>5. Positions' /\ Nicknames'
      BY <1>0, <1>7 DEF Send, Positions, Nicknames
    <3> QED
      BY <3>2, <3>3, <3>4, <3>5 DEF BotInv
  <2>4. CASE sent' = sent
    <3>1. Typed'
      BY <1>0, <1>7, <2>1, <2>4, UseBounded DEF Send, Typed
    <3>2. Positions' /\ Behind' /\ AnsweredOnce' /\ Nicknames'
      BY <1>0, <1>7, <2>1, <2>4 DEF Send, Positions, Behind, AnsweredOnce, Nicknames
    <3> QED
      BY <3>1, <3>2 DEF BotInv
  <2> QED
    BY <2>2, <2>3, <2>4
<1>8. CASE Kill
  <2>1. Typed' /\ Positions'
    BY <1>0, <1>8 DEF Kill, Typed, Positions
  <2>2. Behind' /\ AnsweredOnce' /\ Nicknames'
    BY <1>0, <1>8 DEF Kill, Behind, AnsweredOnce, Nicknames
  <2> QED
    BY <2>1, <2>2 DEF BotInv
<1>9. CASE Restart
  <2>1. Typed' /\ Positions'
    BY <1>0, <1>9 DEF Restart, Typed, Positions, Nicks
  <2>2. Behind' /\ AnsweredOnce' /\ Nicknames'
    BY <1>0, <1>9 DEF Restart, Behind, AnsweredOnce, Nicknames
  <2> QED
    BY <2>1, <2>2 DEF BotInv
<1>10. CASE UNCHANGED vars
  <2>1. Typed' /\ Positions'
    BY <1>0, <1>10 DEF vars, Typed, Positions
  <2>2. Behind' /\ AnsweredOnce' /\ Nicknames'
    BY <1>0, <1>10 DEF vars, Behind, AnsweredOnce, Nicknames, Sender
  <2> QED
    BY <2>1, <2>2 DEF BotInv
<1> QED
  BY <1>1, <1>2, <1>3, <1>4, <1>5, <1>6, <1>7, <1>8, <1>9, <1>10 DEF Next, Bot

-----------------------------------------------------------------------------
\* The parts of the invariant hold together through rounds, crashes and
\* restarts of the bot.
THEOREM BotInvariance == Spec => []BotInv
BY BotInvInit, BotInvStep, PTL DEF Spec

\* The variables of init_bot and Command_handler keep their types, and every
\* answer that was sent is to a message of the log.
THEOREM BotTypes == Spec => []TypeOK
<1>1. BotInv => TypeOK
  <2> SUFFICES ASSUME BotInv PROVE TypeOK
    OBVIOUS
  <2>1. /\ log \in Seq(Messages) /\ pc \in Pcs /\ nickname \in Nicks /\ fds \in 0 .. MaxFds
        /\ db \in [Users -> Nicks] /\ asked \in [Users -> Nicks] /\ dropped \in BOOLEAN
    BY DEF BotInv, Typed
  <2>2. ts \in 0 .. MaxMsgs /\ msg \in 0 .. MaxMsgs
    BY <2>1, VkBotAssumption DEF VkBotAssumption, BotInv, Typed, Positions
  <2>3. ASSUME NEW i \in DOMAIN sent
        PROVE  sent[i].to \in DOMAIN log /\ sent[i].what \in Whats
    <3>1. sent[i] \in Replies /\ sent[i].to \in 1 .. Len(log)
      BY SentIsTyped DEF BotInv, Behind
    <3> QED
      BY <2>1, <3>1 DEF Replies
  <2>4. tried \subseteq DOMAIN log
    BY <2>1 DEF BotInv, Behind
  <2> QED
    BY <2>1, <2>2, <2>3, <2>4 DEF TypeOK, Nicks
<1> QED
  BY <1>1, BotInvariance, PTL

\* init_bot asks for the newest ts in every round: no message is answered
\* twice, and answers go out in the order of the messages, over any crashes.
THEOREM EachAnsweredOnce == Spec => []AnsweredOnce
<1>1. BotInv => AnsweredOnce
  BY DEF BotInv
<1> QED
  BY <1>1, BotInvariance, PTL

\* The nickname that crc32_command, sha256_command and the searches start
\* their answer with is the one of the user's last nickname command, unless
\* a statement was dropped.
THEOREM AnswersUseLastNickname == Spec => UsesLastNickname
<1>1. ASSUME BotInv, [Next]_vars
      PROVE  [sent' # sent /\ sent'[Len(sent')].nick # NoName =>
                 \/ sent'[Len(sent')].nick = asked[log[sent'[Len(sent')].to].from]
                 \/ dropped]_vars
  <2> SUFFICES ASSUME sent' # sent
               PROVE  sent'[Len(sent')].nick # NoName =>
                          \/ sent'[Len(sent')].nick = asked[log[sent'[Len(sent')].to].from]
                          \/ dropped
    OBVIOUS
  <2>1. pc = "answer" /\ sent' = Append(sent, reply)
    BY <1>1 DEF Next, Bot, Command, Write, GetServer, PollUpdate, PollTimeout, PollFails,
       Construct, Ignore, Blank, EmptyQuery, ShortQuery, Help, Hash, MediaSearch, Weather,
       RequestFails, AddNickname, RemoveNickname, Send, Kill, Restart, vars, answers
  <2>2. sent \in Seq(Replies) /\ reply \in Replies /\ reply.to = msg
    BY <1>1, <2>1 DEF BotInv, Typed, Positions
  <2>3. sent'[Len(sent')] = reply
    BY <2>1, <2>2, AppendProperties
  <2>4. reply.nick \in {NoName, db[Sender]} /\ (dropped \/ db = asked)
    BY <1>1, <2>1 DEF BotInv, Nicknames
  <2> QED
    BY <2>2, <2>3, <2>4 DEF Sender
<1> QED
  BY <1>1, BotInvariance, PTL DEF Spec, UsesLastNickname

\* A round of init_bot that got a message sends its answer off before it ends,
\* unless the message calls for none or the process dies, and does so once,
\* over any restarts: what becomes of the request is not looked at.
THEOREM RoundsAnswerOnce == Spec => HandledIsTriedOnce
<1>1. ASSUME BotInv, [Next]_vars
      PROVE  [pc' = "server" /\ pc \in {"construct", "command", "answer"} =>
                 msg \in tried' \/ log[msg].kind \in {"silent", "short", "media"}]_vars
  <2> SUFFICES ASSUME pc' = "server", pc \in {"construct", "command", "answer"},
                      log[msg].kind \notin {"silent", "short", "media"}
               PROVE  msg \in tried'
    BY DEF vars
  <2>1. \E delivered \in BOOLEAN : Send(delivered)
    BY <1>1 DEF Next, Bot, Command, Write, GetServer, PollUpdate, PollTimeout, PollFails,
       Construct, Ignore, Blank, EmptyQuery, ShortQuery, Help, Hash, MediaSearch, Weather,
       RequestFails, AddNickname, RemoveNickname, Kill, Restart, vars, Kind, Prepare, Crash,
       Silence
  <2> QED
    BY <1>1, <2>1 DEF BotInv, Positions, Send
<1>2. ASSUME BotInv, [Next]_vars
      PROVE  [pc = "answer" /\ pc' = "server" => msg \notin tried]_vars
  <2>1. CASE pc = "answer" /\ msg \in tried
    <3>1. msg = ts + 1 /\ ts \in Nat /\ msg <= ts
      BY <1>2, <2>1 DEF BotInv, Typed, Positions, Behind, Handling
    <3> QED
      BY <3>1
  <2> QED
    BY <2>1
<1> QED
  BY <1>1, <1>2, BotInvariance, PTL DEF Spec, HandledIsTriedOnce
=============================================================================
