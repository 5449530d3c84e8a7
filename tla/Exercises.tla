----------------------------- MODULE Exercises -----------------------------
(***************************************************************************)
(* Four small classes, the dialogs on an automaton and the programs of two *)
(* or more counting threads, each with a state of its own.                 *)
(***************************************************************************)
EXTENDS Integers, Sequences, FiniteSets, SequencesExt, Bags, TLC

(***************************************************************************)
(* yandex_tasks/other/buffered_output.h: class BufferedWriter over Writer, *)
(* which shows a C string and so no character behind a null.               *)
(***************************************************************************)

CONSTANTS
    Chunks,       \* what one call of Write may be given; Nul is the null character
    Sizes,        \* the buffer sizes of the constructor
    MaxData

VARIABLES
    writer,       \* bufsize_, buffer_, has_rest_ and whether it is destroyed
    screen        \* what std::cout shows, and all that was given to Write

Nul == "0"

\* Writer::Write: up to the first null; len is not used.
Shown(data) ==
    LET nuls == {i \in DOMAIN data : data[i] = Nul}
    IN  IF nuls = {} THEN data ELSE SubSeq(data, 1, (CHOOSE i \in nuls : \A j \in nuls : i <= j) - 1)

WriterInit ==
    /\ \E bufsize \in Sizes :
           writer = [bufsize |-> bufsize, buffer |-> <<>>, has_rest |-> FALSE, dead |-> FALSE]
    /\ screen = [shown |-> <<>>, given |-> <<>>]

\* The body of the loop of Write.
Push(s, char) ==
    LET buffer == Append(s.buffer, char)
    IN  IF Len(buffer) = writer.bufsize
        THEN [shown |-> s.shown \o Shown(buffer), buffer |-> <<>>]
        ELSE [s EXCEPT !.buffer = buffer]

Write(data) ==
    LET s == FoldLeft(Push, [shown |-> screen.shown, buffer |-> writer.buffer], data)
    IN  /\ ~writer.dead /\ Len(screen.given \o data) <= MaxData
        /\ writer' = [writer EXCEPT !.buffer = s.buffer,
                                    !.has_rest = @ \/ (data # <<>> /\ s.buffer # <<>>)]
        /\ screen' = [shown |-> s.shown, given |-> screen.given \o data]

Destroy ==
    /\ ~writer.dead
    /\ writer' = [writer EXCEPT !.dead = TRUE, !.buffer = IF writer.has_rest THEN <<>> ELSE @]
    /\ screen' = [screen EXCEPT !.shown = IF writer.has_rest THEN @ \o Shown(writer.buffer) ELSE @]

WriterNext == (\E data \in Chunks : Write(data)) \/ Destroy

-----------------------------------------------------------------------------
(* Properties *)

\* Text without nulls is shown in the order it was written, less what the
\* buffer holds, which is never full and is all shown in the end; with nulls
\* no more than that is shown.  A buffer of size 0 grows until the end.
WriterSound ==
    LET whole == screen.shown \o writer.buffer
    IN  /\ Nul \notin ToSet(screen.given) => whole = screen.given
        /\ Len(whole) <= Len(screen.given)
        /\ writer.bufsize > 0 => Len(writer.buffer) < writer.bufsize
        /\ writer.dead => writer.buffer = <<>>

(***************************************************************************)
(* yandex_tasks/other/retry_sample.h: DoWithRetry calls a function that    *)
(* may succeed, throw the Exception it is to retry after, or throw another *)
(* one.                                                                    *)
(***************************************************************************)

CONSTANT RetryCounts    \* of the callers; the parameter is an int

VARIABLES
    loop,         \* retryCount, throwLast, i and whether the loop is running
    history       \* the outcomes of func, the number of Sleeps, the result

Outcomes == {"value", "Exception", "other"}

RetryInit ==
    /\ \E retryCount \in RetryCounts, throwLast \in BOOLEAN :
           loop = [retryCount |-> retryCount, throwLast |-> throwLast, i |-> 0, pc |-> "loop"]
    /\ history = [calls |-> <<>>, sleeps |-> 0, result |-> "none"]

End(outcome, result) ==
    /\ history' = [history EXCEPT !.calls = Append(@, outcome), !.result = result]
    /\ loop' = [loop EXCEPT !.pc = "end"]

\* The catch of the loop.
Catch ==
    IF loop.i < loop.retryCount THEN "sleep"
    ELSE IF loop.i = loop.retryCount THEN IF loop.throwLast THEN "throw" ELSE "nullopt"
    ELSE "next"

Attempt(outcome) ==
    /\ loop.pc = "loop" /\ loop.i <= loop.retryCount + 1
    /\ IF outcome # "Exception" THEN End(outcome, outcome)
       ELSE IF Catch \in {"throw", "nullopt"} THEN End(outcome, Catch)
       ELSE /\ loop' = [loop EXCEPT !.i = @ + 1]
            /\ history' = [history EXCEPT !.calls = Append(@, outcome),
                               !.sleeps = IF Catch = "sleep" THEN @ + 1 ELSE @]

\* return func() behind the loop, where nothing is caught.
LastCall(outcome) ==
    /\ loop.pc = "loop" /\ loop.i > loop.retryCount + 1
    /\ End(outcome, IF outcome = "Exception" THEN "throw" ELSE outcome)

RetryNext == \E outcome \in Outcomes : Attempt(outcome) \/ LastCall(outcome)

-----------------------------------------------------------------------------
(* Properties *)

\* func is called once and again after each Exception, retryCount times at
\* most, with one Sleep before each retry; the first value, or the first other
\* exception, ends it; when all calls have thrown, the last exception is thrown
\* if throwLast says so.  A retryCount below 0 counts as none, but then the
\* exception is thrown whatever throwLast says; of -1 one retry is made, at once.
RetrySound ==
    LET n == Len(history.calls)
        most == IF loop.retryCount = -1 THEN 2
                ELSE IF loop.retryCount < 0 THEN 1 ELSE loop.retryCount + 1
    IN  /\ n <= most
        /\ \A k \in 1 .. n - 1 : history.calls[k] = "Exception"
        /\ loop.pc = "end" =>
               /\ n >= 1
               /\ history.result =
                      IF history.calls[n] # "Exception" THEN history.calls[n]
                      ELSE IF loop.throwLast \/ loop.retryCount < 0 THEN "throw" ELSE "nullopt"
               /\ history.calls[n] = "Exception" => n = most
               /\ loop.retryCount >= 0 => history.sleeps = n - 1
               /\ loop.retryCount < 0 => history.sleeps = 0

(***************************************************************************)
(* yandex_tasks/other/save_load.h: Model::save writes the size and the     *)
(* numbers of a model, Model::load reads them.  A number has two bytes, the *)
(* low one first, and a model less than 256 numbers, so that of its size   *)
(* the lowest byte counts.  The file is external: it may be cut off behind *)
(* any byte.                                                               *)
(***************************************************************************)

CONSTANTS Models, Numbers, MaxLen

VARIABLES
    data,         \* of each model
    file          \* the stream, whose size field may be gone, and what was saved

SavedInit ==
    /\ data = [m \in Models |-> <<>>]
    /\ file = [size |-> -1, bytes |-> <<>>, saved |-> <<>>]

Fill(m) == \E number \in Numbers :
    /\ Len(data[m]) < MaxLen
    /\ data' = [data EXCEPT ![m] = Append(@, number)]
    /\ UNCHANGED file

save(m) ==
    /\ file' = [size |-> Len(data[m]), bytes |-> FlattenSeq(data[m]), saved |-> data[m]]
    /\ UNCHANGED data

\* The file loses its end; -1 when no byte of the size is left.
CutOff == \E n \in -1 .. Len(file.bytes) - 1 :
    /\ file' = [file EXCEPT !.size = IF n = -1 THEN -1 ELSE @,
                            !.bytes = SubSeq(@, 1, IF n = -1 THEN 0 ELSE n)]
    /\ UNCHANGED data

\* resize keeps the numbers the model had, and fills up with zeros; read then
\* overwrites as many bytes as the file has, in the middle of a number if it
\* ends there.  Without a size there are no numbers.
Loaded(m) ==
    [i \in 1 .. (IF file.size = -1 THEN 0 ELSE file.size) |->
        [b \in 1 .. 2 |->
            LET at == 2 * (i - 1) + b
            IN  IF at \in DOMAIN file.bytes THEN file.bytes[at]
                ELSE IF i \in DOMAIN data[m] THEN data[m][i][b] ELSE 0]]
load(m) ==
    /\ data' = [data EXCEPT ![m] = Loaded(m)]
    /\ UNCHANGED file

SavedNext == CutOff \/ \E m \in Models : Fill(m) \/ save(m) \/ load(m)

-----------------------------------------------------------------------------
(* Properties *)

Uncut == Len(file.bytes) = 2 * file.size

\* load gives a model what was saved, whatever the model held before.  Of a
\* file that was cut off it gives the numbers that are whole, as many as were
\* saved in all, or none if the size is gone too; nothing is said of the others.
SavedSound == \A m \in Models :
    /\ Uncut => Loaded(m) = file.saved
    /\ IsPrefix(SubSeq(file.saved, 1, Len(file.bytes) \div 2), Loaded(m))
    /\ Len(Loaded(m)) = IF file.size = -1 THEN 0 ELSE Len(file.saved)

(***************************************************************************)
(* Sandbox/sub_not_pattern.hpp: notifiers that call the subscribers they   *)
(* own.  The number of an id is static: all notifiers draw from it.  A     *)
(* notifier keeps the callback with the subscriber and does not call it:   *)
(* it calls the one the subscriber has, which is its last.                 *)
(***************************************************************************)

CONSTANTS Notifiers, Subscribers, Callbacks, MaxIds

VARIABLES
    registry,     \* m_subscribers of each notifier, and subscribers_count
    callback      \* m_on_notify_callback of each subscriber, the id of its last
                  \* subscription, and what the last operation called or threw

Unset == "unset"

NotifierInit ==
    /\ registry = [count |-> 0, subscribers |-> [n \in Notifiers |-> <<>>]]
    /\ callback = [of |-> [s \in Subscribers |-> Unset], latest |-> [s \in Subscribers |-> -1],
                 called |-> {}, threw |-> FALSE]

add_subscriber(n, s, c) ==
    registry' = [registry EXCEPT !.count = @ + 1,
                     !.subscribers[n] = (registry.count :> <<s, c>>) @@ @]

subscribe(n, s, c) ==
    /\ registry.count < MaxIds
    /\ add_subscriber(n, s, c)
    /\ callback' = [callback EXCEPT !.of[s] = c, !.latest[s] = registry.count, !.called = {}, !.threw = FALSE]

\* An id that is not there throws.
remove_subscriber(n, id) ==
    LET left == DOMAIN registry.subscribers[n] \ {id}
    IN  /\ registry' = [registry EXCEPT !.subscribers[n] = [i \in left |-> @[i]]]
        /\ callback' = [callback EXCEPT !.called = {}, !.threw = id \notin DOMAIN registry.subscribers[n]]

on_notify(s) == callback.of[s]

notify_all(n) ==
    /\ callback' = [callback EXCEPT !.threw = FALSE,
                        !.called = {<<id, on_notify(registry.subscribers[n][id][1])>> :
                                        id \in DOMAIN registry.subscribers[n]}]
    /\ UNCHANGED registry

NotifierNext == \E n \in Notifiers :
    \/ \E s \in Subscribers, c \in Callbacks : subscribe(n, s, c)
    \/ \E id \in 0 .. MaxIds : remove_subscriber(n, id)
    \/ notify_all(n)

-----------------------------------------------------------------------------
(* Properties *)

Subscriptions(n) == DOMAIN registry.subscribers[n]

\* An id names one subscription of one notifier, so that an id given to the
\* wrong notifier throws and removes nothing.  The callback of a subscription
\* is called only while it is the last one of its subscriber: an earlier one
\* gets that of the last.  No subscriber is called without a callback, and
\* none that was removed is called.
NotifierSound ==
    /\ \A n, m \in Notifiers : n # m => Subscriptions(n) \cap Subscriptions(m) = {}
    /\ \A n \in Notifiers : \A id \in Subscriptions(n) :
           LET entry == registry.subscribers[n][id]
           IN  /\ id <= callback.latest[entry[1]]
               /\ id = callback.latest[entry[1]] => on_notify(entry[1]) = entry[2]
    /\ \A call \in callback.called :
           /\ call[2] \in Callbacks
           /\ \E n \in Notifiers : call[1] \in Subscriptions(n)

(***************************************************************************)
(* Sandbox/finite_automata.hpp: class finite_automata and the two dialogs  *)
(* that run on it until the user leaves.  A pass of their loop looks at    *)
(* the state of the automaton, leaves the state of a chosen item on its    *)
(* own and then offers the user one transition.  The words are translated,*)
(* and select, the menu of the second dialog, is menu here too.           *)
(***************************************************************************)

CONSTANTS
    Words,        \* what the user may type
    MaxTurns

VARIABLES
    automata,     \* current_state_ and state_pool_
    dialog        \* which one, whether it has ended, selected, and all that was typed

Items == {"1", "2", "3"}

set(fa, state) == [fa EXCEPT !.current_state = state]
add(fa, state, transition, next) ==
    LET row == IF state \in DOMAIN fa.state_pool THEN fa.state_pool[state] ELSE <<>>
    IN  [fa EXCEPT !.state_pool = (state :> ((transition :> next) @@ row)) @@ @]

\* operator[] makes an empty row for a state that has none.
process(fa, transition) ==
    LET row == IF fa.current_state \in DOMAIN fa.state_pool
               THEN fa.state_pool[fa.current_state] ELSE <<>>
        kept == [fa EXCEPT !.state_pool = (fa.current_state :> row) @@ @]
    IN  IF transition \in DOMAIN row THEN set(kept, row[transition]) ELSE kept

get_valid_transitions(fa, state) ==
    IF state \in DOMAIN fa.state_pool THEN DOMAIN fa.state_pool[state] ELSE {}

New == [current_state |-> "", state_pool |-> <<>>]
WithItems(fa, menu) ==
    [fa EXCEPT !.state_pool =
        (menu :> ([i \in Items |-> i] @@ @[menu])) @@ [i \in Items |-> menu :> menu] @@ @]

\* The tables of the two dialogs.
user_input ==
    LET start == add(add(New, "start", "exit", "exit"), "start", "menu", "menu")
    IN  set(WithItems(add(start, "menu", "exit", "start"), "menu"), "start")
test ==
    LET ready == add(add(New, "ready", "exit", "exit"), "ready", "start", "start")
        start == add(add(ready, "start", "exit", "exit"), "start", "menu", "menu")
    IN  set(WithItems(add(start, "menu", "exit", "start"), "menu"), "ready")

DialogInit ==
    \E which \in {"user_input", "test"} :
        /\ automata = IF which = "test" THEN test ELSE user_input
        /\ dialog = [which |-> which, ended |-> FALSE, selected |-> EmptyBag, typed |-> <<>>]

\* The item of the current state is selected, and the menu is entered again.
LeaveItem ==
    IF automata.current_state \in Items
    THEN [fa |-> process(automata, "menu"), items |-> SetToBag({automata.current_state})]
    ELSE [fa |-> automata, items |-> EmptyBag]

\* A pass of the loop of run_finite_automata_user_input, and of that of
\* run_finite_automata_test, which differ in their tables.
Turn(word) ==
    /\ ~dialog.ended /\ automata.current_state # "exit"
    /\ Len(dialog.typed) < MaxTurns
    /\ automata' = process(LeaveItem.fa, word)
    /\ dialog' = [dialog EXCEPT !.selected = @ (+) LeaveItem.items, !.typed = Append(@, word)]
run_finite_automata_user_input(word) == dialog.which = "user_input" /\ Turn(word)
run_finite_automata_test(word) == dialog.which = "test" /\ Turn(word)

Leave ==
    /\ ~dialog.ended /\ automata.current_state = "exit"
    /\ dialog' = [dialog EXCEPT !.ended = TRUE]
    /\ UNCHANGED automata

DialogNext ==
    \/ \E word \in Words : run_finite_automata_user_input(word) \/ run_finite_automata_test(word)
    \/ Leave

-----------------------------------------------------------------------------
(* Properties *)

\* Where the user is after the first n words, the states of the items left
\* out: a dialog of which an item only adds to the selection.
Place[n \in Nat] ==
    IF n = 0 THEN IF dialog.which = "test" THEN "ready" ELSE "start"
    ELSE LET here == Place[n - 1]
             word == dialog.typed[n]
         IN  CASE here = "ready" /\ word = "start" -> "start"
               [] here = "start" /\ word = "menu" -> "menu"
               [] here \in {"ready", "start"} /\ word = "exit" -> "exit"
               [] here = "menu" /\ word = "exit" -> "start"
               [] OTHER -> here

Chosen(item) == {n \in DOMAIN dialog.typed : dialog.typed[n] = item /\ Place[n - 1] = "menu"}

\* The dialogs do what the plain one does: each item the user typed in the
\* menu is selected once, and no other; the table does not grow; and when the
\* dialog has ended the user has left by the exit, with nothing pending.
DialogSound ==
    LET n == Len(dialog.typed)
        pending == IF automata.current_state \in Items
                   THEN SetToBag({automata.current_state}) ELSE EmptyBag
    IN  /\ IF automata.current_state \in Items THEN Place[n] = "menu"
           ELSE automata.current_state = Place[n]
        /\ \A item \in Items : CopiesIn(item, dialog.selected (+) pending)
               = BagCardinality(SetToBag(Chosen(item)))
        /\ DOMAIN automata.state_pool \subseteq {"ready", "start", "menu"} \cup Items
        /\ \A s \in DOMAIN automata.state_pool : get_valid_transitions(automata, s) # {}
        /\ dialog.ended => pending = EmptyBag

(***************************************************************************)
(* 2021-09-30-C-standard-library: atomics_counter.c, where threads count   *)
(* with an atomic and with a plain integer, and compare_exchange.c, where  *)
(* threads make the two fields of an args_t equal.  The args_t of each     *)
(* thread is a variable of the body of the loop that starts them: in the   *)
(* build all of them are the same place of the stack, which the next turn  *)
(* of the loop fills anew.  x86: a compare-exchange does not fail but for  *)
(* a difference.                                                           *)
(***************************************************************************)

CONSTANTS
    Threads,      \* 1 .. 8 in the code
    Iterations,   \* 1000
    Rounds,       \* 256
    Target        \* 20, what j is filled with

VARIABLES
    memory,       \* the counters, or the args_t at the place of the stack
    threads       \* the program counter and the registers of each, and main

Idle == [pc |-> "idle", left |-> 0, reg |-> 0, desired |-> 0]

CountInit ==
    /\ memory = [atomic |-> 0, regular |-> 0]
    /\ threads = [main |-> "round", round |-> 0, of |-> [t \in Threads |-> Idle]]

Set(t, r) == threads' = [threads EXCEPT !.of[t] = r]

\* thrd_create of all threads of a round.
create ==
    /\ threads.main = "round" /\ threads.round < Rounds
    /\ threads' = [threads EXCEPT !.main = "join",
                       !.of = [t \in Threads |-> [Idle EXCEPT !.pc = "add", !.left = Iterations]]]
    /\ UNCHANGED memory

\* thrd_join of all of them.
join ==
    /\ threads.main = "join" /\ \A t \in Threads : threads.of[t].pc = "done"
    /\ threads' = [threads EXCEPT !.main = "round", !.round = @ + 1]
    /\ UNCHANGED memory

\* run: (*ctx->atomic)++ is one step, (*ctx->regular)++ a load and a store.
AddAtomic(t) ==
    /\ threads.of[t].pc = "add"
    /\ memory' = [memory EXCEPT !.atomic = @ + 1]
    /\ Set(t, [threads.of[t] EXCEPT !.pc = "load"])
Load(t) ==
    /\ threads.of[t].pc = "load"
    /\ Set(t, [threads.of[t] EXCEPT !.pc = "store", !.reg = memory.regular])
    /\ UNCHANGED memory
Store(t) ==
    LET own == threads.of[t]
    IN  /\ own.pc = "store"
        /\ memory' = [memory EXCEPT !.regular = own.reg + 1]
        /\ Set(t, [own EXCEPT !.pc = IF own.left = 1 THEN "done" ELSE "add", !.left = @ - 1])

CountNext == create \/ join \/ \E t \in Threads : AddAtomic(t) \/ Load(t) \/ Store(t)

-----------------------------------------------------------------------------
(* compare_exchange.c *)

ExchangeInit ==
    /\ memory = [i |-> 0, j |-> 0]
    /\ threads = [main |-> "create", round |-> 0, of |-> [t \in Threads |-> Idle]]

Started == {t \in Threads : threads.of[t].pc # "idle"}

\* The two fields of the args_t are filled one by one: arg.i is the number of
\* the thread, as the inner i hides the atomic one.
FillI ==
    /\ threads.main = "create" /\ Started # Threads
    /\ memory' = [memory EXCEPT !.i = Cardinality(Started)]
    /\ threads' = [threads EXCEPT !.main = "j"]
FillJ ==
    /\ threads.main = "j"
    /\ memory' = [memory EXCEPT !.j = Target]
    /\ threads' = [threads EXCEPT !.main = "start"]
pthread_create ==
    /\ threads.main = "start"
    /\ LET t == CHOOSE t \in Threads \ Started : \A u \in Threads \ Started : t <= u
       IN  threads' = [threads EXCEPT !.main = "create", !.of[t] = [Idle EXCEPT !.pc = "desired"]]
    /\ UNCHANGED memory
pthread_join ==
    /\ threads.main = "create" /\ \A t \in Threads : threads.of[t].pc = "done"
    /\ threads' = [threads EXCEPT !.main = "joined"]
    /\ UNCHANGED memory

\* run_thread: the argument args->j is read, then the expected value, which is
\* args->j again, and then args->i is compared and exchanged.
Desired(t) ==
    /\ threads.of[t].pc = "desired"
    /\ Set(t, [threads.of[t] EXCEPT !.pc = "expected", !.desired = memory.j])
    /\ UNCHANGED memory
Expected(t) ==
    /\ threads.of[t].pc = "expected"
    /\ Set(t, [threads.of[t] EXCEPT !.pc = "exchange", !.reg = memory.j])
    /\ UNCHANGED memory

\* lock cmpxchg: a failure loads what was found, which is stored in args->j in
\* a step of its own.
Exchange(t) ==
    LET own == threads.of[t]
        same == memory.i = own.reg
    IN  /\ own.pc = "exchange"
        /\ memory' = IF same THEN [memory EXCEPT !.i = own.desired] ELSE memory
        /\ Set(t, IF same THEN [Idle EXCEPT !.pc = "check"]
                  ELSE [own EXCEPT !.pc = "fail", !.reg = memory.i])
Fail(t) ==
    /\ threads.of[t].pc = "fail"
    /\ memory' = [memory EXCEPT !.j = threads.of[t].reg]
    /\ Set(t, [Idle EXCEPT !.pc = "desired"])

\* while (args->i != args->j) with the cmpxchg of the asm statement, whose
\* accumulator goes to args->j whether or not it was exchanged.
Check(t) ==
    /\ threads.of[t].pc = "check"
    /\ Set(t, [Idle EXCEPT !.pc = "other", !.reg = memory.i])
    /\ UNCHANGED memory
Other(t) ==
    /\ threads.of[t].pc = "other"
    /\ Set(t, [Idle EXCEPT !.pc = IF threads.of[t].reg = memory.j THEN "done" ELSE "asm"])
    /\ UNCHANGED memory
\* Its two operands args->j are loaded one by one, in either order.
AsmDesired(t) ==
    LET own == threads.of[t]
    IN  /\ own.pc \in {"asm", "asm_desired"}
        /\ Set(t, [own EXCEPT !.pc = IF @ = "asm" THEN "asm_expected" ELSE "cmpxchg", !.desired = memory.j])
        /\ UNCHANGED memory
AsmExpected(t) ==
    LET own == threads.of[t]
    IN  /\ own.pc \in {"asm", "asm_expected"}
        /\ Set(t, [own EXCEPT !.pc = IF @ = "asm" THEN "asm_desired" ELSE "cmpxchg", !.reg = memory.j])
        /\ UNCHANGED memory
Cmpxchg(t) ==
    LET own == threads.of[t]
        same == memory.i = own.reg
    IN  /\ own.pc = "cmpxchg"
        /\ memory' = IF same THEN [memory EXCEPT !.i = own.desired] ELSE memory
        /\ Set(t, [own EXCEPT !.pc = "out", !.reg = IF same THEN @ ELSE memory.i])
\* Mutant: the statement has no output operand.
OutNowhere(t) ==
    /\ threads.of[t].pc = "out"
    /\ Set(t, [Idle EXCEPT !.pc = "check"])
    /\ UNCHANGED memory
Out(t) ==
    /\ threads.of[t].pc = "out"
    /\ memory' = [memory EXCEPT !.j = threads.of[t].reg]
    /\ Set(t, [Idle EXCEPT !.pc = "check"])

run_thread(t) ==
    \/ Desired(t) \/ Expected(t) \/ Exchange(t) \/ Fail(t)
    \/ Check(t) \/ Other(t) \/ AsmDesired(t) \/ AsmExpected(t) \/ Cmpxchg(t) \/ Out(t)

ExchangeMain == FillI \/ FillJ \/ pthread_create \/ pthread_join
ExchangeNext == ExchangeMain \/ \E t \in Threads : run_thread(t)

-----------------------------------------------------------------------------
(* Properties *)

\* atomics_counter.c: between two rounds the atomic counter has counted every
\* step, and the plain one lost some, but not all: threads that overwrite one
\* another leave two counts of a round at least, one if each makes one step.
CountsSound ==
    LET steps == Cardinality(Threads) * Iterations * threads.round
        least == (IF Iterations = 1 \/ Cardinality(Threads) = 1 THEN Iterations ELSE 2) * threads.round
    IN  threads.main = "round" =>
            /\ memory.atomic = steps
            /\ memory.regular \in least .. steps

\* compare_exchange.c: when main has joined all its threads the two fields are
\* equal, whatever main stored in them while the first threads were running.
Joined == threads.main = "joined"
ExchangeSound == Joined => memory.i = memory.j

\* All threads are started, and at most one has not ended.
OneLeft == Started = Threads /\ \A t, u \in Threads : t # u => "done" \in {threads.of[t].pc, threads.of[u].pc}
=============================================================================
