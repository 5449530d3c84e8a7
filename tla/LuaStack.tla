------------------------------ MODULE LuaStack ------------------------------
(***************************************************************************)
(* Sandbox/LuaAdapter.hpp, LuaFunction.hpp and LuaTable.hpp: wrappers that *)
(* share the stack of one lua_State.  A value is its type; the tables are  *)
(* given.  lua: [stack, globals], and own, what the caller knows to be on  *)
(* the stack: the tables it has opened and the values it has pushed.  A    *)
(* pop below the bottom of the stack is undefined: the behaviour ends with *)
(* ub set.  The state is there (Lua.get() is not null) and names are given;*)
(* which values are converted and what the calls return is left out.       *)
(***************************************************************************)
EXTENDS Integers, Sequences, SequencesExt

CONSTANTS
    Types,       \* of the templates: some of int, double, bool, std::string,
                 \* and other, which stands for const char * and the like
    Names,
    Fields,      \* of each table: the value of each name
    Items,       \* of each table: the sequence of its items
    MaxStack     \* the bound on the stack and on what the caller has on it

VARIABLES lua, caller

Tables == DOMAIN Items
Known == Types \ {"other"}
Value(type) ==
    CASE type = "int" -> "integer" [] type = "double" -> "float"
      [] type = "bool" -> "boolean" [] type = "std::string" -> "string"

Simple == {Value(type) : type \in Known} \cup {"string"}
Values == Tables \cup Simple \cup {"function", "nil"}

Top(s) == IF s = <<>> THEN "none" ELSE Last(s)
Pushed(s, v) == Append(s, v)
Popped(s) == Front(s)

-----------------------------------------------------------------------------
(* caller: own, and blame, why the stack may differ from it since it was    *)
(* flushed last.                                                            *)

Live == ~caller.ub /\ Len(lua.stack) < MaxStack /\ Len(caller.own) < MaxStack

\* A call that leaves stack s; the caller's view does not change.
Leaves(s, blame) ==
    /\ lua' = [lua EXCEPT !.stack = s]
    /\ caller' = [caller EXCEPT !.blame = @ \cup blame]

Undefined(blame) ==
    /\ caller' = [caller EXCEPT !.ub = TRUE, !.blame = @ \cup blame]
    /\ UNCHANGED lua

-----------------------------------------------------------------------------
(* LuaAdapter *)

\* luaL_loadfile and lua_pcall leave their message where they fail.  Code that
\* runs may set a global.
Load(outcome, name, v) ==
    \/ /\ outcome \in {"unreadable", "raises"} /\ Leaves(Pushed(lua.stack, "string"), {"leak"})
    \/ /\ outcome = "runs" /\ lua' = [lua EXCEPT !.globals[name] = v] /\ UNCHANGED caller

\* The global stays on the stack where it is no number, boolean or string.
Get(name) ==
    LET v == lua.globals[name]
    IN  IF v \in Simple THEN Leaves(Popped(Pushed(lua.stack, v)), {})
        ELSE Leaves(Pushed(lua.stack, v), {"leak"})

\* Push of another type returns false and pushes nothing.
Set(name, type) ==
    IF type \in Known
    THEN lua' = [lua EXCEPT !.globals[name] = Value(type)] /\ UNCHANGED caller
    ELSE UNCHANGED <<lua, caller>>

\* luaL_dostring keeps the results of the string, or its message.
DoString(results) ==
    Leaves(lua.stack \o results, IF results = <<>> THEN {} ELSE {"leak"})

Push(type) ==
    IF type \in Known
    THEN /\ lua' = [lua EXCEPT !.stack = Pushed(@, Value(type))]
         /\ caller' = [caller EXCEPT !.own = Pushed(@, Value(type))]
    ELSE UNCHANGED <<lua, caller>>

Flush ==
    /\ lua' = [lua EXCEPT !.stack = <<>>]
    /\ caller' = [caller EXCEPT !.own = <<>>, !.blame = {}]

\* Pop(1), and Close of a LuaTable: the caller drops what it has.
Pop ==
    /\ caller.own # <<>>
    /\ IF lua.stack = <<>> THEN Undefined({})
       ELSE /\ lua' = [lua EXCEPT !.stack = Popped(@)]
            /\ caller' = [caller EXCEPT !.own = Popped(@)]
Close == Pop

-----------------------------------------------------------------------------
(* LuaFunction *)

\* lua_pcall takes argc values and what is below them, which it calls.  Call
\* pops the result, Pcall the message of a function that raises, or of what
\* is no function.
Pcall(s, argc, blame) ==
    IF Len(s) <= argc THEN Undefined(blame)
    ELSE Leaves(SubSeq(s, 1, Len(s) - argc - 1), blame)

\* What the name stands for stays where it is no function.  Arguments of
\* another type are counted, but not pushed.
Call(name, argc, type) ==
    LET f == lua.globals[name]
        s == Pushed(lua.stack, f)
    IN  IF f # "function" THEN Leaves(s, {"leak"})
        ELSE IF type \in Known THEN Pcall(s \o [i \in 1 .. argc |-> Value(type)], argc, {})
        ELSE Pcall(s, argc, IF argc = 0 THEN {} ELSE {"argument"})

PushFunction(name) ==
    /\ lua' = [lua EXCEPT !.globals[name] = "function"]
    /\ UNCHANGED caller

-----------------------------------------------------------------------------
(* LuaTable *)

\* Of the table on the top or, without one, of the globals.
Open(name) ==
    LET nested == Top(lua.stack) \in Tables
        v == IF nested THEN Fields[Top(lua.stack)][name] ELSE lua.globals[name]
    IN  IF v \in Tables
        THEN /\ lua' = [lua EXCEPT !.stack = Pushed(@, v)]
             /\ caller' = [caller EXCEPT !.own = Pushed(@, v)]
        ELSE IF ~nested \/ v = "nil" THEN Leaves(Popped(Pushed(lua.stack, v)), {})
        ELSE Leaves(Pushed(lua.stack, v), {"leak"})

\* Get by name or index and Length push one value and pop it, whether convert
\* knows it or not.
GetField(v) ==
    /\ Top(lua.stack) \in Tables
    /\ Leaves(Popped(Pushed(lua.stack, v)), {})
Field(name) == Top(lua.stack) \in Tables /\ GetField(Fields[Top(lua.stack)][name])
Item(t, i) == IF i \in DOMAIN Items[t] THEN Items[t][i] ELSE "nil"
At(i) == Top(lua.stack) \in Tables /\ GetField(Item(Top(lua.stack), i))
Length == GetField("integer")

\* The path of a value in tables of tables; then all but one value is popped.
Along(s, i) == IF Top(s) \in Tables THEN Pushed(s, Item(Top(s), i)) ELSE s
GetPath(m) ==
    LET s == FoldLeft(Along, lua.stack, m)
    IN  Leaves(SubSeq(s, 1, IF Len(s) > 1 THEN 1 ELSE Len(s)),
               IF Len(caller.own) <= 1 /\ caller.blame = {} THEN {} ELSE {"cut"})

-----------------------------------------------------------------------------
Init ==
    /\ lua \in [stack : {<<>>}, globals : [Names -> Values]]
    /\ caller = [own |-> <<>>, blame |-> {}, ub |-> FALSE]

Next ==
    /\ Live
    /\ \/ Flush \/ Close \/ Length
       \/ \E results \in {<<>>, <<"integer">>, <<"string">>} : DoString(results)
       \/ \E type \in Types : Push(type)
       \/ \E i \in 1 .. 2 : At(i)
       \/ \E m \in BoundedSeq(1 .. 2, 2) : GetPath(m)
       \/ \E name \in Names :
              \/ Get(name) \/ PushFunction(name) \/ Open(name) \/ Field(name)
              \/ \E type \in Types : Set(name, type) \/ \E argc \in 0 .. 2 : Call(name, argc, type)
              \/ \E outcome \in {"unreadable", "raises", "runs"}, v \in Values : Load(outcome, name, v)

-----------------------------------------------------------------------------
(* Properties *)

\* The stack is what the caller has opened and pushed, unless since the last
\* Flush a call found another type than it expected and left it there (leak),
\* a Get along a path was made with more than one table open (cut), or Call
\* was given an argument of a type it does not push (argument).  Leaks alone
\* make it longer than the caller knows, and only cuts and such arguments
\* take what the caller has.
Sound ==
    /\ caller.blame = {} => lua.stack = caller.own /\ ~caller.ub
    /\ caller.blame = {"leak"} => Len(lua.stack) > Len(caller.own) /\ ~caller.ub
=============================================================================
