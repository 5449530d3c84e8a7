------------------------------ MODULE Optional ------------------------------
(***************************************************************************)
(* class Optional of yandex_tasks/containers/optional.hpp (and its copy in *)
(* Sandbox/optional.hpp): a buffer in which a T is constructed by          *)
(* placement new and destroyed by hand.  heap[o] is the sequence of the T  *)
(* constructed in the buffer of o and not destroyed, so that one that is   *)
(* built over another shows.                                               *)
(***************************************************************************)
EXTENDS Integers, Sequences

CONSTANTS Optionals, Values

VARIABLES heap, obj  \* obj: defined, of each Optional that is constructed

Made == DOMAIN obj
State(o) == [data |-> heap[o], defined |-> obj[o]]
Fresh == [data |-> <<>>, defined |-> FALSE]
Becomes(o, s) ==
    /\ heap' = [p \in Made \cup {o} |-> IF p = o THEN s.data ELSE heap[p]]
    /\ obj' = [p \in Made \cup {o} |-> IF p = o THEN s.defined ELSE obj[p]]

\* Constructs, or assigns to the T that is there.
copy_data(s, v) == [data |-> IF s.defined THEN <<v>> ELSE Append(s.data, v), defined |-> TRUE]
move_data(s, v) == IF s.defined THEN s ELSE [data |-> Append(s.data, v), defined |-> TRUE]

reset(s) == IF s.defined THEN [data |-> Tail(s.data), defined |-> FALSE] ELSE s

\* operator*, operator-> and value throw BadOptionalAccess where there is none.
value(s) == IF s.defined THEN s.data ELSE <<"BadOptionalAccess">>

copy(s, other) == IF other.defined THEN copy_data(s, value(other)[1]) ELSE reset(s)

-----------------------------------------------------------------------------
Init == heap = <<>> /\ obj = <<>>

\* Optional(), Optional(const T &) and Optional(T &&).
Construct(o) == o \notin Made /\ Becomes(o, Fresh)
FromValue(o, v) == o \notin Made /\ Becomes(o, copy_data(Fresh, v))
FromMoved(o, v) == o \notin Made /\ Becomes(o, move_data(Fresh, v))
CopyConstruct(o, p) == o \notin Made /\ p \in Made /\ Becomes(o, copy(Fresh, State(p)))
AssignOptional(o, p) ==
    /\ o \in Made /\ p \in Made
    /\ Becomes(o, IF o = p THEN State(o) ELSE copy(State(o), State(p)))
AssignValue(o, v) == o \in Made /\ Becomes(o, copy_data(State(o), v))
AssignMoved(o, v) ==
    /\ o \in Made
    /\ Becomes(o, IF obj[o] THEN [State(o) EXCEPT !.data = <<v>>] ELSE move_data(State(o), v))
Reset(o) == o \in Made /\ Becomes(o, reset(State(o)))

\* ~Optional, which resets.
Destroy(o) ==
    /\ o \in Made
    /\ heap' = [p \in Made \ {o} |-> heap[p]]
    /\ obj' = [p \in Made \ {o} |-> obj[p]]

Next ==
    \E o \in Optionals :
        \/ Construct(o) \/ Reset(o) \/ Destroy(o)
        \/ \E v \in Values : FromValue(o, v) \/ FromMoved(o, v)
                             \/ AssignValue(o, v) \/ AssignMoved(o, v)
        \/ \E p \in Optionals : CopyConstruct(o, p) \/ AssignOptional(o, p)

-----------------------------------------------------------------------------
(* Properties *)

\* The buffer holds one live T exactly when defined says so.
Sound == \A o \in Made : Len(heap[o]) = IF obj[o] THEN 1 ELSE 0

\* An Optional has the value assigned last, whether it was empty or not, and
\* a copy of an empty one is empty.
Refines ==
    \A o \in Optionals :
        /\ \A v \in Values :
               (FromValue(o, v) \/ FromMoved(o, v) \/ AssignValue(o, v) \/ AssignMoved(o, v))
               => value(State(o))' = <<v>>
        /\ \A p \in Optionals :
               CopyConstruct(o, p) \/ AssignOptional(o, p)
               => value(State(o))' = value(State(p)) /\ UNCHANGED State(p)
=============================================================================
