------------------------------ MODULE LifoStack ------------------------------
(***************************************************************************)
(* What a stack promises: pop returns what was pushed last and is not yet  *)
(* returned, and clear forgets all of it at once.                          *)
(***************************************************************************)
EXTENDS Naturals, Sequences

CONSTANTS Values, NoValue

VARIABLES
    stack,    \* the elements, the top one last
    returned  \* what the last pop returned

Init == stack = <<>> /\ returned = NoValue

Push(v) == stack' = Append(stack, v) /\ UNCHANGED returned

Pop ==
    /\ stack # <<>>
    /\ returned' = stack[Len(stack)]
    /\ stack' = SubSeq(stack, 1, Len(stack) - 1)

Clear == stack' = <<>> /\ UNCHANGED returned

Next == (\E v \in Values : Push(v)) \/ Pop \/ Clear

Spec == Init /\ [][Next]_<<stack, returned>>
=============================================================================
