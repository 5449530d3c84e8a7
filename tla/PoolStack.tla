------------------------------ MODULE PoolStack ------------------------------
(***************************************************************************)
(* class StackAllocator of Sandbox/memory_pool.hpp over a MemoryPool: the  *)
(* nodes of the stack are objects of the pool, linked through their slots. *)
(* A node, an element of the pool, is its data and the slot of the node    *)
(* below (Alloc::rebind<Node>).  clear takes one step for each node, as    *)
(* the chain it walks is being given back.                                 *)
(***************************************************************************)
EXTENDS MemoryPool

CONSTANTS Values, NoValue

VARIABLES
    head,      \* head_
    curr,      \* curr of clear
    clearing,  \* clear is running
    result     \* what the last pop returned
stackVars == <<head, curr, clearing, result>>

data(s) == mem[s][1]
prev(s) == mem[s][2]

StackInit ==
    /\ Init
    /\ head = Null
    /\ curr = Null
    /\ clearing = FALSE
    /\ result = NoValue

\* Mutant: head_ is set before it is stored in the node.
PushSelf(v) ==
    /\ ~clearing
    /\ \E s \in Slots :
           /\ Allocate(<<v, s>>)
           /\ at'[<<v, s>>] = s
           /\ head' = s
    /\ UNCHANGED <<curr, clearing, result>>

\* push: the node takes what allocate gives.
Push(v) ==
    /\ ~clearing
    /\ Allocate(<<v, head>>)
    /\ head' = at'[<<v, head>>]
    /\ UNCHANGED <<curr, clearing, result>>

\* pop, which callers use on a stack that is not empty.
Pop ==
    /\ ~clearing
    /\ head # Null
    /\ result' = data(head)
    /\ head' = prev(head)
    /\ Deallocate(mem[head])
    /\ UNCHANGED <<curr, clearing>>

\* clear and ~StackAllocator begin at the top.
ClearStart ==
    /\ ~clearing
    /\ Alive
    /\ curr' = head
    /\ clearing' = TRUE
    /\ UNCHANGED <<head, result, vars>>

\* Mutant: curr is not set to the node below.
ClearNodeStays ==
    /\ clearing
    /\ curr # Null
    /\ IF mem[curr] \in Held THEN Deallocate(mem[curr]) ELSE UNCHANGED vars
    /\ UNCHANGED <<head, curr, clearing, result>>

\* The loop of clear: prev is read before the node is given back.
ClearNode ==
    /\ clearing
    /\ curr # Null
    /\ curr' = prev(curr)
    /\ Deallocate(mem[curr])
    /\ UNCHANGED <<head, clearing, result>>

ClearEnd ==
    /\ clearing
    /\ curr = Null
    /\ head' = Null
    /\ clearing' = FALSE
    /\ UNCHANGED <<curr, result, vars>>

\* ~StackAllocator destroys allocator_ once clear is done.
End ==
    /\ ~clearing
    /\ head = Null
    /\ Destroy
    /\ UNCHANGED stackVars

Clearing == ClearNode \/ ClearEnd

StackNext == (\E v \in Values : Push(v)) \/ Pop \/ ClearStart \/ Clearing \/ End

\* A call of clear runs to its end: it waits for nobody.
Fairness == WF_<<vars, stackVars>>(Clearing)

StackSpec == StackInit /\ [][StackNext]_<<vars, stackVars>> /\ Fairness

-----------------------------------------------------------------------------
(* Properties *)

\* The slots of the nodes from s down, and what they hold, the top one last.
Chained(s) ==
    LET n == Cardinality(Live)
        below == [t \in Live |-> prev(t)]
        walk[i \in 0 .. n] ==
            IF i = 0 THEN s
            ELSE IF walk[i - 1] \in Live THEN below[walk[i - 1]] ELSE Null
        length == Cardinality({i \in 0 .. n - 1 : walk[i] # Null})
    IN  [i \in 1 .. length |-> walk[i - 1]]
Contents ==
    LET c == Chained(head)
    IN  [i \in DOMAIN c |-> data(c[Len(c) + 1 - i])]

\* Every node that the pool counts as taken is on the stack, or still to be
\* given back by clear, and once only: push, pop and clear leak no slot.
NoLeak ==
    LET c == Chained(IF clearing THEN curr ELSE head)
    IN  /\ {c[i] : i \in DOMAIN c} = Live
        /\ Len(c) = Cardinality(Live)

\* Over the pool's slots, which are used again and again, the class is a
\* stack; clear takes effect when it starts.
Visible == IF clearing THEN <<>> ELSE Contents
Stack == INSTANCE LifoStack WITH stack <- Visible, returned <- result
IsStack == Stack!Spec

\* clear ends: the chain it walks, and breaks, leads to the bottom.
ClearEnds == clearing ~> ~clearing
=============================================================================
