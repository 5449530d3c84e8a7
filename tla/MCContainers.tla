---------------------------- MODULE MCContainers ----------------------------
(***************************************************************************)
(* The containers of the repository for TLC: the owners of objects and the *)
(* maps, and each list, search tree and the table with open addressing,    *)
(* whose nodes are heap and obj.  They do not meet: a behaviour follows    *)
(* one of them.                                                            *)
(***************************************************************************)
EXTENDS Owners

TheDoublyLinkedList == INSTANCE DoublyLinkedList WITH
    Cells <- 1 .. 4, Lists <- {"a", "b"}, Values <- 1 .. 2
TheSinglyLinkedLists == INSTANCE SinglyLinkedLists WITH
    Cells <- 1 .. 4, Values <- 1 .. 3, Wrap <- 16
TheDeques == INSTANCE Deques WITH
    Cells <- 1 .. 4, Lists <- {"a", "b"}, Values <- 1 .. 2
TheSearchStructures == INSTANCE SearchStructures WITH
    Cells <- 1 .. 5, Digits <- 1 .. 4, MaxInput <- 5,
    InitialSizes <- 1 .. 3, TableKeys <- 1 .. 3, MaxSize <- 12,
    Table <- heap, CurrentSize <- obj

LinkedInit ==
    \/ part = "doubly" /\ TheDoublyLinkedList!Init
    \/ part = "singly" /\ TheSinglyLinkedLists!Init
    \/ part = "deques" /\ TheDeques!Init
    \/ part = "open" /\ TheSearchStructures!OpenInit
    \/ part = "trees" /\ TheSearchStructures!Init

LinkedNext ==
    \/ part = "doubly" /\ TheDoublyLinkedList!Next
    \/ part = "singly" /\ TheSinglyLinkedLists!Next
    \/ part = "deques" /\ TheDeques!Next
    \/ part = "open" /\ TheSearchStructures!OpenNext
    \/ part = "trees" /\ TheSearchStructures!Next

ContainersInit == OwnersInit \/ (StackInit /\ LinkedInit)
ContainersNext == OwnersNext \/ (LinkedNext /\ UNCHANGED <<pool, part>>)

\* A call of clear runs to its end: it waits for nobody.
ContainersSpec ==
    /\ ContainersInit
    /\ [][ContainersNext]_allVars
    /\ Fairness

-----------------------------------------------------------------------------
(* The properties of the instances, which state and explain them.          *)

\* Lists, the table and the trees: every link leads to a node that is alive,
\* no node is lost but where the code loses it, counts agree with the nodes,
\* and a search finds what is there.
LinksSound ==
    /\ part = "doubly" => TheDoublyLinkedList!Sound
    /\ part = "singly" => TheSinglyLinkedLists!Sound
    /\ part = "deques" => TheDeques!Sound
    /\ part = "open" => TheSearchStructures!OpenSound
    /\ part = "trees" => TheSearchStructures!Sound

\* Every operation of a list or the table has the effect on the sequence or
\* the bag that it stands for, and on no other object.
StructuresRefine == [][
    /\ part = "doubly" => TheDoublyLinkedList!Refines
    /\ part = "singly" => TheSinglyLinkedLists!Refines
    /\ part = "deques" => TheDeques!Refines
    /\ part = "open" => TheSearchStructures!OpenRefines
    ]_allVars
=============================================================================
