----------------------------- MODULE MemoryPool -----------------------------
(***************************************************************************)
(* class MemoryPool of Sandbox/memory_pool.hpp: slots are cut from blocks  *)
(* in order, and freed slots are chained through their own memory, in      *)
(* which an element was.  A slot is a block number and a byte offset in    *)
(* it; operator new aligns a block for any slot.  The move constructor and *)
(* the move assignment name a member that does not exist, so they cannot   *)
(* be instantiated: a pool is built, used and destroyed.                   *)
(***************************************************************************)
EXTENDS Integers, Sequences, FiniteSets

CONSTANTS
    BlockSize,  \* bytes of a block
    PtrSize,    \* sizeof(slot_pointer_)
    SlotSize,   \* sizeof(slot_type_)
    Align,      \* alignof(slot_type_)
    MaxBlocks,  \* bound: blocks of one behaviour
    Null,
    Elements    \* objects that clients construct in slots

\* What the C++ types give (a union with a pointer in it, a size that is a
\* multiple of the alignment), and the static_assert on BlockSize.
ASSUME MemoryPoolAssumption ==
    /\ BlockSize \in Nat /\ MaxBlocks \in Nat
    /\ PtrSize \in Nat \ {0} /\ SlotSize \in Nat /\ Align \in Nat \ {0}
    /\ SlotSize >= PtrSize
    /\ SlotSize % Align = 0
    /\ BlockSize >= 2 * SlotSize

Slots == (1 .. MaxBlocks) \X (0 .. BlockSize)

ASSUME NullAssumption == Null \notin Slots

VARIABLES
    currentBlock,  \* the newest block, 0 for nullptr
    header,        \* the pointer to an older block at the start of each block
    currentSlot,   \* the next slot to cut
    freeSlots,     \* head of the list of free slots
    mem,           \* what each slot that was cut holds: an object or a pointer
    at,            \* where each object of the clients is
    deleted        \* blocks the destructor gave back, in order
vars == <<currentBlock, header, currentSlot, freeSlots, mem, at, deleted>>

Alive == deleted = <<>>
Held == DOMAIN at
Live == {at[e] : e \in Held}

\* padPointer of an offset, as blocks are aligned.
padPointer(p, align) == (align - p) % align

\* The slots of a block start behind its pointer, ...
FirstSlot == PtrSize + padPointer(PtrSize, Align)

\* Mutant: the last slot may end one byte past the block.
LastSlotLate == BlockSize - SlotSize + 2

\* ... and none starts at or behind lastSlot_.
LastSlot == BlockSize - SlotSize + 1

Init ==
    /\ currentBlock = 0
    /\ header = <<>>
    /\ currentSlot = Null
    /\ freeSlots = Null
    /\ mem = [s \in {} |-> Null]
    /\ at = [e \in {} |-> Null]
    /\ deleted = <<>>

-----------------------------------------------------------------------------
\* newElement constructs e in slot s; a slot cut before is used again.
Construct(e, s) ==
    /\ at' = [x \in Held \cup {e} |-> IF x = e THEN s ELSE at[x]]
    /\ mem' = [t \in DOMAIN mem \cup {s} |-> IF t = s THEN e ELSE mem[t]]

\* allocate with a free slot at hand.
AllocateFree(e) ==
    /\ Alive
    /\ freeSlots # Null
    /\ freeSlots' = mem[freeSlots]
    /\ Construct(e, freeSlots)
    /\ UNCHANGED <<currentBlock, header, currentSlot, deleted>>

\* Mutant: the slots are as far apart as the pointers in them are long.
CutShort(s, e) ==
    /\ currentSlot' = <<s[1], s[2] + PtrSize>>
    /\ Construct(e, s)

\* A slot is cut at s: currentSlot_++.
Cut(s, e) ==
    /\ currentSlot' = <<s[1], s[2] + SlotSize>>
    /\ Construct(e, s)

\* currentSlot_ >= lastSlot_; both are nullptr in a new pool.
BlockIsFull == currentSlot # Null => currentSlot[2] >= LastSlot

\* allocate with room in the newest block.
AllocateCut(e) ==
    /\ Alive
    /\ freeSlots = Null
    /\ ~BlockIsFull
    /\ Cut(currentSlot, e)
    /\ UNCHANGED <<currentBlock, header, freeSlots, deleted>>

\* allocate with no room: allocateBlock chains a new block to the newest.
AllocateBlock(e) ==
    /\ Alive
    /\ freeSlots = Null
    /\ BlockIsFull
    /\ currentBlock < MaxBlocks
    /\ currentBlock' = currentBlock + 1
    /\ header' = Append(header, currentBlock)
    /\ Cut(<<currentBlock + 1, FirstSlot>>, e)
    /\ UNCHANGED <<freeSlots, deleted>>

Allocate(e) == AllocateFree(e) \/ AllocateCut(e) \/ AllocateBlock(e)

\* Mutant: the next pointer is stored after the head has moved.
DeallocateSelf(e) ==
    /\ Alive
    /\ freeSlots' = at[e]
    /\ mem' = [mem EXCEPT ![at[e]] = at[e]]
    /\ at' = [x \in Held \ {e} |-> at[x]]
    /\ UNCHANGED <<currentBlock, header, currentSlot, deleted>>

\* deallocate and deleteElement of an object that a client holds.
Deallocate(e) ==
    /\ Alive
    /\ mem' = [mem EXCEPT ![at[e]] = freeSlots]
    /\ freeSlots' = at[e]
    /\ at' = [x \in Held \ {e} |-> at[x]]
    /\ UNCHANGED <<currentBlock, header, currentSlot, deleted>>

\* The chain of blocks that the destructor walks, from block b.
Chain(b) ==
    LET walk[n \in 0 .. MaxBlocks] ==
            IF n = 0 THEN b
            ELSE IF walk[n - 1] = 0 THEN 0 ELSE header[walk[n - 1]]
        length == Cardinality({n \in 0 .. MaxBlocks : walk[n] # 0})
    IN  [n \in 1 .. length |-> walk[n - 1]]

\* ~MemoryPool; no element is destroyed, and without blocks nothing is done.
Destroy ==
    /\ Alive
    /\ currentBlock # 0
    /\ deleted' = Chain(currentBlock)
    /\ UNCHANGED <<currentBlock, header, currentSlot, freeSlots, mem, at>>

Next ==
    \/ \E e \in Elements \ Held : Allocate(e)
    \/ \E e \in Held : Deallocate(e)
    \/ Destroy

Spec == Init /\ [][Next]_vars

-----------------------------------------------------------------------------
(* Properties *)

\* Every slot that was ever cut lies in its block, behind the block's pointer,
\* and is aligned: the static_assert, the padding and the one-past test of
\* allocate are enough for that.
InBlock ==
    \A s \in DOMAIN mem :
        /\ s[1] \in 1 .. currentBlock
        /\ s[2] >= PtrSize
        /\ s[2] + SlotSize <= BlockSize
        /\ s[2] % Align = 0

\* Two slots that were cut do not overlap.
Disjoint ==
    \A s, t \in DOMAIN mem :
        s # t /\ s[1] = t[1] =>
            s[2] + SlotSize <= t[2] \/ t[2] + SlotSize <= s[2]

\* The list of free slots is what was cut and is in nobody's hands: none is on
\* it twice, none is lost and none that a client holds is on it.  And what a
\* client holds stays as he made it, although the links are written over it.
FreeListExact ==
    LET free == DOMAIN mem \ Live
        n == Cardinality(free)
        walk[i \in 0 .. n] ==
            IF i = 0 THEN freeSlots
            ELSE IF walk[i - 1] \in free THEN mem[walk[i - 1]] ELSE Null
    IN  /\ {walk[i] : i \in 0 .. n} = free \cup {Null}
        /\ walk[n] = Null
        /\ \A e \in Held : mem[at[e]] = e

\* The destructor gives back every block, each of them once.
BlocksFreed ==
    ~Alive => /\ Len(deleted) = currentBlock
              /\ {deleted[i] : i \in DOMAIN deleted} = 1 .. currentBlock

\* The pool neither loses nor shares a slot, and gives all of its memory back.
PoolSound == FreeListExact /\ BlocksFreed
=============================================================================
