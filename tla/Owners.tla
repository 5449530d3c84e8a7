------------------------------- MODULE Owners -------------------------------
(***************************************************************************)
(* The classes that own objects: a StackAllocator over its MemoryPool, the *)
(* owning pointers, the optionals, the vectors, the grid of figures, the   *)
(* map of buckets, the cache and the bidirectional map, whose objects are  *)
(* heap and obj.  They do not meet: a behaviour follows one of them, or a  *)
(* MemoryPool alone.                                                       *)
(***************************************************************************)
EXTENDS PoolStack

CONSTANTS
    CountedCells, Cells,          \* the cells for SharedPtr, and for the others
    Ptrs, Deleters,               \* SharedPtr, UniquePtr
    Optionals,                    \* Optional, of Values
    Vecs, Numbers, MaxLen,        \* Numvec and Vector
    Places, Kinds, Unknown,       \* area
    Keys,                         \* the map of buckets, to Values
    InitialBuckets, DictCoefficient, GrowCoefficient,
    Pages, cache_size,            \* lru_cache
    Primary, Secondary, Parameters, nullopt   \* bi_map

\* 0 is nullptr.  Bounds are finite.  A key of the map of buckets is its own
\* hash; it is constructed with a bucket at least, and the cache with a page.
ASSUME OwnersAssumption ==
    /\ 0 \notin CountedCells /\ 0 \notin Cells
    /\ IsFiniteSet(CountedCells) /\ IsFiniteSet(Cells)
    /\ IsFiniteSet(Ptrs) /\ IsFiniteSet(Vecs) /\ IsFiniteSet(Places)
    /\ MaxLen \in Nat
    /\ Unknown \notin Kinds
    /\ Keys \subseteq Nat
    /\ InitialBuckets \in Nat \ {0} /\ DictCoefficient \in Nat /\ GrowCoefficient \in Nat \ {0}
    /\ cache_size \in Nat \ {0} /\ Cardinality(Cells) >= cache_size

VARIABLES part, heap, obj

Shared == INSTANCE SharedPtr WITH Cells <- CountedCells
Unique == INSTANCE UniquePtr
Opt == INSTANCE Optional
Vec == INSTANCE Vectors WITH Values <- Numbers
Grid == INSTANCE Area
Map == INSTANCE Maps WITH
    Data <- heap, ElementsCount <- obj, cache <- heap, page_map <- obj,
    one_two_keys <- heap, parameters <- obj

pool == <<vars, stackVars>>
structure == <<heap, obj>>
allVars == <<pool, part, structure>>

NoStructure == heap = <<>> /\ obj = <<>>

OwnersInit ==
    /\ StackInit
    /\ \/ part \in {"pool", "stack"} /\ NoStructure
       \/ part = "shared" /\ Shared!Init
       \/ part = "unique" /\ Unique!Init
       \/ part = "optional" /\ Opt!Init
       \/ part = "vectors" /\ Vec!Init
       \/ part = "area" /\ Grid!Init
       \/ part = "bucket" /\ Map!BucketInit
       \/ part = "lru" /\ Map!LruInit
       \/ part = "bimap" /\ Map!BiInit

OwnerNext ==
    \/ part = "shared" /\ Shared!Next
    \/ part = "unique" /\ Unique!Next
    \/ part = "optional" /\ Opt!Next
    \/ part = "vectors" /\ Vec!Next
    \/ part = "area" /\ Grid!Next
    \/ part = "bucket" /\ Map!BucketNext
    \/ part = "lru" /\ Map!LruNext
    \/ part = "bimap" /\ Map!BiNext

OwnersNext ==
    /\ UNCHANGED part
    /\ \/ part = "pool" /\ Next /\ UNCHANGED <<stackVars, structure>>
       \/ part = "stack" /\ StackNext /\ UNCHANGED structure
       \/ OwnerNext /\ UNCHANGED pool

OwnersSpec == OwnersInit /\ [][OwnersNext]_allVars /\ Fairness

-----------------------------------------------------------------------------
(* The properties of the instances, which state and explain them.          *)

\* Owning pointers, optionals, vectors and the grid of figures: what is owned
\* is alive and owned once, counters count the owners, and nothing is freed
\* twice or leaked but where the code does; the nodes of StackAllocator are
\* those that its pool counts as taken.  The cache holds the pages used last
\* and finds each, a primary key leads to the value of its secondary key, and
\* the map of buckets never counts less pairs than it has.
OwnersSound ==
    /\ part = "stack" => NoLeak
    /\ part = "shared" => Shared!Sound
    /\ part = "unique" => Unique!Sound
    /\ part = "optional" => Opt!Sound
    /\ part = "vectors" => Vec!Sound
    /\ part = "area" => Grid!Sound
    /\ part = "bucket" => Map!BucketSound
    /\ part = "lru" => Map!LruSound
    /\ part = "bimap" => Map!BiSound

\* Copies, moves, swaps, resets and destructors of pointers, optionals and
\* vectors give each object the value that the call stands for and leave the
\* other objects alone; the grid deletes twice only after an unknown kind.
\* Insertion and deletion change one key of a map of buckets unless it grows
\* or shrinks, and no insertion changes what a key of bi_map finds.
OwnersRefine == [][
    /\ part = "shared" => Shared!Refines
    /\ part = "optional" => Opt!Refines
    /\ part = "vectors" => Vec!Refines
    /\ part = "area" => Grid!Refines
    /\ part = "bucket" => Map!BucketRefines
    /\ part = "bimap" => Map!BiRefines
    ]_allVars
=============================================================================
