CONSTANTS
    BlockSize = 31
    PtrSize = 4
    SlotSize = 8
    Align = 8
    MaxBlocks = 3
    Null = Null
    Elements = {e1, e2, e3, e4, e5}
    Values = {a, b}
    NoValue = NoValue
    CountedCells = {1, 2, 3, 4, 5, 6}
    Cells = {1, 2, 3}
    Ptrs = {p1, p2, p3}
    Deleters = {"delete", "other"}
    Optionals = {o1, o2, o3}
    Vecs = {v1, v2}
    Numbers = {1}
    MaxLen = 5
    Places = {x1, x2, x3}
    Kinds = {"a", "b"}
    Unknown = "?"
    Keys = {0, 1, 2, 3}
    InitialBuckets = 2
    DictCoefficient = 1
    GrowCoefficient = 2
    Pages = {1, 2, 3, 4, 5}
    cache_size = 3
    Primary = {"p", "q"}
    Secondary = {"s", "t"}
    Parameters = {"v", "w"}
    nullopt = "none"
SPECIFICATION ContainersSpec
INVARIANTS InBlock Disjoint PoolSound LinksSound OwnersSound
PROPERTIES IsStack ClearEnds OwnersRefine StructuresRefine
CHECK_DEADLOCK FALSE
