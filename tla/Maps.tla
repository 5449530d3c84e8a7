------------------------------- MODULE Maps --------------------------------
(***************************************************************************)
(* The hash map of buckets, the LRU cache and the bidirectional map, each  *)
(* with a state of its own.                                                *)
(***************************************************************************)
EXTENDS LinkedHeap

(***************************************************************************)
(* class BucketHashmap of Sandbox/hashmap_bucket.hpp (and of               *)
(* 2022-04-04-bucket-hashmap): buckets of key-value pairs, a key being its *)
(* own hash.  Rehash changes the number of buckets and moves no pair.      *)
(***************************************************************************)

CONSTANTS
    Keys,             \* naturals
    Values,
    InitialBuckets,   \* BucketsCount of the constructor
    DictCoefficient,
    GrowCoefficient

VARIABLES
    Data,             \* the buckets, from 1
    ElementsCount

BucketsCount == Len(Data)
MakeHash(k) == (k % BucketsCount) + 1

\* FindIndex: the place of k in its bucket, 0 where the code has -1.
FindIndex(k) == SelectInSeq(Data[MakeHash(k)], LAMBDA e : e[1] = k)

Found(k) == FindIndex(k) # 0
Find(k) == Data[MakeHash(k)][FindIndex(k)][2]

\* Data.resize: new buckets are empty, buckets that are too many are lost.
Rehash(d, newSize) == [i \in 1 .. newSize |-> IF i <= Len(d) THEN d[i] ELSE <<>>]

\* A bound of the model, past the first growth of the table.
MaxElements == 2 * InitialBuckets * DictCoefficient

-----------------------------------------------------------------------------
BucketInit == Data = [i \in 1 .. InitialBuckets |-> <<>>] /\ ElementsCount = 0

Insert(k, v) ==
    LET d == [Data EXCEPT ![MakeHash(k)] = Append(@, <<k, v>>)]
    IN  IF Found(k)
        THEN /\ Data' = [Data EXCEPT ![MakeHash(k)][FindIndex(k)] = <<k, v>>]
             /\ UNCHANGED ElementsCount
        ELSE /\ ElementsCount < MaxElements
             /\ ElementsCount' = ElementsCount + 1
             /\ Data' = IF ElementsCount' > BucketsCount * DictCoefficient
                        THEN Rehash(d, GrowCoefficient * BucketsCount) ELSE d

Delete(k) ==
    LET d == [Data EXCEPT ![MakeHash(k)] = RemoveAt(@, FindIndex(k))]
    IN  IF ~Found(k) THEN UNCHANGED <<Data, ElementsCount>>
        ELSE /\ ElementsCount' = ElementsCount - 1
             /\ Data' = IF BucketsCount > 1
                           /\ 4 * ElementsCount' < BucketsCount * DictCoefficient
                        THEN Rehash(d, BucketsCount \div 2) ELSE d

BucketNext == \E k \in Keys : Delete(k) \/ \E v \in Values : Insert(k, v)

-----------------------------------------------------------------------------
(* Properties *)

Pairs == UNION {ToSet(Data[i]) : i \in DOMAIN Data}
Entries == UNION {{b} \X DOMAIN Data[b] : b \in DOMAIN Data}   \* their places

\* ElementsCount counts the pairs and the ones lost with their buckets: it
\* is never less than what is left to delete.
BucketSound == ElementsCount >= Cardinality(Entries)

\* A step that leaves the number of buckets as it is is one on a map: the
\* key has the value inserted last, or none, and no other key changes.  A
\* step that changes it may hide keys, as pairs stay where they were, and
\* lose them; none is there that was not.
BucketRefines ==
    /\ UNCHANGED BucketsCount =>
           \A k \in Keys :
               /\ \A v \in Values : Insert(k, v) => Found(k)' /\ Find(k)' = v
               /\ Delete(k) => ~Found(k)'
               /\ (Delete(k) \/ \E v \in Values : Insert(k, v)) =>
                      \A j \in Keys \ {k} : UNCHANGED Found(j) /\ (Found(j) => UNCHANGED Find(j))
    /\ ~UNCHANGED BucketsCount =>
           \/ Pairs' \subseteq Pairs
           \/ \E k \in Keys, v \in Values : Insert(k, v) /\ Pairs' = Pairs \cup {<<k, v>>}

(***************************************************************************)
(* class lru_cache of 2021-11-29-LRU-cache/lru_cache.cpp: a list of pages, *)
(* the one used last in front, and a map from each page to its iterator    *)
(* in the list, which is the cell of its node.                             *)
(***************************************************************************)

CONSTANTS
    Pages,
    cache_size   \* of the constructor; not 0: back() of an empty list is ub

VARIABLES
    cache,       \* cache_: the nodes [cell, page] in order
    page_map     \* page_map_, and the pages referred to, the last one first

LruInit == cache = <<>> /\ page_map = [at |-> <<>>, order |-> <<>>]

CellsOf(c) == [x \in {c[i].cell : i \in DOMAIN c} |-> TRUE]
PushFront(c, page) == <<[cell |-> Fresh(CellsOf(c)), page |-> page]>> \o c
NodeAt(c, cell) == CHOOSE i \in DOMAIN c : c[i].cell = cell
Erase(c, cell) == RemoveAt(c, NodeAt(c, cell))
Recent(page) == <<page>> \o RemoveFirst(page_map.order, page)

exists(page) == page \in DOMAIN page_map.at

refer(page) ==
    LET full == ~exists(page) /\ Len(cache) = cache_size
        kept == IF exists(page) THEN Erase(cache, page_map.at[page])
                ELSE IF full THEN Front(cache) ELSE cache
        left == DOMAIN page_map.at \ IF full THEN {Last(cache).page} ELSE {}
    IN  /\ cache' = PushFront(kept, page)
        /\ page_map' = [at |-> Stored([p \in left |-> page_map.at[p]], page, cache'[1].cell),
                        order |-> Recent(page)]

\* get of a page that is there; of another one it throws.
get(page) ==
    LET cell == page_map.at[page]
    IN  /\ exists(page)
        /\ cache' = <<cache[NodeAt(cache, cell)]>> \o Erase(cache, cell)
        /\ page_map' = [at |-> page_map.at, order |-> Recent(page)]

LruNext == \E page \in Pages : refer(page) \/ get(page)

-----------------------------------------------------------------------------
(* Properties *)

\* Every iterator in the map is that of the node with its page, no node is
\* without one, and the cache holds just the pages that were used last, in
\* that order, and no more than cache_size of them.
LruSound ==
    /\ DOMAIN page_map.at = {cache[i].page : i \in DOMAIN cache}
    /\ \A i \in DOMAIN cache : page_map.at[cache[i].page] = cache[i].cell
    /\ [i \in DOMAIN cache |-> cache[i].page]
       = SubSeq(page_map.order, 1,
                IF Len(page_map.order) < cache_size THEN Len(page_map.order) ELSE cache_size)

(***************************************************************************)
(* class bi_map of Sandbox/bi_map.hpp: a map from primary to secondary     *)
(* keys and one from secondary keys to values.  The two tests of insert    *)
(* for a key that is there ask a std::map for a count above 1, which it    *)
(* never has: emplace decides, and leaves what is there.                   *)
(***************************************************************************)

CONSTANTS Primary, Secondary, Parameters, nullopt

VARIABLES one_two_keys, parameters

emplace(f, x, y) == IF x \in DOMAIN f THEN f ELSE Stored(f, x, y)

BiInit == one_two_keys = <<>> /\ parameters = <<>>

\* insert; without any key it throws.
insert(key1, key2, value) ==
    /\ key1 # nullopt \/ key2 # nullopt
    /\ one_two_keys' = emplace(one_two_keys, key1, key2)
    /\ parameters' = emplace(parameters, key2, value)

BiNext == \E key1 \in Primary \cup {nullopt}, key2 \in Secondary \cup {nullopt}, v \in Parameters :
            insert(key1, key2, v)

\* The two ways of operator(): out_of_range where there is no such key.
get_by_primary_key(key) ==
    IF key \notin DOMAIN one_two_keys THEN <<>> ELSE <<parameters[one_two_keys[key]]>>
get_by_secondary_key(key) ==
    IF key \notin DOMAIN parameters THEN <<>> ELSE <<parameters[key]>>

-----------------------------------------------------------------------------
(* Properties *)

\* A primary key leads to a value, which its secondary key has too.
BiSound ==
    \A key \in Primary \cap DOMAIN one_two_keys :
        /\ one_two_keys[key] \in DOMAIN parameters
        /\ get_by_primary_key(key) = get_by_secondary_key(one_two_keys[key])

\* What either key finds is never changed by a later insert.
BiRefines ==
    /\ \A key \in Primary \cap DOMAIN one_two_keys : UNCHANGED get_by_primary_key(key)
    /\ \A key \in Secondary \cap DOMAIN parameters : UNCHANGED get_by_secondary_key(key)
=============================================================================
