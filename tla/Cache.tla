-------------------------------- MODULE Cache --------------------------------
(***************************************************************************)
(* The Cache of src/cache.go: items in the order of their last use, the    *)
(* first of which make room for a new one while the cumulated size is more *)
(* than the maximum. Delete leaves that size alone.                        *)
(***************************************************************************)
EXTENDS Integers, Sequences, FiniteSets, SequencesExt, FiniteSetsExt, Sorting

CONSTANTS Keys,         \* what the callers look for
          SizeOf,       \* the size of the items of each key
          MaxSizes,     \* the values of MaxSize: 0 disables the cache, < 0 the maximum
          MaxCalls      \* bound: the calls that change the cache

ASSUME CacheAssumption == SizeOf \in [Keys -> Nat] /\ MaxSizes \subseteq Int

VARIABLES maxSize, items, size,
          calls,        \* how many calls there were
          evicted,      \* history: the last use of the item evicted last
          deleted,      \* history: Delete removed an item
          panicked      \* history: a Set indexed an empty slice

cacheVars == <<maxSize, items, size, calls, evicted, deleted, panicked>>

CacheInit == /\ maxSize \in MaxSizes
             /\ items = <<>> /\ size = 0 /\ calls = 0 /\ evicted = 0
             /\ deleted = FALSE /\ panicked = FALSE

\* An item: what it is found by, and when it was last used (history).
Item(k) == [key |-> k, used |-> calls + 1]

\* What the items of s take: the units of each, and how many these are in total.
Units(s) == UNION {{i} \X (1..SizeOf[s[i].key]) : i \in DOMAIN s}
Cumulated(s) == Cardinality(Units(s))

Called == calls < MaxCalls /\ calls' = calls + 1

MovedToFront(i) ==    \* mutant: the item that was used becomes the next one to be evicted
  <<Item(items[i].key)>> \o RemoveAt(items, i)

\* Get moves the first item that is found to the last position.
Moved(i) == Append(RemoveAt(items, i), Item(items[i].key))

Get(k) == /\ Called
          /\ LET found == {i \in DOMAIN items : items[i].key = k} IN
             items' = IF found = {} THEN items ELSE Moved(Min(found))
          /\ UNCHANGED <<maxSize, size, evicted, deleted, panicked>>

\* How many of the first items Set evicts for n more: as few as it takes. None
\* of the numbers will do if the size counts items that were deleted.
Evictions(n) == {e \in 0..Len(items) : size - Cumulated(SubSeq(items, 1, e)) + n <= maxSize}

\* Set refuses an item that is larger than the cache ...
Fits(k) == maxSize < 0 \/ (maxSize > 0 /\ SizeOf[k] <= maxSize)

Keep(k, e) == /\ items' = Append(SubSeq(items, e + 1, Len(items)), Item(k))
              /\ size' = size - Cumulated(SubSeq(items, 1, e)) + SizeOf[k]
              /\ evicted' = IF e = 0 THEN evicted ELSE items[e].used
              /\ UNCHANGED <<maxSize, deleted, panicked>>

\* ... and adds another one: an item with the same key stays.
Set(k) == /\ Called /\ Fits(k)
          /\ \/ maxSize < 0 /\ Keep(k, 0)
             \/ maxSize > 0 /\ Evictions(SizeOf[k]) # {} /\ Keep(k, Min(Evictions(SizeOf[k])))

SetPanics(k) == /\ Called /\ Fits(k) /\ maxSize > 0 /\ Evictions(SizeOf[k]) = {}
                /\ panicked' = TRUE
                /\ items' = <<>> /\ size' = size - Cumulated(items)
                /\ UNCHANGED <<maxSize, evicted, deleted>>

\* Delete, for any set of keys: the size stays.
Delete(ks) == /\ Called
              /\ items' = LET kept == Ascending({i \in DOMAIN items : items[i].key \notin ks})
                          IN  [n \in DOMAIN kept |-> items[kept[n]]]
              /\ deleted' = (deleted \/ items' # items)
              /\ UNCHANGED <<maxSize, size, evicted, panicked>>

CacheNext == \/ \E k \in Keys : Get(k) \/ Set(k) \/ SetPanics(k)
             \/ \E ks \in SUBSET Keys : Delete(ks)

CacheSpec == CacheInit /\ [][CacheNext]_cacheVars

CacheTypeOK == /\ \A i \in DOMAIN items : items[i].key \in Keys /\ items[i].used \in 1..calls
               /\ size \in Nat

(* The items never take more than the maximum (src/cache.go:7-8), and those that went were used less *)
(* recently than any that is left, whatever mix of Get, Set and Delete. Nothing panics, and the size *)
(* is that of the items, as long as Delete removed none: after that it counts what is gone           *)
(* (src/cache.go:93), and a Set may panic.                                                           *)
CacheIsLRU == /\ CacheTypeOK
              /\ maxSize >= 0 => Cumulated(items) <= size /\ size <= maxSize
              /\ ~deleted => size = Cumulated(items) /\ ~panicked
              /\ \A i \in DOMAIN items : /\ items[i].used > evicted
                                         /\ \A j \in DOMAIN items : i < j => items[i].used < items[j].used
=============================================================================
