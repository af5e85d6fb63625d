----------------------------- MODULE QuickStore -----------------------------
(***************************************************************************)
(* One QuickStore and its owner.  The owner is one task (FindPostsTask,    *)
(* LoadPostsTask, ...): under the group's mutex it stores what it is sent, *)
(* reads the entries back and removes the ones it has processed.  Two      *)
(* history variables say what the owner asked for.                         *)
(***************************************************************************)
EXTENDS QuickStoreOps, FiniteSets

CONSTANTS Key, Value

VARIABLES cache,      \* the QuickStore
          latest,     \* history: the last value stored under each key and not
                      \*   removed since, as a set of none or one
          created,    \* history: how many CACHE_ITEM_CREATED the owner got,
                      \*   counted up to cache_size + 1
          strayed     \* history: TRUE once an absent key has been removed

vars == <<cache, latest, created, strayed>>

Entry == [key : Key, value : Value]

Init == /\ cache = EmptyStore
        /\ latest = [k \in Key |-> {}]
        /\ created = 0
        /\ strayed = FALSE

(* store() on a live process; a new key returns CACHE_ITEM_CREATED.        *)
store(k, v) ==
  /\ cache.health # "aborted"
  /\ cache' \in StoreOutcomes(cache, k, v)
  /\ latest' = [latest EXCEPT ![k] = {v}]
  /\ created' = IF k \in Keys(cache) \/ created > cache_size
                THEN created ELSE created + 1
  /\ UNCHANGED strayed

(* remove() on a live process.                                             *)
remove(k) ==
  /\ cache.health # "aborted"
  /\ cache' \in RemoveOutcomes(cache, k)
  /\ latest' = [latest EXCEPT ![k] = {}]
  /\ strayed' = (strayed \/ k \notin Keys(cache))
  /\ UNCHANGED created

Next == \E k \in Key : remove(k) \/ \E v \in Value : store(k, v)

Spec == Init /\ [][Next]_vars

(***************************************************************************)
(* Properties                                                              *)
(***************************************************************************)

TypeOK == /\ cache \in QuickStores(Key, Value)
          /\ latest \in [Key -> SUBSET Value]
          /\ created \in 0 .. cache_size + 1
          /\ strayed \in BOOLEAN

(* The counters stay consistent with the vectors, so that push_back is     *)
(* used exactly until the ring is full, and no key is held twice, so that  *)
(* the first match of index() and get() is the only one.                   *)
RingOK == RingIsConsistent(cache) /\ KeysAreDistinct(cache)

(* What get() returns for a key is the last value stored under it: an      *)
(* overwritten slot, a shift after erase() or the wrap of the ring never   *)
(* makes a key show an older value or another key's.                       *)
NeverStale == \A k \in Key : get(cache, k) \subseteq latest[k]

(* As long as at most cache_size keys have been created over the store's   *)
(* whole life (removals give nothing back) and no absent key has been      *)
(* removed, nothing that was stored is missing.                            *)
LosslessUntilWrapped ==
  created <= cache_size /\ ~strayed => \A k \in Key : get(cache, k) = latest[k]

(* After cache_size creations the store only ever shrinks: store() reuses  *)
(* slots inside the vector or writes outside it, but never appends again,  *)
(* so a store that was filled once and drained holds nothing ever after.   *)
NeverRegrows ==
  [][cache.current_allocations = cache_size =>
       Len(cache'.entries) <= Len(cache.entries)]_vars

(* The map a reader of the store sees.                                     *)
visible == [k \in Keys(cache) |-> cache.entries[index(cache, k)].value]

(* The store implements the lossy map.                                     *)
Abstract == INSTANCE LossyMap
              WITH map <- visible, broken <- cache.health # "sound"

ImplementsLossyMap == Abstract!MapSpec
=============================================================================
