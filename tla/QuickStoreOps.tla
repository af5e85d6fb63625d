---------------------------- MODULE QuickStoreOps ----------------------------
(***************************************************************************)
(* The operations of utilities::cache::QuickStore (quick_store.h), the     *)
(* fixed-size ring of key/value pairs in which every background task keeps *)
(* the messages it has received.  The C++ class holds two parallel vectors *)
(* `keys' and `values' that always change together; here they are the one  *)
(* sequence `entries'.  Positions are 1-based, so the C++ slot             *)
(* current_item_idx is the position current_item_idx + 1.                  *)
(*                                                                         *)
(* Two calls step outside a vector, which C++ leaves undefined; the other  *)
(* operators return the SET of stores such a call may leave behind:        *)
(*   - store() writes keys[current_item_idx] although the vector is        *)
(*     shorter: the write lands in reserved memory and is never seen, or   *)
(*     the allocator notices the reused string and aborts;                 *)
(*   - remove() of an absent key erases one past the end: the last element *)
(*     is dropped, or, when there is none, the vector's end falls before   *)
(*     its beginning ("corrupt") or the process dies.                      *)
(***************************************************************************)
EXTENDS Integers, Sequences, SequencesExt

CONSTANT cache_size     \* 100 in the code, whatever size the constructor gets

ASSUME CacheSizeAssumption == cache_size \in Nat \ {0}

(***************************************************************************)
(* health is "sound" while both vectors are well formed, "corrupt" when    *)
(* their end precedes their beginning, "aborted" when the process is dead. *)
(***************************************************************************)
Health == {"sound", "corrupt", "aborted"}

QuickStores(K, V) ==
  [ entries             : Seq([key : K, value : V]),
    current_item_idx    : Nat,
    current_allocations : Nat,
    health              : Health ]

EmptyStore ==
  [ entries |-> <<>>, current_item_idx |-> 0, current_allocations |-> 0,
    health |-> "sound" ]

Keys(s) == { s.entries[i].key : i \in DOMAIN s.entries }

(* index(): the position of the first entry with that key, 0 for none.     *)
IsIndex(s, k, i) ==
  /\ i \in DOMAIN s.entries
  /\ s.entries[i].key = k
  /\ \A j \in 1 .. i - 1 : s.entries[j].key # k

index(s, k) ==
  IF k \in Keys(s) THEN CHOOSE i \in DOMAIN s.entries : IsIndex(s, k, i)
                   ELSE 0

(* get(): the values held for k, none or one.                              *)
get(s, k) ==
  { s.entries[i].value : i \in { i \in DOMAIN s.entries : IsIndex(s, k, i) } }

(***************************************************************************)
(* store(k, v)                                                             *)
(***************************************************************************)
Killed(s) == [s EXCEPT !.health = "aborted"]

(* Slip: wraps one slot early.                                             *)
AdvancedOneShort(s) ==
  [s EXCEPT !.current_item_idx = (s.current_item_idx + 1) % (cache_size - 1)]

Advanced(s) ==
  [s EXCEPT !.current_item_idx = (s.current_item_idx + 1) % cache_size]

(* Slip: assigns to keys but not to values.                                *)
WithKeyOnly(s, i, k, v) ==
  [s EXCEPT !.entries = ReplaceAt(s.entries, i, [s.entries[i] EXCEPT !.key = k])]

WithEntry(s, i, k, v) ==
  [s EXCEPT !.entries = ReplaceAt(s.entries, i, [key |-> k, value |-> v])]

(* Slip: does not count the allocation.                                    *)
PushedBackUncounted(s, k, v) ==
  [s EXCEPT !.entries = Append(s.entries, [key |-> k, value |-> v])]

PushedBack(s, k, v) ==
  [s EXCEPT !.entries = Append(s.entries, [key |-> k, value |-> v]),
            !.current_allocations = s.current_allocations + 1]

(* Slip: compares with the vector's size instead of the allocations.       *)
CreatedByLength(s, k, v) ==
  IF s.current_item_idx >= Len(s.entries)
  THEN {Advanced(PushedBack(s, k, v))}
  ELSE {Advanced(WithEntry(s, s.current_item_idx + 1, k, v))}

Created(s, k, v) ==
  CASE s.current_item_idx >= s.current_allocations ->
         {Advanced(PushedBack(s, k, v))}
    [] s.current_item_idx < s.current_allocations
       /\ s.current_item_idx < Len(s.entries) ->
         {Advanced(WithEntry(s, s.current_item_idx + 1, k, v))}
    [] OTHER -> {Advanced(s), Killed(s)}

StoreOutcomes(s, k, v) ==
  CASE s.health # "sound" -> {Killed(s)}
    [] s.health = "sound" /\ k \in Keys(s) -> {WithEntry(s, index(s, k), k, v)}
    [] OTHER -> Created(s, k, v)

(***************************************************************************)
(* remove(k): neither current_item_idx nor current_allocations goes back.  *)
(***************************************************************************)
(* Slip: erases to the end.                                                *)
ErasedToTheEnd(s, i) == [s EXCEPT !.entries = SubSeq(s.entries, 1, i - 1)]

Erased(s, i) == [s EXCEPT !.entries = RemoveAt(s.entries, i)]

RemoveOutcomes(s, k) ==
  CASE s.health # "sound" -> {Killed(s)}
    [] s.health = "sound" /\ k \in Keys(s) -> {Erased(s, index(s, k))}
    [] s.health = "sound" /\ k \notin Keys(s) /\ s.entries # <<>> ->
         {Erased(s, Len(s.entries))}
    [] OTHER -> {Killed(s), [s EXCEPT !.health = "corrupt"]}

(***************************************************************************)
(* What every reachable store satisfies.  Until the ring has been filled   *)
(* once, slots are handed out in order; afterwards every new key goes to a *)
(* slot of its own choosing, whatever lies there.                          *)
(***************************************************************************)
KeysAreDistinct(s) ==
  \A i, j \in DOMAIN s.entries :
    s.entries[i].key = s.entries[j].key => i = j

RingIsConsistent(s) ==
  /\ Len(s.entries) <= s.current_allocations
  /\ s.current_allocations <= cache_size
  /\ s.current_item_idx < cache_size
  /\ s.current_allocations < cache_size =>
       s.current_item_idx = s.current_allocations
=============================================================================
