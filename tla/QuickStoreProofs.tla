-------------------------- MODULE QuickStoreProofs --------------------------
(***************************************************************************)
(* The properties of QuickStore for every ring size and every set of keys  *)
(* and values.  The state invariants are proved one after the other, each  *)
(* resting on the ones before it.                                          *)
(***************************************************************************)
EXTENDS QuickStore, QuickStoreLemmas

(* Every step is a store or a remove by a live owner, or changes nothing.  *)
LEMMA StepCases ==
  ASSUME [Next]_vars
  PROVE  \/ \E k \in Key, v \in Value : store(k, v)
         \/ \E k \in Key : remove(k)
         \/ UNCHANGED vars
BY DEF Next

(* The types, and with them the ring's consistency and distinct keys.      *)
RingInv == TypeOK /\ RingOK

LEMMA RingInvGood == RingInv <=> /\ GoodStore(cache, Key, Value)
                                 /\ latest \in [Key -> SUBSET Value]
                                 /\ created \in 0 .. cache_size + 1
                                 /\ strayed \in BOOLEAN
BY DEF RingInv, TypeOK, RingOK, GoodStore

LEMMA RingInvInit == Init => RingInv
<1> SUFFICES ASSUME Init PROVE RingInv
  OBVIOUS
<1>1. /\ cache.entries = <<>> /\ cache.current_item_idx = 0
      /\ cache.current_allocations = 0 /\ cache.health = "sound"
      /\ cache \in QuickStores(Key, Value)
  BY EmptySeq DEF Init, EmptyStore, QuickStores, Health
<1>2. RingIsConsistent(cache) /\ KeysAreDistinct(cache)
  BY <1>1, CacheSizeAssumption, EmptySeq DEF RingIsConsistent, KeysAreDistinct
<1>3. latest \in [Key -> SUBSET Value] /\ created \in 0 .. cache_size + 1
  BY CacheSizeAssumption DEF Init
<1>4. strayed \in BOOLEAN
  BY DEF Init
<1> QED BY <1>1, <1>2, <1>3, <1>4 DEF RingInv, TypeOK, RingOK

LEMMA RingInvNext == RingInv /\ [Next]_vars => RingInv'
<1> SUFFICES ASSUME RingInv, [Next]_vars PROVE RingInv'
  OBVIOUS
<1>0. /\ GoodStore(cache, Key, Value)
      /\ latest \in [Key -> SUBSET Value]
      /\ created \in 0 .. cache_size + 1
      /\ strayed \in BOOLEAN
  BY RingInvGood
<1>1. ASSUME NEW k \in Key, NEW v \in Value, store(k, v)
      PROVE  RingInv'
  <2>1. GoodStore(cache', Key, Value)
    BY <1>0, <1>1, StoreProps DEF store
  <2>2. latest' \in [Key -> SUBSET Value] /\ strayed' \in BOOLEAN
    BY <1>0, <1>1 DEF store
  <2>3. created' \in 0 .. cache_size + 1
    BY <1>0, <1>1, CacheSizeAssumption DEF store
  <2> QED BY <2>1, <2>2, <2>3 DEF RingInv, TypeOK, RingOK, GoodStore
<1>2. ASSUME NEW k \in Key, remove(k)
      PROVE  RingInv'
  <2>1. GoodStore(cache', Key, Value)
    BY <1>0, <1>2, RemoveProps DEF remove
  <2>2. /\ latest' \in [Key -> SUBSET Value] /\ strayed' \in BOOLEAN
        /\ created' \in 0 .. cache_size + 1
    BY <1>0, <1>2 DEF remove
  <2> QED BY <2>1, <2>2 DEF RingInv, TypeOK, RingOK, GoodStore
<1>3. CASE UNCHANGED vars
  BY <1>3 DEF vars, RingInv, TypeOK, RingOK
<1> QED BY <1>1, <1>2, <1>3, StepCases

(* The type invariant holds in every reachable state.                      *)
THEOREM TypeCorrect == Spec => []TypeOK
<1>1. RingInv => TypeOK
  BY DEF RingInv
<1> QED BY <1>1, RingInvInit, RingInvNext, PTL DEF Spec

(* The ring's counters never disagree with its vectors and no key is held  *)
(* twice, whatever sequence of stores and removals the owner performs,     *)
(* removals of absent keys included.                                       *)
THEOREM RingCorrect == Spec => []RingOK
<1>1. RingInv => RingOK
  BY DEF RingInv
<1> QED BY <1>1, RingInvInit, RingInvNext, PTL DEF Spec

(***************************************************************************)
(* NeverStale, inductive together with the one fact about a corrupt store: *)
(* it holds nothing.                                                       *)
(***************************************************************************)
FreshInv == /\ RingInv
            /\ NeverStale
            /\ cache.health = "corrupt" => cache.entries = <<>>

LEMMA FreshInvInit == Init => FreshInv
<1> SUFFICES ASSUME Init PROVE FreshInv
  OBVIOUS
<1>1. cache.entries = <<>> /\ cache.health = "sound"
  BY DEF Init, EmptyStore
<1>2. \A k : get(cache, k) = {}
  BY <1>1 DEF get
<1> QED BY <1>1, <1>2, RingInvInit DEF FreshInv, NeverStale

LEMMA FreshInvNext == FreshInv /\ [Next]_vars => FreshInv'
<1> SUFFICES ASSUME FreshInv, [Next]_vars PROVE FreshInv'
  OBVIOUS
<1>0. /\ RingInv'
      /\ GoodStore(cache, Key, Value)
      /\ latest \in [Key -> SUBSET Value]
      /\ cache.health \in Health
  BY RingInvNext, RingInvGood DEF FreshInv, GoodStore, QuickStores
<1>1. cache.health = "corrupt" => \A k : get(cache, k) = {}
  BY DEF FreshInv, get
<1>2. ASSUME NEW k \in Key, NEW v \in Value, store(k, v)
      PROVE  FreshInv'
  <2>1. /\ get(cache', k) \subseteq {v} \cup get(cache, k)
        /\ cache'.health # "aborted" => get(cache', k) \subseteq {v}
        /\ \A x : x # k => get(cache', x) \subseteq get(cache, x)
        /\ cache'.health # "corrupt"
    BY <1>0, <1>2, StoreProps DEF store, Health
  <2>2. get(cache', k) \subseteq {v}
    <3>1. CASE cache.health = "corrupt"
      BY <1>1, <2>1, <3>1
    <3>2. CASE cache.health = "sound" /\ k \in Keys(cache)
      BY <1>0, <1>2, <3>2, StoreProps DEF store
    <3>3. CASE cache.health = "sound" /\ k \notin Keys(cache)
      <4>1. get(cache, k) = {}
        BY <3>3 DEF get, IsIndex, Keys
      <4> QED BY <2>1, <4>1
    <3> QED BY <1>0, <1>2, <3>1, <3>2, <3>3 DEF store, Health
  <2>3. /\ latest'[k] = {v}
        /\ \A x \in Key : x # k => latest'[x] = latest[x]
    BY <1>0, <1>2 DEF store
  <2>4. NeverStale'
    BY <2>1, <2>2, <2>3 DEF FreshInv, NeverStale
  <2> QED BY <1>0, <2>1, <2>4 DEF FreshInv
<1>3. ASSUME NEW k \in Key, remove(k)
      PROVE  FreshInv'
  <2>1. /\ \A x : get(cache', x) \subseteq get(cache, x)
        /\ cache.health = "sound" => get(cache', k) = {}
        /\ cache'.health = "corrupt" => cache'.entries = <<>>
    BY <1>0, <1>3, RemoveProps DEF remove
  <2>2. get(cache', k) = {}
    BY <1>0, <1>1, <1>3, <2>1 DEF remove, Health
  <2>3. /\ latest'[k] = {}
        /\ \A x \in Key : x # k => latest'[x] = latest[x]
    BY <1>0, <1>3 DEF remove
  <2>4. NeverStale'
    BY <2>1, <2>2, <2>3 DEF FreshInv, NeverStale
  <2> QED BY <1>0, <2>1, <2>4 DEF FreshInv
<1>4. CASE UNCHANGED vars
  BY <1>0, <1>4 DEF vars, FreshInv, NeverStale
<1> QED BY <1>2, <1>3, <1>4, StepCases

(* A key that the store shows carries the last value stored under it.      *)
THEOREM Fresh == Spec => []NeverStale
<1>1. FreshInv => NeverStale
  BY DEF FreshInv
<1> QED BY <1>1, FreshInvInit, FreshInvNext, PTL DEF Spec

(***************************************************************************)
(* LosslessUntilWrapped, inductive once it also says that the ring counts  *)
(* its allocations as the owner counts creations.                          *)
(***************************************************************************)
Unwrapped == created <= cache_size /\ ~strayed

LosslessInv ==
  /\ RingInv
  /\ Unwrapped => /\ cache.health = "sound"
                  /\ created = cache.current_allocations
                  /\ \A k \in Key : get(cache, k) = latest[k]

LEMMA LosslessInvInit == Init => LosslessInv
<1> SUFFICES ASSUME Init PROVE LosslessInv
  OBVIOUS
<1>1. /\ cache.entries = <<>> /\ cache.health = "sound"
      /\ cache.current_allocations = 0
  BY DEF Init, EmptyStore
<1>2. \A k : get(cache, k) = {}
  BY <1>1 DEF get
<1> QED BY <1>1, <1>2, RingInvInit DEF LosslessInv, Init

LEMMA LosslessInvNext == LosslessInv /\ [Next]_vars => LosslessInv'
<1> SUFFICES ASSUME LosslessInv, [Next]_vars PROVE LosslessInv'
  OBVIOUS
<1>0. /\ RingInv'
      /\ GoodStore(cache, Key, Value)
      /\ latest \in [Key -> SUBSET Value]
      /\ created \in 0 .. cache_size + 1
      /\ cache_size \in Nat
  BY RingInvNext, RingInvGood, CacheSizeAssumption DEF LosslessInv
<1>1. ASSUME NEW k \in Key, NEW v \in Value, store(k, v), Unwrapped'
      PROVE  /\ cache'.health = "sound"
             /\ created' = cache'.current_allocations
             /\ \A x \in Key : get(cache', x) = latest'[x]
  <2>1. Unwrapped
    BY <1>0, <1>1 DEF store, Unwrapped
  <2>2. /\ cache.health = "sound"
        /\ created = cache.current_allocations
        /\ \A x \in Key : get(cache, x) = latest[x]
    BY <2>1 DEF LosslessInv
  <2>3. /\ latest'[k] = {v}
        /\ \A x \in Key : x # k => latest'[x] = latest[x]
    BY <1>0, <1>1 DEF store
  <2>4. CASE k \in Keys(cache)
    <3>1. /\ cache'.health = "sound"
          /\ cache'.current_allocations = cache.current_allocations
          /\ get(cache', k) = {v}
          /\ \A x : x # k => get(cache', x) = get(cache, x)
      BY <1>0, <1>1, <2>2, <2>4, StoreProps DEF store
    <3>2. created' = created
      BY <1>1, <2>4 DEF store
    <3> QED BY <2>2, <2>3, <3>1, <3>2
  <2>5. CASE k \notin Keys(cache)
    <3>1. created' = created + 1 /\ created < cache_size
      BY <1>0, <1>1, <2>1, <2>5 DEF store, Unwrapped
    <3>2. /\ cache'.health = "sound"
          /\ cache'.current_allocations = cache.current_allocations + 1
          /\ get(cache', k) = {v}
          /\ \A x : x # k => get(cache', x) = get(cache, x)
      BY <1>0, <1>1, <2>2, <2>5, <3>1, StoreProps DEF store
    <3> QED BY <2>2, <2>3, <3>1, <3>2
  <2> QED BY <2>4, <2>5
<1>2. ASSUME NEW k \in Key, remove(k), Unwrapped'
      PROVE  /\ cache'.health = "sound"
             /\ created' = cache'.current_allocations
             /\ \A x \in Key : get(cache', x) = latest'[x]
  <2>1. Unwrapped /\ k \in Keys(cache)
    BY <1>2 DEF remove, Unwrapped
  <2>2. /\ cache.health = "sound"
        /\ created = cache.current_allocations
        /\ \A x \in Key : get(cache, x) = latest[x]
    BY <2>1 DEF LosslessInv
  <2>3. /\ cache'.health = "sound"
        /\ cache'.current_allocations = cache.current_allocations
        /\ get(cache', k) = {}
        /\ \A x : x # k => get(cache', x) = get(cache, x)
    BY <1>0, <1>2, <2>1, <2>2, RemoveProps DEF remove
  <2>4. /\ latest'[k] = {}
        /\ \A x \in Key : x # k => latest'[x] = latest[x]
        /\ created' = created
    BY <1>0, <1>2 DEF remove
  <2> QED BY <2>2, <2>3, <2>4
<1>3. CASE UNCHANGED vars
  BY <1>0, <1>3 DEF vars, LosslessInv, Unwrapped
<1> QED BY <1>0, <1>1, <1>2, <1>3, StepCases DEF LosslessInv

(* Nothing stored is missing before the ring has been filled once.         *)
THEOREM Lossless == Spec => []LosslessUntilWrapped
<1>1. LosslessInv => LosslessUntilWrapped
  BY DEF LosslessInv, Unwrapped, LosslessUntilWrapped
<1> QED BY <1>1, LosslessInvInit, LosslessInvNext, PTL DEF Spec

(* Once cache_size keys have been created the store never grows again: the *)
(* pipeline's long-run stall, for every ring size.                         *)
THEOREM Stalls == Spec => NeverRegrows
<1>1. RingInv /\ [Next]_vars =>
        [cache.current_allocations = cache_size =>
           Len(cache'.entries) <= Len(cache.entries)]_vars
  <2> SUFFICES ASSUME RingInv, [Next]_vars,
                      cache.current_allocations = cache_size,
                      ~ UNCHANGED vars
               PROVE  Len(cache'.entries) <= Len(cache.entries)
    OBVIOUS
  <2>0. GoodStore(cache, Key, Value)
    BY RingInvGood
  <2>1. ASSUME NEW k \in Key, NEW v \in Value, store(k, v)
        PROVE  Len(cache'.entries) <= Len(cache.entries)
    BY <2>0, <2>1, StoreProps DEF store
  <2>2. ASSUME NEW k \in Key, remove(k)
        PROVE  Len(cache'.entries) <= Len(cache.entries)
    BY <2>0, <2>2, RemoveProps DEF remove
  <2> QED BY <2>1, <2>2, StepCases
<1> QED BY <1>1, RingInvInit, RingInvNext, PTL DEF Spec, NeverRegrows

-----------------------------------------------------------------------------
(* The refinement.                                                         *)

(* What a reader of a store sees, as visible says it of the cache.         *)
Shown(s) == [k \in Keys(s) |-> s.entries[index(s, k)].value]

LEMMA ShownProps ==
  ASSUME NEW K, NEW V, NEW s, GoodStore(s, K, V)
  PROVE  /\ Shown(s) \in [Keys(s) -> V]
         /\ \A x \in Keys(s) : get(s, x) = {Shown(s)[x]}
         /\ \A x : x \notin Keys(s) => get(s, x) = {}
<1>1. ASSUME NEW x \in Keys(s) PROVE get(s, x) = {Shown(s)[x]}
  <2>1. index(s, x) \in 1 .. Len(s.entries) /\ s.entries[index(s, x)].key = x
    BY IndexProps
  <2>2. DOMAIN s.entries = 1 .. Len(s.entries)
    BY LenProperties DEF GoodStore, QuickStores
  <2>3. \A i \in DOMAIN s.entries : s.entries[i].key = x => i = index(s, x)
    BY <2>1, <2>2 DEF GoodStore, KeysAreDistinct
  <2>4. get(s, x) = { s.entries[i].value :
                        i \in { i \in DOMAIN s.entries : s.entries[i].key = x } }
    BY GetProps
  <2>5. { i \in DOMAIN s.entries : s.entries[i].key = x } = { index(s, x) }
    BY <2>1, <2>2, <2>3
  <2>6. get(s, x) = { s.entries[index(s, x)].value }
    BY <2>4, <2>5
  <2> QED BY <2>6 DEF Shown
<1>2. \A x : x \notin Keys(s) => get(s, x) = {}
  BY DEF get, IsIndex, Keys
<1>3. Shown(s) \in [Keys(s) -> V]
  <2> SUFFICES ASSUME NEW x \in Keys(s) PROVE s.entries[index(s, x)].value \in V
    BY DEF Shown
  <2>1. index(s, x) \in 1 .. Len(s.entries) /\ s.entries \in Seq([key : K, value : V])
    BY IndexProps DEF GoodStore, QuickStores
  <2>2. s.entries[index(s, x)] \in [key : K, value : V]
    BY <2>1, ElementOfSeq
  <2> QED BY <2>2
<1> QED BY <1>1, <1>2, <1>3

(* get() determines what is seen.                                          *)
LEMMA ShownByGet ==
  ASSUME NEW K, NEW V, NEW t, GoodStore(t, K, V), NEW D, NEW f \in [D -> V],
         \A x \in D : get(t, x) = {f[x]},
         \A x : x \notin D => get(t, x) = {}
  PROVE  Shown(t) = f
<1>1. Keys(t) = D
  BY ShownProps
<1>2. \A x \in D : Shown(t)[x] = f[x]
  BY <1>1, ShownProps
<1>3. Shown(t) \in [D -> V]
  BY <1>1, ShownProps
<1> QED BY <1>2, <1>3

LEMMA SameShown ==
  ASSUME NEW K, NEW V, NEW s, GoodStore(s, K, V), NEW t, t.entries = s.entries
  PROVE  Shown(t) = Shown(s)
BY DEF Shown, Keys, index, IsIndex

(* A slot that is given to another key loses the one it had.               *)
LEMMA OverwriteProps ==
  ASSUME NEW K, NEW V, NEW s, GoodStore(s, K, V), NEW k \in K \ Keys(s), NEW v \in V,
         NEW i \in 1 .. Len(s.entries)
  PROVE  /\ s.entries[i].key \in Keys(s)
         /\ \A x : x # k => get(WithEntry(s, i, k, v), x) =
                              IF x = s.entries[i].key THEN {} ELSE get(s, x)
<1> DEFINE t == WithEntry(s, i, k, v)
           e == [key |-> k, value |-> v]
<1>1. DOMAIN s.entries = 1 .. Len(s.entries)
  BY LenProperties DEF GoodStore, QuickStores
<1>2. t.entries = [s.entries EXCEPT ![i] = e]
  BY DEF WithEntry, ReplaceAt, GoodStore, QuickStores
<1>3. /\ DOMAIN t.entries = DOMAIN s.entries /\ t.entries[i] = e
      /\ \A j \in DOMAIN s.entries : j # i => t.entries[j] = s.entries[j]
  BY <1>1, <1>2
<1>4. GoodStore(t, K, V)
  BY WithEntryProps
<1> HIDE DEF t
<1>5. \A x : /\ get(t, x) = { t.entries[j].value :
                     j \in { j \in DOMAIN t.entries : t.entries[j].key = x } }
             /\ get(s, x) = { s.entries[j].value :
                     j \in { j \in DOMAIN s.entries : s.entries[j].key = x } }
  BY <1>4, GetProps
<1>6. ASSUME NEW x, x # k
      PROVE  get(t, x) = IF x = s.entries[i].key THEN {} ELSE get(s, x)
  <2>1. \A j \in DOMAIN s.entries :
          t.entries[j].key = x <=> j # i /\ s.entries[j].key = x
    BY <1>3, <1>6
  <2>2. CASE x = s.entries[i].key
    <3>1. \A j \in DOMAIN s.entries : s.entries[j].key = x => j = i
      BY <1>1, <2>2 DEF GoodStore, KeysAreDistinct
    <3>2. { j \in DOMAIN t.entries : t.entries[j].key = x } = {}
      BY <1>3, <2>1, <3>1
    <3> QED BY <1>5, <2>2, <3>2
  <2>3. CASE x # s.entries[i].key
    <3>1. { j \in DOMAIN t.entries : t.entries[j].key = x }
            = { j \in DOMAIN s.entries : s.entries[j].key = x }
      BY <1>3, <2>1, <2>3
    <3>2. \A j \in { j \in DOMAIN s.entries : s.entries[j].key = x } :
            t.entries[j] = s.entries[j]
      BY <1>3, <2>3
    <3>3. \A y : /\ y \in get(t, x) <=>
                       \E j \in DOMAIN s.entries :
                         s.entries[j].key = x /\ y = s.entries[j].value
                 /\ y \in get(s, x) <=>
                       \E j \in DOMAIN s.entries :
                         s.entries[j].key = x /\ y = s.entries[j].value
      <4>1. get(t, x) = { t.entries[j].value :
                            j \in { j \in DOMAIN s.entries : s.entries[j].key = x } }
        BY <1>5, <3>1
      <4>2. get(s, x) = { s.entries[j].value :
                            j \in { j \in DOMAIN s.entries : s.entries[j].key = x } }
        BY <1>5
      <4> QED BY <3>2, <4>1, <4>2
    <3>4. get(t, x) = get(s, x)
      BY <3>3
    <3> QED BY <2>3, <3>4
  <2> QED BY <2>2, <2>3
<1>7. s.entries[i].key \in Keys(s)
  BY <1>1 DEF Keys
<1> QED BY <1>6, <1>7 DEF t

(* What store() makes of what is seen.                                     *)
WithKey(m, keys, k, v) == [x \in keys |-> IF x = k THEN v ELSE m[x]]

LEMMA StoreShown ==
  ASSUME NEW K, NEW V, NEW s, GoodStore(s, K, V), NEW k \in K, NEW v \in V,
         NEW t \in StoreOutcomes(s, k, v)
  PROVE  \/ t.health # "sound" /\ Shown(t) = Shown(s)
         \/ /\ s.health = "sound" /\ t.health = "sound"
            /\ \/ Shown(t) = WithKey(Shown(s), Keys(s) \cup {k}, k, v)
               \/ /\ k \notin Keys(s)
                  /\ \/ \E old \in Keys(s) :
                          Shown(t) = WithKey(Shown(s), (Keys(s) \cup {k}) \ {old}, k, v)
                     \/ Shown(t) = Shown(s)
<1>0. /\ s.current_item_idx \in Nat /\ s.current_allocations \in Nat
      /\ Len(s.entries) \in Nat
  BY LenProperties DEF GoodStore, QuickStores
<1>1. Killed(s).health = "aborted" /\ Shown(Killed(s)) = Shown(s)
  BY SameShown DEF Killed, GoodStore, QuickStores
<1>2. GoodStore(t, K, V)
  BY StoreProps
<1>3. ASSUME get(t, k) = {v}, \A x : x # k => get(t, x) = get(s, x)
      PROVE  Shown(t) = WithKey(Shown(s), Keys(s) \cup {k}, k, v)
  <2> DEFINE D == Keys(s) \cup {k}
             f == WithKey(Shown(s), D, k, v)
  <2>1. f \in [D -> V]
    BY ShownProps DEF WithKey
  <2>2. \A x \in D : get(t, x) = {f[x]}
    BY <1>3, ShownProps DEF WithKey
  <2>3. \A x : x \notin D => get(t, x) = {}
    BY <1>3, ShownProps
  <2> HIDE DEF f
  <2>4. Shown(t) = f
    BY <1>2, <2>1, <2>2, <2>3, ShownByGet
  <2> QED BY <2>4 DEF f
<1>4. CASE s.health # "sound"
  <2>1. t = Killed(s)
    BY <1>4 DEF StoreOutcomes
  <2> QED BY <1>1, <2>1
<1>5. CASE s.health = "sound" /\ k \in Keys(s)
  <2>1. /\ t.health = "sound" /\ get(t, k) = {v}
        /\ \A x : x # k => get(t, x) = get(s, x)
    BY <1>5, StoreProps
  <2> QED BY <1>3, <1>5, <2>1
<1>6. CASE s.health = "sound" /\ k \notin Keys(s)
  <2>1. t \in Created(s, k, v)
    BY <1>6 DEF StoreOutcomes
  <2>2. CASE s.current_item_idx >= s.current_allocations
    <3>1. t = Advanced(PushedBack(s, k, v))
      BY <1>0, <2>1, <2>2 DEF Created
    <3>2. /\ t.health = s.health /\ get(t, k) = {v}
          /\ \A x : x # k => get(t, x) = get(s, x)
      BY <1>6, <2>2, <3>1, PushedBackProps
    <3> QED BY <1>3, <1>6, <3>2
  <2>3. CASE /\ s.current_item_idx < s.current_allocations
             /\ s.current_item_idx < Len(s.entries)
    <3> DEFINE i == s.current_item_idx + 1
               u == WithEntry(s, i, k, v)
               old == s.entries[i].key
               D == (Keys(s) \cup {k}) \ {old}
               f == WithKey(Shown(s), D, k, v)
    <3>1. t = Advanced(u) /\ i \in 1 .. Len(s.entries)
      BY <1>0, <2>1, <2>3 DEF Created
    <3>2. /\ GoodStore(u, K, V) /\ u.health = s.health /\ get(u, k) = {v}
          /\ u.current_item_idx < u.current_allocations
      BY <1>6, <2>3, <3>1, WithEntryProps
    <3> HIDE DEF i
    <3>3. /\ old \in Keys(s)
          /\ \A x : x # k => get(u, x) = IF x = old THEN {} ELSE get(s, x)
      BY <1>6, <3>1, OverwriteProps
    <3> HIDE DEF u
    <3>4. t.health = u.health /\ \A x : get(t, x) = get(u, x)
      <4>1. Advanced(u).health = u.health /\ \A x : get(Advanced(u), x) = get(u, x)
        BY <3>2, AdvancedProps
      <4> QED BY <3>1, <4>1
    <3>5. f \in [D -> V] /\ k # old
      BY <1>6, <3>3, ShownProps DEF WithKey
    <3>6. \A x \in D : get(t, x) = {f[x]}
      BY <3>2, <3>3, <3>4, ShownProps DEF WithKey
    <3>7. \A x : x \notin D => get(t, x) = {}
      BY <3>3, <3>4, <3>5, ShownProps
    <3> HIDE DEF f
    <3>8. Shown(t) = f
      BY <1>2, <3>5, <3>6, <3>7, ShownByGet
    <3> QED BY <1>6, <3>2, <3>3, <3>4, <3>8 DEF f
  <2>4. CASE /\ s.current_item_idx < s.current_allocations
             /\ ~(s.current_item_idx < Len(s.entries))
    <3>1. t \in {Advanced(s), Killed(s)}
      BY <1>0, <2>1, <2>4 DEF Created
    <3>2. Advanced(s).entries = s.entries /\ Advanced(s).health = s.health
      BY <2>4, AdvancedProps
    <3>3. Shown(Advanced(s)) = Shown(s)
      BY <3>2, SameShown
    <3> QED BY <1>1, <1>6, <3>1, <3>2, <3>3
  <2> QED BY <1>0, <2>2, <2>3, <2>4
<1> QED BY <1>4, <1>5, <1>6

(* And remove().                                                           *)
Only(m, keys) == [x \in keys |-> m[x]]

LEMMA RemoveShown ==
  ASSUME NEW K, NEW V, NEW s, GoodStore(s, K, V), NEW k, NEW t \in RemoveOutcomes(s, k)
  PROVE  \/ t.health # "sound" /\ Shown(t) = Shown(s)
         \/ /\ s.health = "sound" /\ t.health = "sound"
            /\ \E x \in Keys(s) : /\ k \in Keys(s) => x = k
                                  /\ Shown(t) = Only(Shown(s), Keys(s) \ {x})
<1>0. /\ Len(s.entries) \in Nat /\ DOMAIN s.entries = 1 .. Len(s.entries)
  BY LenProperties DEF GoodStore, QuickStores
<1>1. GoodStore(t, K, V)
  BY RemoveProps
<1>2. ASSUME NEW i \in 1 .. Len(s.entries), t = Erased(s, i)
      PROVE  /\ t.health = s.health /\ s.entries[i].key \in Keys(s)
             /\ Shown(t) = Only(Shown(s), Keys(s) \ {s.entries[i].key})
  <2> DEFINE x == s.entries[i].key
             D == Keys(s) \ {x}
             f == Only(Shown(s), D)
  <2>1. x \in Keys(s)
    BY <1>0 DEF Keys
  <2>2. /\ t.health = s.health /\ get(t, x) = {}
        /\ \A y : y # x => get(t, y) = get(s, y)
    <3>1. /\ Erased(s, i).health = s.health /\ get(Erased(s, i), KeyAt(s, i)) = {}
          /\ \A y : y # KeyAt(s, i) => get(Erased(s, i), y) = get(s, y)
      BY ErasedProps
    <3> QED BY <1>2, <3>1 DEF KeyAt
  <2>3. \A y \in D : get(t, y) = {f[y]}
    BY <2>2, ShownProps DEF Only
  <2>4. \A y : y \notin D => get(t, y) = {}
    BY <2>2, ShownProps
  <2>5. f \in [D -> V]
    BY ShownProps DEF Only
  <2> HIDE DEF f
  <2>6. Shown(t) = f
    BY <1>1, <2>3, <2>4, <2>5, ShownByGet
  <2> QED BY <2>1, <2>2, <2>6 DEF f
<1>3. CASE s.health # "sound"
  <2>1. t = Killed(s)
    BY <1>3 DEF RemoveOutcomes
  <2> QED BY <2>1, SameShown DEF Killed, GoodStore, QuickStores
<1>4. CASE s.health = "sound" /\ k \in Keys(s)
  <2>1. t = Erased(s, index(s, k))
    BY <1>4 DEF RemoveOutcomes
  <2>2. index(s, k) \in 1 .. Len(s.entries) /\ s.entries[index(s, k)].key = k
    BY <1>4, IndexProps
  <2> QED BY <1>2, <1>4, <2>1, <2>2
<1>5. CASE s.health = "sound" /\ k \notin Keys(s) /\ s.entries # <<>>
  <2>1. t = Erased(s, Len(s.entries))
    BY <1>5 DEF RemoveOutcomes
  <2>2. Len(s.entries) \in 1 .. Len(s.entries)
    BY <1>0, <1>5, EmptySeq DEF GoodStore, QuickStores
  <2> QED BY <1>2, <1>5, <2>1, <2>2
<1>6. CASE s.health = "sound" /\ k \notin Keys(s) /\ s.entries = <<>>
  <2>1. t \in {Killed(s), [s EXCEPT !.health = "corrupt"]}
    BY <1>6 DEF RemoveOutcomes
  <2>2. t.health # "sound" /\ t.entries = s.entries
    BY <2>1 DEF Killed, GoodStore, QuickStores
  <2> QED BY <2>2, SameShown
<1> QED BY <1>3, <1>4, <1>5, <1>6

(* To its owner the store is a map that may lose things and no more: store *)
(* displaces at most one other key, remove() of an absent key takes at     *)
(* most one, and what is there is the last value stored, until an access   *)
(* out of bounds breaks the store for good (quick_store.h).                *)
THEOREM Refinement == Spec => ImplementsLossyMap
<1>1. Init => Abstract!MapInit
  <2> SUFFICES ASSUME Init PROVE Abstract!MapInit
    OBVIOUS
  <2>1. cache.entries = <<>> /\ cache.health = "sound"
    BY DEF Init, EmptyStore
  <2>2. Keys(cache) = {}
    BY <2>1 DEF Keys
  <2> QED BY <2>1, <2>2 DEF Abstract!MapInit, visible
<1>2. RingInv /\ [Next]_vars => [Abstract!MapNext]_(Abstract!mapVars)
  <2> SUFFICES ASSUME RingInv, [Next]_vars PROVE [Abstract!MapNext]_(Abstract!mapVars)
    OBVIOUS
  <2>0. GoodStore(cache, Key, Value) /\ visible = Shown(cache) /\ visible' = Shown(cache')
    BY RingInvGood DEF visible, Shown
  <2>1. DOMAIN visible = Keys(cache)
    BY DEF visible
  <2>2. ASSUME cache'.health # "sound", Shown(cache') = Shown(cache)
        PROVE  Abstract!MapNext
    BY <2>0, <2>2 DEF Abstract!MapNext, Abstract!Break
  <2>3. ASSUME NEW k \in Key, NEW v \in Value, store(k, v)
        PROVE  Abstract!MapNext
    <3>1. cache' \in StoreOutcomes(cache, k, v)
      BY <2>3 DEF store
    <3>2. CASE cache.health = "sound" /\ cache'.health = "sound" /\
               Shown(cache') = WithKey(Shown(cache), Keys(cache) \cup {k}, k, v)
      <4>1. Abstract!PutAndDisplace(k, v, {})
        BY <2>0, <2>1, <3>2 DEF Abstract!PutAndDisplace, WithKey
      <4> QED BY <3>2, <4>1 DEF Abstract!MapNext, Abstract!Put
    <3>3. ASSUME cache.health = "sound", cache'.health = "sound", k \notin Keys(cache),
                 NEW old \in Keys(cache),
                 Shown(cache') = WithKey(Shown(cache), (Keys(cache) \cup {k}) \ {old}, k, v)
          PROVE  Abstract!MapNext
      <4>1. Abstract!PutAndDisplace(k, v, {old})
        BY <2>0, <2>1, <3>3 DEF Abstract!PutAndDisplace, WithKey
      <4> QED BY <2>1, <3>3, <4>1 DEF Abstract!MapNext, Abstract!Put
    <3>4. CASE cache.health = "sound" /\ cache'.health = "sound" /\
               k \notin Keys(cache) /\ Shown(cache') = Shown(cache)
      BY <2>0, <2>1, <3>4 DEF Abstract!MapNext, Abstract!Put
    <3>5. \/ cache'.health # "sound" /\ Shown(cache') = Shown(cache)
          \/ /\ cache.health = "sound" /\ cache'.health = "sound"
             /\ \/ Shown(cache') = WithKey(Shown(cache), Keys(cache) \cup {k}, k, v)
                \/ /\ k \notin Keys(cache)
                   /\ \/ \E old \in Keys(cache) :
                           Shown(cache') =
                             WithKey(Shown(cache), (Keys(cache) \cup {k}) \ {old}, k, v)
                      \/ Shown(cache') = Shown(cache)
      BY <2>0, <3>1, StoreShown
    <3> QED BY <2>2, <3>2, <3>3, <3>4, <3>5
  <2>4. ASSUME NEW k \in Key, remove(k)
        PROVE  Abstract!MapNext
    <3>1. cache' \in RemoveOutcomes(cache, k)
      BY <2>4 DEF remove
    <3>2. ASSUME cache.health = "sound", cache'.health = "sound",
                 NEW x \in Keys(cache), k \in Keys(cache) => x = k,
                 Shown(cache') = Only(Shown(cache), Keys(cache) \ {x})
          PROVE  Abstract!MapNext
      <4>1. visible' = Abstract!Keep(DOMAIN visible \ {x})
        BY <2>0, <2>1, <3>2 DEF Abstract!Keep, Only
      <4> QED BY <2>1, <3>2, <4>1 DEF Abstract!MapNext, Abstract!Delete
    <3>3. \/ cache'.health # "sound" /\ Shown(cache') = Shown(cache)
          \/ /\ cache.health = "sound" /\ cache'.health = "sound"
             /\ \E x \in Keys(cache) :
                  /\ k \in Keys(cache) => x = k
                  /\ Shown(cache') = Only(Shown(cache), Keys(cache) \ {x})
      BY <2>0, <3>1, RemoveShown
    <3> QED BY <2>2, <3>2, <3>3
  <2>5. CASE UNCHANGED vars
    BY <2>0, <2>5 DEF vars, Abstract!mapVars
  <2> QED BY <2>3, <2>4, <2>5, StepCases
<1> QED BY <1>1, <1>2, RingInvInit, RingInvNext, PTL
        DEF Spec, ImplementsLossyMap, Abstract!MapSpec
=============================================================================
