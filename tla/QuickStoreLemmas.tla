-------------------------- MODULE QuickStoreLemmas --------------------------
(***************************************************************************)
(* Facts about the operations of a QuickStore, for any ring size, keys and *)
(* values.  They say nothing about who calls them.                         *)
(***************************************************************************)
EXTENDS QuickStoreOps, SequenceTheorems, TLAPS

(* A store as a live process holds it.                                     *)
GoodStore(s, K, V) ==
  /\ s \in QuickStores(K, V)
  /\ RingIsConsistent(s)
  /\ KeysAreDistinct(s)

(* (current_item_idx + 1) % cache_size stays a slot and counts up by one   *)
(* until it wraps.                                                         *)
LEMMA NextSlot ==
  ASSUME NEW a \in Nat, NEW n \in Nat, a < n
  PROVE  /\ (a + 1) % n \in Nat
         /\ (a + 1) % n < n
         /\ a + 1 < n => (a + 1) % n = a + 1
BY SMT

(* vector::erase of one element: shorter by one, order kept.               *)
LEMMA RemoveAtProps ==
  ASSUME NEW S, NEW s \in Seq(S), NEW i \in 1 .. Len(s)
  PROVE  /\ RemoveAt(s, i) \in Seq(S)
         /\ Len(RemoveAt(s, i)) = Len(s) - 1
         /\ \A j \in 1 .. Len(s) - 1 :
              RemoveAt(s, i)[j] = IF j < i THEN s[j] ELSE s[j + 1]
<1> DEFINE a == SubSeq(s, 1, i - 1)
           b == SubSeq(s, i + 1, Len(s))
<1>0. Len(s) \in Nat
  BY LenProperties
<1>1. /\ a \in Seq(S) /\ Len(a) = i - 1
      /\ \A j \in 1 .. i - 1 : a[j] = s[j]
  BY SubSeqProperties, ElementOfSeq, LenProperties
<1>2. /\ b \in Seq(S) /\ Len(b) = Len(s) - i
      /\ \A j \in 1 .. Len(s) - i : b[j] = s[i + j]
  BY SubSeqProperties, ElementOfSeq, LenProperties
<1> HIDE DEF a, b
<1>3. /\ a \o b \in Seq(S)
      /\ Len(a \o b) = Len(a) + Len(b)
      /\ \A j \in 1 .. Len(a) + Len(b) :
           (a \o b)[j] = IF j <= Len(a) THEN a[j] ELSE b[j - Len(a)]
  BY <1>1, <1>2, ConcatProperties
<1>4. Len(a \o b) = Len(s) - 1
  BY <1>0, <1>1, <1>2, <1>3
<1>5. ASSUME NEW j \in 1 .. Len(s) - 1
      PROVE  (a \o b)[j] = IF j < i THEN s[j] ELSE s[j + 1]
  <2>1. (a \o b)[j] = IF j <= Len(a) THEN a[j] ELSE b[j - Len(a)]
    BY <1>0, <1>1, <1>2, <1>3
  <2>2. CASE j < i
    BY <1>0, <1>1, <2>1, <2>2
  <2>3. CASE ~(j < i)
    <3>1. j - Len(a) \in 1 .. Len(s) - i /\ i + (j - Len(a)) = j + 1
      BY <1>0, <1>1, <2>3
    <3> QED BY <1>1, <1>2, <2>1, <2>3, <3>1, <1>0
  <2> QED BY <2>2, <2>3
<1>6. RemoveAt(s, i) = a \o b
  BY DEF RemoveAt, a, b
<1> QED BY <1>3, <1>4, <1>5, <1>6

(* With distinct keys index() finds the one entry with the key.            *)
LEMMA IndexProps ==
  ASSUME NEW K, NEW V, NEW s, GoodStore(s, K, V), NEW k \in Keys(s)
  PROVE  /\ index(s, k) \in 1 .. Len(s.entries)
         /\ s.entries[index(s, k)].key = k
<1>1. s.entries \in Seq([key : K, value : V])
  BY DEF GoodStore, QuickStores
<1>2. DOMAIN s.entries = 1 .. Len(s.entries) /\ Len(s.entries) \in Nat
  BY <1>1, LenProperties
<1>3. PICK i \in DOMAIN s.entries : s.entries[i].key = k
  BY DEF Keys
<1>4. IsIndex(s, k, i)
  <2>1. ASSUME NEW j \in 1 .. i - 1
        PROVE  s.entries[j].key # k
    <3>1. j \in DOMAIN s.entries /\ j # i
      BY <1>2, <1>3
    <3> QED BY <1>3, <3>1 DEF GoodStore, KeysAreDistinct
  <2> QED BY <1>3, <2>1 DEF IsIndex
<1>5. IsIndex(s, k, index(s, k)) /\ index(s, k) \in DOMAIN s.entries
  BY <1>3, <1>4 DEF index
<1> QED BY <1>2, <1>5 DEF IsIndex

(* With distinct keys get() returns the value of the one entry.            *)
LEMMA GetProps ==
  ASSUME NEW K, NEW V, NEW s, GoodStore(s, K, V), NEW k
  PROVE  get(s, k) = { s.entries[i].value :
                         i \in { i \in DOMAIN s.entries : s.entries[i].key = k } }
<1>1. s.entries \in Seq([key : K, value : V])
  BY DEF GoodStore, QuickStores
<1>2. DOMAIN s.entries = 1 .. Len(s.entries) /\ Len(s.entries) \in Nat
  BY <1>1, LenProperties
<1>3. ASSUME NEW i \in DOMAIN s.entries
      PROVE  IsIndex(s, k, i) <=> s.entries[i].key = k
  <2>1. ASSUME s.entries[i].key = k, NEW j \in 1 .. i - 1
        PROVE  s.entries[j].key # k
    <3>1. j \in DOMAIN s.entries /\ j # i
      BY <1>2, <1>3
    <3> QED BY <2>1, <3>1, <1>3 DEF GoodStore, KeysAreDistinct
  <2> QED BY <1>3, <2>1 DEF IsIndex
<1> QED BY <1>3 DEF get

(* Overwriting a slot with its own key or with a new one: the store stays  *)
(* good, the key shows the new value, every other key at most its old one. *)
LEMMA WithEntryProps ==
  ASSUME NEW K, NEW V, NEW s, GoodStore(s, K, V), NEW k \in K, NEW v \in V,
         NEW i \in 1 .. Len(s.entries),
         k \notin Keys(s) \/ s.entries[i].key = k
  PROVE  LET t == WithEntry(s, i, k, v) IN
         /\ GoodStore(t, K, V)
         /\ t.health = s.health
         /\ t.current_allocations = s.current_allocations
         /\ t.current_item_idx = s.current_item_idx
         /\ Len(t.entries) = Len(s.entries)
         /\ get(t, k) = {v}
         /\ \A x : x # k => get(t, x) \subseteq get(s, x)
         /\ s.entries[i].key = k => \A x : x # k => get(t, x) = get(s, x)
<1> DEFINE e == [key |-> k, value |-> v]
           t == WithEntry(s, i, k, v)
           E == [key : K, value : V]
<1>0. s.entries \in Seq(E) /\ e \in E
  BY DEF GoodStore, QuickStores
<1>1. /\ t = [s EXCEPT !.entries = [s.entries EXCEPT ![i] = e]]
      /\ t.entries = [s.entries EXCEPT ![i] = e]
      /\ t.health = s.health
      /\ t.current_item_idx = s.current_item_idx
      /\ t.current_allocations = s.current_allocations
  BY DEF WithEntry, ReplaceAt, GoodStore, QuickStores
<1>2. /\ t.entries \in Seq(E)
      /\ Len(t.entries) = Len(s.entries)
      /\ \A j \in 1 .. Len(s.entries) :
           t.entries[j] = IF j = i THEN e ELSE s.entries[j]
  BY <1>0, <1>1, ExceptSeq
<1>3. /\ DOMAIN s.entries = 1 .. Len(s.entries)
      /\ DOMAIN t.entries = 1 .. Len(s.entries)
  BY <1>0, <1>2, LenProperties
<1>4. t \in QuickStores(K, V)
  BY <1>1, <1>2 DEF GoodStore, QuickStores
<1>5. RingIsConsistent(t)
  BY <1>1, <1>2 DEF GoodStore, RingIsConsistent
<1>6. \A j \in DOMAIN s.entries : j # i => s.entries[j].key # k
  <2>1. CASE k \notin Keys(s)
    BY <2>1 DEF Keys
  <2>2. CASE s.entries[i].key = k
    BY <2>2, <1>3 DEF GoodStore, KeysAreDistinct
  <2> QED BY <2>1, <2>2
<1>7. KeysAreDistinct(t)
  <2> SUFFICES ASSUME NEW a \in DOMAIN t.entries, NEW b \in DOMAIN t.entries,
                      t.entries[a].key = t.entries[b].key
               PROVE  a = b
    BY DEF KeysAreDistinct
  <2>1. CASE a = i
    BY <2>1, <1>2, <1>3, <1>6
  <2>2. CASE b = i
    BY <2>2, <1>2, <1>3, <1>6
  <2>3. CASE a # i /\ b # i
    BY <2>3, <1>2, <1>3 DEF GoodStore, KeysAreDistinct
  <2> QED BY <2>1, <2>2, <2>3
<1>8. GoodStore(t, K, V)
  BY <1>4, <1>5, <1>7 DEF GoodStore
<1> HIDE DEF t
<1>9. get(t, k) = {v}
  <2>1. \A j \in DOMAIN t.entries : t.entries[j].key = k <=> j = i
    BY <1>2, <1>3, <1>6
  <2>2. get(t, k) = { t.entries[j].value : j \in {i} }
    BY <1>3, <1>8, <2>1, GetProps
  <2> QED BY <2>2, <1>2
<1>10. ASSUME NEW x, x # k
       PROVE  /\ get(t, x) \subseteq get(s, x)
              /\ s.entries[i].key = k => get(t, x) = get(s, x)
  <2>1. \A j \in DOMAIN t.entries :
          t.entries[j].key = x => j # i /\ t.entries[j] = s.entries[j]
    BY <1>2, <1>3, <1>10
  <2>2. s.entries[i].key = k =>
          \A j \in DOMAIN s.entries :
            s.entries[j].key = x => j # i /\ t.entries[j] = s.entries[j]
    BY <1>2, <1>3, <1>10
  <2>3. /\ get(t, x) = { t.entries[j].value :
                           j \in { j \in DOMAIN t.entries : t.entries[j].key = x } }
        /\ get(s, x) = { s.entries[j].value :
                           j \in { j \in DOMAIN s.entries : s.entries[j].key = x } }
    BY <1>8, GetProps
  <2> QED BY <1>3, <2>1, <2>2, <2>3
<1> QED BY <1>1, <1>2, <1>8, <1>9, <1>10 DEF t

(* Appending a new key while there is room.                                *)
LEMMA PushedBackProps ==
  ASSUME NEW K, NEW V, NEW s, GoodStore(s, K, V), NEW k \in K \ Keys(s),
         NEW v \in V, s.current_item_idx >= s.current_allocations
  PROVE  LET t == Advanced(PushedBack(s, k, v)) IN
         /\ GoodStore(t, K, V)
         /\ s.current_allocations < cache_size
         /\ t.health = s.health
         /\ t.current_allocations = s.current_allocations + 1
         /\ Len(t.entries) = Len(s.entries) + 1
         /\ get(t, k) = {v}
         /\ \A x : x # k => get(t, x) = get(s, x)
<1> DEFINE e == [key |-> k, value |-> v]
           p == PushedBack(s, k, v)
           t == Advanced(p)
           E == [key : K, value : V]
           next == (s.current_item_idx + 1) % cache_size
<1>0. /\ s.entries \in Seq(E) /\ e \in E
      /\ s.current_item_idx \in Nat /\ s.current_allocations \in Nat
      /\ cache_size \in Nat
      /\ Len(s.entries) \in Nat
  BY CacheSizeAssumption, LenProperties DEF GoodStore, QuickStores
<1>0a. /\ p = [s EXCEPT !.entries = Append(s.entries, e),
                      !.current_allocations = s.current_allocations + 1]
      /\ p \in QuickStores(K, V)
      /\ p.entries = Append(s.entries, e)
      /\ p.health = s.health
      /\ p.current_item_idx = s.current_item_idx
      /\ p.current_allocations = s.current_allocations + 1
  <2>1. Append(s.entries, e) \in Seq(E) /\ s.current_allocations + 1 \in Nat
    BY <1>0, AppendProperties
  <2> QED BY <2>1 DEF PushedBack, GoodStore, QuickStores
<1>1. /\ t = [p EXCEPT !.current_item_idx = next]
      /\ t.entries = Append(s.entries, e)
      /\ t.health = s.health
      /\ t.current_item_idx = next
      /\ t.current_allocations = s.current_allocations + 1
  <2>1. t = [p EXCEPT !.current_item_idx = next]
    BY <1>0a DEF Advanced
  <2> HIDE DEF p, next
  <2> QED BY <1>0a, <2>1 DEF QuickStores
<1> HIDE DEF p, t, next, e, E
<1>2. /\ t.entries \in Seq(E)
      /\ Len(t.entries) = Len(s.entries) + 1
      /\ \A j \in 1 .. Len(s.entries) : t.entries[j] = s.entries[j]
      /\ t.entries[Len(s.entries) + 1] = e
  <2>1. /\ Append(s.entries, e) \in Seq(E)
        /\ Len(Append(s.entries, e)) = Len(s.entries) + 1
        /\ \A j \in 1 .. Len(s.entries) : Append(s.entries, e)[j] = s.entries[j]
        /\ Append(s.entries, e)[Len(s.entries) + 1] = e
    BY <1>0, AppendProperties
  <2> QED BY <1>1, <2>1
<1>3. /\ DOMAIN s.entries = 1 .. Len(s.entries)
      /\ DOMAIN t.entries = 1 .. Len(s.entries) + 1
  BY <1>0, <1>2, LenProperties
<1>4. /\ s.current_item_idx < cache_size
      /\ s.current_allocations < cache_size
      /\ s.current_item_idx = s.current_allocations
      /\ Len(s.entries) <= s.current_allocations
  BY <1>0 DEF GoodStore, RingIsConsistent
<1>5. /\ next \in Nat
      /\ next < cache_size
      /\ s.current_item_idx + 1 < cache_size => next = s.current_item_idx + 1
  BY <1>0, <1>4, NextSlot DEF next
<1>6. t \in QuickStores(K, V)
  BY <1>0a, <1>1, <1>5 DEF QuickStores
<1>7. RingIsConsistent(t)
  BY <1>0, <1>1, <1>2, <1>4, <1>5 DEF RingIsConsistent
<1>8. \A j \in DOMAIN s.entries : s.entries[j].key # k
  BY DEF Keys
<1>9. KeysAreDistinct(t)
  <2> SUFFICES ASSUME NEW a \in DOMAIN t.entries, NEW b \in DOMAIN t.entries,
                      t.entries[a].key = t.entries[b].key
               PROVE  a = b
    BY DEF KeysAreDistinct
  <2>1. CASE a \in DOMAIN s.entries /\ b \in DOMAIN s.entries
    BY <2>1, <1>2, <1>3 DEF GoodStore, KeysAreDistinct
  <2>2. CASE a = Len(s.entries) + 1
    BY <2>2, <1>0, <1>2, <1>3, <1>8 DEF e
  <2>3. CASE b = Len(s.entries) + 1
    BY <2>3, <1>0, <1>2, <1>3, <1>8 DEF e
  <2> QED BY <2>1, <2>2, <2>3, <1>0, <1>3
<1>10. GoodStore(t, K, V)
  BY <1>6, <1>7, <1>9 DEF GoodStore
<1>11. get(t, k) = {v}
  <2>0. e.key = k /\ e.value = v
    BY DEF e
  <2>1. \A j \in DOMAIN t.entries :
          t.entries[j].key = k <=> j = Len(s.entries) + 1
    BY <2>0, <1>0, <1>2, <1>3, <1>8
  <2>2. get(t, k) = { t.entries[j].value : j \in {Len(s.entries) + 1} }
    BY <1>0, <1>3, <1>10, <2>1, GetProps
  <2> QED BY <2>0, <2>2, <1>2
<1>12. ASSUME NEW x, x # k
       PROVE  get(t, x) = get(s, x)
  <2>1. \A j \in DOMAIN t.entries :
          t.entries[j].key = x => j \in DOMAIN s.entries
    BY <1>0, <1>2, <1>3, <1>12 DEF e
  <2>2. \A j \in DOMAIN s.entries :
          j \in DOMAIN t.entries /\ t.entries[j] = s.entries[j]
    BY <1>0, <1>2, <1>3
  <2>3. /\ get(t, x) = { t.entries[j].value :
                           j \in { j \in DOMAIN t.entries : t.entries[j].key = x } }
        /\ get(s, x) = { s.entries[j].value :
                           j \in { j \in DOMAIN s.entries : s.entries[j].key = x } }
    BY <1>10, GetProps
  <2> QED BY <2>1, <2>2, <2>3
<1> QED BY <1>1, <1>2, <1>4, <1>10, <1>11, <1>12 DEF t, p, next, e

(* Moving current_item_idx on once the ring has wrapped.                   *)
LEMMA AdvancedProps ==
  ASSUME NEW K, NEW V, NEW s, GoodStore(s, K, V),
         s.current_item_idx < s.current_allocations
  PROVE  LET t == Advanced(s) IN
         /\ GoodStore(t, K, V)
         /\ s.current_allocations = cache_size
         /\ t.entries = s.entries
         /\ t.health = s.health
         /\ t.current_allocations = s.current_allocations
         /\ \A x : get(t, x) = get(s, x)
<1> DEFINE t == Advanced(s)
           next == (s.current_item_idx + 1) % cache_size
<1>0. /\ s.current_item_idx \in Nat /\ s.current_allocations \in Nat
      /\ cache_size \in Nat /\ s.current_item_idx < cache_size
      /\ s.current_allocations = cache_size
  BY CacheSizeAssumption DEF GoodStore, QuickStores, RingIsConsistent
<1>1. next \in Nat /\ next < cache_size
  BY <1>0, NextSlot
<1>2. t = [s EXCEPT !.current_item_idx = next]
  BY DEF Advanced
<1> HIDE DEF t, next
<1>3. /\ t \in QuickStores(K, V)
      /\ t.entries = s.entries
      /\ t.health = s.health
      /\ t.current_item_idx = next
      /\ t.current_allocations = s.current_allocations
  BY <1>1, <1>2 DEF GoodStore, QuickStores
<1>4. GoodStore(t, K, V)
  BY <1>0, <1>1, <1>3 DEF GoodStore, RingIsConsistent, KeysAreDistinct
<1>5. \A x : get(t, x) = get(s, x)
  BY <1>3 DEF get, IsIndex
<1> QED BY <1>0, <1>3, <1>4, <1>5 DEF t

(* store() returns the process with a good store, whichever way it went:   *)
(* the key shows the new value or is absent, every other key what it       *)
(* showed or nothing, and nothing is lost before the ring has wrapped.     *)
LEMMA StoreProps ==
  ASSUME NEW K, NEW V, NEW s, GoodStore(s, K, V), NEW k \in K, NEW v \in V,
         NEW t \in StoreOutcomes(s, k, v)
  PROVE  /\ GoodStore(t, K, V)
         /\ t.health \in {s.health, "aborted"}
         /\ s.health # "sound" => t.health = "aborted"
         /\ get(t, k) \subseteq {v} \cup get(s, k)
         /\ t.health # "aborted" => get(t, k) \subseteq {v}
         /\ \A x : x # k => get(t, x) \subseteq get(s, x)
         /\ s.current_allocations = cache_size => Len(t.entries) <= Len(s.entries)
         /\ s.health = "sound" /\ k \in Keys(s) =>
              /\ t.health = "sound"
              /\ t.current_allocations = s.current_allocations
              /\ get(t, k) = {v} /\ \A x : x # k => get(t, x) = get(s, x)
         /\ s.health = "sound" /\ k \notin Keys(s)
              /\ s.current_allocations < cache_size =>
              /\ t.health = "sound"
              /\ t.current_allocations = s.current_allocations + 1
              /\ get(t, k) = {v} /\ \A x : x # k => get(t, x) = get(s, x)
<1> USE CacheSizeAssumption
<1>0. /\ s.current_item_idx \in Nat /\ s.current_allocations \in Nat
      /\ Len(s.entries) \in Nat
  BY LenProperties DEF GoodStore, QuickStores
<1>1. /\ GoodStore(Killed(s), K, V)
      /\ Killed(s).health = "aborted"
      /\ Killed(s).entries = s.entries
      /\ Killed(s).current_allocations = s.current_allocations
      /\ \A x : get(Killed(s), x) = get(s, x)
  BY DEF Killed, GoodStore, QuickStores, RingIsConsistent, KeysAreDistinct,
         Health, get, IsIndex
<1>2. CASE s.health # "sound"
  <2>1. t = Killed(s)
    BY <1>2 DEF StoreOutcomes
  <2> QED BY <1>0, <1>1, <1>2, <2>1
<1>3. CASE s.health = "sound" /\ k \in Keys(s)
  <2>1. t = WithEntry(s, index(s, k), k, v)
    BY <1>3 DEF StoreOutcomes
  <2>2. /\ index(s, k) \in 1 .. Len(s.entries)
        /\ s.entries[index(s, k)].key = k
    BY <1>3, IndexProps
  <2>3. /\ GoodStore(t, K, V)
        /\ t.health = s.health
        /\ t.current_allocations = s.current_allocations
        /\ Len(t.entries) = Len(s.entries)
        /\ get(t, k) = {v}
        /\ \A x : x # k => get(t, x) = get(s, x)
    BY <2>1, <2>2, WithEntryProps
  <2> QED BY <1>0, <1>3, <2>3
<1>4. CASE s.health = "sound" /\ k \notin Keys(s)
  <2>1. t \in Created(s, k, v)
    BY <1>4 DEF StoreOutcomes
  <2>2. CASE s.current_item_idx >= s.current_allocations
    <3>1. t = Advanced(PushedBack(s, k, v))
      BY <1>0, <2>1, <2>2 DEF Created
    <3>2. /\ GoodStore(t, K, V)
          /\ s.current_allocations < cache_size
          /\ t.health = s.health
          /\ t.current_allocations = s.current_allocations + 1
          /\ get(t, k) = {v}
          /\ \A x : x # k => get(t, x) = get(s, x)
      BY <1>4, <2>2, <3>1, PushedBackProps
    <3> QED BY <1>0, <1>4, <3>2
  <2>3. CASE ~(s.current_item_idx >= s.current_allocations)
    <3>0. s.current_item_idx < s.current_allocations
      BY <1>0, <2>3
    <3>1. s.current_allocations = cache_size
      BY <3>0, AdvancedProps
    <3>2. CASE s.current_item_idx < Len(s.entries)
      <4> DEFINE u == WithEntry(s, s.current_item_idx + 1, k, v)
      <4>1. t = Advanced(u)
        BY <1>0, <2>1, <3>0, <3>2 DEF Created
      <4>2. /\ GoodStore(u, K, V)
            /\ u.health = s.health
            /\ u.current_item_idx < u.current_allocations
            /\ Len(u.entries) = Len(s.entries)
            /\ get(u, k) = {v}
            /\ \A x : x # k => get(u, x) \subseteq get(s, x)
        <5>1. s.current_item_idx + 1 \in 1 .. Len(s.entries)
          BY <1>0, <3>2
        <5> QED BY <1>4, <3>0, <5>1, WithEntryProps
      <4> HIDE DEF u
      <4>3. /\ GoodStore(t, K, V)
            /\ t.entries = u.entries
            /\ t.health = u.health
            /\ \A x : get(t, x) = get(u, x)
        BY <4>1, <4>2, AdvancedProps
      <4> QED BY <1>0, <1>4, <3>1, <4>2, <4>3
    <3>3. CASE ~(s.current_item_idx < Len(s.entries))
      <4>1. t \in {Advanced(s), Killed(s)}
        BY <1>0, <2>1, <3>0, <3>3 DEF Created
      <4>2. get(s, k) = {}
        BY <1>4 DEF get, IsIndex, Keys
      <4>3. /\ GoodStore(Advanced(s), K, V)
            /\ Advanced(s).entries = s.entries
            /\ Advanced(s).health = s.health
            /\ \A x : get(Advanced(s), x) = get(s, x)
        BY <3>0, AdvancedProps
      <4> QED BY <1>0, <1>1, <1>4, <3>1, <4>1, <4>2, <4>3
    <3> QED BY <3>2, <3>3
  <2> QED BY <2>2, <2>3
<1> QED BY <1>2, <1>3, <1>4

(* Erasing one entry.                                                      *)
KeyAt(s, i) == s.entries[i].key

LEMMA ErasedProps ==
  ASSUME NEW K, NEW V, NEW s, GoodStore(s, K, V), NEW i \in 1 .. Len(s.entries)
  PROVE  /\ GoodStore(Erased(s, i), K, V)
         /\ Erased(s, i).health = s.health
         /\ Erased(s, i).current_allocations = s.current_allocations
         /\ Len(Erased(s, i).entries) = Len(s.entries) - 1
         /\ get(Erased(s, i), KeyAt(s, i)) = {}
         /\ \A x : x # KeyAt(s, i) => get(Erased(s, i), x) = get(s, x)
<1> DEFINE t == Erased(s, i)
           E == [key : K, value : V]
<1>0. /\ s.entries \in Seq(E) /\ Len(s.entries) \in Nat
      /\ DOMAIN s.entries = 1 .. Len(s.entries)
  BY LenProperties DEF GoodStore, QuickStores
<1>1. /\ RemoveAt(s.entries, i) \in Seq(E)
      /\ Len(RemoveAt(s.entries, i)) = Len(s.entries) - 1
      /\ \A j \in 1 .. Len(s.entries) - 1 :
           RemoveAt(s.entries, i)[j] =
             IF j < i THEN s.entries[j] ELSE s.entries[j + 1]
  BY <1>0, RemoveAtProps
<1>2. /\ t \in QuickStores(K, V)
      /\ t.entries = RemoveAt(s.entries, i)
      /\ t.health = s.health
      /\ t.current_item_idx = s.current_item_idx
      /\ t.current_allocations = s.current_allocations
  BY <1>1 DEF Erased, GoodStore, QuickStores
<1> HIDE DEF t, E
<1>3. /\ DOMAIN t.entries = 1 .. Len(s.entries) - 1
      /\ Len(t.entries) = Len(s.entries) - 1
      /\ \A j \in 1 .. Len(s.entries) - 1 :
           t.entries[j] = IF j < i THEN s.entries[j] ELSE s.entries[j + 1]
  BY <1>0, <1>1, <1>2, LenProperties
<1>4. RingIsConsistent(t)
  <2>1. s.current_allocations \in Nat
    BY DEF GoodStore, QuickStores
  <2> QED BY <1>0, <1>2, <1>3, <2>1 DEF GoodStore, RingIsConsistent
<1> DEFINE from(j) == IF j < i THEN j ELSE j + 1
<1>5. \A j \in DOMAIN t.entries :
        /\ from(j) \in DOMAIN s.entries
        /\ from(j) # i
        /\ t.entries[j] = s.entries[from(j)]
  BY <1>0, <1>3
<1>6. \A a, b \in DOMAIN t.entries : from(a) = from(b) => a = b
  BY <1>0, <1>3
<1>7. \A j \in DOMAIN s.entries :
        j # i => \E a \in DOMAIN t.entries : from(a) = j
  <2> SUFFICES ASSUME NEW j \in DOMAIN s.entries, j # i
               PROVE  \E a \in DOMAIN t.entries : from(a) = j
    OBVIOUS
  <2>1. CASE j < i
    <3>1. j \in DOMAIN t.entries /\ from(j) = j
      BY <1>0, <1>3, <2>1
    <3> QED BY <3>1
  <2>2. CASE ~(j < i)
    <3>1. j - 1 \in DOMAIN t.entries /\ from(j - 1) = j
      BY <1>0, <1>3, <2>2
    <3> QED BY <3>1
  <2> QED BY <2>1, <2>2
<1> HIDE DEF from
<1>8. KeysAreDistinct(t)
  <2> SUFFICES ASSUME NEW a \in DOMAIN t.entries, NEW b \in DOMAIN t.entries,
                      t.entries[a].key = t.entries[b].key
               PROVE  a = b
    BY DEF KeysAreDistinct
  <2>1. from(a) = from(b)
    BY <1>5 DEF GoodStore, KeysAreDistinct
  <2> QED BY <1>6, <2>1
<1>9. GoodStore(t, K, V)
  BY <1>2, <1>4, <1>8 DEF GoodStore
<1>10. \A x : /\ get(t, x) = { t.entries[j].value :
                        j \in { j \in DOMAIN t.entries : t.entries[j].key = x } }
              /\ get(s, x) = { s.entries[j].value :
                        j \in { j \in DOMAIN s.entries : s.entries[j].key = x } }
  BY <1>9, GetProps
<1>11. get(t, KeyAt(s, i)) = {}
  <2>1. \A j \in DOMAIN t.entries : t.entries[j].key # KeyAt(s, i)
    BY <1>0, <1>5 DEF GoodStore, KeysAreDistinct, KeyAt
  <2> QED BY <1>10, <2>1
<1>12. ASSUME NEW x, x # KeyAt(s, i)
       PROVE  get(t, x) = get(s, x)
  <2>1. \A v : v \in get(t, x) => v \in get(s, x)
    BY <1>5, <1>10
  <2>2. ASSUME NEW v \in get(s, x)
        PROVE  v \in get(t, x)
    <3>1. PICK j \in DOMAIN s.entries :
            s.entries[j].key = x /\ s.entries[j].value = v
      BY <1>10
    <3>2. PICK a \in DOMAIN t.entries : from(a) = j
      BY <1>7, <1>12, <3>1 DEF KeyAt
    <3> QED BY <1>5, <1>10, <3>1, <3>2
  <2> QED BY <2>1, <2>2
<1> QED BY <1>2, <1>3, <1>9, <1>11, <1>12 DEF t

(* remove() returns the process with a good store that shows no key it did *)
(* not show before, and no other key is lost when the one removed is there.*)
LEMMA RemoveProps ==
  ASSUME NEW K, NEW V, NEW s, GoodStore(s, K, V), NEW k,
         NEW t \in RemoveOutcomes(s, k)
  PROVE  /\ GoodStore(t, K, V)
         /\ t.health \in {s.health, "aborted", "corrupt"}
         /\ s.health # "sound" => t.health = "aborted"
         /\ t.health = "corrupt" => t.entries = <<>>
         /\ t.current_allocations = s.current_allocations
         /\ Len(t.entries) <= Len(s.entries)
         /\ \A x : get(t, x) \subseteq get(s, x)
         /\ s.health = "sound" => get(t, k) = {}
         /\ s.health = "sound" /\ k \in Keys(s) =>
              /\ t.health = "sound"
              /\ \A x : x # k => get(t, x) = get(s, x)
<1>0. /\ s.entries \in Seq([key : K, value : V])
      /\ Len(s.entries) \in Nat /\ DOMAIN s.entries = 1 .. Len(s.entries)
  BY LenProperties DEF GoodStore, QuickStores
<1>1. ASSUME NEW h \in Health
      PROVE  LET u == [s EXCEPT !.health = h] IN
             /\ GoodStore(u, K, V)
             /\ u.health = h
             /\ u.entries = s.entries
             /\ u.current_allocations = s.current_allocations
             /\ \A x : get(u, x) = get(s, x)
  BY DEF GoodStore, QuickStores, RingIsConsistent, KeysAreDistinct, get, IsIndex
<1>2. k \notin Keys(s) => get(s, k) = {}
  BY DEF get, IsIndex, Keys
<1>3. CASE s.health # "sound"
  <2>1. t = [s EXCEPT !.health = "aborted"]
    BY <1>3 DEF RemoveOutcomes, Killed
  <2> QED BY <1>0, <1>1, <1>3, <2>1 DEF Health
<1>4. CASE s.health = "sound" /\ k \in Keys(s)
  <2>1. PICK i \in 1 .. Len(s.entries) : t = Erased(s, i) /\ KeyAt(s, i) = k
    BY <1>4, IndexProps DEF RemoveOutcomes, KeyAt
  <2>2. /\ GoodStore(t, K, V)
        /\ t.health = s.health
        /\ t.current_allocations = s.current_allocations
        /\ get(t, k) = {}
    BY <2>1, ErasedProps
  <2>3. Len(t.entries) = Len(s.entries) - 1
    BY <2>1, ErasedProps
  <2>4. \A x : x # k => get(t, x) = get(s, x)
    BY <2>1, ErasedProps
  <2> QED BY <1>0, <1>4, <2>2, <2>3, <2>4
<1>5. CASE s.health = "sound" /\ k \notin Keys(s) /\ s.entries # <<>>
  <2>0. Len(s.entries) \in 1 .. Len(s.entries)
    BY <1>0, <1>5, EmptySeq
  <2>1. PICK i \in 1 .. Len(s.entries) : t = Erased(s, i)
    BY <1>5, <2>0 DEF RemoveOutcomes
  <2>2. /\ GoodStore(t, K, V)
        /\ t.health = s.health
        /\ t.current_allocations = s.current_allocations
        /\ get(t, KeyAt(s, i)) = {}
    BY <2>1, ErasedProps
  <2>3. Len(t.entries) = Len(s.entries) - 1
    BY <2>1, ErasedProps
  <2>4. \A x : x # KeyAt(s, i) => get(t, x) = get(s, x)
    BY <2>1, ErasedProps
  <2>5. \A x : get(t, x) \subseteq get(s, x)
    BY <2>2, <2>4
  <2>6. get(t, k) = {}
    BY <1>2, <1>5, <2>5
  <2> QED BY <1>0, <1>5, <2>2, <2>3, <2>5, <2>6
<1>6. CASE s.health = "sound" /\ k \notin Keys(s) /\ s.entries = <<>>
  <2>1. t \in {[s EXCEPT !.health = "aborted"], [s EXCEPT !.health = "corrupt"]}
    BY <1>6 DEF RemoveOutcomes, Killed
  <2>2. /\ GoodStore(t, K, V)
        /\ t.health \in {"aborted", "corrupt"}
        /\ t.entries = s.entries
        /\ t.current_allocations = s.current_allocations
        /\ \A x : get(t, x) = get(s, x)
    BY <1>1, <2>1 DEF Health
  <2> QED BY <1>0, <1>2, <1>6, <2>2
<1> QED BY <1>3, <1>4, <1>5, <1>6
=============================================================================
