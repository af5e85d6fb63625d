------------------------------ MODULE LossyMap ------------------------------
(***************************************************************************)
(* What a QuickStore promises its owner, with no ring, index or counter: a *)
(* map from keys to values that may lose things.  A Put leaves its value   *)
(* or is itself lost, and displaces at most one other key; a Delete takes  *)
(* its key, or, for a key that is absent, may take one other.  A key that  *)
(* is present always shows the last value put under it.  The owner may     *)
(* break the map for good, after which nothing is promised.                *)
(***************************************************************************)
EXTENDS Functions, FiniteSets, Integers

CONSTANTS Key, Value

VARIABLES map,        \* a function from the keys present to their values
          broken      \* TRUE once the owner has destroyed the map

mapVars == <<map, broken>>

MapTypeOK == /\ DOMAIN map \subseteq Key
             /\ \A k \in DOMAIN map : map[k] \in Value
             /\ broken \in BOOLEAN

MapInit == map = [k \in {} |-> k] /\ broken = FALSE

Keep(S) == [k \in S |-> map[k]]

(* k |-> v, with the keys in gone, at most one, displaced.                 *)
PutAndDisplace(k, v, gone) ==
  /\ map' = [x \in (DOMAIN map \cup {k}) \ gone |-> IF x = k THEN v ELSE map[x]]

Put(k, v) ==
  /\ ~broken
  /\ UNCHANGED broken
  /\ \/ PutAndDisplace(k, v, {})
     \/ /\ k \notin DOMAIN map
        /\ \/ \E x \in DOMAIN map : PutAndDisplace(k, v, {x})
           \/ UNCHANGED map

Delete(k) ==
  /\ ~broken
  /\ UNCHANGED broken
  /\ \/ k \in DOMAIN map /\ map' = Keep(DOMAIN map \ {k})
     \/ /\ k \notin DOMAIN map
        /\ \E x \in DOMAIN map : map' = Keep(DOMAIN map \ {x})

Break == broken' = TRUE /\ UNCHANGED map

MapNext == \/ \E k \in Key : Delete(k) \/ \E v \in Value : Put(k, v)
           \/ Break

MapSpec == MapInit /\ [][MapNext]_mapVars
=============================================================================
