---------------------------- MODULE BoundedCache ----------------------------
(***************************************************************************)
(* What a user of LruMap may count on (sensor/src/lru.rs:1-9, the role of  *)
(* core/datatype.py LRUDict): a set of keys that never outgrows its        *)
(* capacity, in which a key appears only because it was inserted, one at a *)
(* time, and from which one leaves only to make room for it.               *)
(***************************************************************************)
EXTENDS Naturals, FiniteSets

CONSTANTS
  Keys,
  Bound,      \* the capacity
  Same(_, _)  \* two keys share a hash, so that one displaces the other

VARIABLE held

Init == held = {}

(* A key comes in; at most one goes, to make room or because it shares the *)
(* hash of the new one.                                                    *)
Insert(k) ==
  \/ /\ \A h \in held : ~Same(h, k)
     /\ Cardinality(held) < Bound
     /\ held' = held \cup {k}
  \/ \E gone \in held :
       /\ Same(gone, k) \/ Cardinality(held) = Bound
       /\ \A h \in held \ {gone} : ~Same(h, k)
       /\ held' = (held \ {gone}) \cup {k}

Next == \E k \in Keys \ held : Insert(k)

Spec == Init /\ [][Next]_held

=============================================================================
