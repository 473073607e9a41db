----------------------------- MODULE SieveCache -----------------------------
(***************************************************************************)
(* The bounded cache of sensor/src/lru.rs (LruMap): SIEVE eviction and the *)
(* doorkeeper that admits a key on its second sighting.  A cache is a      *)
(* value here, and the operations are functions from a cache to a cache,   *)
(* as the module that owns one is the module with the actions.             *)
(*                                                                         *)
(* list is the linked list, newest entry first; the slab, its free list    *)
(* and the index are how the code reaches a node and hold nothing more.    *)
(* A node is named by its hash, which is unique in the index: hand is the  *)
(* hash of the node the hand is at.                                        *)
(***************************************************************************)
EXTENDS Integers, Sequences, SequencesExt, FiniteSetsExt

CONSTANTS
  Capacity,  \* capacity, at least 1
  HashOf,    \* hash_of(): key -> hash
  Slots,     \* doorkeeper.len(), a power of two; 0: no doorkeeper
  PrintShift \* 2^16: the fingerprint leaves out the hash's low 16 bits

ASSUME SieveAssumption ==
  /\ Capacity \in Nat \ {0} /\ Slots \in Nat /\ PrintShift \in Nat \ {0}
  /\ \A k \in DOMAIN HashOf : HashOf[k] \in Nat

NoHand == -1

EmptyPrint == 0

EmptyCache == [list |-> <<>>, hand |-> NoHand,
               door |-> [s \in 0..(Slots - 1) |-> EmptyPrint]]

Held(cache) == {cache.list[i].key : i \in DOMAIN cache.list}

(* The place of the node with this hash, 0 if the index has none.          *)
NodeOf(cache, h) ==
  LET at == {i \in DOMAIN cache.list : HashOf[cache.list[i].key] = h}
  IN  IF at = {} THEN 0 ELSE Min(at)

(* slot(): a node with the key's hash counts only if it holds this key.    *)
Hit(cache, k) == k \in Held(cache)

(* get_hashed(): a hit only sets the bit.                                  *)
Touched(cache, k) ==
  IF Hit(cache, k)
  THEN [cache EXCEPT !.list[NodeOf(cache, HashOf[k])].visited = TRUE]
  ELSE cache

-----------------------------------------------------------------------------
(* The order in which a lap of the hand meets the nodes of a list of n     *)
(* from node start on: towards the head, and from the head to the tail.    *)
LapNode(start, n, k) == ((start + n - 1 - k) % n) + 1

(* evict(): the first node of the lap that was not hit since the hand last *)
(* passed goes; the ones passed on the way lose their bit, so the node the *)
(* lap began at goes when all had one.                                     *)
Evict(cache) ==
  LET n == Len(cache.list)
      start == IF cache.hand = NoHand THEN n ELSE NodeOf(cache, cache.hand)
      stop == Min({k \in 0..n : k = n \/ ~cache.list[LapNode(start, n, k)].visited})
      passed == {LapNode(start, n, k) : k \in 0..(stop - 1)}
      victim == LapNode(start, n, stop)
      swept == [i \in 1..n |-> [cache.list[i] EXCEPT !.visited = @ /\ i \notin passed]]
  IN  [cache EXCEPT
        !.list = RemoveAt(swept, victim),
        !.hand = IF victim = 1 THEN NoHand ELSE HashOf[cache.list[victim - 1].key]]

(* Mutant of InsertHashed: a full cache takes one more.                    *)
InsertHashedOverfull(cache, k) ==
  LET at == NodeOf(cache, HashOf[k])
      room == IF Len(cache.list) > Capacity THEN Evict(cache) ELSE cache
  IN  IF at # 0
      THEN [cache EXCEPT !.list[at] = [key |-> k, visited |-> @.key = k]]
      ELSE [room EXCEPT !.list = <<[key |-> k, visited |-> FALSE]>> \o @]

(* insert_hashed(): a key with the hash of another one takes its place.    *)
InsertHashed(cache, k) ==
  LET at == NodeOf(cache, HashOf[k])
      room == IF Len(cache.list) >= Capacity THEN Evict(cache) ELSE cache
  IN  IF at # 0
      THEN [cache EXCEPT !.list[at] = [key |-> k, visited |-> @.key = k]]
      ELSE [room EXCEPT !.list = <<[key |-> k, visited |-> FALSE]>> \o @]

-----------------------------------------------------------------------------
(* (h >> 16) | 1: never the empty cell's 0.                                *)
FingerprintOf(h) ==
  LET high == h \div PrintShift
  IN  IF high % 2 = 0 THEN high + 1 ELSE high

(* admit(): whether the doorkeeper lets the key in, having seen it.        *)
Admitted(cache, k) ==
  \/ Slots = 0
  \/ cache.door[HashOf[k] % Slots] = FingerprintOf(HashOf[k])

AtTheDoor(cache, k) ==
  IF Admitted(cache, k) THEN cache
  ELSE [cache EXCEPT !.door[HashOf[k] % Slots] = FingerprintOf(HashOf[k])]

(* insert_if_seen_before_hashed()                                          *)
InsertIfSeenBefore(cache, k) ==
  IF Admitted(cache, k) THEN InsertHashed(cache, k) ELSE AtTheDoor(cache, k)

=============================================================================
