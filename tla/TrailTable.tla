----------------------------- MODULE TrailTable -----------------------------
(***************************************************************************)
(* The hash tables of the trail store (sensor/src/trails/table.rs): open   *)
(* addressing with linear probes, grown before it is full, behind a bitmap *)
(* that answers "absent" for most keys.                                    *)
(*                                                                         *)
(* StrTable and IntTable differ in where a key is kept, not in what they   *)
(* do: here a slot holds its key.                                          *)
(***************************************************************************)
EXTENDS Integers, Sequences, FiniteSets, FiniteSetsExt, SequencesExt

CONSTANTS
  HashOf(_),   \* hash_bytes() and hash_key(): a key's hash
  HashRange,   \* hashes are in 0 .. HashRange - 1
  MinSlots,    \* the smallest table: 16
  MinBits      \* the smallest filter: 1024

(* EMPTY: the number no pair has.  Pairs are counted from one here.        *)
Empty == 0

EmptySlot == [key |-> "", val |-> Empty]

(* capacity_for(): a load factor of 0.8                                    *)
CapacityFor(n) == Max({(n * 10) \div 8 + 1, MinSlots})

(* slot_of(): the home slot                                                *)
SlotOf(h, cap) == (h * cap) \div HashRange

(* The bits of a hash: two positions, from its two halves.                 *)
Positions(h, bits) == {h % bits, (h \div 2) % bits}

EmptySlots(cap) == [i \in 0 .. cap - 1 |-> EmptySlot]

(* with_capacity(): the slots and the filter are sized once.               *)
NewTable(n) ==
  [slots |-> EmptySlots(CapacityFor(n)), len |-> 0, bits |-> Max({n * 16, MinBits}), set |-> {}]

Capacity(t) == Cardinality(DOMAIN t.slots)

(* next_slot(), d times from the home slot of a key.                       *)
At(key, d, cap) == (SlotOf(HashOf(key), cap) + d) % cap

(* How far a linear probe may have to go: to the key or to an empty slot.  *)
Ends(slots, key) ==
  LET cap == Cardinality(DOMAIN slots)
  IN  {d \in 0 .. cap - 1 :
         LET slot == slots[At(key, d, cap)] IN slot.val = Empty \/ slot.key = key}

Probe(slots, key) == At(key, Min(Ends(slots, key)), Cardinality(DOMAIN slots))

Put(slots, key, val) == [slots EXCEPT ![Probe(slots, key)] = [key |-> key, val |-> val]]

Occupied(slots) == {i \in DOMAIN slots : slots[i].val # Empty}

(* The slots of a larger table: every key finds its place again, in the    *)
(* order of the old slots.                                                 *)
Rehashed(old, cap) ==
  LET into[n \in 0 .. Cardinality(DOMAIN old)] ==
        IF n = 0 THEN EmptySlots(cap)
        ELSE IF old[n - 1].val = Empty THEN into[n - 1]
        ELSE Put(into[n - 1], old[n - 1].key, old[n - 1].val)
  IN  into[Cardinality(DOMAIN old)]

LargerCapacity(t) == Max({Capacity(t) + Capacity(t) \div 2, MinSlots})

(* Mutant of Grow: the filter of the larger table starts empty.            *)
GrowFresh(t) == [t EXCEPT !.slots = Rehashed(t.slots, LargerCapacity(t)), !.set = {}]

(* grow(): the filter is kept.                                             *)
Grow(t) == [t EXCEPT !.slots = Rehashed(t.slots, LargerCapacity(t))]

(* A load factor of 0.85 is the most a table is filled to.                 *)
WithRoom(t) == IF (t.len + 1) * 100 > Capacity(t) * 85 THEN Grow(t) ELSE t

Stored(t, key, val) ==
  [t EXCEPT !.slots = Put(@, key, val),
            !.len = IF t.slots[Probe(t.slots, key)].val = Empty THEN @ + 1 ELSE @,
            !.set = @ \cup Positions(HashOf(key), t.bits)]

(* insert(), insert_hashed(): as dict[key] = value.                        *)
Insert(t, key, val) == Stored(WithRoom(t), key, val)

MaybeContains(t, key) == Positions(HashOf(key), t.bits) \subseteq t.set

(* get(): the values of a key, none or one.                                *)
Get(t, key) ==
  LET at == Probe(t.slots, key)
  IN  IF MaybeContains(t, key) /\ t.slots[at].val # Empty THEN {t.slots[at].val} ELSE {}

(* validate() and check_slots(): what makes a table read back from a file  *)
(* safe to probe.                                                          *)
ValidTable(t, count, pairs) ==
  /\ Cardinality(Occupied(t.slots)) = count /\ count < Capacity(t)
  /\ \A i \in Occupied(t.slots) : t.slots[i].val <= pairs

=============================================================================
