----------------------------- MODULE ScanProofs -----------------------------
(***************************************************************************)
(* Proofs about ScanPath, for any traffic, clock, list of addresses,       *)
(* thresholds and budgets: the budget port and infection keys share is     *)
(* exact, a key over its threshold is reported before its evidence is      *)
(* dropped and only once, and the repetition stamps hide no contact.       *)
(***************************************************************************)
EXTENDS ScanPath, FiniteSetTheorems, TLAPS

ScanFields == {"items", "alerted", "ready", "prefixes", "connectKeys", "sent", "start"}

(* A ScanState has its fields, and a table for each kind of key.           *)
IsScan(s) == DOMAIN s = ScanFields /\ DOMAIN s.items = Kinds /\ s.start \in Nat

(* Every table is finite, and the count of keys is what the tables hold.   *)
Budget(s) ==
  /\ \A kind \in Kinds : IsFiniteSet(DOMAIN s.items[kind])
  /\ \A p \in DOMAIN s.prefixes : s.prefixes[p] \in Nat
  /\ IsFiniteSet(Sources(s.prefixes))
  /\ s.connectKeys = Cardinality(DOMAIN s.items["port"])
                       + Cardinality(DOMAIN s.items["infection"])
  /\ s.connectKeys <= MaxScanKeys
  /\ Cardinality(Sources(s.prefixes)) = s.connectKeys

(* A bucket has every item probed for its key, or has passed the threshold *)
(* and is queued or told.                                                  *)
BucketHonest(s, kind, key, seen, told) ==
  LET bucket == s.items[kind][key]
  IN  /\ IsFiniteSet(bucket)
      /\ Cardinality(bucket) <= ThresholdOf[kind] =>
           \A x \in seen : x[1] = kind /\ x[2] = key =>
                             \E i \in bucket : x = <<kind, key, i>>
      /\ Cardinality(bucket) > ThresholdOf[kind] => <<kind, key>> \in s.ready \cup told

(* What was probed is tracked, and no bucket forgets.                      *)
Evidence(s, seen, told) ==
  /\ \A x \in seen : x[1] \in Kinds /\ x[2] \in DOMAIN s.items[x[1]]
  /\ \A kind \in Kinds : \A key \in DOMAIN s.items[kind] :
       BucketHonest(s, kind, key, seen, told)

(* The state of the accumulators between two packets: what they mark as    *)
(* alerted is what was told.                                               *)
Sound(s, seen, told) ==
  IsScan(s) /\ Budget(s) /\ Evidence(s, seen, told) /\ s.alerted = told

-----------------------------------------------------------------------------
(* What Tracked() does, field by field.                                    *)
Before(s, kind, key) == IF key \in DOMAIN s.items[kind] THEN s.items[kind][key] ELSE {}

After(s, kind, key, item) == BucketAfter(Before(s, kind, key), item, ThresholdOf[kind])

Crosses(s, kind, key, item) ==
  /\ After(s, kind, key, item) # Before(s, kind, key)
  /\ Cardinality(After(s, kind, key, item)) = ThresholdOf[kind] + 1

TrackedTo(s, t, kind, key, item) ==
  /\ IsScan(t)
  /\ t.items[kind] = WithKey(s.items[kind], key, After(s, kind, key, item))
  /\ \A k \in Kinds \ {kind} : t.items[k] = s.items[k]
  /\ t.alerted = s.alerted /\ t.start = s.start
  /\ t.ready = IF Crosses(s, kind, key, item) THEN s.ready \cup {<<kind, key>>}
               ELSE s.ready
  /\ t.connectKeys = IF key \notin DOMAIN s.items[kind] /\ Shares(kind)
                     THEN s.connectKeys + 1 ELSE s.connectKeys
  /\ t.prefixes = IF key \in DOMAIN s.items[kind] \/ ~Shares(kind) THEN s.prefixes
                  ELSE NotedSource(s.prefixes, key[1])

LEMMA TrackedFields ==
  ASSUME NEW s, IsScan(s), NEW kind \in Kinds, NEW key, NEW item,
         key \in DOMAIN s.items[kind] \/ ~Refused(s, kind),
         NEW t, t = Tracked(s, kind, key, item)
  PROVE  TrackedTo(s, t, kind, key, item)
<1> DEFINE table == WithKey(s.items[kind], key, After(s, kind, key, item))
           ready == IF Crosses(s, kind, key, item) THEN s.ready \cup {<<kind, key>>}
                    ELSE s.ready
           keys == IF key \notin DOMAIN s.items[kind] /\ Shares(kind)
                   THEN s.connectKeys + 1 ELSE s.connectKeys
           prefixes == IF key \in DOMAIN s.items[kind] \/ ~Shares(kind) THEN s.prefixes
                       ELSE NotedSource(s.prefixes, key[1])
<1>1. t = [s EXCEPT !.items[kind] = table, !.ready = ready, !.connectKeys = keys,
                    !.prefixes = prefixes]
  BY DEF Tracked, After, Before, Crosses
<1> HIDE DEF table, ready, keys, prefixes
<1>2. DOMAIN t = ScanFields BY <1>1 DEF IsScan
<1>3. /\ t.items = [s.items EXCEPT ![kind] = table]
      /\ t.alerted = s.alerted /\ t.start = s.start
      /\ t.ready = ready /\ t.connectKeys = keys /\ t.prefixes = prefixes
  BY <1>1 DEF IsScan, ScanFields
<1>4. IsScan(t) BY <1>2, <1>3 DEF IsScan
<1> QED BY <1>3, <1>4 DEF TrackedTo, IsScan, table, ready, keys, prefixes

(* One more source of a prefix is one more element.                        *)
LEMMA OneMoreSource ==
  ASSUME NEW f, NEW src, \A p \in DOMAIN f : f[p] \in Nat, IsFiniteSet(Sources(f))
  PROVE  LET g == NotedSource(f, src)
         IN  /\ \A p \in DOMAIN g : g[p] \in Nat
             /\ IsFiniteSet(Sources(g))
             /\ Cardinality(Sources(g)) = Cardinality(Sources(f)) + 1
<1> DEFINE q == PrefixOf[src]
           n == IF q \in DOMAIN f THEN f[q] ELSE 0
           g == NotedSource(f, src)
<1>1. n \in Nat OBVIOUS
<1>2. g = [p \in DOMAIN f \cup {q} |-> IF p = q THEN n + 1 ELSE f[p]]
  BY DEF NotedSource, WithKey
<1> HIDE DEF n, g, q
<1>3. \A p \in DOMAIN g : g[p] \in Nat BY <1>1, <1>2
<1>4. \A y : y \in Sources(g) <=> \E p \in DOMAIN g : \E i \in 1..g[p] : y = <<p, i>>
  BY DEF Sources
<1>5. \A y : y \in Sources(f) <=> \E p \in DOMAIN f : \E i \in 1..f[p] : y = <<p, i>>
  BY DEF Sources
<1>6. Sources(g) = Sources(f) \cup {<<q, n + 1>>}
  <2>1. ASSUME NEW y \in Sources(g) PROVE y \in Sources(f) \cup {<<q, n + 1>>}
    <3>0. PICK p \in DOMAIN g : \E i \in 1..g[p] : y = <<p, i>> BY <1>4, <2>1
    <3>1. PICK i \in 1..g[p] : y = <<p, i>> BY <3>0
    <3>2. CASE p # q BY <3>1, <3>2, <1>2, <1>5
    <3>3. CASE p = q
      <4>1. i \in 1..(n + 1) BY <3>1, <3>3, <1>2
      <4>2. CASE i = n + 1 BY <3>1, <3>3, <4>2
      <4>3. CASE i # n + 1
        <5>1. i \in 1..n BY <4>1, <4>3, <1>1
        <5>2. q \in DOMAIN f /\ n = f[q] BY <5>1 DEF n
        <5> QED BY <5>1, <5>2, <3>1, <3>3, <1>5
      <4> QED BY <4>2, <4>3
    <3> QED BY <3>2, <3>3
  <2>2. Sources(f) \subseteq Sources(g)
    <3> SUFFICES ASSUME NEW y \in Sources(f) PROVE y \in Sources(g) OBVIOUS
    <3>0. PICK p \in DOMAIN f : \E i \in 1..f[p] : y = <<p, i>> BY <1>5
    <3>1. PICK i \in 1..f[p] : y = <<p, i>> BY <3>0
    <3>2. i \in 1..g[p]
      <4>1. CASE p = q
        <5>1. g[p] = f[p] + 1 BY <4>1, <1>2 DEF n
        <5> QED BY <5>1
      <4>2. CASE p # q BY <4>2, <1>2
      <4> QED BY <4>1, <4>2
    <3> QED BY <3>1, <3>2, <1>2, <1>4
  <2>3. <<q, n + 1>> \in Sources(g)
    <3>1. g[q] = n + 1 /\ n + 1 \in 1..g[q] BY <1>1, <1>2
    <3> QED BY <3>1, <1>2, <1>4
  <2> QED BY <2>1, <2>2, <2>3
<1>7. <<q, n + 1>> \notin Sources(f)
  <2> SUFFICES ASSUME <<q, n + 1>> \in Sources(f) PROVE FALSE OBVIOUS
  <2>0. PICK p \in DOMAIN f : \E i \in 1..f[p] : <<q, n + 1>> = <<p, i>> BY <1>5
  <2>1. PICK i \in 1..f[p] : <<q, n + 1>> = <<p, i>> BY <2>0
  <2>2. p = q /\ i = n + 1 BY <2>1
  <2>3. n = f[q] BY <2>1, <2>2 DEF n
  <2> QED BY <2>1, <2>2, <2>3
<1>8. /\ IsFiniteSet(Sources(g))
      /\ Cardinality(Sources(g)) = Cardinality(Sources(f)) + 1
  BY <1>6, <1>7, FS_AddElement
<1> QED BY <1>3, <1>8 DEF g

(* A refused key leaves everything as it is.                               *)
LEMMA TrackedRefused ==
  ASSUME NEW s, NEW kind, NEW key, NEW item,
         key \notin DOMAIN s.items[kind], Refused(s, kind)
  PROVE  Tracked(s, kind, key, item) = s
BY DEF Tracked

(* Counting a key keeps the budget exact: a new port or infection key is   *)
(* refused when it is used up, and is one more key and one more source.    *)
LEMMA TrackedBudget ==
  ASSUME NEW s, IsScan(s), Budget(s), NEW kind \in Kinds, NEW key, NEW item,
         NEW t, t = Tracked(s, kind, key, item)
  PROVE  Budget(t)
<1> DEFINE D(x, k) == DOMAIN x.items[k]
<1>1. CASE key \notin D(s, kind) /\ Refused(s, kind) BY <1>1, TrackedRefused
<1>2. CASE key \in D(s, kind) \/ ~Refused(s, kind)
  <2>0. TrackedTo(s, t, kind, key, item) BY <1>2, TrackedFields
  <2>1. /\ \A k \in Kinds \ {kind} : t.items[k] = s.items[k]
        /\ t.connectKeys = IF key \notin D(s, kind) /\ Shares(kind)
                           THEN s.connectKeys + 1 ELSE s.connectKeys
        /\ t.prefixes = IF key \in D(s, kind) \/ ~Shares(kind) THEN s.prefixes
                        ELSE NotedSource(s.prefixes, key[1])
    BY <2>0 DEF TrackedTo
  <2>2. D(t, kind) = D(s, kind) \cup {key} BY <2>0 DEF TrackedTo, WithKey
  <2>3. \A k \in Kinds \ {kind} : D(t, k) = D(s, k) BY <2>1
  <2>4. \A k \in Kinds : IsFiniteSet(D(s, k)) /\ Cardinality(D(s, k)) \in Nat
    BY FS_CardinalityType DEF Budget
  <2>5. /\ IsFiniteSet(D(t, kind))
        /\ Cardinality(D(t, kind)) = IF key \in D(s, kind) THEN Cardinality(D(s, kind))
                                     ELSE Cardinality(D(s, kind)) + 1
    <3> DEFINE K == D(s, kind)
    <3>1. IsFiniteSet(K) BY <2>4
    <3> HIDE DEF K
    <3>2. /\ IsFiniteSet(K \cup {key})
          /\ Cardinality(K \cup {key}) = IF key \in K THEN Cardinality(K) ELSE Cardinality(K) + 1
      BY <3>1, FS_AddElement
    <3> QED BY <2>2, <3>2 DEF K
  <2>6. \A k \in Kinds : IsFiniteSet(D(t, k)) BY <2>3, <2>4, <2>5
  <2>7. "port" \in Kinds /\ "infection" \in Kinds BY DEF Kinds
  <2>8. s.connectKeys \in Nat BY <2>4, <2>7 DEF Budget
  <2>9. CASE key \in D(s, kind)
    <3>1. \A k \in Kinds : D(t, k) = D(s, k) BY <2>2, <2>3, <2>9
    <3>2. t.connectKeys = s.connectKeys /\ t.prefixes = s.prefixes BY <2>1, <2>9
    <3> QED BY <3>1, <3>2, <2>6, <2>7 DEF Budget
  <2>10. CASE key \notin D(s, kind) /\ ~Shares(kind)
    <3>1. D(t, "port") = D(s, "port") /\ D(t, "infection") = D(s, "infection")
      BY <2>3, <2>7, <2>10 DEF Shares
    <3>2. t.connectKeys = s.connectKeys /\ t.prefixes = s.prefixes BY <2>1, <2>10
    <3> QED BY <3>1, <3>2, <2>6 DEF Budget
  <2>11. CASE key \notin D(s, kind) /\ Shares(kind)
    <3>1. /\ t.connectKeys = s.connectKeys + 1
          /\ t.prefixes = NotedSource(s.prefixes, key[1])
      BY <2>1, <2>11
    <3>2. s.connectKeys + 1 <= MaxScanKeys
      BY <1>2, <2>8, <2>11, ScanAssumption DEF Refused
    <3>3. Cardinality(D(t, "port")) + Cardinality(D(t, "infection"))
            = Cardinality(D(s, "port")) + Cardinality(D(s, "infection")) + 1
      <4>1. CASE kind = "port"
        <5>1. D(t, "infection") = D(s, "infection") BY <4>1, <2>3, <2>7
        <5> QED BY <4>1, <5>1, <2>4, <2>5, <2>7, <2>11
      <4>2. CASE kind = "infection"
        <5>1. D(t, "port") = D(s, "port") BY <4>2, <2>3, <2>7
        <5> QED BY <4>2, <5>1, <2>4, <2>5, <2>7, <2>11
      <4> QED BY <4>1, <4>2, <2>11 DEF Shares
    <3>4. /\ \A p \in DOMAIN t.prefixes : t.prefixes[p] \in Nat
          /\ IsFiniteSet(Sources(t.prefixes))
          /\ Cardinality(Sources(t.prefixes)) = Cardinality(Sources(s.prefixes)) + 1
      BY <3>1, OneMoreSource DEF Budget
    <3> QED BY <3>1, <3>2, <3>3, <3>4, <2>6 DEF Budget
  <2> QED BY <2>9, <2>10, <2>11
<1> QED BY <1>1, <1>2

(* The probes of a packet: those of a key that is tracked after it.        *)
ProbedIn(s, seen) == {x \in seen : x[2] \in DOMAIN s.items[x[1]]}

(* Counting an item keeps the evidence: a bucket takes it until the item   *)
(* that passes the threshold, which queues the key.                        *)
LEMMA TrackedEvidence ==
  ASSUME NEW s, IsScan(s), NEW seen, NEW told, Evidence(s, seen, told),
         NEW kind \in Kinds, NEW key, NEW item, NEW t, t = Tracked(s, kind, key, item)
  PROVE  Evidence(t, seen \cup ProbedIn(t, {<<kind, key, item>>}), told)
<1> DEFINE x == <<kind, key, item>>
           T == ThresholdOf[kind]
           before == Before(s, kind, key)
           after == After(s, kind, key, item)
<1>0. x[1] = kind /\ x[2] = key OBVIOUS
<1>1. CASE key \notin DOMAIN s.items[kind] /\ Refused(s, kind)
  <2>1. t = s BY <1>1, TrackedRefused
  <2>2. ProbedIn(t, {x}) = {} BY <2>1, <1>0, <1>1 DEF ProbedIn
  <2> QED BY <2>1, <2>2
<1>2. CASE key \in DOMAIN s.items[kind] \/ ~Refused(s, kind)
  <2>0. TrackedTo(s, t, kind, key, item) BY <1>2, TrackedFields
  <2>1. /\ \A k \in Kinds \ {kind} : t.items[k] = s.items[k]
        /\ t.ready = IF Crosses(s, kind, key, item) THEN s.ready \cup {<<kind, key>>}
                     ELSE s.ready
    BY <2>0 DEF TrackedTo
  <2>2. /\ DOMAIN t.items[kind] = DOMAIN s.items[kind] \cup {key}
        /\ t.items[kind][key] = after
        /\ \A k \in DOMAIN s.items[kind] \ {key} : t.items[kind][k] = s.items[kind][k]
    BY <2>0 DEF TrackedTo, WithKey
  <2>3. ProbedIn(t, {x}) = {x} BY <2>2, <1>0 DEF ProbedIn
  <2>4. \A y \in seen \cup {x} : y[1] \in Kinds /\ y[2] \in DOMAIN t.items[y[1]]
    <3>1. \A y \in seen : y[1] \in Kinds /\ y[2] \in DOMAIN t.items[y[1]]
      BY <2>1, <2>2 DEF Evidence
    <3> QED BY <3>1, <1>0, <2>2
  <2>5. s.ready \subseteq t.ready BY <2>1
  <2>6. T \in Nat BY ScanAssumption
  <2>7. /\ IsFiniteSet(before)
        /\ Cardinality(before) <= T =>
             \A y \in seen : y[1] = kind /\ y[2] = key => \E i \in before : y = <<kind, key, i>>
        /\ Cardinality(before) > T => <<kind, key>> \in s.ready \cup told
    <3>1. CASE key \in DOMAIN s.items[kind]
      BY <3>1 DEF Evidence, BucketHonest, Before
    <3>2. CASE key \notin DOMAIN s.items[kind]
      <4>1. before = {} BY <3>2 DEF Before
      <4>2. ~\E y \in seen : y[1] = kind /\ y[2] = key BY <3>2 DEF Evidence
      <4> QED BY <4>1, <4>2, <2>6, FS_EmptySet
    <3> QED BY <3>1, <3>2
  <2>8. Cardinality(before) \in Nat BY <2>7, FS_CardinalityType
  <2> HIDE DEF T, before, after, x
  <2>9. BucketHonest(t, kind, key, seen \cup {x}, told)
    <3>1. CASE Cardinality(before) > T
      <4>1. after = before BY <3>1, <2>6, <2>8 DEF after, After, BucketAfter, before, T
      <4> QED BY <3>1, <4>1, <2>2, <2>5, <2>6, <2>7, <2>8 DEF BucketHonest, T
    <3>2. CASE Cardinality(before) <= T
      <4>1. after = before \cup {item} BY <3>2 DEF after, After, BucketAfter, before, T
      <4>2. /\ IsFiniteSet(after)
            /\ Cardinality(after) = IF item \in before THEN Cardinality(before)
                                    ELSE Cardinality(before) + 1
        BY <4>1, <2>7, FS_AddElement
      <4>3. \A y \in seen \cup {x} : y[1] = kind /\ y[2] = key =>
                                       \E i \in after : y = <<kind, key, i>>
        BY <4>1, <3>2, <2>7 DEF x
      <4>4. Cardinality(after) > T => <<kind, key>> \in t.ready
        <5> SUFFICES ASSUME Cardinality(after) > T PROVE <<kind, key>> \in t.ready
          OBVIOUS
        <5>1. item \notin before /\ Cardinality(after) = T + 1
          BY <4>2, <3>2, <2>6, <2>8
        <5>2. after # before BY <5>1, <4>1
        <5>3. Crosses(s, kind, key, item)
          BY <5>1, <5>2 DEF Crosses, after, before, T
        <5> QED BY <5>3, <2>1
      <4> QED BY <4>2, <4>3, <4>4, <2>2 DEF BucketHonest, T
    <3> QED BY <3>1, <3>2, <2>6, <2>8
  <2>10. ASSUME NEW k \in Kinds, NEW l \in DOMAIN t.items[k], k # kind \/ l # key
         PROVE  BucketHonest(t, k, l, seen \cup {x}, told)
    <3>1. l \in DOMAIN s.items[k] /\ t.items[k][l] = s.items[k][l]
      BY <2>10, <2>1, <2>2
    <3>2. BucketHonest(s, k, l, seen, told) BY <3>1 DEF Evidence
    <3>3. ~(x[1] = k /\ x[2] = l) BY <2>10, <1>0 DEF x
    <3> QED BY <3>1, <3>2, <3>3, <2>5 DEF BucketHonest
  <2>11. Evidence(t, seen \cup {x}, told) BY <2>4, <2>9, <2>10 DEF Evidence
  <2> QED BY <2>3, <2>11 DEF x
<1> QED BY <1>1, <1>2

(* ... and marks nothing, starts no window and leaves other kinds alone.   *)
KeepsOthers(s, t, kind) == \A k \in Kinds \ {kind} : t.items[k] = s.items[k]

LEMMA TrackedSound ==
  ASSUME NEW s, NEW seen, NEW told, Sound(s, seen, told),
         NEW kind \in Kinds, NEW key, NEW item, NEW t, t = Tracked(s, kind, key, item)
  PROVE  /\ Sound(t, seen \cup ProbedIn(t, {<<kind, key, item>>}), told)
         /\ t.start = s.start
         /\ KeepsOthers(s, t, kind)
<1>1. IsScan(t) /\ t.alerted = s.alerted /\ t.start = s.start
      /\ KeepsOthers(s, t, kind)
  <2>1. CASE key \notin DOMAIN s.items[kind] /\ Refused(s, kind)
    BY <2>1, TrackedRefused DEF Sound, KeepsOthers
  <2>2. CASE key \in DOMAIN s.items[kind] \/ ~Refused(s, kind)
    <3>1. TrackedTo(s, t, kind, key, item) BY <2>2, TrackedFields DEF Sound
    <3> QED BY <3>1 DEF TrackedTo, KeepsOthers
  <2> QED BY <2>1, <2>2
<1>2. Budget(t) BY TrackedBudget DEF Sound
<1>3. Evidence(t, seen \cup ProbedIn(t, {<<kind, key, item>>}), told)
  BY TrackedEvidence DEF Sound
<1> QED BY <1>1, <1>2, <1>3 DEF Sound

-----------------------------------------------------------------------------
(* The other operations on a ScanState.                                    *)

(* What two states share but for the senders.                              *)
SameCounts(s, t) ==
  /\ t.items = s.items /\ t.alerted = s.alerted /\ t.ready = s.ready
  /\ t.prefixes = s.prefixes /\ t.connectKeys = s.connectKeys /\ t.start = s.start

LEMMA SameCountsSound ==
  ASSUME NEW s, NEW t, NEW seen, NEW told, Sound(s, seen, told),
         DOMAIN t = ScanFields, SameCounts(s, t)
  PROVE  Sound(t, seen, told)
<1>1. IsScan(t) BY DEF Sound, SameCounts, IsScan
<1>2. Budget(t) BY DEF Sound, SameCounts, Budget
<1>3. Evidence(t, seen, told) BY DEF Sound, SameCounts, Evidence, BucketHonest
<1> QED BY <1>1, <1>2, <1>3 DEF Sound, SameCounts

LEMMA SenderSound ==
  ASSUME NEW s, NEW p, NEW t, t = NotesSender(s, p), NEW seen, NEW told,
         Sound(s, seen, told)
  PROVE  Sound(t, seen, told) /\ t.start = s.start
<1> DEFINE sent == WithKey(s.sent, UdpSlotOf(Sender(p.src, p.sport, p.dst)),
                           Sender(p.src, p.sport, p.dst))
<1>1. t = [s EXCEPT !.sent = sent] BY DEF NotesSender
<1> HIDE DEF sent
<1>2. DOMAIN t = ScanFields /\ SameCounts(s, t)
  BY <1>1 DEF Sound, IsScan, ScanFields, SameCounts
<1> QED BY <1>2, SameCountsSound DEF SameCounts

(* A window starts with nothing.                                           *)
LEMMA EmptySound ==
  ASSUME NEW now \in Nat, NEW t, DOMAIN t = ScanFields, SameCounts(EmptyScan(now), t)
  PROVE  Sound(t, {}, {})
<1>1. /\ t.items = [kind \in Kinds |-> EmptyTable] /\ t.alerted = {} /\ t.start = now
      /\ t.prefixes = EmptyTable /\ t.connectKeys = 0
  BY DEF SameCounts, EmptyScan
<1>2. DOMAIN EmptyTable = {} BY DEF EmptyTable
<1>3. \A kind \in Kinds : DOMAIN t.items[kind] = {} BY <1>1, <1>2
<1>4. IsScan(t) BY <1>1 DEF IsScan
<1>5. Sources(t.prefixes) = {} BY <1>1, <1>2 DEF Sources
<1>6. Budget(t)
  <2>1. "port" \in Kinds /\ "infection" \in Kinds BY DEF Kinds
  <2>2. /\ IsFiniteSet({}) /\ Cardinality({}) = 0 BY FS_EmptySet
  <2>3. 0 <= MaxScanKeys BY ScanAssumption
  <2> QED BY <1>1, <1>2, <1>3, <1>5, <2>1, <2>2, <2>3 DEF Budget
<1>7. Evidence(t, {}, {}) BY <1>3 DEF Evidence
<1> QED BY <1>1, <1>4, <1>6, <1>7 DEF Sound

(* A sweep tells what is due, and drops from the queue only what was told  *)
(* before; a sweep past the window starts the next one.                    *)
LEMMA SweptSound ==
  ASSUME NEW s, NEW seen, NEW told, Sound(s, seen, told), NEW now \in Nat, NEW local,
         NEW t, t = Swept(s, now, local)
  PROVE  /\ now - s.start >= ScanWindow => Sound(t, {}, {})
         /\ ~(now - s.start >= ScanWindow) =>
              Sound(t, seen, told \cup Due(s, local)) /\ t.start = s.start
<1>1. CASE now - s.start >= ScanWindow
  <2>1. t = [EmptyScan(now) EXCEPT !.sent = s.sent] BY <1>1 DEF Swept
  <2>2. DOMAIN EmptyScan(now) = ScanFields BY DEF EmptyScan, ScanFields
  <2>3. DOMAIN t = ScanFields /\ SameCounts(EmptyScan(now), t)
    BY <2>1, <2>2 DEF ScanFields, SameCounts
  <2> QED BY <1>1, <2>3, EmptySound
<1>2. CASE ~(now - s.start >= ScanWindow)
  <2> DEFINE due == Due(s, local)
             kept == {k \in s.ready : ~Enabled(HeuristicOf(k[1])) \/ k \notin s.alerted}
  <2>1. t = [s EXCEPT !.alerted = s.alerted \cup due, !.ready = kept]
    BY <1>2 DEF Swept
  <2> HIDE DEF due
  <2>2. s.ready \subseteq kept \cup s.alerted OBVIOUS
  <2> HIDE DEF kept
  <2>3. /\ DOMAIN t = ScanFields
        /\ t.items = s.items /\ t.alerted = s.alerted \cup due /\ t.ready = kept
        /\ t.prefixes = s.prefixes /\ t.connectKeys = s.connectKeys /\ t.start = s.start
    BY <2>1 DEF Sound, IsScan, ScanFields
  <2>4. IsScan(t) BY <2>3 DEF Sound, IsScan
  <2>5. Budget(t) BY <2>3 DEF Sound, Budget
  <2>6. s.ready \cup told \subseteq t.ready \cup (told \cup due)
    BY <2>2, <2>3 DEF Sound
  <2>7. Evidence(t, seen, told \cup due)
    <3>1. \A x \in seen : x[1] \in Kinds /\ x[2] \in DOMAIN t.items[x[1]]
      BY <2>3 DEF Sound, Evidence
    <3>2. ASSUME NEW kind \in Kinds, NEW key \in DOMAIN t.items[kind]
          PROVE  BucketHonest(t, kind, key, seen, told \cup due)
      <4>1. BucketHonest(s, kind, key, seen, told) BY <2>3 DEF Sound, Evidence
      <4> QED BY <4>1, <2>3, <2>6 DEF BucketHonest
    <3> QED BY <3>1, <3>2 DEF Evidence
  <2>8. t.alerted = told \cup due BY <2>3 DEF Sound
  <2>9. Sound(t, seen, told \cup due) BY <2>4, <2>5, <2>7, <2>8 DEF Sound
  <2> QED BY <1>2, <2>3, <2>9 DEF due
<1> QED BY <1>1, <1>2

-----------------------------------------------------------------------------
(* The accumulators of a running worker are sound for what was probed and  *)
(* reported in this window; after the final sweep the budget still is      *)
(* exact.  No packet, no probe.                                            *)
ScanInv ==
  /\ sec \in Nat /\ sec > 0 /\ lastSec \in Nat
  /\ lastSec = 0 => probes = {}
  /\ IsScan(scan) /\ Budget(scan)
  /\ ~done => Sound(scan, probes, reported)

(* The history at the moment the packet's handler starts.                  *)
SeenNow == IF WindowEnds THEN {} ELSE probes

ToldNow == IF WindowEnds THEN {} ELSE reported \cup {e.trail : e \in SweepEvents}

LEMMA TrailsOfSweep ==
  {e.trail : e \in SweepEvents} = IF SweepRuns THEN Due(scan, LocalNow) ELSE {}
<1>1. \A k : ScanEvent(k).trail = k BY DEF ScanEvent
<1>2. CASE SweepRuns
  <2>1. SweepEvents = {ScanEvent(k) : k \in Due(scan, LocalNow)} BY <1>2 DEF SweepEvents
  <2>2. {e.trail : e \in SweepEvents} = {ScanEvent(k).trail : k \in Due(scan, LocalNow)}
    BY <2>1
  <2> QED BY <1>1, <1>2, <2>2
<1>3. CASE ~SweepRuns BY <1>3 DEF SweepEvents
<1> QED BY <1>2, <1>3

(* The sweep that comes before the packet.                                 *)
LEMMA SweepFirst ==
  ASSUME ScanInv, ~done
  PROVE  /\ Sound(ScanNow, SeenNow, ToldNow)
         /\ ~WindowEnds => ScanNow.start = scan.start
<1>1. Sound(scan, probes, reported) /\ sec \in Nat BY DEF ScanInv
<1>2. CASE ~SweepRuns
  <2>1. ScanNow = scan /\ ~WindowEnds /\ SeenNow = probes
    BY <1>2 DEF ScanNow, WindowEnds, SeenNow
  <2>2. ToldNow = reported BY <1>2, <2>1, TrailsOfSweep DEF ToldNow
  <2> QED BY <1>1, <2>1, <2>2
<1>3. CASE SweepRuns
  <2>1. ScanNow = Swept(scan, sec, LocalNow) BY <1>3 DEF ScanNow
  <2>2. WindowEnds <=> sec - scan.start >= ScanWindow BY <1>3 DEF WindowEnds
  <2>3. CASE WindowEnds
    <3>1. SeenNow = {} /\ ToldNow = {} BY <2>3 DEF SeenNow, ToldNow
    <3> QED BY <1>1, <2>1, <2>2, <2>3, <3>1, SweptSound
  <2>4. CASE ~WindowEnds
    <3>1. SeenNow = probes BY <2>4 DEF SeenNow
    <3>2. ToldNow = reported \cup Due(scan, LocalNow)
      BY <1>3, <2>4, TrailsOfSweep DEF ToldNow
    <3> QED BY <1>1, <2>1, <2>2, <2>4, <3>1, <3>2, SweptSound
  <2> QED BY <2>3, <2>4
<1> QED BY <1>2, <1>3

LEMMA TracksMeans ==
  ASSUME NEW after, NEW seen, Tracks(after, seen)
  PROVE  scan' = after /\ probes' = SeenNow \cup ProbedIn(after, seen)
BY DEF Tracks, SeenNow, ProbedIn

(* A packet that counts for nothing, and one that counts for one key.      *)
LEMMA NothingTracked ==
  ASSUME ScanInv, ~done, TracksNothing
  PROVE  Sound(scan', probes', ToldNow) /\ scan'.start = ScanNow.start
<1>1. Tracks(ScanNow, {}) BY DEF TracksNothing
<1>2. scan' = ScanNow /\ probes' = SeenNow \cup ProbedIn(ScanNow, {}) BY <1>1, TracksMeans
<1>3. ProbedIn(ScanNow, {}) = {} BY DEF ProbedIn
<1>4. probes' = SeenNow BY <1>2, <1>3
<1> QED BY <1>2, <1>4, SweepFirst

LEMMA OneTracked ==
  ASSUME ScanInv, ~done, NEW s, Sound(s, SeenNow, ToldNow), s.start = ScanNow.start,
         NEW kind \in Kinds, NEW key, NEW item,
         Tracks(Tracked(s, kind, key, item), {<<kind, key, item>>})
  PROVE  Sound(scan', probes', ToldNow) /\ scan'.start = ScanNow.start
<1> DEFINE t == Tracked(s, kind, key, item)
<1>1. scan' = t /\ probes' = SeenNow \cup ProbedIn(t, {<<kind, key, item>>})
  BY TracksMeans
<1>2. /\ Sound(t, SeenNow \cup ProbedIn(t, {<<kind, key, item>>}), ToldNow)
      /\ t.start = s.start
  BY TrackedSound
<1> HIDE DEF t
<1> QED BY <1>1, <1>2

(* A SYN may count for a port key and for an infection key.                *)
LEMMA SynTracked ==
  ASSUME ScanInv, ~done, NEW p, Syn(p)
  PROVE  Sound(scan', probes', ToldNow) /\ scan'.start = ScanNow.start
<1> DEFINE burst == lastSyn = StampOf(p)
           tracks == ~burst /\ UseHeuristics /\ p.dst \notin Localhost
           infects == tracks /\ p.port \in InfectionPorts
           port == Tracked(ScanNow, "port", <<p.src, p.dst>>, p.port)
           both == Tracked(port, "infection", <<p.src, p.port>>, p.dst)
           x == <<"port", <<p.src, p.dst>>, p.port>>
           y == <<"infection", <<p.src, p.port>>, p.dst>>
<1>1. Tracks(IF infects THEN both ELSE IF tracks THEN port ELSE ScanNow,
             (IF tracks THEN {x} ELSE {}) \cup (IF infects THEN {y} ELSE {}))
  BY DEF Syn
<1>2. Sound(ScanNow, SeenNow, ToldNow) BY SweepFirst
<1>k. "port" \in Kinds /\ "infection" \in Kinds BY DEF Kinds
<1>x. x[1] = "port" /\ x[2] = <<p.src, p.dst>> /\ y[1] = "infection" OBVIOUS
<1>3. CASE ~tracks
  <2>1. Tracks(ScanNow, {})
    <3> HIDE DEF tracks, port, both, x, y
    <3> QED BY <1>1, <1>3
  <2> QED BY <2>1, NothingTracked DEF TracksNothing
<1>4. CASE tracks /\ ~infects
  <2>1. Tracks(port, {x})
    <3> HIDE DEF tracks, infects, port, both, x, y
    <3> QED BY <1>1, <1>4
  <2> QED BY <2>1, <1>2, <1>k, OneTracked
<1>5. CASE infects
  <2>1. Tracks(both, {x} \cup {y})
    <3>1. tracks BY <1>5
    <3> HIDE DEF tracks, infects, port, both, x, y
    <3> QED BY <1>1, <1>5, <3>1
  <2>2. scan' = both /\ probes' = SeenNow \cup ProbedIn(both, {x} \cup {y})
    BY <2>1, TracksMeans
  <2>3. Sound(port, SeenNow \cup ProbedIn(port, {x}), ToldNow) /\ port.start = ScanNow.start
    BY <1>2, <1>k, TrackedSound
  <2> DEFINE mid == SeenNow \cup ProbedIn(port, {x})
  <2> HIDE DEF port, mid
  <2>m. Sound(port, mid, ToldNow) BY <2>3 DEF mid
  <2>4. /\ Sound(both, mid \cup ProbedIn(both, {y}), ToldNow)
        /\ both.start = port.start
        /\ KeepsOthers(port, both, "infection")
    BY <2>m, <1>k, TrackedSound
  <2> HIDE DEF both
  <2>5. both.items["port"] = port.items["port"] BY <2>4, <1>k DEF KeepsOthers
  <2>6. ProbedIn(both, {x} \cup {y}) = ProbedIn(port, {x}) \cup ProbedIn(both, {y})
    <3>1. ProbedIn(both, {x}) = ProbedIn(port, {x}) BY <2>5, <1>x DEF ProbedIn
    <3>2. ProbedIn(both, {x} \cup {y}) = ProbedIn(both, {x}) \cup ProbedIn(both, {y})
      <4> HIDE DEF x, y
      <4> QED BY DEF ProbedIn
    <3> QED BY <3>1, <3>2
  <2>7. probes' = mid \cup ProbedIn(both, {y}) BY <2>2, <2>6 DEF mid
  <2> QED BY <2>2, <2>3, <2>4, <2>7
<1> QED BY <1>3, <1>4, <1>5

(* Every packet leaves the accumulators sound.                             *)
LEMMA PacketSound ==
  ASSUME ScanInv, NEW p, Syn(p) \/ Stealth(p) \/ Udp(p) \/ Path(p) \/ Other(p)
  PROVE  /\ Sound(scan', probes', reported')
         /\ scan'.start = ScanNow.start
<1>1. ~done /\ reported' = ToldNow
  BY DEF Syn, Stealth, Udp, Path, Other, Arrives, ToldNow
<1>2. Sound(ScanNow, SeenNow, ToldNow) BY <1>1, SweepFirst
<1>k. "port" \in Kinds /\ "udp" \in Kinds /\ "web" \in Kinds /\ "icmp" \in Kinds BY DEF Kinds
<1>3. CASE TracksNothing BY <1>1, <1>3, NothingTracked
<1>4. CASE Syn(p) BY <1>1, <1>4, SynTracked
<1>5. CASE Stealth(p) /\ ~TracksNothing
  <2>1. Tracks(Tracked(ScanNow, "port", <<p.src, p.dst>>, p.port),
               {<<"port", <<p.src, p.dst>>, p.port>>})
    BY <1>5 DEF Stealth
  <2> QED BY <1>1, <1>2, <1>k, <2>1, OneTracked
<1>6. CASE Udp(p) /\ ~TracksNothing
  <2> DEFINE noted == NotesSender(ScanNow, p)
  <2>1. Tracks(TrackedUdp(ScanNow, p),
               IF IsReply(noted, p) THEN {} ELSE {<<"udp", <<p.src, p.dst>>, p.port>>})
    BY <1>6 DEF Udp
  <2>2. Sound(noted, SeenNow, ToldNow) /\ noted.start = ScanNow.start
    BY <1>2, SenderSound
  <2>3. TrackedUdp(ScanNow, p) = IF IsReply(noted, p) THEN noted
                                 ELSE Tracked(noted, "udp", <<p.src, p.dst>>, p.port)
    BY DEF TrackedUdp
  <2> HIDE DEF noted
  <2>4. CASE IsReply(noted, p)
    <3>1. Tracks(noted, {}) BY <2>1, <2>3, <2>4
    <3>2. scan' = noted /\ probes' = SeenNow \cup ProbedIn(noted, {}) BY <3>1, TracksMeans
    <3>3. probes' = SeenNow BY <3>2 DEF ProbedIn
    <3> QED BY <1>1, <2>2, <3>2, <3>3
  <2>5. CASE ~IsReply(noted, p)
    <3>1. Tracks(Tracked(noted, "udp", <<p.src, p.dst>>, p.port),
                 {<<"udp", <<p.src, p.dst>>, p.port>>})
      BY <2>1, <2>3, <2>5
    <3> QED BY <1>1, <1>k, <2>2, <3>1, OneTracked
  <2> QED BY <2>4, <2>5
<1>7. CASE Path(p) /\ ~TracksNothing
  <2>1. Tracks(Tracked(ScanNow, "web", <<p.src, p.dst>>, p.item),
               {<<"web", <<p.src, p.dst>>, p.item>>})
    BY <1>7 DEF Path
  <2> QED BY <1>1, <1>2, <1>k, <2>1, OneTracked
<1>8. CASE Other(p) /\ ~TracksNothing
  <2>1. Tracks(Tracked(ScanNow, "icmp", <<p.src, p.dst>>, p.item),
               {<<"icmp", <<p.src, p.dst>>, p.item>>})
    BY <1>8 DEF Other
  <2> QED BY <1>1, <1>2, <1>k, <2>1, OneTracked
<1> QED BY <1>3, <1>4, <1>5, <1>6, <1>7, <1>8

LEMMA InitScanInv == Init => ScanInv
<1> SUFFICES ASSUME Init PROVE ScanInv OBVIOUS
<1>1. /\ sec = 1 /\ lastSec = 0 /\ probes = {} /\ reported = {} /\ done = FALSE
      /\ scan = EmptyScan(0)
  BY DEF Init
<1>2. DOMAIN scan = ScanFields /\ SameCounts(EmptyScan(0), scan)
  BY <1>1 DEF EmptyScan, ScanFields, SameCounts
<1>3. Sound(scan, {}, {}) BY <1>2, EmptySound
<1> QED BY <1>1, <1>3 DEF ScanInv, Sound

LEMMA NextScanInv == ScanInv /\ [Next]_vars => ScanInv'
<1> SUFFICES ASSUME ScanInv, [Next]_vars PROVE ScanInv' OBVIOUS
<1>1. ASSUME NEW p, Syn(p) \/ Stealth(p) \/ Udp(p) \/ Path(p) \/ Other(p) PROVE ScanInv'
  <2>1. Sound(scan', probes', reported') BY <1>1, PacketSound
  <2>2. sec' = sec /\ lastSec' = sec
    BY <1>1 DEF Syn, Stealth, Udp, Path, Other, Arrives
  <2> QED BY <2>1, <2>2 DEF ScanInv, Sound
<1>2. CASE Tick BY <1>2 DEF Tick, ScanInv, historyVars
<1>3. CASE FinalSweep
  <2>1. ~done /\ done' = TRUE /\ sec' = sec /\ lastSec' = lastSec /\ probes' = probes
    BY <1>3 DEF FinalSweep
  <2>2. Sound(scan, probes, reported) /\ lastSec \in Nat BY <2>1 DEF ScanInv
  <2>3. scan' = scan \/ scan' = Swept(scan, lastSec, LocalNow) BY <1>3 DEF FinalSweep
  <2>4. IsScan(scan') /\ Budget(scan')
    <3>1. CASE scan' = scan BY <3>1, <2>2 DEF Sound
    <3>2. CASE scan' = Swept(scan, lastSec, LocalNow) BY <3>2, <2>2, SweptSound DEF Sound
    <3> QED BY <2>3, <3>1, <3>2
  <2> QED BY <2>1, <2>4 DEF ScanInv
<1>4. CASE UNCHANGED vars BY <1>4 DEF vars, historyVars, ScanInv
<1> QED BY <1>1, <1>2, <1>3, <1>4 DEF Next

LEMMA SpecScanInv == Spec => []ScanInv
BY InitScanInv, NextScanInv, PTL DEF Spec

(* In every behaviour the budget port and infection keys share, and the    *)
(* number of sources behind the local prefix, are exactly what the tables  *)
(* hold, and the budget is not exceeded.                                   *)
THEOREM SpecSharedBudget == Spec => []SharedBudget
<1>1. ScanInv => SharedBudget BY DEF ScanInv, Budget, SharedBudget
<1> QED BY <1>1, SpecScanInv, PTL

-----------------------------------------------------------------------------
(* Reporting: once, and before the evidence goes.                          *)

(* What a sweep tells was not told before.                                 *)
LEMMA DueIsNew ==
  ASSUME ScanInv, ~done, NEW local, NEW k \in Due(scan, local)
  PROVE  k \notin reported
BY DEF ScanInv, Sound, Due

(* A verdict on a flow is the first one.                                   *)
LEMMA VerdictIsNew ==
  ASSUME NEW after, NEW f, BeaconVerdict(BeaconNow, after, f, sec)
  PROVE  f \in DOMAIN beacon.flows /\ ~beacon.flows[f].alerted
<1>1. f \in DOMAIN BeaconNow.flows /\ ~BeaconNow.flows[f].alerted BY DEF BeaconVerdict
<1>2. CASE BeaconNow = beacon BY <1>1, <1>2
<1>3. CASE BeaconNow # beacon
  <2> DEFINE young == {g \in DOMAIN beacon.flows : sec - beacon.flows[g].last <= StaleAfter}
  <2>1. BeaconNow.flows = [g \in young |-> beacon.flows[g]]
    BY <1>3 DEF BeaconNow, PrunedFlows, Restrict
  <2>2. f \in young /\ BeaconNow.flows[f] = beacon.flows[f] BY <1>1, <2>1
  <2> QED BY <1>1, <2>2
<1> QED BY <1>2, <1>3

LEMMA StepReportedOnce ==
  ASSUME ScanInv, [Next]_vars, NEW e \in out', ~UNCHANGED vars
  PROVE  /\ e.kind = "scan" => e.trail \notin reported
         /\ e.kind = "beacon" => /\ e.trail \in DOMAIN beacon.flows
                                 /\ ~beacon.flows[e.trail].alerted
<1>s. ASSUME NEW local, NEW k \in Due(scan, local), ~done, e = ScanEvent(k)
      PROVE  e.kind = "scan" /\ e.trail \notin reported
  BY <1>s, DueIsNew DEF ScanEvent
<1>t. ASSUME NEW p, NEW t, e = TrailEvent(p, t) PROVE e.kind = "ip"
  BY <1>t DEF TrailEvent
<1>w. ASSUME e \in SweepEvents, ~done PROVE e.kind = "scan" /\ e.trail \notin reported
  <2>1. SweepRuns BY <1>w DEF SweepEvents
  <2>2. PICK k \in Due(scan, LocalNow) : e = ScanEvent(k) BY <1>w, <2>1 DEF SweepEvents
  <2> QED BY <1>s, <1>w, <2>2
<1>1. ASSUME NEW p, Syn(p)
      PROVE  /\ e.kind = "scan" => e.trail \notin reported
             /\ e.kind = "beacon" => /\ e.trail \in DOMAIN beacon.flows
                                     /\ ~beacon.flows[e.trail].alerted
  <2> DEFINE f == <<p.src, p.dst, p.port>>
             after == Observed(BeaconNow, f, sec)
             beep == [kind |-> "beacon", trail |-> f, info |-> "beacon"]
  <2>1. ~done BY <1>1 DEF Syn, Arrives
  <2>2. \/ e \in SweepEvents
        \/ \E t : e = TrailEvent(p, t)
        \/ e = beep /\ BeaconVerdict(BeaconNow, after, f, sec)
    BY <1>1 DEF Syn, Arrives
  <2>3. CASE e = beep /\ BeaconVerdict(BeaconNow, after, f, sec)
    <3>1. e.kind = "beacon" /\ e.trail = f BY <2>3
    <3> HIDE DEF f, after
    <3> QED BY <2>3, <3>1, VerdictIsNew
  <2> QED BY <2>1, <2>2, <2>3, <1>w, <1>t
<1>2. ASSUME NEW p, Stealth(p) \/ Udp(p) \/ Path(p) \/ Other(p)
      PROVE  ~done /\ (e \in SweepEvents \/ \E t : e = TrailEvent(p, t))
  BY <1>2 DEF Stealth, Udp, Path, Other, Arrives
<1>3. CASE Tick BY <1>3 DEF Tick
<1>4. CASE FinalSweep
  <2>1. ~done /\ \E k \in Due(scan, LocalNow) : e = ScanEvent(k) BY <1>4 DEF FinalSweep
  <2> QED BY <1>s, <2>1
<1>5. CASE \E p \in offer.traffic : Syn(p) \/ Stealth(p) \/ Udp(p) \/ Path(p) \/ Other(p)
  BY <1>1, <1>2, <1>5, <1>w, <1>t
<1> QED BY <1>3, <1>4, <1>5 DEF Next

(* In every behaviour a scan is reported at most once a window, whatever   *)
(* the clock does, and a flow beacons at most once while it is tracked.    *)
THEOREM SpecReportedOnce == Spec => ReportedOnce
<1>1. ScanInv /\ [Next]_vars =>
        [\A e \in out' :
           /\ e.kind = "scan" => e.trail \notin reported
           /\ e.kind = "beacon" => /\ e.trail \in DOMAIN beacon.flows
                                   /\ ~beacon.flows[e.trail].alerted]_vars
  BY StepReportedOnce
<1> QED BY <1>1, SpecScanInv, PTL DEF Spec, ReportedOnce

(* Threshold and more items probed: the bucket has passed it too.          *)
LEMMA CrossedQueued ==
  ASSUME ScanInv, ~done, NEW k \in Probed, Crossed(k[1], k[2])
  PROVE  k \in scan.ready \cup reported
<1>1. PICK x \in probes : k = <<x[1], x[2]>> BY DEF Probed
<1> DEFINE kind == x[1]
           key == x[2]
           bucket == scan.items[kind][key]
           T == ThresholdOf[kind]
           mine == {y \in probes : y[1] = kind /\ y[2] = key}
<1>2. kind \in Kinds /\ key \in DOMAIN scan.items[kind] BY DEF ScanInv, Sound, Evidence
<1>3. BucketHonest(scan, kind, key, probes, reported)
  BY <1>2 DEF ScanInv, Sound, Evidence
<1>4. IsFiniteSet(bucket) /\ Cardinality(bucket) \in Nat
  BY <1>3, FS_CardinalityType DEF BucketHonest
<1>5. T \in Nat BY <1>2, ScanAssumption
<1>6. Cardinality(mine) > T BY <1>1 DEF Crossed
<1>7. CASE Cardinality(bucket) > T BY <1>1, <1>3, <1>7 DEF BucketHonest
<1>8. CASE Cardinality(bucket) <= T
  <2> DEFINE all == {<<kind, key, i>> : i \in bucket}
             f == [i \in bucket |-> <<kind, key, i>>]
  <2>1. mine \subseteq all BY <1>3, <1>8 DEF BucketHonest
  <2>2. f \in Surjection(bucket, all) BY DEF Surjection
  <2> HIDE DEF f, bucket
  <2>3. IsFiniteSet(all) /\ Cardinality(all) <= Cardinality(bucket)
    BY <1>4, <2>2, FS_Surjection
  <2>4. Cardinality(all) \in Nat BY <2>3, FS_CardinalityType
  <2> HIDE DEF all, mine
  <2>5. Cardinality(mine) <= Cardinality(all) /\ Cardinality(mine) \in Nat
    BY <2>1, <2>3, FS_Subset, FS_CardinalityType
  <2> HIDE DEF T
  <2> QED BY <1>4, <1>5, <1>6, <1>8, <2>3, <2>4, <2>5
<1> HIDE DEF bucket, T
<1> QED BY <1>4, <1>5, <1>7, <1>8

(* What is queued, not muted and not spared is told by a sweep.            *)
LEMMA QueuedTold ==
  ASSUME ScanInv, ~done, NEW k \in scan.ready \cup reported, Enabled(HeuristicOf(k[1])),
         NEW local, ~Spared(k[1], k[2], local)
  PROVE  k \in reported \/ k \in Due(scan, local)
BY DEF ScanInv, Sound, Due

Told(events) == {e.trail : e \in {o \in events : o.kind = "scan"}}

LEMMA DueTold ==
  ASSUME NEW local, NEW k \in Due(scan, local), NEW events,
         {ScanEvent(d) : d \in Due(scan, local)} \subseteq events
  PROVE  k \in Told(events)
<1>1. ScanEvent(k) \in events OBVIOUS
<1>2. ScanEvent(k).kind = "scan" /\ ScanEvent(k).trail = k BY DEF ScanEvent
<1> QED BY <1>1, <1>2 DEF Told

LEMMA StepCrossing ==
  ASSUME ScanInv, [Next]_vars, UseHeuristics,
         scan'.start # scan.start \/ (done' /\ ~done),
         NEW k \in Probed, Crossed(k[1], k[2]), Enabled(HeuristicOf(k[1])),
         ~Spared(k[1], k[2], LocalNow)
  PROVE  k \in reported \cup Told(out')
<1>1. ASSUME ~done, {ScanEvent(d) : d \in Due(scan, LocalNow)} \subseteq out'
      PROVE  k \in reported \cup Told(out')
  <2>1. k \in scan.ready \cup reported BY <1>1, CrossedQueued
  <2>2. k \in reported \/ k \in Due(scan, LocalNow) BY <1>1, <2>1, QueuedTold
  <2> QED BY <1>1, <2>2, DueTold
<1>2. ASSUME NEW p, Syn(p) \/ Stealth(p) \/ Udp(p) \/ Path(p) \/ Other(p)
      PROVE  k \in reported \cup Told(out')
  <2>1. ~done /\ done' = done /\ SweepEvents \subseteq out'
    BY <1>2 DEF Syn, Stealth, Udp, Path, Other, Arrives
  <2>2. scan'.start = ScanNow.start BY <1>2, PacketSound
  <2>3. WindowEnds BY <2>1, <2>2, SweepFirst
  <2>4. SweepEvents = {ScanEvent(d) : d \in Due(scan, LocalNow)}
    BY <2>3 DEF WindowEnds, SweepEvents
  <2> QED BY <1>1, <2>1, <2>4
<1>3. CASE Tick BY <1>3 DEF Tick
<1>4. CASE FinalSweep
  <2>1. lastSec > 0
    <3>1. probes # {} BY DEF Probed
    <3> QED BY <3>1 DEF ScanInv
  <2>2. ~done /\ out' = {ScanEvent(d) : d \in Due(scan, LocalNow)}
    BY <1>4, <2>1 DEF FinalSweep
  <2> QED BY <1>1, <2>2
<1>5. CASE UNCHANGED vars BY <1>5 DEF vars
<1> QED BY <1>2, <1>3, <1>4, <1>5 DEF Next

(* In every behaviour, when a window's evidence is dropped or the worker   *)
(* ends, each key that passed its threshold has been reported, unless it   *)
(* is muted, whitelisted or not one of ours.                               *)
THEOREM SpecCrossingReported == Spec => CrossingReported
<1>1. ScanInv /\ [Next]_vars =>
        [UseHeuristics /\ ((scan'.start # scan.start) \/ (done' /\ ~done)) =>
           \A k \in Probed :
             /\ Crossed(k[1], k[2]) /\ Enabled(HeuristicOf(k[1]))
             /\ ~Spared(k[1], k[2], LocalNow)
             => k \in reported \cup {e.trail : e \in {o \in out' : o.kind = "scan"}}]_vars
  BY StepCrossing DEF Told
<1> QED BY <1>1, SpecScanInv, PTL DEF Spec, CrossingReported

-----------------------------------------------------------------------------
(* The repetition stamps.                                                  *)

(* A stamp is of a packet that was seen, in the second it says.            *)
Stamped(stamp, kind) ==
  stamp = NoStamp \/ [kind |-> kind, flow |-> stamp.flow, sec |-> stamp.sec] \in contacts.seen

StampInv ==
  /\ sec \in Nat /\ sec > 0
  /\ Stamped(lastSyn, "syn") /\ Stamped(lastLoggedSyn, "syn")
  /\ Stamped(lastUdp.stamp, "udp") /\ Stamped(lastLoggedUdp, "udp")
  /\ ListedContactReported

(* A stamp of this packet means that the packet was seen before.           *)
LEMMA StampedSeen ==
  ASSUME StampInv, NEW p, NEW stamp, NEW kind, p.kind = kind, Stamped(stamp, kind),
         stamp = StampOf(p)
  PROVE  ContactOf(p) \in contacts.seen
<1>1. stamp.flow = Flow(p) /\ stamp.sec = sec BY DEF StampOf
<1>2. NoStamp.sec = 0 BY DEF NoStamp
<1>3. stamp # NoStamp BY <1>1, <1>2 DEF StampInv
<1> QED BY <1>1, <1>3 DEF Stamped, ContactOf

(* The packet's own stamp is one of a packet seen once it is noted.        *)
LEMMA OwnStamp ==
  ASSUME NEW p, NEW told, Contact(p, told)
  PROVE  /\ ContactOf(p) \in contacts'.seen
         /\ [kind |-> p.kind, flow |-> StampOf(p).flow, sec |-> StampOf(p).sec] = ContactOf(p)
         /\ contacts.seen \subseteq contacts'.seen /\ contacts.told \subseteq contacts'.told
         /\ contacts'.seen \subseteq contacts.seen \cup {ContactOf(p)}
         /\ told => ContactOf(p) \in contacts'.told
BY DEF Contact, ContactOf, StampOf

(* A notable SYN has a trail that is no noise.                             *)
LEMMA NotableSyn ==
  ASSUME NEW p, p.kind = "syn", Notable(ContactOf(p))
  PROVE  \E t \in SynTrail(p) : ~SynNoise(p, t)
<1> DEFINE near == Labels("syn", p.src, p.sport)
           far == Labels("syn", p.dst, p.port)
<1>1. \/ far = {"malware"}
      \/ far = {} /\ near = {"attacker"} /\ p.dst \notin Localhost
  BY DEF Notable, ContactOf, Flow
<1>2. \A ip, port : Labels("syn", ip, port)
                      = {Listed[t] : t \in {<<ip>>, <<ip, port>>} \cap DOMAIN Listed}
  BY DEF Labels
<1>3. \A ip, port : \A t \in TrailOf(ip, port) :
        t[1] = ip /\ t \in {<<ip>>, <<ip, port>>} \cap DOMAIN Listed
  BY DEF TrailOf
<1>4. ASSUME NEW ip, NEW port PROVE Labels("syn", ip, port) # {} <=> TrailOf(ip, port) # {}
  <2>1. Labels("syn", ip, port) # {} <=>
          <<ip>> \in DOMAIN Listed \/ <<ip, port>> \in DOMAIN Listed
    BY <1>2
  <2>2. TrailOf(ip, port) # {} <=>
          <<ip>> \in DOMAIN Listed \/ <<ip, port>> \in DOMAIN Listed
    BY DEF TrailOf
  <2> QED BY <2>1, <2>2
<1>5. CASE far = {"malware"}
  <2>1. PICK t \in TrailOf(p.dst, p.port) : TRUE BY <1>4, <1>5
  <2>2. t[1] = p.dst /\ Listed[t] = "malware" BY <1>2, <1>3, <1>5, <2>1
  <2>3. t \in SynTrail(p) BY <2>1 DEF SynTrail
  <2>4. ~SynNoise(p, t) BY <2>1, <2>2 DEF SynNoise
  <2> QED BY <2>3, <2>4
<1>6. CASE far = {} /\ near = {"attacker"} /\ p.dst \notin Localhost
  <2>1. TrailOf(p.dst, p.port) = {} BY <1>4, <1>6
  <2>2. PICK t \in TrailOf(p.src, p.sport) : TRUE BY <1>4, <1>6
  <2>3. Listed[t] = "attacker" BY <1>2, <1>3, <1>6, <2>2
  <2>4. t \in SynTrail(p) BY <1>6, <2>1, <2>2 DEF SynTrail
  <2>5. ~SynNoise(p, t) BY <2>1, <2>3 DEF SynNoise
  <2> QED BY <2>4, <2>5
<1> QED BY <1>1, <1>5, <1>6

(* So has a notable datagram.                                              *)
LEMMA NotableUdp ==
  ASSUME NEW p, p.kind = "udp", Notable(ContactOf(p))
  PROVE  \E t \in UdpTrail(p) : ~UdpNoise(p, t)
<1> DEFINE near == Labels("udp", p.src, p.sport)
           far == Labels("udp", p.dst, p.port)
<1>1. far = {"malware"} \/ (far = {} /\ near = {"attacker"})
  BY DEF Notable, ContactOf, Flow
<1>2. \A ip, port : Labels("udp", ip, port)
                      = IF <<ip>> \in DOMAIN Listed THEN {Listed[<<ip>>]} ELSE {}
  BY DEF Labels
<1>3. CASE far = {"malware"}
  <2>1. <<p.dst>> \in DOMAIN Listed /\ Listed[<<p.dst>>] = "malware" BY <1>2, <1>3
  <2>2. <<p.dst>> \in UdpTrail(p) BY <2>1 DEF UdpTrail
  <2>3. ~UdpNoise(p, <<p.dst>>) BY <2>1 DEF UdpNoise
  <2> QED BY <2>2, <2>3
<1>4. CASE far = {} /\ near = {"attacker"}
  <2>1. <<p.dst>> \notin DOMAIN Listed BY <1>2, <1>4
  <2>2. <<p.src>> \in DOMAIN Listed /\ Listed[<<p.src>>] = "attacker" BY <1>2, <1>4
  <2>3. <<p.src>> \in UdpTrail(p) BY <2>1, <2>2 DEF UdpTrail
  <2>4. p.src # p.dst BY <2>1, <2>2
  <2>5. ~UdpNoise(p, <<p.src>>) BY <2>2, <2>4 DEF UdpNoise
  <2> QED BY <2>3, <2>5
<1> QED BY <1>1, <1>3, <1>4

(* A packet whose contact was seen before, or is told, keeps the promise.  *)
LEMMA ContactTold ==
  ASSUME StampInv, NEW p, NEW told, Contact(p, told),
         Notable(ContactOf(p)) => told \/ ContactOf(p) \in contacts.seen
  PROVE  ListedContactReported'
<1> SUFFICES ASSUME NEW c \in contacts'.seen, Notable(c) PROVE c \in contacts'.told
  BY DEF ListedContactReported, Notable, Labels
<1>1. CASE c \in contacts.seen
  BY <1>1, OwnStamp DEF StampInv, ListedContactReported
<1>2. CASE c = ContactOf(p)
  <2>1. CASE told BY <1>2, <2>1, OwnStamp
  <2>2. CASE ContactOf(p) \in contacts.seen BY <1>1, <1>2, <2>2
  <2> QED BY <1>2, <2>1, <2>2
<1> QED BY <1>1, <1>2, OwnStamp

(* Stamps of packets seen before stay stamps of packets seen.              *)
LEMMA StampedStays ==
  ASSUME NEW stamp, NEW kind, Stamped(stamp, kind), contacts.seen \subseteq contacts'.seen
  PROVE  stamp = NoStamp
         \/ [kind |-> kind, flow |-> stamp.flow, sec |-> stamp.sec] \in contacts'.seen
BY DEF Stamped

LEMMA NextStampInv == StampInv /\ [Next]_vars => StampInv'
<1> SUFFICES ASSUME StampInv, [Next]_vars PROVE StampInv' OBVIOUS
<1>0. ASSUME NEW p, Syn(p) \/ Stealth(p) \/ Udp(p) \/ Path(p) \/ Other(p) PROVE sec' = sec
  BY <1>0 DEF Syn, Stealth, Udp, Path, Other, Arrives
<1>1. ASSUME NEW p, Syn(p) PROVE StampInv'
  <2> DEFINE burst == lastSyn = StampOf(p)
             trails == IF burst THEN {} ELSE SynTrail(p)
             loud == {t \in trails : ~SynNoise(p, t) /\ lastLoggedSyn # StampOf(p)}
  <2>1. /\ p.kind = "syn" /\ lastSyn' = StampOf(p)
        /\ lastLoggedSyn' = lastLoggedSyn \/ lastLoggedSyn' = StampOf(p)
        /\ Contact(p, loud # {}) /\ lastUdp' = lastUdp /\ lastLoggedUdp' = lastLoggedUdp
    BY <1>1 DEF Syn
  <2>2. Notable(ContactOf(p)) => loud # {} \/ ContactOf(p) \in contacts.seen
    <3> SUFFICES ASSUME Notable(ContactOf(p)), ContactOf(p) \notin contacts.seen
                 PROVE  loud # {}
      OBVIOUS
    <3>1. lastSyn # StampOf(p) /\ lastLoggedSyn # StampOf(p)
      BY <2>1, StampedSeen DEF StampInv
    <3>2. \E t \in SynTrail(p) : ~SynNoise(p, t) BY <2>1, NotableSyn
    <3> QED BY <3>1, <3>2
  <2> HIDE DEF loud
  <2>3. ListedContactReported' BY <2>1, <2>2, ContactTold
  <2>4. /\ ContactOf(p) \in contacts'.seen /\ contacts.seen \subseteq contacts'.seen
        /\ [kind |-> "syn", flow |-> StampOf(p).flow, sec |-> StampOf(p).sec] = ContactOf(p)
    BY <2>1, OwnStamp
  <2>5. /\ Stamped(lastSyn, "syn")' /\ Stamped(lastLoggedSyn, "syn")'
        /\ Stamped(lastUdp.stamp, "udp")' /\ Stamped(lastLoggedUdp, "udp")'
    BY <2>1, <2>4, StampedStays DEF StampInv, Stamped, NoStamp
  <2> QED BY <1>0, <1>1, <2>3, <2>5 DEF StampInv
<1>2. ASSUME NEW p, Udp(p) PROVE StampInv'
  <2> DEFINE burst == IsUdpBurst(p)
             trails == IF burst THEN {} ELSE UdpTrail(p)
             loud == {t \in trails : ~UdpNoise(p, t) /\ lastLoggedUdp # StampOf(p)}
  <2>1. /\ p.kind = "udp" /\ lastUdp' = [stamp |-> StampOf(p), digest |-> p.item]
        /\ lastLoggedUdp' = lastLoggedUdp \/ lastLoggedUdp' = StampOf(p)
        /\ Contact(p, loud # {}) /\ lastSyn' = lastSyn /\ lastLoggedSyn' = lastLoggedSyn
    BY <1>2 DEF Udp
  <2>2. Notable(ContactOf(p)) => loud # {} \/ ContactOf(p) \in contacts.seen
    <3> SUFFICES ASSUME Notable(ContactOf(p)), ContactOf(p) \notin contacts.seen
                 PROVE  loud # {}
      OBVIOUS
    <3>1. lastUdp.stamp # StampOf(p) /\ lastLoggedUdp # StampOf(p)
      BY <2>1, StampedSeen DEF StampInv
    <3>2. ~burst BY <3>1 DEF IsUdpBurst
    <3>3. \E t \in UdpTrail(p) : ~UdpNoise(p, t) BY <2>1, NotableUdp
    <3> QED BY <3>1, <3>2, <3>3
  <2> HIDE DEF loud
  <2>3. ListedContactReported' BY <2>1, <2>2, ContactTold
  <2>4. /\ ContactOf(p) \in contacts'.seen /\ contacts.seen \subseteq contacts'.seen
        /\ [kind |-> "udp", flow |-> StampOf(p).flow, sec |-> StampOf(p).sec] = ContactOf(p)
    BY <2>1, OwnStamp
  <2>s. lastUdp'.stamp = StampOf(p) BY <2>1
  <2>5. /\ Stamped(lastSyn, "syn")' /\ Stamped(lastLoggedSyn, "syn")'
        /\ Stamped(lastUdp.stamp, "udp")' /\ Stamped(lastLoggedUdp, "udp")'
    BY <2>1, <2>4, <2>s, StampedStays DEF StampInv, Stamped, NoStamp
  <2> QED BY <1>0, <1>2, <2>3, <2>5 DEF StampInv
<1>3. ASSUME UNCHANGED <<burstVars, contacts>>, sec' \in Nat, sec' > 0 PROVE StampInv'
  BY <1>3 DEF StampInv, Stamped, NoStamp, ListedContactReported, Notable, Labels, burstVars
<1>4. ASSUME NEW p, Stealth(p) \/ Path(p) \/ Other(p) PROVE StampInv'
  <2>1. UNCHANGED <<burstVars, contacts>> BY <1>4 DEF Stealth, Path, Other
  <2> QED BY <1>0, <1>3, <1>4, <2>1 DEF StampInv
<1>5. CASE Tick
  <2>1. UNCHANGED <<burstVars, contacts>> BY <1>5 DEF Tick, historyVars
  <2>2. sec' \in Nat /\ sec' > 0 BY <1>5 DEF Tick, StampInv
  <2> QED BY <1>3, <2>1, <2>2
<1>6. CASE FinalSweep
  <2>1. UNCHANGED <<burstVars, contacts>> /\ sec' = sec BY <1>6 DEF FinalSweep
  <2> QED BY <1>3, <2>1 DEF StampInv
<1>7. CASE UNCHANGED vars
  <2>1. UNCHANGED <<burstVars, contacts>> /\ sec' = sec BY <1>7 DEF vars, historyVars
  <2> QED BY <1>3, <2>1 DEF StampInv
<1> QED BY <1>1, <1>2, <1>4, <1>5, <1>6, <1>7 DEF Next

(* In every behaviour the repetition rules hide no contact with a listed   *)
(* host, whatever comes between the packets of a flow and however the      *)
(* seconds of the capture are ordered.                                     *)
THEOREM SpecListedContactReported == Spec => []ListedContactReported
<1>1. Init => StampInv
  BY DEF Init, StampInv, Stamped, ListedContactReported
<1>2. StampInv => ListedContactReported BY DEF StampInv
<1> QED BY <1>1, <1>2, NextStampInv, PTL DEF Spec
=============================================================================
