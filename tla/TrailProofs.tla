---------------------------- MODULE TrailProofs ----------------------------
(***************************************************************************)
(* Proofs about the trails.                                                *)
(*                                                                         *)
(* TrailReload: for any number of workers, writers of the trails file and  *)
(* reloads, a worker whose generation is the store's uses the store's      *)
(* trail set.                                                              *)
(*                                                                         *)
(* TrailStoreFile: for any sensors, contents of the CSV, whitelists, hash  *)
(* function, table sizes, batches and parse threads, and any sequence of   *)
(* crashes, writes and damages, what a sensor serves is what a content of  *)
(* the CSV says, and a compiled store that can be read is what its header  *)
(* says.                                                                   *)
(***************************************************************************)
EXTENDS TrailReload, TrailStoreFile, FiniteSetTheorems, WellFoundedInduction, TLAPS


(* Before the workers are spawned there is nobody to hold a snapshot.      *)
NotSpawned ==
  pc \in {"boot", "bootload", "spawn", "exited"} => \A w \in Workers : wpc[w] = "off"

(* No worker knows a generation the store has not reached, not even in the *)
(* middle of a snapshot.                                                   *)
GenerationsBehind ==
  \A w \in Workers : view[w].gen <= generation /\ seenGen[w] <= generation

ViewInv == TypeOK /\ NotSpawned /\ GenerationsBehind /\ ViewCoherent

LEMMA InitViewInv == Init => ViewInv
<1> SUFFICES ASSUME Init PROVE ViewInv OBVIOUS
<1>1. TypeOK
  <2>1. NoFile \in TrailSet BY DEF NoFile, TrailSet
  <2>2. file \in TrailSet
    <3>1. \A f \in [ver : {1}, count : Counts] : f \in TrailSet
      <4> SUFFICES ASSUME NEW f \in [ver : {1}, count : Counts] PROVE f \in TrailSet
        OBVIOUS
      <4>1. f = [ver |-> f.ver, count |-> f.count] /\ f.ver = 1 /\ f.count \in Counts
        OBVIOUS
      <4>2. f.ver \in Nat BY <4>1
      <4>3. Counts \subseteq Nat BY ReloadAssumption
      <4>4. f.count \in Nat BY <4>1, <4>3
      <4> QED BY <4>1, <4>2, <4>4 DEF TrailSet
    <3> QED BY <2>1, <3>1 DEF Init
  <2>3. dueNow \in BOOLEAN /\ requested \in BOOLEAN BY DEF Init
  <2>4. /\ wpc \in [Workers -> {"off", "run", "gen", "db"}]
        /\ seenGen \in [Workers -> Nat]
        /\ view \in [Workers -> [gen : Nat, db : TrailSet]]
    BY <2>1 DEF Init
  <2>5. loaded \in TrailSet /\ current \in TrailSet /\ pc \in Pcs
    BY <2>1 DEF Init, Pcs
  <2> QED BY <2>2, <2>3, <2>4, <2>5 DEF Init, TypeOK
<1>2. NotSpawned /\ GenerationsBehind /\ ViewCoherent
  BY DEF Init, NotSpawned, GenerationsBehind, ViewCoherent
<1> QED BY <1>1, <1>2 DEF ViewInv

(* A written file is a trail set.                                          *)
LEMMA FileTypes ==
  ASSUME TypeOK
  PROVE  /\ \A c \in Counts : WriteFile(c) => file' \in TrailSet /\ written' \in Nat
         /\ RemoveFile => file' \in TrailSet /\ written' \in Nat
         /\ UpdateOutcome => file' \in TrailSet /\ written' \in Nat
<1>1. \A c \in Counts : WriteFile(c) => file' \in TrailSet /\ written' \in Nat
  BY ReloadAssumption DEF TypeOK, WriteFile, Rewritten, TrailSet
<1>2. RemoveFile => file' \in TrailSet /\ written' \in Nat
  BY DEF TypeOK, RemoveFile, TrailSet, NoFile
<1> QED BY <1>1, <1>2 DEF UpdateOutcome, fileVars, TypeOK

LEMMA StepTypeOK == ViewInv /\ [Next]_vars => TypeOK'
<1> SUFFICES ASSUME ViewInv, [Next]_vars PROVE TypeOK' OBVIOUS
<1> USE DEF ViewInv
<1>1. CASE Someone
  BY <1>1, FileTypes DEF Someone, TypeOK, bootVars, hupVars, pollVars, store, workVars
<1>2. CASE BootRefresh
  <2>1. file' \in TrailSet /\ written' \in Nat
    BY <1>2, FileTypes DEF BootRefresh, fileVars, TypeOK
  <2> QED BY <1>2, <2>1 DEF BootRefresh, TypeOK, Pcs, hupVars, pollVars, store, workVars
<1>3. CASE BootLoad
  BY <1>3 DEF BootLoad, TypeOK, TrailSet, Pcs, fileVars, bootVars, hupVars, workVars
<1>4. CASE SpawnReload
  BY <1>4 DEF SpawnReload, TypeOK, TrailSet, Pcs, fileVars, bootVars, hupVars, store
<1>5. CASE StartUpdate
  <2>1. dueNow' \in BOOLEAN BY <1>5 DEF StartUpdate
  <2>2. updates' \in Nat BY <1>5 DEF StartUpdate, TypeOK
  <2> QED BY <1>5, <2>1, <2>2 DEF StartUpdate, TypeOK, Pcs, fileVars, hupVars,
             pollVars, store, workVars
<1>6. CASE EndUpdate
  BY <1>6, FileTypes DEF EndUpdate, TypeOK, Pcs, bootVars, hupVars, pollVars, store, workVars
<1>7. CASE SkipUpdate
  BY <1>7 DEF SkipUpdate, TypeOK, Pcs, fileVars, bootVars, hupVars, pollVars, store, workVars
<1>8. CASE Poll
  BY <1>8 DEF Poll, TypeOK, TrailSet, Pcs, fileVars, bootVars, store, workVars
<1>9. CASE Load
  BY <1>9 DEF Load, TypeOK, TrailSet, Pcs, fileVars, bootVars, hupVars, store, workVars
<1>10. CASE Reject
  BY <1>10 DEF Reject, TypeOK, Pcs, fileVars, bootVars, hupVars, pollVars, store, workVars
<1>11. CASE Accept
  BY <1>11 DEF Accept, TypeOK, TrailSet, Pcs, fileVars, bootVars, hupVars, pollVars, store, workVars
<1>12. CASE PublishDb
  BY <1>12 DEF PublishDb, TypeOK, Pcs, fileVars, bootVars, hupVars, pollVars, workVars
<1>13. CASE PublishGeneration
  BY <1>13 DEF PublishGeneration, TypeOK, Pcs, fileVars, bootVars, hupVars, pollVars, workVars
<1>14. CASE Sighup
  BY <1>14 DEF Sighup, TypeOK, fileVars, bootVars, pollVars, store, workVars
<1>15. ASSUME NEW w \in Workers, Worker(w) PROVE TypeOK'
  <2>1. CASE RefreshStale(w)
    BY <2>1 DEF RefreshStale, TypeOK, fileVars, bootVars, hupVars, pollVars, store
  <2>2. CASE SnapshotGeneration(w)
    BY <2>2 DEF SnapshotGeneration, TypeOK, fileVars, bootVars, hupVars, pollVars, store
  <2>3. CASE SnapshotDb(w)
    BY <2>3 DEF SnapshotDb, TypeOK, fileVars, bootVars, hupVars, pollVars, store
  <2> QED BY <1>15, <2>1, <2>2, <2>3 DEF Worker
<1>16. CASE UNCHANGED vars
  BY <1>16 DEF TypeOK, vars, fileVars, bootVars, hupVars, pollVars, store, workVars
<1> QED BY <1>1, <1>2, <1>3, <1>4, <1>5, <1>6, <1>7, <1>8, <1>9, <1>10, <1>11,
           <1>12, <1>13, <1>14, <1>15, <1>16 DEF Next, Boot, ReloadThread

(* Steps that touch neither the store nor a worker keep the rest, as long  *)
(* as they do not fall back to the start or out of a publish().            *)
LEMMA Elsewhere ==
  ASSUME ViewInv, UNCHANGED store, UNCHANGED workVars,
         pc' \in {"boot", "bootload", "spawn", "exited"} =>
           pc \in {"boot", "bootload", "spawn", "exited"},
         pc = "bump" => pc' = "bump"
  PROVE  NotSpawned' /\ GenerationsBehind' /\ ViewCoherent'
BY DEF ViewInv, NotSpawned, GenerationsBehind, ViewCoherent, store, workVars

LEMMA StepCoherent ==
  ViewInv /\ [Next]_vars => NotSpawned' /\ GenerationsBehind' /\ ViewCoherent'
<1> SUFFICES ASSUME ViewInv, [Next]_vars
             PROVE  NotSpawned' /\ GenerationsBehind' /\ ViewCoherent'
  OBVIOUS
<1>1. CASE Someone \/ BootRefresh \/ StartUpdate \/ EndUpdate \/ SkipUpdate \/ Poll
           \/ Load \/ Reject \/ Accept \/ Sighup
  BY <1>1, Elsewhere DEF Someone, BootRefresh, StartUpdate, EndUpdate, SkipUpdate,
     Poll, Load, Reject, Accept, Sighup
<1>2. CASE BootLoad
  <2>1. /\ \A w \in Workers : wpc'[w] = "off"
        /\ generation' = generation /\ seenGen' = seenGen /\ view' = view
    BY <1>2 DEF BootLoad, workVars, ViewInv, NotSpawned
  <2> QED BY <2>1 DEF NotSpawned, GenerationsBehind, ViewCoherent, ViewInv
<1>3. CASE SpawnReload
  <2>1. /\ \A w \in Workers : wpc'[w] = "gen"
        /\ generation' = generation /\ seenGen' = seenGen /\ view' = view
        /\ pc' = "tick"
    BY <1>3 DEF SpawnReload, store
  <2> QED BY <2>1 DEF NotSpawned, GenerationsBehind, ViewCoherent, ViewInv
<1>4. CASE PublishDb
  BY <1>4 DEF PublishDb, workVars, NotSpawned, GenerationsBehind, ViewCoherent, ViewInv
<1>5. CASE PublishGeneration
  <2>1. /\ generation' = generation + 1 /\ pc' = "tick"
        /\ wpc' = wpc /\ seenGen' = seenGen /\ view' = view
    BY <1>5 DEF PublishGeneration, workVars
  <2>2. \A w \in Workers : /\ view[w].gen \in Nat /\ seenGen[w] \in Nat
                           /\ view[w].gen <= generation /\ seenGen[w] <= generation
    BY DEF ViewInv, TypeOK, GenerationsBehind
  <2>3. generation \in Nat BY DEF ViewInv, TypeOK
  <2> QED BY <2>1, <2>2, <2>3 DEF NotSpawned, GenerationsBehind, ViewCoherent
<1>6. ASSUME NEW w \in Workers, Worker(w)
      PROVE  NotSpawned' /\ GenerationsBehind' /\ ViewCoherent'
  <2>1. /\ pc' = pc /\ current' = current /\ generation' = generation
    BY <1>6 DEF Worker, RefreshStale, SnapshotGeneration, SnapshotDb, store
  <2>2. pc \notin {"boot", "bootload", "spawn", "exited"}
    BY <1>6 DEF Worker, RefreshStale, SnapshotGeneration, SnapshotDb, ViewInv, NotSpawned
  <2>3. NotSpawned' BY <2>1, <2>2 DEF NotSpawned
  <2>4. generation \in Nat /\ wpc \in [Workers -> {"off", "run", "gen", "db"}]
        /\ seenGen \in [Workers -> Nat]
        /\ view \in [Workers -> [gen : Nat, db : TrailSet]]
    BY DEF ViewInv, TypeOK
  <2>5. GenerationsBehind'
    BY <1>6, <2>1, <2>4 DEF Worker, RefreshStale, SnapshotGeneration, SnapshotDb,
       ViewInv, GenerationsBehind
  <2>6. ViewCoherent'
    BY <1>6, <2>1, <2>4 DEF Worker, RefreshStale, SnapshotGeneration, SnapshotDb,
       ViewInv, ViewCoherent
  <2> QED BY <2>3, <2>5, <2>6
<1>7. CASE UNCHANGED vars
  BY <1>7, Elsewhere DEF vars
<1> QED BY <1>1, <1>2, <1>3, <1>4, <1>5, <1>6, <1>7 DEF Next, Boot, ReloadThread

-----------------------------------------------------------------------------
(* A worker that finds the store's generation in its own view - the test   *)
(* that lets refresh() return without a lock - uses the store's trail set. *)
THEOREM SpecViewCoherent == Spec => []ViewCoherent
<1>1. ViewInv /\ [Next]_vars => ViewInv'
  BY StepTypeOK, StepCoherent DEF ViewInv
<1>2. ViewInv => ViewCoherent BY DEF ViewInv
<1> QED BY InitViewInv, <1>1, <1>2, PTL DEF Spec

(* Type correctness of the reload path.                                    *)
THEOREM SpecReloadTypeOK == Spec => []TypeOK
<1>1. ViewInv /\ [Next]_vars => ViewInv'
  BY StepTypeOK, StepCoherent DEF ViewInv
<1>2. ViewInv => TypeOK BY DEF ViewInv
<1> QED BY InitViewInv, <1>1, <1>2, PTL DEF Spec
-----------------------------------------------------------------------------
(* What ties the floor to the set being served: the metric it is taken from *)
(* is that set's size, except while an accepted set waits to be published; *)
(* that one has passed the floor of the set it is going to replace.        *)
FloorInv ==
  /\ pc \in {"boot", "bootload"} => current = NoFile
  /\ pc # "publish" => trailCount = current.count
  /\ pc = "publish" => /\ trailCount = loaded.count
                       /\ RatioNum > 0 => loaded.count >= Floor(current.count)

LEMMA FloorOfNone == Floor(0) = 0
BY ReloadAssumption DEF Floor

LEMMA StepFloorInv == TypeOK /\ FloorInv /\ [Next]_vars => FloorInv'
<1> SUFFICES ASSUME TypeOK, FloorInv, [Next]_vars PROVE FloorInv' OBVIOUS
<1>1. CASE Someone \/ Sighup \/ (\E w \in Workers : Worker(w)) \/ UNCHANGED vars
  <2>1. UNCHANGED <<pc, current, trailCount, loaded>>
    BY <1>1 DEF Someone, Sighup, Worker, RefreshStale, SnapshotGeneration, SnapshotDb,
       vars, pollVars, store
  <2> QED BY <2>1 DEF FloorInv
<1>2. CASE BootRefresh
  BY <1>2 DEF BootRefresh, FloorInv, pollVars, store
<1>3. CASE BootLoad
  BY <1>3 DEF BootLoad, FloorInv, NoFile
<1>4. CASE SpawnReload
  BY <1>4 DEF SpawnReload, FloorInv, store
<1>5. CASE StartUpdate \/ EndUpdate \/ SkipUpdate
  BY <1>5 DEF StartUpdate, EndUpdate, SkipUpdate, FloorInv, pollVars, store
<1>6. CASE Poll \/ Load \/ Reject
  BY <1>6 DEF Poll, Load, Reject, FloorInv, pollVars, store
<1>7. CASE Accept
  <2>1. /\ pc = "decide" /\ pc' = "publish" /\ ~BelowFloor
        /\ trailCount' = loaded.count /\ loaded' = loaded /\ current' = current
    BY <1>7 DEF Accept, pollVars, store
  <2>2. trailCount = current.count /\ trailCount \in Nat
    BY <2>1 DEF FloorInv, TypeOK
  <2>3. loaded.count \in Nat BY DEF TypeOK, TrailSet
  <2>4. ASSUME RatioNum > 0 PROVE loaded.count >= Floor(current.count)
    <3>1. CASE trailCount = 0 BY <2>2, <2>3, <3>1, FloorOfNone
    <3>2. CASE trailCount > 0
      <4>1. Floor(trailCount) \in Int
        <5>1. trailCount * RatioNum \in Int BY <2>2, ReloadAssumption
        <5> QED BY <5>1, ReloadAssumption DEF Floor
      <4> QED BY <2>1, <2>2, <2>3, <2>4, <3>2, <4>1 DEF BelowFloor
    <3> QED BY <2>2, <3>1, <3>2
  <2>5. (RatioNum > 0 => loaded.count >= Floor(current.count))'
    BY <2>1, <2>4 DEF Floor
  <2> QED BY <2>1, <2>5 DEF FloorInv
<1>8. CASE PublishDb
  BY <1>8 DEF PublishDb, FloorInv, pollVars
<1>9. CASE PublishGeneration
  BY <1>9 DEF PublishGeneration, FloorInv, pollVars
<1> QED BY <1>1, <1>2, <1>3, <1>4, <1>5, <1>6, <1>7, <1>8, <1>9
        DEF Next, Boot, ReloadThread

(* TRAIL_RELOAD_MIN_RATIO protects the set the workers use, although the   *)
(* reload thread compares with a metric: whatever is written to the file,  *)
(* and whenever, the set being served is never replaced by one below its   *)
(* floor.                                                                  *)
THEOREM SpecFloorOnServed == Spec => FloorOnServed
<1>1. Init => FloorInv BY DEF Init, FloorInv, NoFile
<1>2. TypeOK /\ FloorInv /\ [Next]_vars =>
        [(current # NoFile /\ current' # current /\ RatioNum > 0)
           => current'.count >= Floor(current.count)]_vars
  <2> SUFFICES ASSUME TypeOK, FloorInv, [Next]_vars, current # NoFile,
                      current' # current, RatioNum > 0
               PROVE  current'.count >= Floor(current.count)
    OBVIOUS
  <2>1. BootLoad \/ PublishDb
    BY DEF Next, Boot, ReloadThread, Someone, Sighup, Worker, RefreshStale, SnapshotGeneration,
       SnapshotDb, BootRefresh, SpawnReload, StartUpdate, EndUpdate, SkipUpdate, Poll, Load,
       Reject, Accept, PublishGeneration, vars, store
  <2>2. ~BootLoad BY DEF BootLoad, FloorInv
  <2> QED BY <2>1, <2>2 DEF PublishDb, FloorInv
<1> QED BY <1>1, <1>2, StepFloorInv, SpecReloadTypeOK, PTL DEF Spec, FloorOnServed

-----------------------------------------------------------------------------
(* The smallest and the largest of some numbers.                           *)
LEMMA MinIn ==
  ASSUME NEW S \in SUBSET Nat, S # {}
  PROVE  Min(S) \in S /\ \A y \in S : Min(S) <= y
<1> DEFINE R == {ss \in Nat \X Nat : ss[1] < ss[2]}
<1>1. IsWellFoundedOn(R, Nat) BY NatLessThanWellFounded, Zenon DEF OpToRel
<1>2. PICK x \in S : \A y \in S : <<y, x>> \notin R BY <1>1, WFMin
<1>3. \A y \in S : x <= y
  <2> SUFFICES ASSUME NEW y \in S, ~(x <= y) PROVE FALSE OBVIOUS
  <2>1. y < x /\ y \in Nat /\ x \in Nat OBVIOUS
  <2>2. <<y, x>> \in R BY <2>1
  <2> QED BY <1>2, <2>2
<1>4. \E z \in S : \A y \in S : z <= y BY <1>3
<1> QED BY <1>4 DEF Min

(* Induction: a set that has 0, and with a number the next one.            *)
LEMMA UpTo ==
  ASSUME NEW n \in Nat, NEW P, 0 \in P, \A i \in 1 .. n : i - 1 \in P => i \in P
  PROVE  \A i \in 0 .. n : i \in P
<1> DEFINE bad == {i \in 0 .. n : i \notin P}
<1> SUFFICES ASSUME bad # {} PROVE FALSE OBVIOUS
<1>1. bad \in SUBSET Nat OBVIOUS
<1>2. PICK m \in bad : \A y \in bad : m <= y BY <1>1, MinIn
<1>3. m # 0 OBVIOUS
<1>4. m \in 1 .. n /\ m - 1 \in 0 .. n /\ ~(m <= m - 1) BY <1>3
<1>5. m - 1 \in P BY <1>2, <1>4
<1> QED BY <1>4, <1>5

Lockstep(f, g, n) == f[0] = g[0] /\ \A i \in 1 .. n : f[i - 1] = g[i - 1] => f[i] = g[i]

(* Two functions that start alike and step alike end alike.                *)
LEMMA Agree ==
  ASSUME NEW n \in Nat, NEW f, NEW g, Lockstep(f, g, n)
  PROVE  f[n] = g[n]
<1> DEFINE P == {i \in 0 .. n : f[i] = g[i]}
<1>1. 0 \in P BY DEF Lockstep
<1>2. \A i \in 1 .. n : i - 1 \in P => i \in P BY DEF Lockstep
<1> HIDE DEF P
<1>3. \A i \in 0 .. n : i \in P BY <1>1, <1>2, UpTo
<1>4. n \in P BY <1>3
<1> QED BY <1>4 DEF P

(* The largest of some numbers up to n is one of them.                     *)
LEMMA MaxIn ==
  ASSUME NEW n \in Nat, NEW S \in SUBSET (0..n), S # {}
  PROVE  Max(S) \in S /\ \A y \in S : y <= Max(S)
<1> DEFINE T == {n - y : y \in S}
<1>0. \A y \in S : y \in Nat /\ y <= n /\ n - y \in Nat OBVIOUS
<1>1. T \in SUBSET Nat /\ T # {} BY <1>0
<1>2. PICK z \in T : \A y \in T : z <= y BY <1>1, MinIn
<1>3. PICK x \in S : z = n - x OBVIOUS
<1>4. ASSUME NEW y \in S PROVE y <= x
  <2>1. n - y \in T OBVIOUS
  <2>2. n - x <= n - y BY <1>2, <1>3, <2>1
  <2> QED BY <2>2
<1>5. \E w \in S : \A y \in S : w >= y BY <1>4
<1> QED BY <1>5 DEF Max

(* The larger of two numbers, and the smaller.                             *)
LEMMA MaxOfTwo ==
  ASSUME NEW a \in Nat, NEW b \in Nat
  PROVE  Max({a, b}) \in Nat /\ Max({a, b}) >= a /\ Max({a, b}) >= b
<1>1. CASE a <= b
  <2>1. {a, b} \in SUBSET (0..b) /\ {a, b} # {} BY <1>1
  <2> QED BY <2>1, MaxIn
<1>2. CASE b <= a
  <2>1. {a, b} \in SUBSET (0..a) /\ {a, b} # {} BY <1>2
  <2> QED BY <2>1, MaxIn
<1> QED BY <1>1, <1>2

LEMMA MinOfTwo ==
  ASSUME NEW a \in Nat, NEW b \in Nat
  PROVE  Min({a, b}) = IF a <= b THEN a ELSE b
<1>1. {a, b} \in SUBSET Nat /\ {a, b} # {} OBVIOUS
<1>2. Min({a, b}) \in {a, b} /\ \A y \in {a, b} : Min({a, b}) <= y BY <1>1, MinIn
<1> QED BY <1>2

-----------------------------------------------------------------------------
(* A key the table can hash.                                               *)
IsKey(key) == HashOf(key) \in 0 .. HashRange - 1

IsSlots(slots, cap) == cap \in Nat \ {0, 1} /\ DOMAIN slots = 0 .. cap - 1

(* The probe of every key in the table ends where the key is, and every    *)
(* probe ends.                                                             *)
Sound(slots, cap) ==
  /\ IsSlots(slots, cap)
  /\ \A i \in Occupied(slots) : IsKey(slots[i].key) /\ Probe(slots, slots[i].key) = i
  /\ \E i \in DOMAIN slots : slots[i].val = Empty

(* What a table has under a key.                                           *)
Values(slots, key) == {slots[i].val : i \in {j \in Occupied(slots) : slots[j].key = key}}

Keys(slots) == {slots[i].key : i \in Occupied(slots)}

(* A table with slots 0 .. cap - 1 has cap of them.                        *)
LEMMA CardinalityOfSlots ==
  ASSUME NEW slots, NEW cap, IsSlots(slots, cap)
  PROVE  Cardinality(DOMAIN slots) = cap /\ IsFiniteSet(DOMAIN slots)
<1>1. 0 \in Int /\ cap - 1 \in Int BY DEF IsSlots
<1>2. IsFiniteSet(0 .. cap - 1) /\ Cardinality(0 .. cap - 1) = cap
  BY <1>1, FS_Interval DEF IsSlots
<1> QED BY <1>2 DEF IsSlots

(* From its home slot a probe can get everywhere.                          *)
LEMMA Reaches ==
  ASSUME NEW cap \in Nat \ {0}, NEW key, IsKey(key)
  PROVE  /\ \A d \in Nat : At(key, d, cap) \in 0 .. cap - 1
         /\ \A i \in 0 .. cap - 1 : \E d \in 0 .. cap - 1 : At(key, d, cap) = i
<1>1. HashRange \in Nat \ {0} BY StoreAssumption
<1> DEFINE h == SlotOf(HashOf(key), cap)
<1>2. h \in Nat BY <1>1 DEF SlotOf, IsKey
<1>3. h < cap BY <1>1 DEF SlotOf, IsKey
<1>4. \A d \in Nat : At(key, d, cap) = (h + d) % cap BY DEF At
<1> HIDE DEF h
<1>5. ASSUME NEW i \in 0 .. cap - 1 PROVE \E d \in 0 .. cap - 1 : (h + d) % cap = i
  <2>1. CASE i >= h
    <3>1. i - h \in 0 .. cap - 1 /\ h + (i - h) = i BY <1>2, <1>3, <2>1
    <3>2. i % cap = i OBVIOUS
    <3> QED BY <3>1, <3>2
  <2>2. CASE i < h
    <3>1. cap + i - h \in 0 .. cap - 1 /\ h + (cap + i - h) = cap + i BY <1>2, <1>3, <2>2
    <3>2. (cap + i) % cap = i OBVIOUS
    <3> QED BY <3>1, <3>2
  <2> QED BY <1>2, <2>1, <2>2
<1>6. ASSUME NEW d \in Nat PROVE (h + d) % cap \in 0 .. cap - 1 BY <1>2
<1> QED BY <1>4, <1>5, <1>6

(* Where a probe ends, and that it ends.                                   *)
LEMMA ProbeEnds ==
  ASSUME NEW slots, NEW cap, IsSlots(slots, cap), NEW key, IsKey(key),
         \E i \in DOMAIN slots : slots[i].val = Empty
  PROVE  /\ Ends(slots, key) \in SUBSET Nat /\ Ends(slots, key) # {}
         /\ Min(Ends(slots, key)) \in Ends(slots, key)
         /\ \A d \in Ends(slots, key) : Min(Ends(slots, key)) <= d
         /\ Probe(slots, key) \in DOMAIN slots
         /\ slots[Probe(slots, key)].val = Empty \/ slots[Probe(slots, key)].key = key
<1>1. Cardinality(DOMAIN slots) = cap BY CardinalityOfSlots
<1>2. cap \in Nat \ {0} /\ DOMAIN slots = 0 .. cap - 1 BY DEF IsSlots
<1>3. Ends(slots, key) = {d \in 0 .. cap - 1 : slots[At(key, d, cap)].val = Empty
                                                \/ slots[At(key, d, cap)].key = key}
  BY <1>1 DEF Ends
<1>4. Ends(slots, key) \in SUBSET Nat BY <1>2, <1>3
<1>5. Ends(slots, key) # {}
  <2>1. PICK i \in 0 .. cap - 1 : slots[i].val = Empty BY <1>2
  <2>2. PICK d \in 0 .. cap - 1 : At(key, d, cap) = i BY <1>2, Reaches
  <2> QED BY <1>3, <2>1, <2>2
<1>6. /\ Min(Ends(slots, key)) \in Ends(slots, key)
      /\ \A d \in Ends(slots, key) : Min(Ends(slots, key)) <= d
  BY <1>4, <1>5, MinIn
<1>7. Probe(slots, key) = At(key, Min(Ends(slots, key)), cap) BY <1>1 DEF Probe
<1>8. Min(Ends(slots, key)) \in Nat BY <1>4, <1>6
<1>9. Probe(slots, key) \in 0 .. cap - 1 BY <1>2, <1>7, <1>8, Reaches
<1>10. slots[Probe(slots, key)].val = Empty \/ slots[Probe(slots, key)].key = key
  BY <1>3, <1>6, <1>7
<1> QED BY <1>2, <1>4, <1>5, <1>6, <1>9, <1>10

(* A probe ends at the first place it can end at.                          *)
LEMMA ProbeIs ==
  ASSUME NEW slots, NEW cap, IsSlots(slots, cap), NEW key, NEW d \in 0 .. cap - 1,
         d \in Ends(slots, key), \A e \in Ends(slots, key) : d <= e
  PROVE  Probe(slots, key) = At(key, d, cap)
<1>1. Cardinality(DOMAIN slots) = cap BY CardinalityOfSlots
<1>2. cap \in Nat \ {0} BY DEF IsSlots
<1>3. Ends(slots, key) \in SUBSET Nat BY <1>1, <1>2 DEF Ends
<1>4. Min(Ends(slots, key)) \in Ends(slots, key)
      /\ \A e \in Ends(slots, key) : Min(Ends(slots, key)) <= e
  BY <1>3, MinIn
<1>5. Min(Ends(slots, key)) = d BY <1>3, <1>4
<1> QED BY <1>1, <1>5 DEF Probe

(* A table finds what it has, and nothing else.                            *)
LEMMA ProbeFinds ==
  ASSUME NEW slots, NEW cap, Sound(slots, cap), NEW key, IsKey(key)
  PROVE  Values(slots, key) = IF slots[Probe(slots, key)].val # Empty
                              THEN {slots[Probe(slots, key)].val} ELSE {}
<1> DEFINE p == Probe(slots, key)
<1>1. p \in DOMAIN slots /\ (slots[p].val = Empty \/ slots[p].key = key)
  BY ProbeEnds DEF Sound
<1>2. \A i \in Occupied(slots) : slots[i].key = key => i = p BY DEF Sound
<1> HIDE DEF p
<1>3. CASE slots[p].val # Empty
  <2>1. p \in Occupied(slots) /\ slots[p].key = key BY <1>1, <1>3 DEF Occupied
  <2>2. {j \in Occupied(slots) : slots[j].key = key} = {p} BY <1>2, <2>1
  <2> QED BY <1>3, <2>2 DEF Values, p
<1>4. CASE slots[p].val = Empty
  <2>1. p \notin Occupied(slots) BY <1>4 DEF Occupied
  <2>2. {j \in Occupied(slots) : slots[j].key = key} = {} BY <1>2, <2>1
  <2> QED BY <1>4, <2>2 DEF Values, p
<1> QED BY <1>3, <1>4

(* insert() at the place a probe has found.                                *)
LEMMA PutValues ==
  ASSUME NEW slots, NEW cap, Sound(slots, cap), NEW key, IsKey(key), NEW val, val # Empty,
         NEW z, z = Put(slots, key, val)
  PROVE  /\ IsSlots(z, cap)
         /\ Occupied(z) = Occupied(slots) \cup {Probe(slots, key)}
         /\ \A i \in Occupied(z) : IsKey(z[i].key) /\ Probe(z, z[i].key) = i
         /\ Values(z, key) = {val}
         /\ \A q : q # key => Values(z, q) = Values(slots, q)
         /\ Keys(z) = Keys(slots) \cup {key}
<1> DEFINE p == Probe(slots, key)
<1>1. cap \in Nat \ {0, 1} /\ DOMAIN slots = 0 .. cap - 1 BY DEF Sound, IsSlots
<1>2. p \in DOMAIN slots /\ (slots[p].val = Empty \/ slots[p].key = key)
  BY ProbeEnds DEF Sound
<1>3. \A i \in Occupied(slots) : slots[i].key = key => i = p BY DEF Sound
<1>4. /\ DOMAIN z = DOMAIN slots /\ z[p].key = key /\ z[p].val = val
      /\ \A i \in DOMAIN slots : i # p => z[i] = slots[i]
  BY <1>2 DEF Put
<1>0. p = Probe(slots, key) OBVIOUS
<1> HIDE DEF p
<1>5. IsSlots(z, cap) BY <1>1, <1>4 DEF IsSlots
<1>6. Occupied(z) = Occupied(slots) \cup {p}
  <2>1. p \in Occupied(z) BY <1>2, <1>4 DEF Occupied
  <2>2. \A i \in DOMAIN slots : i # p => (i \in Occupied(z) <=> i \in Occupied(slots))
    BY <1>4 DEF Occupied
  <2>3. Occupied(z) \subseteq DOMAIN slots /\ Occupied(slots) \subseteq DOMAIN slots
    BY <1>4 DEF Occupied
  <2> QED BY <1>2, <2>1, <2>2, <2>3
<1>7. \A q \in DOMAIN z : z[q].val = Empty \/ z[q].key = key
                            <=> slots[q].val = Empty \/ slots[q].key = key
  BY <1>2, <1>4
<1>8. Cardinality(DOMAIN slots) = cap /\ Cardinality(DOMAIN z) = cap
  BY <1>5, CardinalityOfSlots DEF Sound
<1>9. Probe(z, key) = p
  <2>1. Ends(z, key) = Ends(slots, key)
    <3>0. \A d \in Nat : At(key, d, cap) \in 0 .. cap - 1 BY <1>1, Reaches
    <3>1. \A d \in 0 .. cap - 1 : At(key, d, cap) \in DOMAIN z BY <1>1, <1>4, <3>0
    <3>2. \A d \in 0 .. cap - 1 : d \in Ends(z, key) <=> d \in Ends(slots, key)
      BY <1>7, <1>8, <3>1 DEF Ends
    <3> QED BY <1>8, <3>2 DEF Ends
  <2> QED BY <1>0, <1>8, <2>1 DEF Probe
<1>10. ASSUME NEW i \in Occupied(slots), i # p
       PROVE  IsKey(z[i].key) /\ Probe(z, z[i].key) = i
  <2> DEFINE q == slots[i].key
             d == Min(Ends(slots, q))
  <2>1. i \in DOMAIN slots /\ z[i] = slots[i] /\ q # key BY <1>3, <1>4, <1>10 DEF Occupied
  <2>2. IsKey(q) /\ Probe(slots, q) = i BY DEF Sound
  <2>3. d \in Ends(slots, q) /\ \A e \in Ends(slots, q) : d <= e
    BY <2>2, ProbeEnds DEF Sound
  <2>4. At(q, d, cap) = i BY <1>8, <2>2 DEF Probe
  <2> HIDE DEF q, d
  <2>5. d \in 0 .. cap - 1 /\ (slots[i].val = Empty \/ slots[i].key = q)
    BY <1>8, <2>3, <2>4 DEF Ends
  <2>6. d \in Ends(z, q) BY <1>8, <2>1, <2>4, <2>5 DEF Ends
  <2>7. ASSUME NEW e \in Ends(z, q) PROVE e \in Ends(slots, q)
    <3>1. e \in 0 .. cap - 1 /\ (z[At(q, e, cap)].val = Empty \/ z[At(q, e, cap)].key = q)
      BY <1>8 DEF Ends
    <3>2. At(q, e, cap) # p BY <1>4, <2>1, <3>1
    <3>3. At(q, e, cap) \in DOMAIN slots BY <1>1, <2>2, <3>1, Reaches
    <3>4. slots[At(q, e, cap)].val = Empty \/ slots[At(q, e, cap)].key = q
      BY <1>4, <3>1, <3>2, <3>3
    <3> QED BY <1>8, <3>1, <3>4 DEF Ends
  <2>8. Probe(z, q) = At(q, d, cap) BY <1>5, <2>3, <2>5, <2>6, <2>7, ProbeIs
  <2> QED BY <2>1, <2>2, <2>4, <2>8 DEF q
<1>11. \A i \in Occupied(z) : IsKey(z[i].key) /\ Probe(z, z[i].key) = i
  BY <1>4, <1>6, <1>9, <1>10
<1>12. Values(z, key) = {val}
  <2>1. {j \in Occupied(z) : z[j].key = key} = {p}
    <3>1. p \in Occupied(z) /\ z[p].key = key BY <1>4, <1>6
    <3>2. \A j \in Occupied(z) : z[j].key = key => j = p BY <1>9, <1>11
    <3> QED BY <3>1, <3>2
  <2> QED BY <1>4, <2>1 DEF Values
<1>13. ASSUME NEW q, q # key PROVE Values(z, q) = Values(slots, q)
  <2>1. \A j : j \in Occupied(z) /\ z[j].key = q
                 <=> j \in Occupied(slots) /\ slots[j].key = q
    <3> SUFFICES ASSUME NEW j
                 PROVE  j \in Occupied(z) /\ z[j].key = q
                          <=> j \in Occupied(slots) /\ slots[j].key = q
      OBVIOUS
    <3>1. CASE j = p
      <4>1. slots[p].val = Empty \/ slots[p].key # q BY <1>2, <1>13
      <4> QED BY <1>4, <1>13, <3>1, <4>1 DEF Occupied
    <3>2. CASE j # p BY <1>4, <1>6, <3>2 DEF Occupied
    <3> QED BY <3>1, <3>2
  <2>2. {j \in Occupied(z) : z[j].key = q} = {j \in Occupied(slots) : slots[j].key = q}
    BY <2>1
  <2>3. \A j \in {k \in Occupied(z) : z[k].key = q} : z[j].val = slots[j].val
    <3>1. \A j \in Occupied(z) : z[j].key = q => j # p BY <1>4, <1>13
    <3>2. \A j \in Occupied(z) : j # p => z[j] = slots[j] BY <1>4 DEF Occupied
    <3> QED BY <3>1, <3>2
  <2> QED BY <2>2, <2>3 DEF Values
<1>14. Keys(z) = Keys(slots) \cup {key}
  <2>1. \A i \in Occupied(slots) : z[i].key = slots[i].key
    BY <1>2, <1>4 DEF Occupied
  <2> QED BY <1>4, <1>6, <2>1 DEF Keys
<1> QED BY <1>0, <1>5, <1>6, <1>11, <1>12, <1>13, <1>14

(* The slots of a larger table, filled one old slot at a time.             *)
Rehashing(f, old, cap, last) ==
  f[0] = EmptySlots(cap) /\ \A n \in 1 .. last : f[n] = IF old[n - 1].val = Empty THEN f[n - 1]
         ELSE Put(f[n - 1], old[n - 1].key, old[n - 1].val)

(* The slots of a larger table are reached one old slot at a time. (A      *)
(* recursive function is what its definition says because one exists: by   *)
(* induction on how far it is defined. The same argument gives InternRuns, *)
(* OfferRuns, InsertRuns, ParseRuns, BatchRuns and CutsRun.)               *)
LEMMA RehashRuns ==
  ASSUME NEW old, NEW cap, Cardinality(DOMAIN old) \in Nat
  PROVE  \E f : /\ Rehashing(f, old, cap, Cardinality(DOMAIN old))
                /\ Rehashed(old, cap) = f[Cardinality(DOMAIN old)]
<1> DEFINE base == EmptySlots(cap)
           top == Cardinality(DOMAIN old)
           Step(x, n) == IF old[n - 1].val = Empty THEN x
                       ELSE Put(x, old[n - 1].key, old[n - 1].val)
           To(f, n) == IF n = 0 THEN base ELSE Step(f[n - 1], n)
           Def(f, m) == f = [n \in 0 .. m |-> To(f, n)]
           has == {m \in 0 .. top : \E f : Def(f, m)}
<1>1. top \in Nat OBVIOUS
<1>2. Rehashed(old, cap) = (CHOOSE f : Def(f, top))[top] BY DEF Rehashed
<1> HIDE DEF base, top, Step
<1>3. 0 \in has
  <2> DEFINE f == [n \in 0 .. 0 |-> base]
  <2>1. \A n \in 0 .. 0 : To(f, n) = base OBVIOUS
  <2> HIDE DEF To
  <2>2. Def(f, 0) BY <2>1
  <2> QED BY <1>1, <2>2
<1>4. ASSUME NEW m \in 1 .. top, m - 1 \in has PROVE m \in has
  <2>1. PICK f : Def(f, m - 1) BY <1>4
  <2> DEFINE g == [n \in 0 .. m |-> IF n = m THEN Step(f[m - 1], m) ELSE f[n]]
  <2>2. \A n \in 0 .. m - 1 : f[n] = To(f, n) BY <2>1
  <2>3. ASSUME NEW n \in 0 .. m PROVE g[n] = To(g, n)
    <3>1. CASE n = m
      <4>1. m - 1 \in 0 .. m /\ m - 1 # m BY <1>1
      <4>2. g[m - 1] = f[m - 1] BY <4>1
      <4>3. g[m] = Step(f[m - 1], m) BY <1>1
      <4> QED BY <3>1, <4>2, <4>3
    <3>2. CASE n # m
      <4>1. n \in 0 .. m - 1 BY <1>1, <3>2
      <4>2. n # 0 => n - 1 \in 0 .. m /\ n - 1 # m BY <1>1, <3>2
      <4>3. n # 0 => g[n - 1] = f[n - 1] BY <4>2
      <4>4. g[n] = f[n] BY <3>2
      <4> QED BY <2>2, <4>1, <4>3, <4>4
    <3> QED BY <3>1, <3>2
  <2>4. g = [n \in 0 .. m |-> g[n]] OBVIOUS
  <2> HIDE DEF g, To
  <2>5. Def(g, m) BY <2>3, <2>4
  <2> QED BY <1>1, <2>5
<1> HIDE DEF has
<1>5. \A m \in 0 .. top : m \in has BY <1>1, <1>3, <1>4, UpTo
<1>0. top \in has BY <1>1, <1>5
<1>11. \E h : Def(h, top) BY <1>0 DEF has
<1> DEFINE f == CHOOSE f : Def(f, top)
<1>6. Def(f, top) BY <1>11
<1> HIDE DEF f
<1>7. \A n \in 0 .. top : f[n] = To(f, n) BY <1>6
<1>8. f[0] = base /\ \A n \in 1 .. top : f[n] = Step(f[n - 1], n) BY <1>1, <1>7
<1>9. Rehashed(old, cap) = f[top] BY <1>2 DEF f
<1>10. Rehashing(f, old, cap, Cardinality(DOMAIN old)) BY <1>8 DEF Rehashing, base, top, Step
<1> QED BY <1>9, <1>10 DEF top

(* The occupied slots can be counted, and are all only if as many.         *)
LEMMA OccupiedFinite ==
  ASSUME NEW slots, NEW cap, IsSlots(slots, cap)
  PROVE  /\ Occupied(slots) \subseteq DOMAIN slots /\ IsFiniteSet(Occupied(slots))
         /\ Cardinality(Occupied(slots)) \in Nat
<1>1. IsFiniteSet(DOMAIN slots) BY CardinalityOfSlots
<1>2. Occupied(slots) \subseteq DOMAIN slots BY DEF Occupied
<1>3. IsFiniteSet(Occupied(slots)) BY <1>1, <1>2, FS_Subset
<1> QED BY <1>2, <1>3, FS_CardinalityType

(* An insert into a table with room for two leaves room for one.           *)
LEMMA PutSound ==
  ASSUME NEW slots, NEW cap, Sound(slots, cap), NEW key, IsKey(key), NEW val, val # Empty,
         Cardinality(Occupied(slots)) + 1 < cap, NEW z, z = Put(slots, key, val)
  PROVE  /\ Sound(z, cap)
         /\ Cardinality(Occupied(z)) = IF slots[Probe(slots, key)].val = Empty
                                       THEN Cardinality(Occupied(slots)) + 1
                                       ELSE Cardinality(Occupied(slots))
<1>1. IsSlots(slots, cap) /\ cap \in Nat BY DEF Sound, IsSlots
<1>2. Probe(slots, key) \in DOMAIN slots BY <1>1, ProbeEnds DEF Sound
<1>3. /\ IsSlots(z, cap) /\ Occupied(z) = Occupied(slots) \cup {Probe(slots, key)}
      /\ \A i \in Occupied(z) : IsKey(z[i].key) /\ Probe(z, z[i].key) = i
  BY PutValues
<1>4. IsFiniteSet(Occupied(slots)) /\ Cardinality(Occupied(slots)) \in Nat
  BY <1>1, OccupiedFinite
<1>5. Probe(slots, key) \in Occupied(slots) <=> slots[Probe(slots, key)].val # Empty
  BY <1>2 DEF Occupied
<1>6. Cardinality(Occupied(z)) = IF Probe(slots, key) \in Occupied(slots)
                                 THEN Cardinality(Occupied(slots))
                                 ELSE Cardinality(Occupied(slots)) + 1
  BY <1>3, <1>4, FS_AddElement
<1>7. Cardinality(Occupied(z)) < cap BY <1>1, <1>4, <1>6
<1>8. Cardinality(DOMAIN z) = cap BY <1>3, CardinalityOfSlots
<1>9. \E i \in DOMAIN z : z[i].val = Empty
  <2> SUFFICES ASSUME \A i \in DOMAIN z : z[i].val # Empty PROVE FALSE OBVIOUS
  <2>1. Occupied(z) = DOMAIN z BY DEF Occupied
  <2> QED BY <1>1, <1>7, <1>8, <2>1
<1>10. Sound(z, cap) BY <1>3, <1>9 DEF Sound
<1> QED BY <1>5, <1>6, <1>10

(* grow(): every key is in the larger table, with its value.               *)
LEMMA RehashSound ==
  ASSUME NEW old, NEW cap, Sound(old, cap), NEW new \in Nat, new > cap,
         NEW z, z = Rehashed(old, new)
  PROVE  /\ Sound(z, new)
         /\ Cardinality(Occupied(z)) = Cardinality(Occupied(old))
         /\ Keys(z) = Keys(old)
         /\ \A q : Values(z, q) = Values(old, q)
<1> DEFINE Before(n) == {i \in Occupied(old) : i < n}
           With(n, q) == {i \in Before(n) : old[i].key = q}
           Moved(x, n) ==
             /\ Sound(x, new)
             /\ Cardinality(Occupied(x)) = Cardinality(Before(n))
             /\ Keys(x) = {old[i].key : i \in Before(n)}
             /\ \A q : Values(x, q) = {old[i].val : i \in With(n, q)}
<1>1. IsSlots(old, cap) /\ cap \in Nat \ {0, 1} /\ DOMAIN old = 0 .. cap - 1
  BY DEF Sound, IsSlots
<1>2. Cardinality(DOMAIN old) = cap BY <1>1, CardinalityOfSlots
<1>0. PICK f : Rehashing(f, old, new, cap) /\ z = f[cap] BY <1>1, <1>2, RehashRuns
<1>3. /\ f[0] = EmptySlots(new)
      /\ \A n \in 1 .. cap : f[n] = IF old[n - 1].val = Empty THEN f[n - 1]
                                    ELSE Put(f[n - 1], old[n - 1].key, old[n - 1].val)
      /\ z = f[cap]
  BY <1>0 DEF Rehashing
<1>4. Moved(f[0], 0)
  <2>1. Before(0) = {} /\ \A q : With(0, q) = {} BY <1>1 DEF Occupied
  <2>2. /\ DOMAIN f[0] = 0 .. new - 1 /\ new \in Nat \ {0, 1}
        /\ \A i \in 0 .. new - 1 : f[0][i].val = Empty
    <3>1. f[0] = [i \in 0 .. new - 1 |-> EmptySlot] BY <1>3 DEF EmptySlots
    <3>2. new \in Nat \ {0, 1} BY <1>1
    <3>3. EmptySlot.val = Empty BY DEF EmptySlot
    <3> QED BY <3>1, <3>2, <3>3
  <2>3. Occupied(f[0]) = {} BY <2>2 DEF Occupied
  <2>4. Sound(f[0], new)
    <3>1. 0 \in DOMAIN f[0] BY <2>2
    <3> QED BY <2>2, <2>3, <3>1 DEF Sound, IsSlots
  <2>5. \A q : Values(f[0], q) = {} BY <2>3 DEF Values
  <2>6. Keys(f[0]) = {} BY <2>3 DEF Keys
  <2> HIDE DEF Before, With
  <2> QED BY <2>1, <2>3, <2>4, <2>5, <2>6
<1>5. ASSUME NEW n \in 1 .. cap, Moved(f[n - 1], n - 1) PROVE Moved(f[n], n)
  <2> DEFINE x == f[n - 1]
             k == old[n - 1].key
             v == old[n - 1].val
  <2>1. n - 1 \in DOMAIN old /\ n \in Nat BY <1>1
  <2>2. CASE old[n - 1].val = Empty
    <3>1. f[n] = x BY <1>3, <2>2
    <3>2. Before(n) = Before(n - 1) BY <1>1, <2>1, <2>2 DEF Occupied
    <3>3. \A q : With(n, q) = With(n - 1, q) BY <3>2
    <3> HIDE DEF Before, With
    <3> QED BY <1>5, <3>1, <3>2, <3>3
  <2>3. CASE old[n - 1].val # Empty
    <3>1. n - 1 \in Occupied(old) BY <2>1, <2>3 DEF Occupied
    <3>2. IsKey(k) /\ \A i \in Occupied(old) : old[i].key = k => i = n - 1
      BY <3>1 DEF Sound
    <3>3. f[n] = Put(x, k, v) BY <1>3, <2>3
    <3>4. Before(n) = Before(n - 1) \cup {n - 1} /\ n - 1 \notin Before(n - 1)
      BY <1>1, <2>1, <3>1 DEF Occupied
    <3>5. /\ With(n, k) = {n - 1}
          /\ \A q : q # k => With(n, q) = With(n - 1, q)
      BY <3>1, <3>2, <3>4
    <3>6. IsFiniteSet(Before(n - 1)) /\ Cardinality(Before(n - 1)) <= n - 1
      <4>1. Before(n - 1) \subseteq 0 .. (n - 1) - 1 BY <1>1, <2>1 DEF Occupied
      <4>2. IsFiniteSet(0 .. (n - 1) - 1) /\ Cardinality(0 .. (n - 1) - 1) = n - 1
        <5>1. 0 \in Int /\ (n - 1) - 1 \in Int BY <2>1
        <5>2. /\ IsFiniteSet(0 .. (n - 1) - 1)
              /\ Cardinality(0 .. (n - 1) - 1) = IF 0 > (n - 1) - 1 THEN 0 ELSE (n - 1) - 1 - 0 + 1
          BY <5>1, FS_Interval
        <5> QED BY <2>1, <5>2
      <4> HIDE DEF Before
      <4> QED BY <4>1, <4>2, FS_Subset
    <3>7. Cardinality(Before(n - 1)) \in Nat BY <3>6, FS_CardinalityType
    <3>8. Cardinality(Before(n)) = Cardinality(Before(n - 1)) + 1
      BY <3>4, <3>6, FS_AddElement
    <3> HIDE DEF Before, With
    <3>9. Sound(x, new) /\ Cardinality(Occupied(x)) + 1 < new
      BY <1>1, <1>5, <2>1, <3>6, <3>7
    <3>10. x[Probe(x, k)].val = Empty
      <4>1. Probe(x, k) \in DOMAIN x /\ (x[Probe(x, k)].val = Empty \/ x[Probe(x, k)].key = k)
        BY <3>2, <3>9, ProbeEnds DEF Sound
      <4> SUFFICES ASSUME x[Probe(x, k)].val # Empty PROVE FALSE OBVIOUS
      <4>2. Probe(x, k) \in Occupied(x) /\ x[Probe(x, k)].key = k BY <4>1 DEF Occupied
      <4>3. k \in Keys(x) BY <4>2 DEF Keys
      <4>4. PICK i \in Before(n - 1) : old[i].key = k BY <1>5, <4>3
      <4> QED BY <3>2, <3>4, <4>4 DEF Before
    <3>0. v # Empty BY <2>3
    <3> HIDE DEF x, k, v
    <3>11. /\ Sound(f[n], new)
           /\ Cardinality(Occupied(f[n])) = Cardinality(Occupied(x)) + 1
      BY <3>0, <3>2, <3>3, <3>9, <3>10, PutSound
    <3>12. /\ Values(f[n], k) = {v}
           /\ \A q : q # k => Values(f[n], q) = Values(x, q)
           /\ Keys(f[n]) = Keys(x) \cup {k}
      BY <3>0, <3>2, <3>3, <3>9, PutValues
    <3>13. Cardinality(Occupied(f[n])) = Cardinality(Before(n)) BY <1>5, <3>8, <3>11 DEF x
    <3>14. Keys(f[n]) = {old[i].key : i \in Before(n)}
      BY <1>5, <3>4, <3>12 DEF x, k
    <3>15. \A q : Values(f[n], q) = {old[i].val : i \in With(n, q)}
      <4> SUFFICES ASSUME NEW q PROVE Values(f[n], q) = {old[i].val : i \in With(n, q)}
        OBVIOUS
      <4>1. CASE q = k BY <3>5, <3>12, <4>1 DEF v
      <4>2. CASE q # k BY <1>5, <3>5, <3>12, <4>2 DEF x
      <4> QED BY <4>1, <4>2
    <3> QED BY <3>11, <3>13, <3>14, <3>15
  <2> QED BY <2>2, <2>3
<1> HIDE DEF Moved
<1>6. \A n \in 0 .. cap : Moved(f[n], n)
  <2> DEFINE bad == {n \in 0 .. cap : ~Moved(f[n], n)}
  <2> SUFFICES ASSUME bad # {} PROVE FALSE OBVIOUS
  <2>1. bad \in SUBSET Nat BY <1>1
  <2>2. PICK m \in 0 .. cap : ~Moved(f[m], m) /\ \A y \in bad : m <= y BY <2>1, MinIn
  <2>3. m # 0 BY <1>4, <2>2
  <2>4. m - 1 \in 0 .. cap /\ ~(m <= m - 1) /\ m \in 1 .. cap BY <1>1, <2>3
  <2>5. Moved(f[m - 1], m - 1) BY <2>2, <2>4
  <2> QED BY <1>5, <2>2, <2>4, <2>5
<1>7. Moved(z, cap) BY <1>1, <1>3, <1>6
<1>8. Before(cap) = Occupied(old) BY <1>1 DEF Occupied
<1>9. \A q : With(cap, q) = {j \in Occupied(old) : old[j].key = q} BY <1>8
<1> HIDE DEF Before, With
<1>10. Sound(z, new) /\ Cardinality(Occupied(z)) = Cardinality(Occupied(old))
  BY <1>7, <1>8 DEF Moved
<1>11. Keys(z) = Keys(old) BY <1>7, <1>8 DEF Moved, Keys
<1>12. \A q : Values(z, q) = {old[i].val : i \in With(cap, q)} BY <1>7 DEF Moved
<1>13. \A q : Values(old, q) = {old[i].val : i \in With(cap, q)} BY <1>9 DEF Values
<1> QED BY <1>10, <1>11, <1>12, <1>13

-----------------------------------------------------------------------------
(* A table that finds every key it has, and whose filter lets it through.  *)
GoodTable(t) ==
  /\ DOMAIN t = {"slots", "len", "bits", "set"}
  /\ Sound(t.slots, Capacity(t))
  /\ t.len = Cardinality(Occupied(t.slots))
  /\ \A key \in Keys(t.slots) : Positions(HashOf(key), t.bits) \subseteq t.set

(* get() answers what the table has.                                       *)
LEMMA GetIs ==
  ASSUME NEW t, GoodTable(t), NEW key, IsKey(key)
  PROVE  Get(t, key) = Values(t.slots, key)
<1> DEFINE at == Probe(t.slots, key)
<1>1. Sound(t.slots, Capacity(t)) BY DEF GoodTable
<1>2. Values(t.slots, key) = IF t.slots[at].val # Empty THEN {t.slots[at].val} ELSE {}
  BY <1>1, ProbeFinds
<1>3. at \in DOMAIN t.slots /\ (t.slots[at].val = Empty \/ t.slots[at].key = key)
  BY <1>1, ProbeEnds DEF Sound
<1>4. ASSUME t.slots[at].val # Empty PROVE MaybeContains(t, key)
  <2>1. at \in Occupied(t.slots) /\ t.slots[at].key = key BY <1>3, <1>4 DEF Occupied
  <2>2. key \in Keys(t.slots) BY <2>1 DEF Keys
  <2> QED BY <2>2 DEF GoodTable, MaybeContains
<1>5. Get(t, key) = IF MaybeContains(t, key) /\ t.slots[at].val # Empty
                    THEN {t.slots[at].val} ELSE {}
  BY DEF Get
<1> QED BY <1>2, <1>4, <1>5

(* An empty table is good and has nothing.                                 *)
LEMMA NewGood ==
  ASSUME NEW n \in Nat, NEW t, t = NewTable(n)
  PROVE  GoodTable(t) /\ \A q : Values(t.slots, q) = {}
<1> DEFINE cap == CapacityFor(n)
<1>1. cap \in Nat \ {0, 1}
  <2>1. MinSlots \in Nat \ {0, 1} BY StoreAssumption
  <2>2. (n * 10) \div 8 + 1 \in Nat OBVIOUS
  <2>3. cap \in Nat /\ cap >= MinSlots BY <2>1, <2>2, MaxOfTwo DEF CapacityFor
  <2> QED BY <2>1, <2>3
<1> HIDE DEF cap
<1>2. /\ DOMAIN t = {"slots", "len", "bits", "set"}
      /\ t.slots = EmptySlots(cap) /\ t.len = 0
  BY DEF NewTable, cap
<1>3. DOMAIN t.slots = 0 .. cap - 1 /\ \A i \in 0 .. cap - 1 : t.slots[i].val = Empty
  <2>1. EmptySlot.val = Empty BY DEF EmptySlot
  <2> QED BY <1>2, <2>1 DEF EmptySlots
<1>4. IsSlots(t.slots, cap) BY <1>1, <1>3 DEF IsSlots
<1>5. Capacity(t) = cap BY <1>4, CardinalityOfSlots DEF Capacity
<1>6. Occupied(t.slots) = {} BY <1>3 DEF Occupied
<1>7. 0 \in DOMAIN t.slots /\ t.slots[0].val = Empty BY <1>1, <1>3
<1>8. Sound(t.slots, cap) BY <1>4, <1>6, <1>7 DEF Sound
<1>9. Keys(t.slots) = {} BY <1>6 DEF Keys
<1>10. t.len = Cardinality(Occupied(t.slots)) BY <1>2, <1>6, FS_EmptySet
<1>11. GoodTable(t) BY <1>2, <1>5, <1>8, <1>9, <1>10 DEF GoodTable
<1> QED BY <1>6, <1>11 DEF Values

(* There is always an empty slot.                                          *)
LEMMA NeverFull ==
  ASSUME NEW slots, NEW cap, Sound(slots, cap)
  PROVE  Cardinality(Occupied(slots)) \in Nat /\ Cardinality(Occupied(slots)) < cap
<1>1. IsSlots(slots, cap) /\ cap \in Nat BY DEF Sound, IsSlots
<1>2. Cardinality(DOMAIN slots) = cap /\ IsFiniteSet(DOMAIN slots)
  BY <1>1, CardinalityOfSlots
<1>3. /\ Occupied(slots) \subseteq DOMAIN slots /\ IsFiniteSet(Occupied(slots))
      /\ Cardinality(Occupied(slots)) \in Nat
  BY <1>1, OccupiedFinite
<1>4. PICK i \in DOMAIN slots : slots[i].val = Empty BY DEF Sound
<1>5. i \notin Occupied(slots) BY <1>4 DEF Occupied
<1>6. Occupied(slots) # DOMAIN slots BY <1>4, <1>5
<1>7. Cardinality(Occupied(slots)) < Cardinality(DOMAIN slots)
  <2>1. /\ Cardinality(Occupied(slots)) <= Cardinality(DOMAIN slots)
        /\ Cardinality(Occupied(slots)) = Cardinality(DOMAIN slots) =>
             Occupied(slots) = DOMAIN slots
    BY <1>2, <1>3, FS_Subset
  <2> QED BY <1>1, <1>2, <1>3, <1>6, <2>1
<1> QED BY <1>2, <1>3, <1>7

(* insert() grows a table before it is full.                               *)
LEMMA RoomGood ==
  ASSUME NEW t, GoodTable(t), NEW z, z = WithRoom(t)
  PROVE  /\ GoodTable(z) /\ z.len + 1 < Capacity(z)
         /\ \A q : Values(z.slots, q) = Values(t.slots, q)
<1> DEFINE cap == Capacity(t)
<1>1. Sound(t.slots, cap) BY DEF GoodTable
<1>2. cap \in Nat \ {0, 1} BY <1>1 DEF Sound, IsSlots
<1>3. t.len \in Nat /\ t.len < cap BY <1>1, NeverFull DEF GoodTable
<1> HIDE DEF cap
<1>4. CASE (t.len + 1) * 100 > cap * 85
  <2> DEFINE new == LargerCapacity(t)
  <2>1. new \in Nat /\ new > cap
    <3>1. MinSlots \in Nat BY StoreAssumption
    <3>2. cap + cap \div 2 \in Nat /\ cap + cap \div 2 > cap BY <1>2
    <3>3. new = Max({cap + cap \div 2, MinSlots}) BY DEF LargerCapacity, cap
    <3>4. new \in Nat /\ new >= cap + cap \div 2 BY <3>1, <3>2, <3>3, MaxOfTwo
    <3> QED BY <1>2, <3>2, <3>4
  <2> HIDE DEF new
  <2>2. z = [t EXCEPT !.slots = Rehashed(t.slots, new)] BY <1>4 DEF WithRoom, Grow, new, cap
  <2>3. /\ DOMAIN z = {"slots", "len", "bits", "set"} /\ z.slots = Rehashed(t.slots, new)
        /\ z.len = t.len /\ z.bits = t.bits /\ z.set = t.set
    BY <2>2 DEF GoodTable
  <2>4. /\ Sound(z.slots, new)
        /\ Cardinality(Occupied(z.slots)) = Cardinality(Occupied(t.slots))
        /\ Keys(z.slots) = Keys(t.slots)
        /\ \A q : Values(z.slots, q) = Values(t.slots, q)
    BY <1>1, <2>1, <2>3, RehashSound
  <2>5. Capacity(z) = new BY <2>4, CardinalityOfSlots DEF Capacity, Sound
  <2>6. z.len = Cardinality(Occupied(z.slots)) BY <2>3, <2>4 DEF GoodTable
  <2>7. \A key \in Keys(z.slots) : Positions(HashOf(key), z.bits) \subseteq z.set
    BY <2>3, <2>4 DEF GoodTable
  <2>8. GoodTable(z) BY <2>3, <2>4, <2>5, <2>6, <2>7 DEF GoodTable
  <2>9. z.len + 1 < Capacity(z) BY <1>2, <1>3, <2>1, <2>3, <2>5
  <2> QED BY <2>4, <2>8, <2>9
<1>5. CASE ~((t.len + 1) * 100 > cap * 85)
  <2>1. z = t BY <1>5 DEF WithRoom, cap
  <2>2. (t.len + 1) * 100 <= cap * 85 BY <1>2, <1>3, <1>5
  <2>3. t.len + 1 < cap BY <1>2, <1>3, <2>2
  <2> QED BY <2>1, <2>3 DEF cap
<1> QED BY <1>4, <1>5

(* insert() keeps a table good and changes what it says of one key.        *)
LEMMA InsertGood ==
  ASSUME NEW t, GoodTable(t), NEW key, IsKey(key), NEW val, val # Empty,
         NEW z, z = Insert(t, key, val)
  PROVE  /\ GoodTable(z)
         /\ Values(z.slots, key) = {val}
         /\ \A q : q # key => Values(z.slots, q) = Values(t.slots, q)
<1> DEFINE r == WithRoom(t)
           cap == Capacity(r)
<1>1. /\ GoodTable(r) /\ r.len + 1 < cap
      /\ \A q : Values(r.slots, q) = Values(t.slots, q)
  BY RoomGood
<1>2. z = Stored(r, key, val) BY DEF Insert
<1> HIDE DEF r
<1>3. /\ DOMAIN z = {"slots", "len", "bits", "set"} /\ z.slots = Put(r.slots, key, val)
      /\ z.len = IF r.slots[Probe(r.slots, key)].val = Empty THEN r.len + 1 ELSE r.len
      /\ z.bits = r.bits /\ z.set = r.set \cup Positions(HashOf(key), r.bits)
  BY <1>1, <1>2 DEF GoodTable, Stored
<1>4. Sound(r.slots, cap) /\ r.len = Cardinality(Occupied(r.slots)) BY <1>1 DEF GoodTable
<1> HIDE DEF cap
<1>5. /\ Sound(z.slots, cap)
      /\ Cardinality(Occupied(z.slots)) = IF r.slots[Probe(r.slots, key)].val = Empty
                                          THEN Cardinality(Occupied(r.slots)) + 1
                                          ELSE Cardinality(Occupied(r.slots))
  BY <1>1, <1>3, <1>4, PutSound
<1>6. /\ Values(z.slots, key) = {val}
      /\ \A q : q # key => Values(z.slots, q) = Values(r.slots, q)
      /\ Keys(z.slots) = Keys(r.slots) \cup {key}
  BY <1>3, <1>4, PutValues
<1>7. Capacity(z) = cap BY <1>5, CardinalityOfSlots DEF Capacity, Sound
<1>8. z.len = Cardinality(Occupied(z.slots)) BY <1>3, <1>4, <1>5
<1>9. \A k \in Keys(z.slots) : Positions(HashOf(k), z.bits) \subseteq z.set
  BY <1>1, <1>3, <1>6 DEF GoodTable
<1>10. GoodTable(z) BY <1>3, <1>5, <1>7, <1>8, <1>9 DEF GoodTable
<1> QED BY <1>1, <1>6, <1>10

(* A list of pairs, interned one at a time.                                *)
Interning(f, pairs, more, last) ==
  f[0] = pairs /\ \A n \in 1 .. last : f[n] = Interned(f[n - 1], more[n])

(* Interning goes pair by pair.                                            *)
LEMMA InternRuns ==
  ASSUME NEW pairs, NEW more, Len(more) \in Nat
  PROVE  \E f : Interning(f, pairs, more, Len(more)) /\ InternAll(pairs, more) = f[Len(more)]
<1> DEFINE base == pairs
           top == Len(more)
           Step(x, n) == Interned(x, more[n])
           To(f, n) == IF n = 0 THEN base ELSE Step(f[n - 1], n)
           Def(f, m) == f = [n \in 0 .. m |-> To(f, n)]
           has == {m \in 0 .. top : \E f : Def(f, m)}
<1>1. top \in Nat OBVIOUS
<1>2. InternAll(pairs, more) = (CHOOSE f : Def(f, top))[top] BY DEF InternAll
<1> HIDE DEF base, top, Step
<1>3. 0 \in has
  <2> DEFINE f == [n \in 0 .. 0 |-> base]
  <2>1. \A n \in 0 .. 0 : To(f, n) = base OBVIOUS
  <2> HIDE DEF To
  <2>2. Def(f, 0) BY <2>1
  <2> QED BY <1>1, <2>2
<1>4. ASSUME NEW m \in 1 .. top, m - 1 \in has PROVE m \in has
  <2>1. PICK f : Def(f, m - 1) BY <1>4
  <2> DEFINE g == [n \in 0 .. m |-> IF n = m THEN Step(f[m - 1], m) ELSE f[n]]
  <2>2. \A n \in 0 .. m - 1 : f[n] = To(f, n) BY <2>1
  <2>3. ASSUME NEW n \in 0 .. m PROVE g[n] = To(g, n)
    <3>1. CASE n = m
      <4>1. m - 1 \in 0 .. m /\ m - 1 # m BY <1>1
      <4>2. g[m - 1] = f[m - 1] BY <4>1
      <4>3. g[m] = Step(f[m - 1], m) BY <1>1
      <4> QED BY <3>1, <4>2, <4>3
    <3>2. CASE n # m
      <4>1. n \in 0 .. m - 1 BY <1>1, <3>2
      <4>2. n # 0 => n - 1 \in 0 .. m /\ n - 1 # m BY <1>1, <3>2
      <4>3. n # 0 => g[n - 1] = f[n - 1] BY <4>2
      <4>4. g[n] = f[n] BY <3>2
      <4> QED BY <2>2, <4>1, <4>3, <4>4
    <3> QED BY <3>1, <3>2
  <2>4. g = [n \in 0 .. m |-> g[n]] OBVIOUS
  <2> HIDE DEF g, To
  <2>5. Def(g, m) BY <2>3, <2>4
  <2> QED BY <1>1, <2>5
<1> HIDE DEF has
<1>5. \A m \in 0 .. top : m \in has BY <1>1, <1>3, <1>4, UpTo
<1>0. top \in has BY <1>1, <1>5
<1>11. \E h : Def(h, top) BY <1>0 DEF has
<1> DEFINE f == CHOOSE f : Def(f, top)
<1>6. Def(f, top) BY <1>11
<1> HIDE DEF f
<1>7. \A n \in 0 .. top : f[n] = To(f, n) BY <1>6
<1>8. f[0] = base /\ \A n \in 1 .. top : f[n] = Step(f[n - 1], n) BY <1>1, <1>7
<1>9. InternAll(pairs, more) = f[top] BY <1>2 DEF f
<1>10. Interning(f, pairs, more, Len(more)) BY <1>8 DEF Interning, base, top, Step
<1> QED BY <1>9, <1>10 DEF top

(* Trails, offered one at a time.                                          *)
Offering(f, regex, trails, repair, last) ==
  f[0] = regex /\ \A n \in 1 .. last : f[n] = Offer(f[n - 1], trails[n], repair)

(* Wildcards are offered one by one.                                       *)
LEMMA OfferRuns ==
  ASSUME NEW regex, NEW trails, Len(trails) \in Nat, NEW repair
  PROVE  \E f : /\ Offering(f, regex, trails, repair, Len(trails))
                /\ OfferAll(regex, trails, repair) = f[Len(trails)]
<1> DEFINE base == regex
           top == Len(trails)
           Step(x, n) == Offer(x, trails[n], repair)
           To(f, n) == IF n = 0 THEN base ELSE Step(f[n - 1], n)
           Def(f, m) == f = [n \in 0 .. m |-> To(f, n)]
           has == {m \in 0 .. top : \E f : Def(f, m)}
<1>1. top \in Nat OBVIOUS
<1>2. OfferAll(regex, trails, repair) = (CHOOSE f : Def(f, top))[top] BY DEF OfferAll
<1> HIDE DEF base, top, Step
<1>3. 0 \in has
  <2> DEFINE f == [n \in 0 .. 0 |-> base]
  <2>1. \A n \in 0 .. 0 : To(f, n) = base OBVIOUS
  <2> HIDE DEF To
  <2>2. Def(f, 0) BY <2>1
  <2> QED BY <1>1, <2>2
<1>4. ASSUME NEW m \in 1 .. top, m - 1 \in has PROVE m \in has
  <2>1. PICK f : Def(f, m - 1) BY <1>4
  <2> DEFINE g == [n \in 0 .. m |-> IF n = m THEN Step(f[m - 1], m) ELSE f[n]]
  <2>2. \A n \in 0 .. m - 1 : f[n] = To(f, n) BY <2>1
  <2>3. ASSUME NEW n \in 0 .. m PROVE g[n] = To(g, n)
    <3>1. CASE n = m
      <4>1. m - 1 \in 0 .. m /\ m - 1 # m BY <1>1
      <4>2. g[m - 1] = f[m - 1] BY <4>1
      <4>3. g[m] = Step(f[m - 1], m) BY <1>1
      <4> QED BY <3>1, <4>2, <4>3
    <3>2. CASE n # m
      <4>1. n \in 0 .. m - 1 BY <1>1, <3>2
      <4>2. n # 0 => n - 1 \in 0 .. m /\ n - 1 # m BY <1>1, <3>2
      <4>3. n # 0 => g[n - 1] = f[n - 1] BY <4>2
      <4>4. g[n] = f[n] BY <3>2
      <4> QED BY <2>2, <4>1, <4>3, <4>4
    <3> QED BY <3>1, <3>2
  <2>4. g = [n \in 0 .. m |-> g[n]] OBVIOUS
  <2> HIDE DEF g, To
  <2>5. Def(g, m) BY <2>3, <2>4
  <2> QED BY <1>1, <2>5
<1> HIDE DEF has
<1>5. \A m \in 0 .. top : m \in has BY <1>1, <1>3, <1>4, UpTo
<1>0. top \in has BY <1>1, <1>5
<1>11. \E h : Def(h, top) BY <1>0 DEF has
<1> DEFINE f == CHOOSE f : Def(f, top)
<1>6. Def(f, top) BY <1>11
<1> HIDE DEF f
<1>7. \A n \in 0 .. top : f[n] = To(f, n) BY <1>6
<1>8. f[0] = base /\ \A n \in 1 .. top : f[n] = Step(f[n - 1], n) BY <1>1, <1>7
<1>9. OfferAll(regex, trails, repair) = f[top] BY <1>2 DEF f
<1>10. Offering(f, regex, trails, repair, Len(trails)) BY <1>8 DEF Offering, base, top, Step
<1> QED BY <1>9, <1>10 DEF top

(* Rows, inserted one at a time.                                           *)
Inserting(f, db, rows, number, last) ==
  f[0] = db /\ \A n \in 1 .. last : f[n] = InsertTrail(f[n - 1], rows[n][1], number[n])

(* Rows are inserted one by one.                                           *)
LEMMA InsertRuns ==
  ASSUME NEW db, NEW rows, Len(rows) \in Nat, NEW number
  PROVE  \E f : /\ Inserting(f, db, rows, number, Len(rows))
                /\ InsertAll(db, rows, number) = f[Len(rows)]
<1> DEFINE base == db
           top == Len(rows)
           Step(x, n) == InsertTrail(x, rows[n][1], number[n])
           To(f, n) == IF n = 0 THEN base ELSE Step(f[n - 1], n)
           Def(f, m) == f = [n \in 0 .. m |-> To(f, n)]
           has == {m \in 0 .. top : \E f : Def(f, m)}
<1>1. top \in Nat OBVIOUS
<1>2. InsertAll(db, rows, number) = (CHOOSE f : Def(f, top))[top] BY DEF InsertAll
<1> HIDE DEF base, top, Step
<1>3. 0 \in has
  <2> DEFINE f == [n \in 0 .. 0 |-> base]
  <2>1. \A n \in 0 .. 0 : To(f, n) = base OBVIOUS
  <2> HIDE DEF To
  <2>2. Def(f, 0) BY <2>1
  <2> QED BY <1>1, <2>2
<1>4. ASSUME NEW m \in 1 .. top, m - 1 \in has PROVE m \in has
  <2>1. PICK f : Def(f, m - 1) BY <1>4
  <2> DEFINE g == [n \in 0 .. m |-> IF n = m THEN Step(f[m - 1], m) ELSE f[n]]
  <2>2. \A n \in 0 .. m - 1 : f[n] = To(f, n) BY <2>1
  <2>3. ASSUME NEW n \in 0 .. m PROVE g[n] = To(g, n)
    <3>1. CASE n = m
      <4>1. m - 1 \in 0 .. m /\ m - 1 # m BY <1>1
      <4>2. g[m - 1] = f[m - 1] BY <4>1
      <4>3. g[m] = Step(f[m - 1], m) BY <1>1
      <4> QED BY <3>1, <4>2, <4>3
    <3>2. CASE n # m
      <4>1. n \in 0 .. m - 1 BY <1>1, <3>2
      <4>2. n # 0 => n - 1 \in 0 .. m /\ n - 1 # m BY <1>1, <3>2
      <4>3. n # 0 => g[n - 1] = f[n - 1] BY <4>2
      <4>4. g[n] = f[n] BY <3>2
      <4> QED BY <2>2, <4>1, <4>3, <4>4
    <3> QED BY <3>1, <3>2
  <2>4. g = [n \in 0 .. m |-> g[n]] OBVIOUS
  <2> HIDE DEF g, To
  <2>5. Def(g, m) BY <2>3, <2>4
  <2> QED BY <1>1, <2>5
<1> HIDE DEF has
<1>5. \A m \in 0 .. top : m \in has BY <1>1, <1>3, <1>4, UpTo
<1>0. top \in has BY <1>1, <1>5
<1>11. \E h : Def(h, top) BY <1>0 DEF has
<1> DEFINE f == CHOOSE f : Def(f, top)
<1>6. Def(f, top) BY <1>11
<1> HIDE DEF f
<1>7. \A n \in 0 .. top : f[n] = To(f, n) BY <1>6
<1>8. f[0] = base /\ \A n \in 1 .. top : f[n] = Step(f[n - 1], n) BY <1>1, <1>7
<1>9. InsertAll(db, rows, number) = f[top] BY <1>2 DEF f
<1>10. Inserting(f, db, rows, number, Len(rows)) BY <1>8 DEF Inserting, base, top, Step
<1> QED BY <1>9, <1>10 DEF top

(* A slice, parsed one line at a time.                                     *)
Parsing(f, lines, a, wl, last) ==
  f[0] = EmptyShard /\ \A n \in 1 .. last : f[n] = ParseLine(f[n - 1], lines[a + n], wl)

(* A slice is parsed line by line.                                         *)
LEMMA ParseRuns ==
  ASSUME NEW lines, NEW a \in Nat, NEW b \in Nat, a <= b, NEW wl
  PROVE  \E f : Parsing(f, lines, a, wl, (b - a)) /\ ParseSlice(lines, a, b, wl) = f[(b - a)]
<1> DEFINE base == EmptyShard
           top == (b - a)
           Step(x, n) == ParseLine(x, lines[a + n], wl)
           To(f, n) == IF n = 0 THEN base ELSE Step(f[n - 1], n)
           Def(f, m) == f = [n \in 0 .. m |-> To(f, n)]
           has == {m \in 0 .. top : \E f : Def(f, m)}
<1>1. top \in Nat OBVIOUS
<1>2. ParseSlice(lines, a, b, wl) = (CHOOSE f : Def(f, top))[top] BY DEF ParseSlice
<1> HIDE DEF base, top, Step
<1>3. 0 \in has
  <2> DEFINE f == [n \in 0 .. 0 |-> base]
  <2>1. \A n \in 0 .. 0 : To(f, n) = base OBVIOUS
  <2> HIDE DEF To
  <2>2. Def(f, 0) BY <2>1
  <2> QED BY <1>1, <2>2
<1>4. ASSUME NEW m \in 1 .. top, m - 1 \in has PROVE m \in has
  <2>1. PICK f : Def(f, m - 1) BY <1>4
  <2> DEFINE g == [n \in 0 .. m |-> IF n = m THEN Step(f[m - 1], m) ELSE f[n]]
  <2>2. \A n \in 0 .. m - 1 : f[n] = To(f, n) BY <2>1
  <2>3. ASSUME NEW n \in 0 .. m PROVE g[n] = To(g, n)
    <3>1. CASE n = m
      <4>1. m - 1 \in 0 .. m /\ m - 1 # m BY <1>1
      <4>2. g[m - 1] = f[m - 1] BY <4>1
      <4>3. g[m] = Step(f[m - 1], m) BY <1>1
      <4> QED BY <3>1, <4>2, <4>3
    <3>2. CASE n # m
      <4>1. n \in 0 .. m - 1 BY <1>1, <3>2
      <4>2. n # 0 => n - 1 \in 0 .. m /\ n - 1 # m BY <1>1, <3>2
      <4>3. n # 0 => g[n - 1] = f[n - 1] BY <4>2
      <4>4. g[n] = f[n] BY <3>2
      <4> QED BY <2>2, <4>1, <4>3, <4>4
    <3> QED BY <3>1, <3>2
  <2>4. g = [n \in 0 .. m |-> g[n]] OBVIOUS
  <2> HIDE DEF g, To
  <2>5. Def(g, m) BY <2>3, <2>4
  <2> QED BY <1>1, <2>5
<1> HIDE DEF has
<1>5. \A m \in 0 .. top : m \in has BY <1>1, <1>3, <1>4, UpTo
<1>0. top \in has BY <1>1, <1>5
<1>11. \E h : Def(h, top) BY <1>0 DEF has
<1> DEFINE f == CHOOSE f : Def(f, top)
<1>6. Def(f, top) BY <1>11
<1> HIDE DEF f
<1>7. \A n \in 0 .. top : f[n] = To(f, n) BY <1>6
<1>8. f[0] = base /\ \A n \in 1 .. top : f[n] = Step(f[n - 1], n) BY <1>1, <1>7
<1>9. ParseSlice(lines, a, b, wl) = f[top] BY <1>2 DEF f
<1>10. Parsing(f, lines, a, wl, (b - a)) BY <1>8 DEF Parsing, base, top, Step
<1> QED BY <1>9, <1>10 DEF top

(* The shards of a batch, drained one at a time.                           *)
Draining(f, db, lines, done, wl, repair, bounds, last) ==
  f[0] = db /\ \A n \in 1 .. last : f[n] = Drain(f[n - 1], ParseSlice(lines, done + bounds[n][1],
                                done + bounds[n][2], wl), repair)

(* The slices of a batch are drained one by one.                           *)
LEMMA BatchRuns ==
  ASSUME NEW db, NEW lines, NEW done, NEW wl, NEW repair, NEW threads,
         NEW bounds, bounds = SplitLines(Len(lines) - done, threads), Len(bounds) \in Nat
  PROVE  \E f : /\ Draining(f, db, lines, done, wl, repair, bounds, Len(bounds))
                /\ LoadBatch(db, lines, done, wl, repair, threads) = f[Len(bounds)]
<1> DEFINE base == db
           top == Len(bounds)
           Step(x, n) == Drain(x, ParseSlice(lines, done + bounds[n][1],
                                              done + bounds[n][2], wl), repair)
           To(f, n) == IF n = 0 THEN base ELSE Step(f[n - 1], n)
           Def(f, m) == f = [n \in 0 .. m |-> To(f, n)]
           has == {m \in 0 .. top : \E f : Def(f, m)}
<1>1. top \in Nat OBVIOUS
<1>2. LoadBatch(db, lines, done, wl, repair, threads) = (CHOOSE f : Def(f, top))[top]
  BY DEF LoadBatch
<1> HIDE DEF base, top, Step
<1>3. 0 \in has
  <2> DEFINE f == [n \in 0 .. 0 |-> base]
  <2>1. \A n \in 0 .. 0 : To(f, n) = base OBVIOUS
  <2> HIDE DEF To
  <2>2. Def(f, 0) BY <2>1
  <2> QED BY <1>1, <2>2
<1>4. ASSUME NEW m \in 1 .. top, m - 1 \in has PROVE m \in has
  <2>1. PICK f : Def(f, m - 1) BY <1>4
  <2> DEFINE g == [n \in 0 .. m |-> IF n = m THEN Step(f[m - 1], m) ELSE f[n]]
  <2>2. \A n \in 0 .. m - 1 : f[n] = To(f, n) BY <2>1
  <2>3. ASSUME NEW n \in 0 .. m PROVE g[n] = To(g, n)
    <3>1. CASE n = m
      <4>1. m - 1 \in 0 .. m /\ m - 1 # m BY <1>1
      <4>2. g[m - 1] = f[m - 1] BY <4>1
      <4>3. g[m] = Step(f[m - 1], m) BY <1>1
      <4> QED BY <3>1, <4>2, <4>3
    <3>2. CASE n # m
      <4>1. n \in 0 .. m - 1 BY <1>1, <3>2
      <4>2. n # 0 => n - 1 \in 0 .. m /\ n - 1 # m BY <1>1, <3>2
      <4>3. n # 0 => g[n - 1] = f[n - 1] BY <4>2
      <4>4. g[n] = f[n] BY <3>2
      <4> QED BY <2>2, <4>1, <4>3, <4>4
    <3> QED BY <3>1, <3>2
  <2>4. g = [n \in 0 .. m |-> g[n]] OBVIOUS
  <2> HIDE DEF g, To
  <2>5. Def(g, m) BY <2>3, <2>4
  <2> QED BY <1>1, <2>5
<1> HIDE DEF has
<1>5. \A m \in 0 .. top : m \in has BY <1>1, <1>3, <1>4, UpTo
<1>0. top \in has BY <1>1, <1>5
<1>11. \E h : Def(h, top) BY <1>0 DEF has
<1> DEFINE f == CHOOSE f : Def(f, top)
<1>6. Def(f, top) BY <1>11
<1> HIDE DEF f
<1>7. \A n \in 0 .. top : f[n] = To(f, n) BY <1>6
<1>8. f[0] = base /\ \A n \in 1 .. top : f[n] = Step(f[n - 1], n) BY <1>1, <1>7
<1>9. LoadBatch(db, lines, done, wl, repair, threads) = f[top] BY <1>2 DEF f
<1>10. Draining(f, db, lines, done, wl, repair, bounds, Len(bounds))
  BY <1>8 DEF Draining, base, top, Step
<1> QED BY <1>9, <1>10 DEF top

(* The cuts of split_lines(), one share at a time.                         *)
Cutting(f, total, parts, last) ==
  /\ f[0] = [start |-> 0, cuts |-> <<>>]
  /\ \A n \in 1 .. last : f[n] = NextCut(f[n - 1], total, n, parts)

(* A batch is cut share by share.                                          *)
LEMMA CutsRun ==
  ASSUME NEW total \in Nat, NEW parts \in Nat \ {0}
  PROVE  \E f : Cutting(f, total, parts, (parts - 1)) /\ Cuts(total, parts) = f[(parts - 1)]
<1> DEFINE base == [start |-> 0, cuts |-> <<>>]
           top == (parts - 1)
           Step(x, n) == NextCut(x, total, n, parts)
           To(f, n) == IF n = 0 THEN base ELSE Step(f[n - 1], n)
           Def(f, m) == f = [n \in 0 .. m |-> To(f, n)]
           has == {m \in 0 .. top : \E f : Def(f, m)}
<1>1. top \in Nat OBVIOUS
<1>2. Cuts(total, parts) = (CHOOSE f : Def(f, top))[top] BY DEF Cuts
<1> HIDE DEF base, top, Step
<1>3. 0 \in has
  <2> DEFINE f == [n \in 0 .. 0 |-> base]
  <2>1. \A n \in 0 .. 0 : To(f, n) = base OBVIOUS
  <2> HIDE DEF To
  <2>2. Def(f, 0) BY <2>1
  <2> QED BY <1>1, <2>2
<1>4. ASSUME NEW m \in 1 .. top, m - 1 \in has PROVE m \in has
  <2>1. PICK f : Def(f, m - 1) BY <1>4
  <2> DEFINE g == [n \in 0 .. m |-> IF n = m THEN Step(f[m - 1], m) ELSE f[n]]
  <2>2. \A n \in 0 .. m - 1 : f[n] = To(f, n) BY <2>1
  <2>3. ASSUME NEW n \in 0 .. m PROVE g[n] = To(g, n)
    <3>1. CASE n = m
      <4>1. m - 1 \in 0 .. m /\ m - 1 # m BY <1>1
      <4>2. g[m - 1] = f[m - 1] BY <4>1
      <4>3. g[m] = Step(f[m - 1], m) BY <1>1
      <4> QED BY <3>1, <4>2, <4>3
    <3>2. CASE n # m
      <4>1. n \in 0 .. m - 1 BY <1>1, <3>2
      <4>2. n # 0 => n - 1 \in 0 .. m /\ n - 1 # m BY <1>1, <3>2
      <4>3. n # 0 => g[n - 1] = f[n - 1] BY <4>2
      <4>4. g[n] = f[n] BY <3>2
      <4> QED BY <2>2, <4>1, <4>3, <4>4
    <3> QED BY <3>1, <3>2
  <2>4. g = [n \in 0 .. m |-> g[n]] OBVIOUS
  <2> HIDE DEF g, To
  <2>5. Def(g, m) BY <2>3, <2>4
  <2> QED BY <1>1, <2>5
<1> HIDE DEF has
<1>5. \A m \in 0 .. top : m \in has BY <1>1, <1>3, <1>4, UpTo
<1>0. top \in has BY <1>1, <1>5
<1>11. \E h : Def(h, top) BY <1>0 DEF has
<1> DEFINE f == CHOOSE f : Def(f, top)
<1>6. Def(f, top) BY <1>11
<1> HIDE DEF f
<1>7. \A n \in 0 .. top : f[n] = To(f, n) BY <1>6
<1>8. f[0] = base /\ \A n \in 1 .. top : f[n] = Step(f[n - 1], n) BY <1>1, <1>7
<1>9. Cuts(total, parts) = f[top] BY <1>2 DEF f
<1>10. Cutting(f, total, parts, (parts - 1)) BY <1>8 DEF Cutting, base, top, Step
<1> QED BY <1>9, <1>10 DEF top

(* One more pair is interned last.                                         *)
LEMMA InternAppend ==
  ASSUME NEW S, NEW pairs, NEW more \in Seq(S), NEW x \in S
  PROVE  /\ InternAll(pairs, <<>>) = pairs
         /\ InternAll(pairs, Append(more, x)) = Interned(InternAll(pairs, more), x)
<1> DEFINE n == Len(more)
           longer == Append(more, x)
<1>1. n \in Nat OBVIOUS
<1>2. Len(longer) = n + 1 /\ longer[n + 1] = x /\ \A i \in 1 .. n : longer[i] = more[i]
  OBVIOUS
<1>3. InternAll(pairs, <<>>) = pairs
  <2>1. Len(<<>>) = 0 OBVIOUS
  <2>2. PICK f : Interning(f, pairs, <<>>, 0) /\ InternAll(pairs, <<>>) = f[0]
    BY <2>1, InternRuns
  <2> QED BY <2>2 DEF Interning
<1>4. PICK f : Interning(f, pairs, more, n) /\ InternAll(pairs, more) = f[n]
  BY <1>1, InternRuns
<1>5. Len(longer) \in Nat BY <1>1, <1>2
<1> HIDE DEF n, longer
<1>6. PICK g : Interning(g, pairs, longer, n + 1) /\ InternAll(pairs, longer) = g[n + 1]
  BY <1>2, <1>5, InternRuns
<1>7. f[0] = g[0] BY <1>4, <1>6 DEF Interning
<1>8. \A i \in 1 .. n : f[i - 1] = g[i - 1] => f[i] = g[i]
  BY <1>1, <1>2, <1>4, <1>6 DEF Interning
<1>9. Lockstep(f, g, n) BY <1>7, <1>8 DEF Lockstep
<1>10. f[n] = g[n] BY <1>1, <1>9, Agree
<1>11. n + 1 \in 1 .. n + 1 /\ (n + 1) - 1 = n BY <1>1
<1>12. g[n + 1] = Interned(g[n], longer[n + 1]) BY <1>6, <1>11 DEF Interning
<1> QED BY <1>2, <1>3, <1>4, <1>6, <1>10, <1>12 DEF longer

(* One more wildcard is offered last.                                      *)
LEMMA OfferAppend ==
  ASSUME NEW S, NEW regex, NEW more \in Seq(S), NEW x \in S, NEW repair
  PROVE  /\ OfferAll(regex, <<>>, repair) = regex
         /\ OfferAll(regex, Append(more, x), repair) =
              Offer(OfferAll(regex, more, repair), x, repair)
<1> DEFINE n == Len(more)
           longer == Append(more, x)
<1>1. n \in Nat OBVIOUS
<1>2. Len(longer) = n + 1 /\ longer[n + 1] = x /\ \A i \in 1 .. n : longer[i] = more[i]
  OBVIOUS
<1>3. OfferAll(regex, <<>>, repair) = regex
  <2>1. Len(<<>>) = 0 OBVIOUS
  <2>2. PICK f : Offering(f, regex, <<>>, repair, 0) /\ OfferAll(regex, <<>>, repair) = f[0]
    BY <2>1, OfferRuns
  <2> QED BY <2>2 DEF Offering
<1>4. PICK f : Offering(f, regex, more, repair, n) /\ OfferAll(regex, more, repair) = f[n]
  BY <1>1, OfferRuns
<1>5. Len(longer) \in Nat BY <1>1, <1>2
<1> HIDE DEF n, longer
<1>6. PICK g : /\ Offering(g, regex, longer, repair, n + 1)
               /\ OfferAll(regex, longer, repair) = g[n + 1]
  BY <1>2, <1>5, OfferRuns
<1>7. f[0] = g[0] BY <1>4, <1>6 DEF Offering
<1>8. \A i \in 1 .. n : f[i - 1] = g[i - 1] => f[i] = g[i]
  BY <1>1, <1>2, <1>4, <1>6 DEF Offering
<1>9. Lockstep(f, g, n) BY <1>7, <1>8 DEF Lockstep
<1>10. f[n] = g[n] BY <1>1, <1>9, Agree
<1>11. n + 1 \in 1 .. n + 1 /\ (n + 1) - 1 = n BY <1>1
<1>12. g[n + 1] = Offer(g[n], longer[n + 1], repair) BY <1>6, <1>11 DEF Offering
<1> QED BY <1>2, <1>3, <1>4, <1>6, <1>10, <1>12 DEF longer

(* One more line is parsed last.                                           *)
LEMMA ParseStep ==
  ASSUME NEW lines, NEW a \in Nat, NEW m \in Nat, a <= m, NEW wl
  PROVE  /\ ParseSlice(lines, a, a, wl) = EmptyShard
         /\ ParseSlice(lines, a, m + 1, wl) =
              ParseLine(ParseSlice(lines, a, m, wl), lines[m + 1], wl)
<1> DEFINE n == m - a
<1>1. n \in Nat /\ (m + 1) - a = n + 1 /\ a + (n + 1) = m + 1 OBVIOUS
<1>2. m + 1 \in Nat /\ a <= m + 1 /\ a - a = 0 /\ a <= a OBVIOUS
<1>3. ParseSlice(lines, a, a, wl) = EmptyShard
  <2>1. PICK f : Parsing(f, lines, a, wl, (a - a)) /\ ParseSlice(lines, a, a, wl) = f[(a - a)]
    BY <1>2, ParseRuns
  <2> QED BY <1>2, <2>1 DEF Parsing
<1>4. PICK f : Parsing(f, lines, a, wl, n) /\ ParseSlice(lines, a, m, wl) = f[n] BY ParseRuns
<1> HIDE DEF n
<1>5. PICK g : /\ Parsing(g, lines, a, wl, ((m + 1) - a))
               /\ ParseSlice(lines, a, m + 1, wl) = g[((m + 1) - a)]
  BY <1>2, ParseRuns
<1>6. Parsing(g, lines, a, wl, n + 1) /\ ParseSlice(lines, a, m + 1, wl) = g[n + 1]
  BY <1>1, <1>5
<1>7. f[0] = g[0] BY <1>4, <1>6 DEF Parsing
<1>8. \A i \in 1 .. n : f[i - 1] = g[i - 1] => f[i] = g[i]
  BY <1>1, <1>4, <1>6 DEF Parsing
<1>9. Lockstep(f, g, n) BY <1>7, <1>8 DEF Lockstep
<1>10. f[n] = g[n] BY <1>1, <1>9, Agree
<1>11. n + 1 \in 1 .. n + 1 /\ (n + 1) - 1 = n BY <1>1
<1>12. g[n + 1] = ParseLine(g[n], lines[a + (n + 1)], wl) BY <1>6, <1>11 DEF Parsing
<1> QED BY <1>1, <1>3, <1>4, <1>6, <1>10, <1>12

-----------------------------------------------------------------------------
(* Tables with the pairs and the patterns of others.                       *)
IsDb(db) ==
  db = [pairs |-> db.pairs, strings |-> db.strings, native |-> db.native, regex |-> db.regex,
        fingerprints |-> db.fingerprints]

WithHead(db, pairs, regex) == [db EXCEPT !.pairs = pairs, !.regex = regex]

(* The fields of a set of tables with other pairs and patterns.            *)
LEMMA HeadIs ==
  ASSUME NEW db, IsDb(db), NEW pairs, NEW regex, NEW z, z = WithHead(db, pairs, regex)
  PROVE  /\ IsDb(z) /\ z.pairs = pairs /\ z.regex = regex /\ z.strings = db.strings
         /\ z.native = db.native /\ z.fingerprints = db.fingerprints
BY DEF IsDb, WithHead

(* The fields insert_prepared() changes.                                   *)
LEMMA InsertTrailIs ==
  ASSUME NEW db, IsDb(db), NEW trail, NEW pair, NEW z, z = InsertTrail(db, trail, pair)
  PROVE  /\ IsDb(z) /\ z.pairs = db.pairs /\ z.regex = db.regex
         /\ z.strings = Insert(db.strings, trail, pair)
         /\ z.native = InsertNative(db.native, trail, pair)
         /\ z.fingerprints = db.fingerprints \cup ShapeOf(trail)
BY DEF IsDb, InsertTrail

(* Two sets of tables with the same fields are one.                        *)
LEMMA SameDb ==
  ASSUME NEW x, NEW y, IsDb(x), IsDb(y), x.pairs = y.pairs, x.regex = y.regex,
         x.strings = y.strings, x.native = y.native, x.fingerprints = y.fingerprints
  PROVE  x = y
BY DEF IsDb

(* Inserting a trail does not touch the pairs and the patterns.            *)
LEMMA HeadCommutes ==
  ASSUME NEW db, IsDb(db), NEW pairs, NEW regex, NEW trail, NEW pair
  PROVE  InsertTrail(WithHead(db, pairs, regex), trail, pair)
           = WithHead(InsertTrail(db, trail, pair), pairs, regex)
<1> DEFINE h == WithHead(db, pairs, regex)
           x == InsertTrail(h, trail, pair)
           i == InsertTrail(db, trail, pair)
           y == WithHead(i, pairs, regex)
<1>1. /\ IsDb(h) /\ h.pairs = pairs /\ h.regex = regex /\ h.strings = db.strings
      /\ h.native = db.native /\ h.fingerprints = db.fingerprints
  BY HeadIs
<1>2. /\ IsDb(i) /\ i.strings = Insert(db.strings, trail, pair)
      /\ i.native = InsertNative(db.native, trail, pair)
      /\ i.fingerprints = db.fingerprints \cup ShapeOf(trail)
  BY InsertTrailIs
<1> HIDE DEF h, i
<1>3. /\ IsDb(x) /\ x.pairs = h.pairs /\ x.regex = h.regex
      /\ x.strings = Insert(h.strings, trail, pair)
      /\ x.native = InsertNative(h.native, trail, pair)
      /\ x.fingerprints = h.fingerprints \cup ShapeOf(trail)
  BY <1>1, InsertTrailIs
<1>4. /\ IsDb(y) /\ y.pairs = pairs /\ y.regex = regex /\ y.strings = i.strings
      /\ y.native = i.native /\ y.fingerprints = i.fingerprints
  BY <1>2, HeadIs
<1> HIDE DEF x, y
<1>5. x = y BY <1>1, <1>2, <1>3, <1>4, SameDb
<1> QED BY <1>5 DEF x, y, h, i

(* So the pairs and patterns may be set before or after the rows.          *)
LEMMA InsertHead ==
  ASSUME NEW db, IsDb(db), NEW pairs, NEW regex, NEW rows, Len(rows) \in Nat, NEW number
  PROVE  /\ IsDb(InsertAll(db, rows, number))
         /\ InsertAll(WithHead(db, pairs, regex), rows, number)
              = WithHead(InsertAll(db, rows, number), pairs, regex)
<1> DEFINE n == Len(rows)
           h == WithHead(db, pairs, regex)
<1>1. PICK f : Inserting(f, db, rows, number, n) /\ InsertAll(db, rows, number) = f[n]
  BY InsertRuns
<1>2. PICK g : Inserting(g, h, rows, number, n) /\ InsertAll(h, rows, number) = g[n]
  BY InsertRuns
<1>0. h = WithHead(db, pairs, regex) /\ n \in Nat OBVIOUS
<1> HIDE DEF n, h
<1> DEFINE P == {i \in 0 .. n : IsDb(f[i]) /\ g[i] = WithHead(f[i], pairs, regex)}
<1>3. 0 \in P BY <1>0, <1>1, <1>2 DEF Inserting
<1>4. ASSUME NEW i \in 1 .. n, i - 1 \in P PROVE i \in P
  <2>1. IsDb(f[i - 1]) /\ g[i - 1] = WithHead(f[i - 1], pairs, regex) BY <1>4
  <2>2. /\ f[i] = InsertTrail(f[i - 1], rows[i][1], number[i])
        /\ g[i] = InsertTrail(g[i - 1], rows[i][1], number[i])
    BY <1>1, <1>2 DEF Inserting
  <2>3. IsDb(f[i]) BY <2>1, <2>2, InsertTrailIs
  <2>4. g[i] = WithHead(f[i], pairs, regex) BY <2>1, <2>2, HeadCommutes
  <2> QED BY <1>0, <2>3, <2>4
<1> HIDE DEF P
<1>5. \A i \in 0 .. n : i \in P BY <1>0, <1>3, <1>4, UpTo
<1>6. n \in P BY <1>0, <1>5
<1>7. IsDb(f[n]) /\ g[n] = WithHead(f[n], pairs, regex) BY <1>6 DEF P
<1> QED BY <1>1, <1>2, <1>7 DEF h

SameTo(f, g, n) == \A i \in 1 .. n : f[i] = g[i]

(* One more row is inserted last.                                          *)
LEMMA InsertAppend ==
  ASSUME NEW S, NEW db, NEW rows \in Seq(S), NEW row \in S, NEW number, NEW longer,
         SameTo(longer, number, Len(rows))
  PROVE  InsertAll(db, Append(rows, row), longer)
           = InsertTrail(InsertAll(db, rows, number), row[1], longer[Len(rows) + 1])
<1> DEFINE n == Len(rows)
           more == Append(rows, row)
<1>1. n \in Nat OBVIOUS
<1>2. Len(more) = n + 1 /\ more[n + 1] = row /\ \A i \in 1 .. n : more[i] = rows[i]
  OBVIOUS
<1>3. \A i \in 1 .. n : longer[i] = number[i] BY DEF SameTo
<1>4. PICK f : Inserting(f, db, rows, number, n) /\ InsertAll(db, rows, number) = f[n]
  BY <1>1, InsertRuns
<1>5. Len(more) \in Nat BY <1>1, <1>2
<1> HIDE DEF n, more
<1>6. PICK g : Inserting(g, db, more, longer, n + 1) /\ InsertAll(db, more, longer) = g[n + 1]
  BY <1>2, <1>5, InsertRuns
<1>7. f[0] = g[0] BY <1>4, <1>6 DEF Inserting
<1>8. \A i \in 1 .. n : f[i - 1] = g[i - 1] => f[i] = g[i]
  BY <1>1, <1>2, <1>3, <1>4, <1>6 DEF Inserting
<1>9. Lockstep(f, g, n) BY <1>7, <1>8 DEF Lockstep
<1>10. f[n] = g[n] BY <1>1, <1>9, Agree
<1>11. n + 1 \in 1 .. n + 1 /\ (n + 1) - 1 = n BY <1>1
<1>12. g[n + 1] = InsertTrail(g[n], more[n + 1][1], longer[n + 1])
  BY <1>6, <1>11 DEF Inserting
<1> QED BY <1>2, <1>4, <1>6, <1>10, <1>12 DEF more, n

(* No rows change nothing.                                                 *)
LEMMA InsertNothing ==
  ASSUME NEW db, NEW number
  PROVE  InsertAll(db, <<>>, number) = db
<1>1. Len(<<>>) = 0 OBVIOUS
<1>2. PICK f : Inserting(f, db, <<>>, number, 0) /\ InsertAll(db, <<>>, number) = f[0]
  BY <1>1, InsertRuns
<1> QED BY <1>2 DEF Inserting

-----------------------------------------------------------------------------
Pairs == {PairOf(l) : l \in Lines}

(* A list of pairs without doubles.                                        *)
Distinct(pairs) ==
  /\ pairs \in Seq(Pairs)
  /\ \A i, j \in 1 .. Len(pairs) : pairs[i] = pairs[j] => i = j

Prolongs(longer, pairs) ==
  Len(longer) >= Len(pairs) /\ \A i \in 1 .. Len(pairs) : longer[i] = pairs[i]

Has(pairs, pair) == \E i \in 1 .. Len(pairs) : pairs[i] = pair

(* A pair of the list is at its position.                                  *)
LEMMA PairAtIs ==
  ASSUME NEW pairs, Distinct(pairs), NEW i \in 1 .. Len(pairs), NEW pair, pair = pairs[i]
  PROVE  PairAt(pairs, pair) = i
<1>1. DOMAIN pairs = 1 .. Len(pairs) BY DEF Distinct
<1>2. \A j \in DOMAIN pairs : pairs[j] = pair => j = i BY <1>1 DEF Distinct
<1>3. \E j \in DOMAIN pairs : pairs[j] = pair BY <1>1
<1> QED BY <1>2, <1>3 DEF PairAt

(* Interning keeps the numbers given before, and numbers the new pair.     *)
LEMMA InternedIs ==
  ASSUME NEW pairs, Distinct(pairs), NEW pair \in Pairs, NEW z, z = Interned(pairs, pair)
  PROVE  /\ Distinct(z) /\ Prolongs(z, pairs) /\ Has(z, pair)
         /\ Has(pairs, pair) => z = pairs
         /\ ~Has(pairs, pair) => z = Append(pairs, pair)
         /\ PairAt(z, pair) \in 1 .. Len(z) /\ z[PairAt(z, pair)] = pair
<1>1. pairs \in Seq(Pairs) /\ Len(pairs) \in Nat /\ DOMAIN pairs = 1 .. Len(pairs)
  BY DEF Distinct
<1>2. pair \in Range(pairs) <=> Has(pairs, pair) BY <1>1 DEF Range, Has
<1>3. /\ Has(pairs, pair) => z = pairs
      /\ ~Has(pairs, pair) => z = Append(pairs, pair)
  BY <1>2 DEF Interned
<1>4. Distinct(z) /\ Prolongs(z, pairs) /\ Has(z, pair)
  <2>1. CASE Has(pairs, pair) BY <1>1, <1>3, <2>1 DEF Prolongs
  <2>2. CASE ~Has(pairs, pair)
    <3>1. /\ z \in Seq(Pairs) /\ Len(z) = Len(pairs) + 1 /\ z[Len(pairs) + 1] = pair
          /\ \A i \in 1 .. Len(pairs) : z[i] = pairs[i]
      BY <1>1, <1>3, <2>2
    <3>2. \A i \in 1 .. Len(pairs) : z[i] # pair BY <2>2, <3>1 DEF Has
    <3>3. Has(z, pair) BY <1>1, <3>1 DEF Has
    <3>4. ASSUME NEW i \in 1 .. Len(z), NEW j \in 1 .. Len(z), z[i] = z[j] PROVE i = j
      <4>1. i \in 1 .. Len(pairs) \/ i = Len(pairs) + 1 BY <1>1, <3>1
      <4>2. j \in 1 .. Len(pairs) \/ j = Len(pairs) + 1 BY <1>1, <3>1
      <4> QED BY <3>1, <3>2, <3>4, <4>1, <4>2 DEF Distinct
    <3> QED BY <1>1, <3>1, <3>3, <3>4 DEF Distinct, Prolongs
  <2> QED BY <2>1, <2>2
<1>5. PICK i \in 1 .. Len(z) : z[i] = pair BY <1>4 DEF Has
<1>6. PairAt(z, pair) = i BY <1>4, <1>5, PairAtIs
<1> QED BY <1>3, <1>4, <1>5, <1>6

-----------------------------------------------------------------------------
(* A shard: its rows name pairs of its own list.                           *)
IsShard(shard) ==
  /\ shard = [rows |-> shard.rows, pairs |-> shard.pairs, wildcards |-> shard.wildcards,
              loaded |-> shard.loaded, whitelisted |-> shard.whitelisted,
              malformed |-> shard.malformed]
  /\ shard.rows \in Seq(Trails \X Nat) /\ shard.wildcards \in Seq(Trails)
  /\ Distinct(shard.pairs)
  /\ \A j \in 1 .. Len(shard.rows) : shard.rows[j][2] \in 1 .. Len(shard.pairs)

(* The reference: one line after the other into one set of tables.         *)
KeptLine(line, wl) == line.kind = "row" /\ line.trail \notin wl

Heard(regex, line, repair) ==
  IF line.static /\ line.trail \in Wildcards THEN Offer(regex, line.trail, repair) ELSE regex

AddLine(db, line, repair) ==
  InsertTrail(WithHead(db, Interned(db.pairs, PairOf(line)), Heard(db.regex, line, repair)),
              line.trail, PairAt(Interned(db.pairs, PairOf(line)), PairOf(line)))

Numbers(shard, pairs) ==
  [j \in DOMAIN shard.rows |-> PairAt(pairs, shard.pairs[shard.rows[j][2]])]

(* x is what db becomes when the shard is drained into it.                 *)
Drained(db, shard, repair, x) ==
  /\ x = Drain(db, shard, repair) /\ IsDb(x) /\ Distinct(x.pairs)
  /\ x.pairs = InternAll(db.pairs, shard.pairs)
  /\ x.regex = OfferAll(db.regex, shard.wildcards, repair)
  /\ \A i \in 1 .. Len(shard.pairs) : Has(x.pairs, shard.pairs[i])

(* The fields of a drained shard.                                          *)
LEMMA DrainIs ==
  ASSUME NEW db, IsDb(db), NEW shard, NEW repair,
         NEW pairs, pairs = InternAll(db.pairs, shard.pairs)
  PROVE  Drain(db, shard, repair)
           = InsertAll(WithHead(db, pairs, OfferAll(db.regex, shard.wildcards, repair)),
                       shard.rows, Numbers(shard, pairs))
<1>1. [db EXCEPT !.pairs = pairs, !.regex = OfferAll(@, shard.wildcards, repair)]
        = WithHead(db, pairs, OfferAll(db.regex, shard.wildcards, repair))
  BY DEF WithHead, IsDb
<1>2. Drain(db, shard, repair)
        = InsertAll([db EXCEPT !.pairs = pairs, !.regex = OfferAll(@, shard.wildcards, repair)],
                    shard.rows, Numbers(shard, pairs))
  BY DEF Drain, Numbers
<1> QED BY <1>1, <1>2

(* One kept line of a slice.                                               *)
LEMMA ParseLineIs ==
  ASSUME NEW shard, IsShard(shard), NEW line \in Lines, NEW wl, KeptLine(line, wl),
         NEW z, z = ParseLine(shard, line, wl)
  PROVE  /\ IsShard(z)
         /\ z.pairs = Interned(shard.pairs, PairOf(line))
         /\ z.rows = Append(shard.rows, <<line.trail, PairAt(z.pairs, PairOf(line))>>)
         /\ z.wildcards = IF line.static /\ line.trail \in Wildcards
                          THEN Append(shard.wildcards, line.trail) ELSE shard.wildcards
<1> DEFINE pairs == Interned(shard.pairs, PairOf(line))
           row == <<line.trail, PairAt(pairs, PairOf(line))>>
           wildcards == IF line.static /\ line.trail \in Wildcards
                        THEN Append(shard.wildcards, line.trail) ELSE shard.wildcards
<1>1. line.trail \in Trails /\ PairOf(line) \in Pairs BY DEF Trails, Pairs
<1>2. /\ Distinct(pairs) /\ Prolongs(pairs, shard.pairs)
      /\ PairAt(pairs, PairOf(line)) \in 1 .. Len(pairs)
  BY <1>1, InternedIs DEF IsShard
<1>3. z = [shard EXCEPT !.wildcards = IF line.static /\ line.trail \in Wildcards
                                      THEN Append(@, line.trail) ELSE @,
                        !.pairs = pairs, !.rows = Append(@, row), !.loaded = @ + 1]
  BY DEF KeptLine, ParseLine
<1>0. row[2] = PairAt(pairs, PairOf(line)) /\ row[1] = line.trail OBVIOUS
<1>12. Len(pairs) \in Nat /\ Len(shard.pairs) \in Nat BY <1>2 DEF Distinct, IsShard
<1>4. row \in Trails \X Nat BY <1>1, <1>2, <1>12
<1>5. wildcards \in Seq(Trails) BY <1>1 DEF IsShard
<1> HIDE DEF pairs, row
<1>6. /\ z = [rows |-> z.rows, pairs |-> z.pairs, wildcards |-> z.wildcards,
              loaded |-> z.loaded, whitelisted |-> z.whitelisted, malformed |-> z.malformed]
      /\ z.rows = Append(shard.rows, row) /\ z.pairs = pairs /\ z.wildcards = wildcards
  BY <1>3 DEF IsShard
<1> HIDE DEF wildcards
<1>7. shard.rows \in Seq(Trails \X Nat) BY DEF IsShard
<1>8. /\ z.rows \in Seq(Trails \X Nat) /\ Len(z.rows) = Len(shard.rows) + 1
      /\ z.rows[Len(shard.rows) + 1] = row /\ Len(shard.rows) \in Nat
      /\ \A j \in 1 .. Len(shard.rows) : z.rows[j] = shard.rows[j]
  BY <1>4, <1>6, <1>7
<1>9. ASSUME NEW j \in 1 .. Len(z.rows) PROVE z.rows[j][2] \in 1 .. Len(z.pairs)
  <2>1. CASE j \in 1 .. Len(shard.rows)
    <3>1. z.rows[j][2] \in 1 .. Len(shard.pairs) BY <1>8, <2>1 DEF IsShard
    <3> QED BY <1>2, <1>6, <1>12, <3>1 DEF Prolongs
  <2>2. CASE j = Len(shard.rows) + 1 BY <1>0, <1>2, <1>6, <1>8, <2>2
  <2> QED BY <1>8, <2>1, <2>2
<1>10. IsShard(z) BY <1>2, <1>5, <1>6, <1>8, <1>9 DEF IsShard
<1> QED BY <1>6, <1>10 DEF pairs, row, wildcards

(* An empty, malformed or whitelisted line leaves the rows, the pairs and  *)
(* the wildcards as they are.                                              *)
LEMMA ParseLineSkips ==
  ASSUME NEW shard, IsShard(shard), NEW line \in Lines, NEW wl, ~KeptLine(line, wl),
         NEW z, z = ParseLine(shard, line, wl)
  PROVE  /\ IsShard(z) /\ z.pairs = shard.pairs /\ z.rows = shard.rows
         /\ z.wildcards = shard.wildcards
<1>0. line.kind \in {"skip", "bad", "row"} BY StoreAssumption
<1>1. CASE line.kind = "skip" BY <1>1 DEF ParseLine
<1>2. CASE line.kind = "bad"
  <2>1. z = [shard EXCEPT !.malformed = @ + 1] BY <1>2 DEF ParseLine
  <2> QED BY <2>1 DEF IsShard
<1>3. CASE line.kind = "row"
  <2>1. z = [shard EXCEPT !.whitelisted = @ + 1] BY <1>3 DEF ParseLine, KeptLine
  <2> QED BY <2>1 DEF IsShard
<1> QED BY <1>0, <1>1, <1>2, <1>3

(* Draining a shard with one more line is adding that line: the slices are *)
(* parsed side by side, the tables are those of one pass over the file.    *)
LEMMA DrainStep ==
  ASSUME NEW db, IsDb(db), NEW shard, IsShard(shard), NEW line \in Lines, NEW wl, NEW repair,
         KeptLine(line, wl), NEW next, next = ParseLine(shard, line, wl),
         NEW x, Drained(db, shard, repair, x), NEW y, y = Drain(db, next, repair)
  PROVE  Drained(db, next, repair, y) /\ y = AddLine(x, line, repair)
<1> DEFINE q == PairOf(line)
           P == InternAll(db.pairs, next.pairs)
           R == OfferAll(db.regex, next.wildcards, repair)
           num == Numbers(shard, x.pairs)
           more == Numbers(next, P)
           n == Len(shard.rows)
           row == <<line.trail, PairAt(next.pairs, q)>>
<1>1. line.trail \in Trails /\ q \in Pairs BY DEF Trails, Pairs
<1>2. /\ IsShard(next) /\ next.pairs = Interned(shard.pairs, q)
      /\ next.rows = Append(shard.rows, row)
      /\ next.wildcards = IF line.static /\ line.trail \in Wildcards
                          THEN Append(shard.wildcards, line.trail) ELSE shard.wildcards
  BY ParseLineIs
<1>3. Distinct(shard.pairs) /\ shard.pairs \in Seq(Pairs) BY DEF IsShard, Distinct
<1>4. /\ Distinct(next.pairs) /\ Prolongs(next.pairs, shard.pairs)
      /\ Has(shard.pairs, q) => next.pairs = shard.pairs
      /\ ~Has(shard.pairs, q) => next.pairs = Append(shard.pairs, q)
      /\ PairAt(next.pairs, q) \in 1 .. Len(next.pairs)
      /\ next.pairs[PairAt(next.pairs, q)] = q
  <2>1. next.pairs = Interned(shard.pairs, q) BY <1>2
  <2> HIDE DEF q, P, R, num, more, n, row
  <2> QED BY <1>1, <1>3, <2>1, InternedIs
<1>5. /\ IsDb(x) /\ Distinct(x.pairs) /\ x.pairs = InternAll(db.pairs, shard.pairs)
      /\ x.regex = OfferAll(db.regex, shard.wildcards, repair)
      /\ \A i \in 1 .. Len(shard.pairs) : Has(x.pairs, shard.pairs[i])
  BY DEF Drained
<1> HIDE DEF q
<1>6. P = Interned(x.pairs, q)
  <2>1. CASE Has(shard.pairs, q)
    <3>1. P = x.pairs BY <1>4, <1>5, <2>1
    <3>2. Has(x.pairs, q) BY <1>5, <2>1 DEF Has
    <3>3. Interned(x.pairs, q) = x.pairs BY <1>1, <1>5, <3>2, InternedIs
    <3> QED BY <3>1, <3>3
  <2>2. CASE ~Has(shard.pairs, q)
    <3>1. P = InternAll(db.pairs, Append(shard.pairs, q)) BY <1>4, <2>2
    <3> QED BY <1>1, <1>3, <1>5, <3>1, InternAppend
  <2> QED BY <2>1, <2>2
<1>7. R = Heard(x.regex, line, repair)
  <2>1. shard.wildcards \in Seq(Trails) BY DEF IsShard
  <2>2. CASE line.static /\ line.trail \in Wildcards
    <3>1. next.wildcards = Append(shard.wildcards, line.trail) BY <1>2, <2>2
    <3>2. OfferAll(db.regex, Append(shard.wildcards, line.trail), repair)
            = Offer(OfferAll(db.regex, shard.wildcards, repair), line.trail, repair)
      BY <1>1, <2>1, OfferAppend
    <3> QED BY <1>5, <2>2, <3>1, <3>2 DEF Heard
  <2>3. CASE ~(line.static /\ line.trail \in Wildcards)
    BY <1>2, <1>5, <2>3 DEF Heard
  <2> QED BY <2>2, <2>3
<1> HIDE DEF P, R
<1>8. /\ Distinct(P) /\ Prolongs(P, x.pairs) /\ Has(P, q)
      /\ PairAt(P, q) \in 1 .. Len(P) /\ P[PairAt(P, q)] = q
  BY <1>1, <1>5, <1>6, InternedIs
<1>9. /\ shard.rows \in Seq(Trails \X Nat) /\ n \in Nat /\ DOMAIN shard.rows = 1 .. n
      /\ \A j \in 1 .. n : shard.rows[j][2] \in 1 .. Len(shard.pairs)
  BY DEF IsShard
<1>0. Len(next.pairs) \in Nat BY <1>4 DEF Distinct
<1>22. row \in Trails \X Nat BY <1>0, <1>1, <1>4
<1>23. row[1] = line.trail /\ row[2] = PairAt(next.pairs, q) OBVIOUS
<1> HIDE DEF row
<1>10. /\ DOMAIN next.rows = 1 .. n + 1 /\ next.rows[n + 1] = row
       /\ \A j \in 1 .. n : next.rows[j] = shard.rows[j]
  BY <1>2, <1>9, <1>22
<1> HIDE DEF n
<1>11. ASSUME NEW j \in 1 .. n PROVE more[j] = num[j]
  <2> DEFINE i == shard.rows[j][2]
  <2>1. i \in 1 .. Len(shard.pairs) BY <1>9
  <2>2. j \in DOMAIN next.rows BY <1>9, <1>10
  <2>3. more[j] = PairAt(P, next.pairs[i]) BY <1>10, <2>2 DEF Numbers
  <2>4. num[j] = PairAt(x.pairs, shard.pairs[i]) BY <1>9 DEF Numbers
  <2> HIDE DEF i
  <2>5. next.pairs[i] = shard.pairs[i] BY <1>4, <2>1 DEF Prolongs
  <2>6. PICK k \in 1 .. Len(x.pairs) : x.pairs[k] = shard.pairs[i] BY <1>5, <2>1 DEF Has
  <2>7. PairAt(x.pairs, shard.pairs[i]) = k BY <1>5, <2>6, PairAtIs
  <2>8. Len(x.pairs) \in Nat /\ Len(P) \in Nat BY <1>5, <1>8 DEF Distinct
  <2>9. k \in 1 .. Len(P) /\ P[k] = shard.pairs[i] BY <1>8, <2>6, <2>8 DEF Prolongs
  <2>10. PairAt(P, shard.pairs[i]) = k BY <1>8, <2>9, PairAtIs
  <2> QED BY <2>3, <2>4, <2>5, <2>7, <2>10
<1>12. more[n + 1] = PairAt(P, q)
  <2>1. n + 1 \in DOMAIN next.rows BY <1>9, <1>10
  <2>2. more[n + 1] = PairAt(P, next.pairs[next.rows[n + 1][2]]) BY <2>1 DEF Numbers
  <2> QED BY <1>4, <1>10, <1>23, <2>2
<1> HIDE DEF num, more
<1>13. x = InsertAll(WithHead(db, x.pairs, x.regex), shard.rows, num)
  BY <1>5, DrainIs DEF Drained, num
<1>14. y = InsertAll(WithHead(db, P, R), Append(shard.rows, row), more)
  <2>1. P = InternAll(db.pairs, next.pairs) BY DEF P
  <2>2. Drain(db, next, repair)
          = InsertAll(WithHead(db, P, OfferAll(db.regex, next.wildcards, repair)),
                      next.rows, Numbers(next, P))
    BY <2>1, DrainIs
  <2> QED BY <1>2, <2>2 DEF R, more
<1>15. y = InsertTrail(InsertAll(WithHead(db, P, R), shard.rows, num), row[1], more[n + 1])
  <2>1. SameTo(more, num, Len(shard.rows)) BY <1>11 DEF n, SameTo
  <2> DEFINE S == Trails \X Nat
             h == WithHead(db, P, R)
             rows == shard.rows
  <2>2. rows \in Seq(S) /\ row \in S BY <1>9, <1>22
  <2>3. SameTo(more, num, Len(rows)) BY <2>1
  <2> HIDE DEF S, h, rows
  <2>4. InsertAll(h, Append(rows, row), more)
          = InsertTrail(InsertAll(h, rows, num), row[1], more[Len(rows) + 1])
    BY <2>2, <2>3, InsertAppend
  <2> QED BY <1>14, <2>4 DEF n, h, rows
<1> DEFINE body == InsertAll(db, shard.rows, num)
<1>16. /\ IsDb(body)
       /\ InsertAll(WithHead(db, P, R), shard.rows, num) = WithHead(body, P, R)
       /\ InsertAll(WithHead(db, x.pairs, x.regex), shard.rows, num)
            = WithHead(body, x.pairs, x.regex)
  BY <1>9, InsertHead DEF n
<1> HIDE DEF body
<1>17. x = WithHead(body, x.pairs, x.regex) BY <1>13, <1>16
<1>18. WithHead(x, P, R) = WithHead(body, P, R)
  <2> DEFINE a == WithHead(x, P, R)
             b == WithHead(body, P, R)
  <2>1. x.strings = body.strings /\ x.native = body.native /\ x.fingerprints = body.fingerprints
    BY <1>16, <1>17, HeadIs
  <2>2. /\ IsDb(a) /\ a.pairs = P /\ a.regex = R /\ a.strings = x.strings
        /\ a.native = x.native /\ a.fingerprints = x.fingerprints
    BY <1>5, HeadIs
  <2>3. /\ IsDb(b) /\ b.pairs = P /\ b.regex = R /\ b.strings = body.strings
        /\ b.native = body.native /\ b.fingerprints = body.fingerprints
    BY <1>16, HeadIs
  <2> HIDE DEF a, b
  <2>4. a = b BY <2>1, <2>2, <2>3, SameDb
  <2> QED BY <2>4 DEF a, b
<1>19. y = AddLine(x, line, repair)
  <2>1. AddLine(x, line, repair)
          = InsertTrail(WithHead(x, Interned(x.pairs, q), Heard(x.regex, line, repair)),
                        line.trail, PairAt(Interned(x.pairs, q), q))
    BY DEF AddLine, q
  <2>2. AddLine(x, line, repair) = InsertTrail(WithHead(x, P, R), line.trail, PairAt(P, q))
    BY <1>6, <1>7, <2>1
  <2>3. y = InsertTrail(WithHead(body, P, R), line.trail, PairAt(P, q))
    BY <1>12, <1>15, <1>16, <1>23
  <2> QED BY <1>18, <2>2, <2>3
<1>20. IsDb(y) /\ y.pairs = P /\ y.regex = R
  <2>1. /\ IsDb(WithHead(body, P, R)) /\ WithHead(body, P, R).pairs = P
        /\ WithHead(body, P, R).regex = R
    BY <1>16, HeadIs
  <2>2. y = InsertTrail(WithHead(body, P, R), row[1], more[n + 1]) BY <1>15, <1>16
  <2> QED BY <2>1, <2>2, InsertTrailIs
<1>21. ASSUME NEW i \in 1 .. Len(next.pairs) PROVE Has(P, next.pairs[i])
  <2>0. Len(shard.pairs) \in Nat BY <1>3
  <2>1. CASE i \in 1 .. Len(shard.pairs)
    <3>1. next.pairs[i] = shard.pairs[i] BY <1>4, <2>1 DEF Prolongs
    <3>2. PICK k \in 1 .. Len(x.pairs) : x.pairs[k] = shard.pairs[i] BY <1>5, <2>1 DEF Has
    <3>3. Len(x.pairs) \in Nat /\ Len(P) \in Nat BY <1>5, <1>8 DEF Distinct
    <3>4. k \in 1 .. Len(P) /\ P[k] = shard.pairs[i] BY <1>8, <3>2, <3>3 DEF Prolongs
    <3> QED BY <3>1, <3>4 DEF Has
  <2>2. CASE i \notin 1 .. Len(shard.pairs)
    <3>1. ~Has(shard.pairs, q) BY <1>4, <2>2
    <3>2. next.pairs = Append(shard.pairs, q) BY <1>4, <3>1
    <3>3. Len(next.pairs) = Len(shard.pairs) + 1 /\ next.pairs[Len(shard.pairs) + 1] = q
      BY <1>1, <1>3, <3>2
    <3>4. i = Len(shard.pairs) + 1 BY <2>0, <2>2, <3>3
    <3> QED BY <1>8, <3>3, <3>4
  <2> QED BY <2>1, <2>2
<1> QED BY <1>8, <1>19, <1>20, <1>21 DEF Drained, P, R

-----------------------------------------------------------------------------
(* A table that says of a key what ans says, in numbers of pairs.          *)
Says(t, pairs, key, ans) ==
  /\ Values(t.slots, key) \subseteq 1 .. Len(pairs)
  /\ {pairs[i] : i \in Values(t.slots, key)} = ans

(* More pairs do not change what a table says.                             *)
LEMMA StillSays ==
  ASSUME NEW t, NEW pairs, Distinct(pairs), NEW longer, Distinct(longer), Prolongs(longer, pairs),
         NEW key, NEW ans, Says(t, pairs, key, ans)
  PROVE  Says(t, longer, key, ans)
<1>1. Len(pairs) \in Nat /\ Len(longer) \in Nat BY DEF Distinct
<1>2. \A i \in Values(t.slots, key) : i \in 1 .. Len(pairs) BY DEF Says
<1>3. \A i \in Values(t.slots, key) : i \in 1 .. Len(longer) /\ longer[i] = pairs[i]
  BY <1>1, <1>2 DEF Prolongs
<1>4. {longer[i] : i \in Values(t.slots, key)} = {pairs[i] : i \in Values(t.slots, key)}
  BY <1>3
<1> QED BY <1>3, <1>4 DEF Says

(* After insert() a table says the new pair of its key, and of the others  *)
(* what it said.                                                           *)
LEMMA InsertSays ==
  ASSUME NEW t, GoodTable(t), NEW pairs, NEW key, IsKey(key), NEW n \in 1 .. Len(pairs),
         Len(pairs) \in Nat, NEW z, z = Insert(t, key, n)
  PROVE  /\ GoodTable(z) /\ Says(z, pairs, key, {pairs[n]})
         /\ \A q, ans : q # key /\ Says(t, pairs, q, ans) => Says(z, pairs, q, ans)
<1>1. n # Empty BY DEF Empty
<1>2. /\ GoodTable(z) /\ Values(z.slots, key) = {n}
      /\ \A q : q # key => Values(z.slots, q) = Values(t.slots, q)
  BY <1>1, InsertGood
<1>3. Says(z, pairs, key, {pairs[n]}) BY <1>2 DEF Says
<1>4. ASSUME NEW q, NEW ans, q # key, Says(t, pairs, q, ans) PROVE Says(z, pairs, q, ans)
  <2>1. Values(z.slots, q) = Values(t.slots, q) BY <1>2, <1>4
  <2> QED BY <1>4, <2>1 DEF Says
<1> QED BY <1>2, <1>3, <1>4

-----------------------------------------------------------------------------
(* What the lines up to one say, and the next.                             *)
LEMMA KeptNext ==
  ASSUME NEW lines, NEW m \in Nat, NEW wl
  PROVE  /\ KeptLine(lines[m + 1], wl) =>
              Kept(lines, m + 1, wl) = Kept(lines, m, wl) \cup {m + 1}
         /\ ~KeptLine(lines[m + 1], wl) => Kept(lines, m + 1, wl) = Kept(lines, m, wl)
         /\ Kept(lines, m, wl) \subseteq 1 .. m
<1>1. \A i : i \in 1 .. m + 1 <=> i \in 1 .. m \/ i = m + 1 OBVIOUS
<1>2. \A i : i \in Kept(lines, m, wl) <=> i \in 1 .. m /\ KeptLine(lines[i], wl)
  BY DEF Kept, KeptLine
<1>3. \A i : i \in Kept(lines, m + 1, wl) <=> i \in 1 .. m + 1 /\ KeptLine(lines[i], wl)
  BY DEF Kept, KeptLine
<1>4. Kept(lines, m, wl) \subseteq 1 .. m BY <1>2
<1>5. ASSUME KeptLine(lines[m + 1], wl)
      PROVE  Kept(lines, m + 1, wl) = Kept(lines, m, wl) \cup {m + 1}
  BY <1>1, <1>2, <1>3, <1>5
<1>6. ASSUME ~KeptLine(lines[m + 1], wl) PROVE Kept(lines, m + 1, wl) = Kept(lines, m, wl)
  BY <1>1, <1>2, <1>3, <1>6
<1> QED BY <1>4, <1>5, <1>6

(* The last of some lines is the newest if that is one of them.            *)
LEMMA LastOfNext ==
  ASSUME NEW lines, NEW m \in Nat, NEW named \in SUBSET (1 .. m + 1), m + 1 \in named
  PROVE  LastOf(lines, named) = {PairOf(lines[m + 1])}
<1>1. named \in SUBSET (0 .. m + 1) /\ named # {} /\ m + 1 \in Nat OBVIOUS
<1>2. Max(named) \in named /\ \A y \in named : y <= Max(named) BY <1>1, MaxIn
<1>3. Max(named) \in 1 .. m + 1 /\ m + 1 <= Max(named) BY <1>2
<1>4. Max(named) = m + 1 BY <1>3
<1> QED BY <1>1, <1>4 DEF LastOf

(* The answers about a key that the next line names, and about another.    *)
Names(line, key) == line.trail = key

LEMMA TextNamed ==
  ASSUME NEW lines, NEW k \in Nat \ {0}, NEW wl, NEW line, line = lines[k], KeptLine(line, wl),
         NEW key, Names(line, key)
  PROVE  SaysOfText(lines, k, wl, key) = {PairOf(line)}
<1>0. PICK m \in Nat : m + 1 = k
  <2>1. k - 1 \in Nat /\ (k - 1) + 1 = k OBVIOUS
  <2> QED BY <2>1
<1> DEFINE named == {i \in Kept(lines, m + 1, wl) : lines[i].trail = key}
<1>1. /\ Kept(lines, m + 1, wl) = Kept(lines, m, wl) \cup {m + 1}
      /\ Kept(lines, m, wl) \subseteq 1 .. m
  BY <1>0, KeptNext
<1>2. SaysOfText(lines, k, wl, key) = LastOf(lines, named) BY <1>0 DEF SaysOfText
<1>3. named \in SUBSET (1 .. m + 1) /\ m + 1 \in named BY <1>0, <1>1 DEF Names
<1> HIDE DEF named
<1>4. LastOf(lines, named) = {PairOf(lines[m + 1])} BY <1>3, LastOfNext
<1> QED BY <1>0, <1>2, <1>4

(* What a file says of a text the next line does not name is the same.     *)
LEMMA TextNext ==
  ASSUME NEW lines, NEW m \in Nat, NEW wl, NEW key,
         ~(KeptLine(lines[m + 1], wl) /\ lines[m + 1].trail = key)
  PROVE  SaysOfText(lines, m + 1, wl, key) = SaysOfText(lines, m, wl, key)
<1>1. /\ KeptLine(lines[m + 1], wl) =>
           Kept(lines, m + 1, wl) = Kept(lines, m, wl) \cup {m + 1}
      /\ ~KeptLine(lines[m + 1], wl) => Kept(lines, m + 1, wl) = Kept(lines, m, wl)
  BY KeptNext
<1>2. {i \in Kept(lines, m + 1, wl) : lines[i].trail = key} =
        {i \in Kept(lines, m, wl) : lines[i].trail = key}
  BY <1>1
<1> QED BY <1>2 DEF SaysOfText

(* The same for an address.                                                *)
LEMMA AddressNamed ==
  ASSUME NEW lines, NEW k \in Nat \ {0}, NEW wl, NEW line, line = lines[k], KeptLine(line, wl),
         NEW key, key \in NativeOf(line.trail)
  PROVE  SaysOfAddress(lines, k, wl, key) = {PairOf(line)}
<1>0. PICK m \in Nat : m + 1 = k
  <2>1. k - 1 \in Nat /\ (k - 1) + 1 = k OBVIOUS
  <2> QED BY <2>1
<1> DEFINE named == {i \in Kept(lines, m + 1, wl) : key \in NativeOf(lines[i].trail)}
<1>1. /\ Kept(lines, m + 1, wl) = Kept(lines, m, wl) \cup {m + 1}
      /\ Kept(lines, m, wl) \subseteq 1 .. m
  BY <1>0, KeptNext
<1>2. SaysOfAddress(lines, k, wl, key) = LastOf(lines, named) BY <1>0 DEF SaysOfAddress
<1>3. named \in SUBSET (1 .. m + 1) /\ m + 1 \in named BY <1>0, <1>1
<1> HIDE DEF named
<1>4. LastOf(lines, named) = {PairOf(lines[m + 1])} BY <1>3, LastOfNext
<1> QED BY <1>0, <1>2, <1>4

(* And for an address the next line does not name.                         *)
LEMMA AddressNext ==
  ASSUME NEW lines, NEW m \in Nat, NEW wl, NEW key,
         ~(KeptLine(lines[m + 1], wl) /\ key \in NativeOf(lines[m + 1].trail))
  PROVE  SaysOfAddress(lines, m + 1, wl, key) = SaysOfAddress(lines, m, wl, key)
<1>1. /\ KeptLine(lines[m + 1], wl) =>
           Kept(lines, m + 1, wl) = Kept(lines, m, wl) \cup {m + 1}
      /\ ~KeptLine(lines[m + 1], wl) => Kept(lines, m + 1, wl) = Kept(lines, m, wl)
  BY KeptNext
<1>2. {i \in Kept(lines, m + 1, wl) : key \in NativeOf(lines[i].trail)} =
        {i \in Kept(lines, m, wl) : key \in NativeOf(lines[i].trail)}
  BY <1>1
<1> QED BY <1>2 DEF SaysOfAddress

UsableLine(line, repair) ==
  line.static /\ line.trail \in Wildcards /\ Accepted(line.trail, repair)

(* A line that can be compiled is one more usable line.                    *)
LEMMA UsableNext ==
  ASSUME NEW lines, NEW m \in Nat, NEW wl, NEW repair, NEW U, U = Usable(lines, m, wl, repair)
  PROVE  /\ KeptLine(lines[m + 1], wl) /\ UsableLine(lines[m + 1], repair) =>
              Usable(lines, m + 1, wl, repair) = U \cup {m + 1}
         /\ ~(KeptLine(lines[m + 1], wl) /\ UsableLine(lines[m + 1], repair)) =>
              Usable(lines, m + 1, wl, repair) = U
         /\ U \subseteq 1 .. m
<1>1. /\ KeptLine(lines[m + 1], wl) =>
           Kept(lines, m + 1, wl) = Kept(lines, m, wl) \cup {m + 1}
      /\ ~KeptLine(lines[m + 1], wl) => Kept(lines, m + 1, wl) = Kept(lines, m, wl)
      /\ Kept(lines, m, wl) \subseteq 1 .. m
  BY KeptNext
<1>2. \A n : Usable(lines, n, wl, repair)
               = {i \in Kept(lines, n, wl) : UsableLine(lines[i], repair)}
  BY DEF Usable, UsableLine
<1>3. U = {i \in Kept(lines, m, wl) : UsableLine(lines[i], repair)} BY <1>2
<1>4. Usable(lines, m + 1, wl, repair)
        = {i \in Kept(lines, m + 1, wl) : UsableLine(lines[i], repair)}
  BY <1>2
<1> QED BY <1>1, <1>3, <1>4

-----------------------------------------------------------------------------
(* Ranks among the usable lines.                                           *)
Rank(U, i) == Cardinality({j \in U : j <= i})

(* The newest line has the highest rank; the others keep theirs.           *)
LEMMA RankIs ==
  ASSUME NEW m \in Nat, NEW U \in SUBSET (1 .. m)
  PROVE  /\ IsFiniteSet(U) /\ Cardinality(U) \in Nat
         /\ Cardinality(U \cup {m + 1}) = Cardinality(U) + 1
         /\ Rank(U \cup {m + 1}, m + 1) = Cardinality(U) + 1
         /\ \A i \in U : /\ Rank(U, i) \in 1 .. Cardinality(U)
                         /\ Rank(U \cup {m + 1}, i) = Rank(U, i)
<1>1. IsFiniteSet(1 .. m)
  <2>1. 1 \in Int /\ m \in Int OBVIOUS
  <2> QED BY <2>1, FS_Interval
<1>2. IsFiniteSet(U) BY <1>1, FS_Subset
<1>3. Cardinality(U) \in Nat BY <1>2, FS_CardinalityType
<1>4. m + 1 \notin U /\ \A j \in U : j \in 1 .. m OBVIOUS
<1>5. Cardinality(U \cup {m + 1}) = Cardinality(U) + 1 BY <1>2, <1>4, FS_AddElement
<1>0. \A j \in U : j <= m + 1 BY <1>4
<1>9. m + 1 <= m + 1 OBVIOUS
<1>6. {j \in U \cup {m + 1} : j <= m + 1} = U \cup {m + 1} BY <1>0, <1>9, Zenon
<1>7. Rank(U \cup {m + 1}, m + 1) = Cardinality(U) + 1 BY <1>5, <1>6 DEF Rank
<1>8. ASSUME NEW i \in U
      PROVE  /\ Rank(U, i) \in 1 .. Cardinality(U)
             /\ Rank(U \cup {m + 1}, i) = Rank(U, i)
  <2> DEFINE L == {j \in U : j <= i}
  <2>1. {j \in U \cup {m + 1} : j <= i} = L BY <1>4
  <2>2. L \subseteq U /\ i \in L BY <1>4
  <2>0. Rank(U, i) = Cardinality(L) /\ Rank(U \cup {m + 1}, i) = Cardinality(L)
    BY <2>1 DEF Rank
  <2> HIDE DEF L
  <2>3. IsFiniteSet(L) /\ Cardinality(L) <= Cardinality(U) BY <1>2, <2>2, FS_Subset
  <2>4. Cardinality(L) \in Nat BY <2>3, FS_CardinalityType
  <2>6. L # {} BY <2>2
  <2>5. Cardinality(L) # 0 BY <2>3, <2>6, FS_EmptySet
  <2> QED BY <1>3, <2>0, <2>3, <2>4, <2>5
<1> QED BY <1>2, <1>3, <1>5, <1>7, <1>8

(* The patterns that an expression has been given, and its offers.         *)
IsRegex(regex, repair) ==
  /\ regex = [patterns |-> regex.patterns, offers |-> regex.offers]
  /\ regex.patterns \in Seq(Trails) /\ regex.offers \in Seq(Trails)
  /\ OfferAll(EmptyRegex, regex.offers, repair) = regex

(* An offer keeps the expression what its offers give.                     *)
LEMMA OfferKeeps ==
  ASSUME NEW regex, NEW repair, IsRegex(regex, repair), NEW trail \in Trails,
         NEW z, z = Offer(regex, trail, repair)
  PROVE  /\ IsRegex(z, repair)
         /\ Len(regex.patterns) >= MaxGroups => z.patterns = regex.patterns
         /\ ~Accepted(trail, repair) => z.patterns = regex.patterns
         /\ ~(Len(regex.patterns) >= MaxGroups) /\ Accepted(trail, repair) =>
              z.patterns = Append(regex.patterns, trail)
<1>1. CASE Len(regex.patterns) >= MaxGroups
  <2>1. z = regex BY <1>1 DEF Offer
  <2> QED BY <1>1, <2>1
<1>2. CASE ~(Len(regex.patterns) >= MaxGroups)
  <2>1. z = [offers |-> Append(regex.offers, trail),
             patterns |-> IF Accepted(trail, repair) THEN Append(regex.patterns, trail)
                          ELSE regex.patterns]
    BY <1>2 DEF Offer
  <2>2. /\ z.offers = Append(regex.offers, trail)
        /\ z.patterns = IF Accepted(trail, repair) THEN Append(regex.patterns, trail)
                        ELSE regex.patterns
        /\ z = [patterns |-> z.patterns, offers |-> z.offers]
    BY <2>1
  <2>3. regex.patterns \in Seq(Trails) /\ regex.offers \in Seq(Trails) BY DEF IsRegex
  <2>4. z.patterns \in Seq(Trails) /\ z.offers \in Seq(Trails) BY <2>2, <2>3
  <2>5. OfferAll(EmptyRegex, Append(regex.offers, trail), repair)
          = Offer(OfferAll(EmptyRegex, regex.offers, repair), trail, repair)
    BY <2>3, OfferAppend
  <2>6. OfferAll(EmptyRegex, z.offers, repair) = z BY <2>2, <2>5 DEF IsRegex
  <2> QED BY <1>2, <2>2, <2>4, <2>6 DEF IsRegex
<1> QED BY <1>1, <1>2

(* Patterns and usable lines, up to the number of groups.                  *)
LEMMA PatternsSay ==
  ASSUME NEW patterns, NEW lines, NEW U
  PROVE  PatternsAre(patterns, lines, U) <=>
           /\ Len(patterns) = Min({Cardinality(U), MaxGroups})
           /\ \A i \in U : Rank(U, i) <= MaxGroups => patterns[Rank(U, i)] = lines[i].trail
BY DEF PatternsAre, Rank

(* Offering the next usable line keeps the patterns the first usable       *)
(* lines.                                                                  *)
LEMMA PatternsNext ==
  ASSUME NEW m \in Nat, NEW U \in SUBSET (1 .. m), NEW lines, NEW repair,
         NEW regex, IsRegex(regex, repair), PatternsAre(regex.patterns, lines, U),
         lines[m + 1].trail \in Trails, Accepted(lines[m + 1].trail, repair),
         NEW z, z = Offer(regex, lines[m + 1].trail, repair)
  PROVE  PatternsAre(z.patterns, lines, U \cup {m + 1})
<1> DEFINE c == Cardinality(U)
           V == U \cup {m + 1}
           p == regex.patterns
           t == lines[m + 1].trail
<1>1. /\ c \in Nat /\ Cardinality(V) = c + 1 /\ Rank(V, m + 1) = c + 1
      /\ \A i \in U : Rank(U, i) \in 1 .. c /\ Rank(V, i) = Rank(U, i)
  BY RankIs
<1>2. MaxGroups \in Nat BY StoreAssumption
<1>3. /\ Len(p) = Min({c, MaxGroups})
      /\ \A i \in U : Rank(U, i) <= MaxGroups => p[Rank(U, i)] = lines[i].trail
  BY PatternsSay
<1>4. Len(p) = IF c <= MaxGroups THEN c ELSE MaxGroups BY <1>1, <1>2, <1>3, MinOfTwo
<1>5. Min({c + 1, MaxGroups}) = IF c + 1 <= MaxGroups THEN c + 1 ELSE MaxGroups
  BY <1>1, <1>2, MinOfTwo
<1>6. /\ Len(p) >= MaxGroups => z.patterns = p
      /\ ~(Len(p) >= MaxGroups) => z.patterns = Append(p, t)
  BY OfferKeeps
<1>7. p \in Seq(Trails) /\ t \in Trails BY DEF IsRegex
<1>8. \A i \in V : i \in U \/ i = m + 1 OBVIOUS
<1> HIDE DEF c, p, t, V
<1>9. CASE Len(p) >= MaxGroups
  <2>1. MaxGroups <= c /\ z.patterns = p BY <1>1, <1>2, <1>4, <1>6, <1>9
  <2>2. Len(z.patterns) = Min({Cardinality(V), MaxGroups}) BY <1>1, <1>2, <1>4, <1>5, <2>1
  <2>3. ASSUME NEW i \in V, Rank(V, i) <= MaxGroups PROVE z.patterns[Rank(V, i)] = lines[i].trail
    <3>1. i # m + 1 BY <1>1, <1>2, <2>1, <2>3
    <3>2. i \in U BY <1>8, <3>1
    <3> QED BY <1>1, <1>3, <2>1, <2>3, <3>2
  <2> QED BY <2>2, <2>3, PatternsSay DEF V
<1>10. CASE ~(Len(p) >= MaxGroups)
  <2>1. Len(p) = c /\ c < MaxGroups BY <1>1, <1>2, <1>4, <1>10
  <2>2. z.patterns = Append(p, t) BY <1>6, <1>10
  <2>3. /\ Len(z.patterns) = c + 1 /\ z.patterns[c + 1] = t
        /\ \A i \in 1 .. c : z.patterns[i] = p[i]
    BY <1>7, <2>1, <2>2
  <2>4. Len(z.patterns) = Min({Cardinality(V), MaxGroups}) BY <1>1, <1>2, <1>5, <2>1, <2>3
  <2>5. ASSUME NEW i \in V, Rank(V, i) <= MaxGroups PROVE z.patterns[Rank(V, i)] = lines[i].trail
    <3>1. CASE i \in U BY <1>1, <1>3, <2>3, <2>5, <3>1
    <3>2. CASE i = m + 1 BY <1>1, <2>3, <3>2 DEF t
    <3> QED BY <1>8, <3>1, <3>2
  <2> QED BY <2>4, <2>5, PatternsSay DEF V
<1> QED BY <1>9, <1>10

-----------------------------------------------------------------------------
Shapes(lines, n, wl) == UNION {ShapeOf(lines[i].trail) : i \in Kept(lines, n, wl)}

(* Tables that hold exactly what the first n lines say.                    *)
Built(db, lines, n, wl, repair) ==
  /\ IsDb(db) /\ Distinct(db.pairs) /\ GoodTable(db.strings) /\ GoodTable(db.native)
  /\ \A k \in Trails : Says(db.strings, db.pairs, k, SaysOfText(lines, n, wl, k))
  /\ \A a \in Addresses : Says(db.native, db.pairs, a, SaysOfAddress(lines, n, wl, a))
  /\ IsRegex(db.regex, repair)
  /\ PatternsAre(db.regex.patterns, lines, Usable(lines, n, wl, repair))
  /\ db.fingerprints = Shapes(lines, n, wl)

(* Every key of the CSV can be hashed, and a trail is the text of at most  *)
(* one address.                                                            *)
LEMMA KeysHash ==
  /\ \A k \in Trails : IsKey(k)
  /\ \A a \in Addresses : IsKey(a)
  /\ \A t \in Trails : \A a \in NativeOf(t) : a \in Addresses /\ NativeOf(t) = {a}
<1>1. \A k \in Trails \cup Addresses : IsKey(k) BY StoreAssumption DEF IsKey
<1>2. \A t \in Trails : \A a, b \in NativeOf(t) : a = b BY StoreAssumption
<1>3. \A t \in Trails : \A a \in NativeOf(t) : a \in Addresses BY DEF Addresses
<1>4. \A t \in Trails : \A a \in NativeOf(t) : NativeOf(t) = {a} BY <1>2
<1> QED BY <1>1, <1>3, <1>4

(* A line that is not kept changes nothing that the lines say.             *)
LEMMA SkipBuilt ==
  ASSUME NEW db, NEW lines, NEW m \in Nat, NEW wl, NEW repair, Built(db, lines, m, wl, repair),
         ~KeptLine(lines[m + 1], wl)
  PROVE  Built(db, lines, m + 1, wl, repair)
<1>1. \A k : SaysOfText(lines, m + 1, wl, k) = SaysOfText(lines, m, wl, k) BY TextNext
<1>2. \A a : SaysOfAddress(lines, m + 1, wl, a) = SaysOfAddress(lines, m, wl, a) BY AddressNext
<1>3. Usable(lines, m + 1, wl, repair) = Usable(lines, m, wl, repair) BY UsableNext
<1>4. Shapes(lines, m + 1, wl) = Shapes(lines, m, wl) BY KeptNext DEF Shapes
<1> QED BY <1>1, <1>2, <1>3, <1>4 DEF Built

(* Adding a kept line is adding what it says.                              *)
LEMMA AddBuilt ==
  ASSUME NEW db, NEW lines, NEW m \in Nat, NEW wl, NEW repair, Built(db, lines, m, wl, repair),
         lines[m + 1] \in Lines, KeptLine(lines[m + 1], wl),
         NEW z, z = AddLine(db, lines[m + 1], repair)
  PROVE  Built(z, lines, m + 1, wl, repair)
<1> DEFINE line == lines[m + 1]
           q == PairOf(line)
           t == line.trail
           P == Interned(db.pairs, q)
           R == Heard(db.regex, line, repair)
           n == PairAt(P, q)
           h == WithHead(db, P, R)
<1>0. line = lines[m + 1] /\ t = line.trail /\ q = PairOf(line) OBVIOUS
<1>1. t \in Trails /\ q \in Pairs BY DEF Trails, Pairs
<1>2. IsDb(db) /\ Distinct(db.pairs) /\ GoodTable(db.strings) /\ GoodTable(db.native)
  BY DEF Built
<1>3. z = InsertTrail(h, t, n) BY DEF AddLine
<1>4. /\ Distinct(P) /\ Prolongs(P, db.pairs)
      /\ n \in 1 .. Len(P) /\ P[n] = q
  BY <1>1, <1>2, InternedIs
<1>5. Len(P) \in Nat BY <1>4 DEF Distinct
<1>6. /\ IsDb(h) /\ h.pairs = P /\ h.regex = R /\ h.strings = db.strings
      /\ h.native = db.native /\ h.fingerprints = db.fingerprints
  BY <1>2, HeadIs
<1> HIDE DEF h, n, P, R, q, t, line
<1>13. line \in Lines /\ KeptLine(line, wl) BY <1>0
<1>12. m + 1 \in Nat \ {0} OBVIOUS
<1>14. SaysOfText(lines, m + 1, wl, t) = {PairOf(line)}
  <2>1. PICK k \in Nat \ {0} : k = m + 1 BY <1>12
  <2>2. line = lines[k] /\ Names(line, t) BY <1>0, <2>1 DEF Names
  <2>3. SaysOfText(lines, k, wl, t) = {PairOf(line)} BY <1>13, <2>2, TextNamed
  <2> QED BY <2>1, <2>3
<1>15. \A b \in NativeOf(line.trail) : SaysOfAddress(lines, m + 1, wl, b) = {PairOf(line)}
  BY <1>0, <1>12, <1>13, AddressNamed
<1>7. /\ IsDb(z) /\ z.pairs = P /\ z.regex = R /\ z.strings = Insert(db.strings, t, n)
      /\ z.native = InsertNative(db.native, t, n)
      /\ z.fingerprints = db.fingerprints \cup ShapeOf(t)
  BY <1>3, <1>6, InsertTrailIs
<1>8. /\ GoodTable(z.strings)
      /\ \A k \in Trails : Says(z.strings, P, k, SaysOfText(lines, m + 1, wl, k))
  <2>1. IsKey(t) BY <1>1, KeysHash
  <2>2. /\ GoodTable(z.strings) /\ Says(z.strings, P, t, {P[n]})
        /\ \A k, ans : k # t /\ Says(db.strings, P, k, ans) => Says(z.strings, P, k, ans)
    BY <1>2, <1>4, <1>5, <1>7, <2>1, InsertSays
  <2>3. ASSUME NEW k \in Trails PROVE Says(z.strings, P, k, SaysOfText(lines, m + 1, wl, k))
    <3>1. CASE k = t
      <4>1. SaysOfText(lines, m + 1, wl, t) = {q} BY <1>0, <1>14
      <4> QED BY <1>4, <2>2, <3>1, <4>1
    <3>2. CASE k # t
      <4>1. SaysOfText(lines, m + 1, wl, k) = SaysOfText(lines, m, wl, k)
        BY <1>0, <3>2, TextNext
      <4>2. Says(db.strings, db.pairs, k, SaysOfText(lines, m, wl, k)) BY DEF Built
      <4>3. Says(db.strings, P, k, SaysOfText(lines, m, wl, k))
        BY <1>2, <1>4, <4>2, StillSays
      <4> QED BY <2>2, <3>2, <4>1, <4>3
    <3> QED BY <3>1, <3>2
  <2> QED BY <2>2, <2>3
<1>9. /\ GoodTable(z.native)
      /\ \A a \in Addresses : Says(z.native, P, a, SaysOfAddress(lines, m + 1, wl, a))
  <2>1. \A a \in Addresses : Says(db.native, P, a, SaysOfAddress(lines, m, wl, a))
    <3> SUFFICES ASSUME NEW a \in Addresses
                 PROVE  Says(db.native, P, a, SaysOfAddress(lines, m, wl, a))
      OBVIOUS
    <3>1. Says(db.native, db.pairs, a, SaysOfAddress(lines, m, wl, a)) BY DEF Built
    <3> QED BY <1>2, <1>4, <3>1, StillSays
  <2>2. CASE NativeOf(t) = {}
    <3>1. z.native = db.native BY <1>7, <2>2 DEF InsertNative
    <3>2. \A a : SaysOfAddress(lines, m + 1, wl, a) = SaysOfAddress(lines, m, wl, a)
      BY <1>0, <2>2, AddressNext
    <3> QED BY <1>2, <2>1, <3>1, <3>2
  <2>3. CASE NativeOf(t) # {}
    <3> DEFINE b == CHOOSE a \in NativeOf(t) : TRUE
    <3>1. b \in NativeOf(t) BY <2>3
    <3>2. z.native = Insert(db.native, b, n) BY <1>7, <2>3 DEF InsertNative
    <3> HIDE DEF b
    <3>3. IsKey(b) /\ NativeOf(t) = {b} BY <1>1, <3>1, KeysHash
    <3>4. /\ GoodTable(z.native) /\ Says(z.native, P, b, {P[n]})
          /\ \A k, ans : k # b /\ Says(db.native, P, k, ans) => Says(z.native, P, k, ans)
      BY <1>2, <1>4, <1>5, <3>2, <3>3, InsertSays
    <3>5. ASSUME NEW a \in Addresses
          PROVE  Says(z.native, P, a, SaysOfAddress(lines, m + 1, wl, a))
      <4>1. CASE a = b
        <5>1. SaysOfAddress(lines, m + 1, wl, b) = {q} BY <1>0, <3>1, <1>15
        <5> QED BY <1>4, <3>4, <4>1, <5>1
      <4>2. CASE a # b
        <5>1. a \notin NativeOf(t) BY <3>3, <4>2
        <5>2. SaysOfAddress(lines, m + 1, wl, a) = SaysOfAddress(lines, m, wl, a)
          BY <1>0, <5>1, AddressNext
        <5> QED BY <2>1, <3>4, <4>2, <5>2
      <4> QED BY <4>1, <4>2
    <3> QED BY <3>4, <3>5
  <2> QED BY <2>2, <2>3
<1>10. /\ IsRegex(R, repair)
       /\ PatternsAre(R.patterns, lines, Usable(lines, m + 1, wl, repair))
  <2> DEFINE U == Usable(lines, m, wl, repair)
             V == Usable(lines, m + 1, wl, repair)
  <2>1. IsRegex(db.regex, repair) /\ PatternsAre(db.regex.patterns, lines, U) BY DEF Built
  <2>2. /\ UsableLine(line, repair) => V = U \cup {m + 1}
        /\ ~UsableLine(line, repair) => V = U
        /\ U \in SUBSET (1 .. m)
    BY <1>0, UsableNext
  <2> HIDE DEF U, V
  <2>3. CASE line.static /\ t \in Wildcards
    <3>1. R = Offer(db.regex, t, repair) BY <1>0, <2>3 DEF R, Heard
    <3>2. /\ IsRegex(R, repair)
          /\ ~Accepted(t, repair) => R.patterns = db.regex.patterns
      BY <1>1, <2>1, <3>1, OfferKeeps
    <3>3. CASE Accepted(t, repair)
      <4>1. V = U \cup {m + 1} BY <1>0, <2>2, <2>3, <3>3 DEF UsableLine
      <4>2. PatternsAre(R.patterns, lines, U \cup {m + 1})
        <5>1. lines[m + 1].trail = t BY <1>0
        <5> QED BY <1>1, <2>1, <2>2, <3>1, <3>3, <5>1, PatternsNext
      <4> QED BY <3>2, <4>1, <4>2 DEF V
    <3>4. CASE ~Accepted(t, repair)
      <4>1. V = U BY <1>0, <2>2, <3>4 DEF UsableLine
      <4> QED BY <2>1, <3>2, <3>4, <4>1 DEF V
    <3> QED BY <3>3, <3>4
  <2>4. CASE ~(line.static /\ t \in Wildcards)
    <3>1. R = db.regex BY <1>0, <2>4 DEF R, Heard
    <3>2. V = U BY <1>0, <2>2, <2>4 DEF UsableLine
    <3> QED BY <2>1, <3>1, <3>2 DEF V
  <2> QED BY <2>3, <2>4
<1>11. z.fingerprints = Shapes(lines, m + 1, wl)
  <2>1. Kept(lines, m + 1, wl) = Kept(lines, m, wl) \cup {m + 1} BY KeptNext
  <2>2. db.fingerprints = Shapes(lines, m, wl) BY DEF Built
  <2>3. Shapes(lines, m + 1, wl) = Shapes(lines, m, wl) \cup ShapeOf(lines[m + 1].trail)
    BY <2>1 DEF Shapes
  <2> QED BY <1>0, <1>7, <2>2, <2>3
<1> QED BY <1>4, <1>7, <1>8, <1>9, <1>10, <1>11 DEF Built

(* Draining a slice adds its lines.                                        *)
LEMMA SliceBuilt ==
  ASSUME NEW db, NEW lines \in Seq(Lines), NEW a \in Nat, NEW b \in Nat, a <= b, b <= Len(lines),
         NEW wl, NEW repair, Built(db, lines, a, wl, repair)
  PROVE  Built(Drain(db, ParseSlice(lines, a, b, wl), repair), lines, b, wl, repair)
<1> DEFINE shard(k) == ParseSlice(lines, a, a + k, wl)
           x(k) == Drain(db, shard(k), repair)
           Good(k) == /\ IsShard(shard(k)) /\ Drained(db, shard(k), repair, x(k))
                      /\ Built(x(k), lines, a + k, wl, repair)
           ok == {k \in 0 .. b - a : Good(k)}
<1>1. IsDb(db) /\ Distinct(db.pairs) BY DEF Built
<1>2. Good(0)
  <2>0. a + 0 = a /\ a <= a OBVIOUS
  <2>1. shard(0) = EmptyShard BY <2>0, ParseStep
  <2>2. /\ EmptyShard.rows = <<>> /\ EmptyShard.pairs = <<>> /\ EmptyShard.wildcards = <<>>
        /\ IsShard(EmptyShard)
    <3>1. Distinct(<<>>) BY DEF Distinct
    <3> QED BY <3>1 DEF EmptyShard, IsShard
  <2>3. InternAll(db.pairs, <<>>) = db.pairs
    <3>1. Len(<<>>) = 0 OBVIOUS
    <3>2. PICK f : Interning(f, db.pairs, <<>>, 0) /\ InternAll(db.pairs, <<>>) = f[0]
      BY <3>1, InternRuns
    <3> QED BY <3>2 DEF Interning
  <2>4. OfferAll(db.regex, <<>>, repair) = db.regex
    <3>1. Len(<<>>) = 0 OBVIOUS
    <3>2. PICK f : Offering(f, db.regex, <<>>, repair, 0) /\ OfferAll(db.regex, <<>>, repair) = f[0]
      BY <3>1, OfferRuns
    <3> QED BY <3>2 DEF Offering
  <2>5. Drain(db, EmptyShard, repair) = db
    <3>1. Drain(db, EmptyShard, repair)
            = InsertAll(WithHead(db, db.pairs, db.regex), <<>>, Numbers(EmptyShard, db.pairs))
      BY <1>1, <2>2, <2>3, <2>4, DrainIs
    <3>2. WithHead(db, db.pairs, db.regex) = db BY <1>1 DEF WithHead, IsDb
    <3> QED BY <3>1, <3>2, InsertNothing
  <2>6. Drained(db, EmptyShard, repair, db)
    <3>1. \A i \in 1 .. Len(<<>>) : FALSE OBVIOUS
    <3> QED BY <1>1, <2>2, <2>3, <2>4, <2>5, <3>1 DEF Drained
  <2> QED BY <2>0, <2>1, <2>2, <2>5, <2>6
<1>3. ASSUME NEW k \in 1 .. b - a, Good(k - 1) PROVE Good(k)
  <2> DEFINE m == a + (k - 1)
             line == lines[m + 1]
  <2>1. m \in Nat /\ m + 1 = a + k /\ a <= m /\ m + 1 \in 1 .. Len(lines) OBVIOUS
  <2>2. line \in Lines BY <2>1
  <2>3. shard(k) = ParseLine(shard(k - 1), line, wl)
    <3> HIDE DEF m
    <3>1. ParseSlice(lines, a, m + 1, wl) = ParseLine(ParseSlice(lines, a, m, wl), lines[m + 1], wl)
      BY <2>1, ParseStep
    <3> QED BY <2>1, <3>1 DEF m
  <2>4. /\ IsShard(shard(k - 1)) /\ Drained(db, shard(k - 1), repair, x(k - 1))
        /\ Built(x(k - 1), lines, m, wl, repair)
    BY <1>3
  <2>0. /\ line = lines[m + 1] /\ x(k) = Drain(db, shard(k), repair)
        /\ x(k - 1) = Drain(db, shard(k - 1), repair)
    OBVIOUS
  <2> HIDE DEF m, line, shard, x
  <2>5. CASE KeptLine(line, wl)
    <3>1. IsShard(shard(k)) BY <2>2, <2>3, <2>4, <2>5, ParseLineIs
    <3>2. Drained(db, shard(k), repair, x(k)) /\ x(k) = AddLine(x(k - 1), line, repair)
      BY <1>1, <2>0, <2>2, <2>3, <2>4, <2>5, DrainStep
    <3>3. Built(x(k), lines, m + 1, wl, repair)
      BY <2>0, <2>1, <2>2, <2>4, <2>5, <3>2, AddBuilt
    <3> QED BY <2>1, <3>1, <3>2, <3>3
  <2>6. CASE ~KeptLine(line, wl)
    <3>1. /\ IsShard(shard(k)) /\ shard(k).pairs = shard(k - 1).pairs
          /\ shard(k).rows = shard(k - 1).rows /\ shard(k).wildcards = shard(k - 1).wildcards
      BY <2>2, <2>3, <2>4, <2>6, ParseLineSkips
    <3>2. x(k) = x(k - 1) BY <2>0, <3>1 DEF Drain
    <3>3. Drained(db, shard(k), repair, x(k)) BY <2>0, <2>4, <3>1, <3>2 DEF Drained
    <3>4. Built(x(k), lines, m + 1, wl, repair)
      BY <2>0, <2>1, <2>4, <2>6, <3>2, SkipBuilt
    <3> QED BY <2>1, <3>1, <3>3, <3>4
  <2> QED BY <2>5, <2>6
<1> HIDE DEF Good
<1>4. b - a \in Nat OBVIOUS
<1>5. 0 \in ok BY <1>2, <1>4
<1>6. \A k \in 1 .. b - a : k - 1 \in ok => k \in ok BY <1>3, <1>4
<1> HIDE DEF ok
<1>7. \A k \in 0 .. b - a : k \in ok BY <1>4, <1>5, <1>6, UpTo
<1>8. b - a \in ok BY <1>4, <1>7
<1>9. Good(b - a) BY <1>8 DEF ok
<1>10. a + (b - a) = b OBVIOUS
<1> QED BY <1>9, <1>10 DEF Good, x, shard

-----------------------------------------------------------------------------
(* A share of the lines ends before the last line.                         *)
LEMMA ShareEnds ==
  ASSUME NEW n \in Nat \ {0}, NEW parts \in Nat \ {0}, NEW p \in 0 .. parts - 1
  PROVE  (n * p) \div parts \in 0 .. n - 1
<1> DEFINE q == (n * p) \div parts
<1>1. n * p \in Nat OBVIOUS
<1>2. q \in Nat /\ q * parts <= n * p BY <1>1
<1>3. n * p < n * parts OBVIOUS
<1> HIDE DEF q
<1>4. q < n
  <2> SUFFICES ASSUME q >= n PROVE FALSE BY <1>2
  <2>1. q * parts >= n * parts BY <1>2
  <2>2. q * parts \in Nat /\ n * parts \in Nat BY <1>2
  <2> QED BY <1>1, <1>2, <1>3, <2>1, <2>2
<1>5. q \in 0 .. n - 1 BY <1>2, <1>4
<1> QED BY <1>5 DEF q

(* Pieces that follow one another from the first line to line number to.   *)
EndOf(cuts, i) == IF i = 0 THEN 0 ELSE cuts[i][2]

Tiled(cuts, to, n) ==
  /\ cuts \in Seq(Nat \X Nat) /\ to \in 0 .. n /\ EndOf(cuts, Len(cuts)) = to
  /\ \A i \in 1 .. Len(cuts) :
       /\ cuts[i][1] = EndOf(cuts, i - 1)
       /\ cuts[i][1] <= cuts[i][2] /\ cuts[i][2] <= n

(* One more cut after the last tiles further.                              *)
LEMMA TiledAppend ==
  ASSUME NEW n \in Nat, NEW cuts, NEW to, Tiled(cuts, to, n), NEW more \in 0 .. n, to <= more,
         NEW z, z = Append(cuts, <<to, more>>)
  PROVE  Tiled(z, more, n)
<1> DEFINE m == Len(cuts)
<1>1. cuts \in Seq(Nat \X Nat) /\ m \in Nat /\ to \in Nat BY DEF Tiled
<1>0. m \in Nat /\ m + 1 # 0 BY <1>1
<1>2. <<to, more>> \in Nat \X Nat BY <1>1
<1>3. /\ z \in Seq(Nat \X Nat) /\ Len(z) = m + 1 /\ z[m + 1] = <<to, more>>
      /\ \A i \in 1 .. m : z[i] = cuts[i]
  BY <1>1, <1>2
<1>4. z[m + 1][1] = to /\ z[m + 1][2] = more BY <1>3
<1>5. EndOf(cuts, m) = to BY DEF Tiled
<1> HIDE DEF m
<1>6. \A i \in 0 .. m : EndOf(z, i) = EndOf(cuts, i) BY <1>0, <1>3 DEF EndOf
<1>7. EndOf(z, m + 1) = more BY <1>0, <1>4 DEF EndOf
<1>8. ASSUME NEW i \in 1 .. m + 1
      PROVE  z[i][1] = EndOf(z, i - 1) /\ z[i][1] <= z[i][2] /\ z[i][2] <= n
  <2>1. CASE i \in 1 .. m
    <3>1. cuts[i][1] = EndOf(cuts, i - 1) /\ cuts[i][1] <= cuts[i][2] /\ cuts[i][2] <= n
      BY <2>1 DEF Tiled, m
    <3>2. i - 1 \in 0 .. m BY <1>0, <2>1
    <3> QED BY <1>3, <1>6, <2>1, <3>1, <3>2
  <2>2. CASE i = m + 1
    <3>1. i - 1 = m /\ m \in 0 .. m BY <1>0, <2>2
    <3>2. EndOf(z, i - 1) = to BY <1>5, <1>6, <3>1
    <3>3. z[i][1] = to /\ z[i][2] = more BY <1>4, <2>2
    <3>4. to <= more /\ more <= n OBVIOUS
    <3> QED BY <3>2, <3>3, <3>4
  <2>3. i \in 1 .. m \/ i = m + 1 BY <1>0
  <2> QED BY <2>1, <2>2, <2>3
<1> QED BY <1>3, <1>7, <1>8 DEF Tiled

(* split_lines() leaves out nothing and takes nothing twice.               *)
LEMMA SplitTiles ==
  ASSUME NEW n \in Nat, NEW parts \in Nat \ {0}, NEW z, z = SplitLines(n, parts)
  PROVE  Tiled(z, n, n)
<1> DEFINE Fine(acc) == Tiled(acc.cuts, acc.start, n)
<1>1. PICK f : Cutting(f, n, parts, (parts - 1)) /\ Cuts(n, parts) = f[(parts - 1)]
  BY CutsRun
<1>2. /\ f[0] = [start |-> 0, cuts |-> <<>>]
      /\ \A p \in 1 .. parts - 1 : f[p] = NextCut(f[p - 1], n, p, parts)
  BY <1>1 DEF Cutting
<1>3. Fine(f[0])
  <2>1. f[0].start = 0 /\ f[0].cuts = <<>> BY <1>2
  <2>2. <<>> \in Seq(Nat \X Nat) /\ Len(<<>>) = 0 OBVIOUS
  <2>3. Tiled(<<>>, 0, n) BY <2>2 DEF Tiled, EndOf
  <2> QED BY <2>1, <2>3
<1>4. ASSUME NEW p \in 1 .. parts - 1, Fine(f[p - 1]) PROVE Fine(f[p])
  <2> DEFINE acc == f[p - 1]
             target == (n * p) \div parts
  <2>1. f[p] = NextCut(acc, n, p, parts) BY <1>2
  <2>2. acc.start \in 0 .. n BY <1>4 DEF Tiled
  <2>3. CASE target <= acc.start \/ acc.start >= n
    <3>1. f[p] = acc BY <2>1, <2>3 DEF NextCut
    <3> QED BY <1>4, <3>1
  <2>4. CASE ~(target <= acc.start \/ acc.start >= n)
    <3>1. f[p] = [start |-> target + 1, cuts |-> Append(acc.cuts, <<acc.start, target + 1>>)]
      BY <2>1, <2>4 DEF NextCut
    <3>2. f[p].start = target + 1 /\ f[p].cuts = Append(acc.cuts, <<acc.start, target + 1>>)
      BY <3>1
    <3>3. n # 0 BY <2>2, <2>4
    <3>4. target \in 0 .. n - 1 BY <3>3, ShareEnds
    <3> HIDE DEF target
    <3>5. target + 1 \in 0 .. n /\ acc.start <= target + 1 BY <2>2, <2>4, <3>4
    <3>6. Tiled(acc.cuts, acc.start, n) BY <1>4
    <3> HIDE DEF acc
    <3>7. Tiled(f[p].cuts, target + 1, n) BY <3>2, <3>5, <3>6, TiledAppend
    <3> QED BY <3>2, <3>7
  <2> QED BY <2>3, <2>4
<1> DEFINE ok == {p \in 0 .. parts - 1 : Fine(f[p])}
<1> HIDE DEF Fine
<1>5. parts - 1 \in Nat OBVIOUS
<1>6. 0 \in ok BY <1>3, <1>5
<1>7. \A p \in 1 .. parts - 1 : p - 1 \in ok => p \in ok BY <1>4, <1>5
<1> HIDE DEF ok
<1>8. \A p \in 0 .. parts - 1 : p \in ok BY <1>5, <1>6, <1>7, UpTo
<1>9. parts - 1 \in ok BY <1>5, <1>8
<1> DEFINE most == Cuts(n, parts)
<1>10. Tiled(most.cuts, most.start, n) BY <1>1, <1>9 DEF ok, Fine
<1>11. most.start \in 0 .. n BY <1>10 DEF Tiled
<1>12. z = IF most.start < n THEN Append(most.cuts, <<most.start, n>>) ELSE most.cuts
  BY DEF SplitLines
<1> HIDE DEF most
<1>13. CASE most.start < n
  <2>1. z = Append(most.cuts, <<most.start, n>>) BY <1>12, <1>13
  <2>2. n \in 0 .. n /\ most.start <= n BY <1>11, <1>13
  <2> QED BY <1>10, <2>1, <2>2, TiledAppend
<1>14. CASE ~(most.start < n)
  <2>1. most.start = n /\ z = most.cuts BY <1>11, <1>12, <1>14
  <2> QED BY <1>10, <2>1
<1> QED BY <1>13, <1>14

(* A batch adds its lines, whatever the number of threads.                 *)
LEMMA BatchBuilt ==
  ASSUME NEW db, NEW lines \in Seq(Lines), NEW done \in 0 .. Len(lines), NEW wl, NEW repair,
         NEW threads \in Nat \ {0}, Built(db, lines, done, wl, repair)
  PROVE  Built(LoadBatch(db, lines, done, wl, repair, threads), lines, Len(lines), wl, repair)
<1> DEFINE n == Len(lines) - done
           bounds == SplitLines(n, threads)
           top == Len(bounds)
<1>1. n \in Nat /\ Len(lines) \in Nat /\ done + n = Len(lines) /\ done \in Nat OBVIOUS
<1> HIDE DEF n
<1>2. Tiled(bounds, n, n) BY <1>1, SplitTiles
<1>0. bounds = SplitLines(Len(lines) - done, threads) BY DEF n
<1> HIDE DEF bounds
<1>3. /\ bounds \in Seq(Nat \X Nat) /\ top \in Nat /\ EndOf(bounds, top) = n
      /\ \A i \in 1 .. top : /\ bounds[i][1] = EndOf(bounds, i - 1)
                             /\ bounds[i][1] <= bounds[i][2] /\ bounds[i][2] <= n
                             /\ bounds[i][1] \in Nat /\ bounds[i][2] \in Nat
  <2>1. bounds \in Seq(Nat \X Nat) BY <1>2 DEF Tiled
  <2>2. \A i \in 1 .. top : bounds[i] \in Nat \X Nat BY <2>1
  <2> QED BY <1>2, <2>1, <2>2 DEF Tiled
<1>4. PICK f : /\ Draining(f, db, lines, done, wl, repair, bounds, top)
               /\ LoadBatch(db, lines, done, wl, repair, threads) = f[top]
  <2>1. Len(bounds) \in Nat BY <1>3
  <2> QED BY <1>0, <2>1, BatchRuns
<1> HIDE DEF top
<1>12. top \in Nat BY <1>3
<1> DEFINE Fine(i) == Built(f[i], lines, done + EndOf(bounds, i), wl, repair)
           ok == {i \in 0 .. top : Fine(i)}
<1>5. Fine(0)
  <2>1. f[0] = db BY <1>4 DEF Draining
  <2>2. done + EndOf(bounds, 0) = done BY <1>1 DEF EndOf
  <2> QED BY <2>1, <2>2
<1>6. ASSUME NEW i \in 1 .. top, Fine(i - 1) PROVE Fine(i)
  <2> DEFINE a == done + bounds[i][1]
             b == done + bounds[i][2]
  <2>0. /\ bounds[i][1] \in Nat /\ bounds[i][2] \in Nat /\ bounds[i][1] <= bounds[i][2]
        /\ bounds[i][2] <= n /\ bounds[i][1] = EndOf(bounds, i - 1) /\ i # 0
    BY <1>3, <1>12
  <2>6. bounds[i][2] = EndOf(bounds, i) BY <2>0 DEF EndOf
  <2>1. a \in Nat /\ b \in Nat /\ a <= b /\ b <= Len(lines)
    <3>1. ASSUME NEW x \in Nat, NEW y \in Nat, x <= y, y <= n
          PROVE  done + x \in Nat /\ done + y \in Nat /\ done + x <= done + y
                 /\ done + y <= Len(lines)
      BY <1>1, <3>1
    <3> QED BY <2>0, <3>1
  <2>2. a = done + EndOf(bounds, i - 1) /\ b = done + EndOf(bounds, i)
    BY <2>0, <2>6
  <2>3. f[i] = Drain(f[i - 1], ParseSlice(lines, a, b, wl), repair) BY <1>4 DEF Draining
  <2>4. Built(f[i - 1], lines, a, wl, repair) BY <1>6, <2>2
  <2> HIDE DEF a, b
  <2>5. Built(f[i], lines, b, wl, repair) BY <2>1, <2>3, <2>4, SliceBuilt
  <2> QED BY <2>2, <2>5
<1> HIDE DEF Fine
<1>7. 0 \in ok BY <1>5, <1>12
<1>8. \A i \in 1 .. top : i - 1 \in ok => i \in ok BY <1>6, <1>12
<1> HIDE DEF ok
<1>9. \A i \in 0 .. top : i \in ok BY <1>7, <1>8, <1>12, UpTo
<1>10. top \in ok BY <1>9, <1>12
<1>11. Fine(top) BY <1>10 DEF ok
<1> QED BY <1>1, <1>3, <1>4, <1>11 DEF Fine

-----------------------------------------------------------------------------
(* What the lines say depends on the lines.                                *)
LEMMA PrefixBuilt ==
  ASSUME NEW db, NEW lines, NEW more, NEW n \in Nat, NEW wl, NEW repair, SameTo(more, lines, n),
         Built(db, lines, n, wl, repair)
  PROVE  Built(db, more, n, wl, repair)
<1>1. \A i \in 1 .. n : more[i] = lines[i] BY DEF SameTo
<1>2. Kept(more, n, wl) = Kept(lines, n, wl) BY <1>1 DEF Kept
<1>3. Kept(lines, n, wl) \subseteq 1 .. n BY DEF Kept
<1>4. ASSUME NEW S \in SUBSET (1 .. n) PROVE LastOf(more, S) = LastOf(lines, S)
  <2>1. CASE S = {} BY <2>1 DEF LastOf
  <2>2. CASE S # {}
    <3>1. S \in SUBSET (0 .. n) OBVIOUS
    <3>2. Max(S) \in S BY <2>2, <3>1, MaxIn
    <3>3. more[Max(S)] = lines[Max(S)] BY <1>1, <3>2
    <3> QED BY <2>2, <3>3 DEF LastOf
  <2> QED BY <2>1, <2>2
<1>5. \A k : SaysOfText(more, n, wl, k) = SaysOfText(lines, n, wl, k)
  <2> SUFFICES ASSUME NEW k PROVE SaysOfText(more, n, wl, k) = SaysOfText(lines, n, wl, k)
    OBVIOUS
  <2> DEFINE S == {i \in Kept(lines, n, wl) : lines[i].trail = k}
  <2>1. S \in SUBSET (1 .. n) BY <1>3
  <2>2. {i \in Kept(more, n, wl) : more[i].trail = k} = S BY <1>1, <1>2, <1>3
  <2> HIDE DEF S
  <2>3. LastOf(more, S) = LastOf(lines, S) BY <1>4, <2>1
  <2> QED BY <2>2, <2>3 DEF SaysOfText, S
<1>6. \A a : SaysOfAddress(more, n, wl, a) = SaysOfAddress(lines, n, wl, a)
  <2> SUFFICES ASSUME NEW a PROVE SaysOfAddress(more, n, wl, a) = SaysOfAddress(lines, n, wl, a)
    OBVIOUS
  <2> DEFINE S == {i \in Kept(lines, n, wl) : a \in NativeOf(lines[i].trail)}
  <2>1. S \in SUBSET (1 .. n) BY <1>3
  <2>2. {i \in Kept(more, n, wl) : a \in NativeOf(more[i].trail)} = S BY <1>1, <1>2, <1>3
  <2> HIDE DEF S
  <2>3. LastOf(more, S) = LastOf(lines, S) BY <1>4, <2>1
  <2> QED BY <2>2, <2>3 DEF SaysOfAddress, S
<1> DEFINE U == Usable(lines, n, wl, repair)
<1>7. Usable(more, n, wl, repair) = U /\ \A i \in U : i \in 1 .. n
  BY <1>1, <1>2, <1>3 DEF Usable
<1>8. PatternsAre(db.regex.patterns, lines, U) BY DEF Built
<1> HIDE DEF U
<1>9. PatternsAre(db.regex.patterns, more, U)
  <2>1. \A i \in U : more[i].trail = lines[i].trail BY <1>1, <1>7
  <2> QED BY <1>8, <2>1, PatternsSay
<1>10. Shapes(more, n, wl) = Shapes(lines, n, wl) BY <1>1, <1>2, <1>3 DEF Shapes
<1> QED BY <1>5, <1>6, <1>7, <1>9, <1>10 DEF Built

(* Empty tables hold no lines.                                             *)
LEMMA EmptyBuilt ==
  ASSUME NEW n \in Nat, NEW lines, NEW wl, NEW repair
  PROVE  Built(EmptyDb(n), lines, 0, wl, repair)
<1> DEFINE db == EmptyDb(n)
<1>1. /\ IsDb(db) /\ db.pairs = <<>> /\ db.strings = NewTable(n)
      /\ db.native = NewTable(n \div 8 + 1) /\ db.regex = EmptyRegex /\ db.fingerprints = {}
  BY DEF EmptyDb, IsDb
<1> HIDE DEF db
<1>2. GoodTable(db.strings) /\ \A q : Values(db.strings.slots, q) = {} BY <1>1, NewGood
<1>3. GoodTable(db.native) /\ \A q : Values(db.native.slots, q) = {}
  <2>1. n \div 8 + 1 \in Nat OBVIOUS
  <2> QED BY <1>1, <2>1, NewGood
<1>4. Distinct(db.pairs)
  <2>1. <<>> \in Seq(Pairs) /\ Len(<<>>) = 0 OBVIOUS
  <2> QED BY <1>1, <2>1 DEF Distinct
<1>5. Kept(lines, 0, wl) = {} BY DEF Kept
<1>6. \A k : SaysOfText(lines, 0, wl, k) = {} /\ SaysOfAddress(lines, 0, wl, k) = {}
  BY <1>5 DEF SaysOfText, SaysOfAddress, LastOf
<1>7. \A k : Says(db.strings, db.pairs, k, {}) BY <1>2 DEF Says
<1>8. \A k : Says(db.native, db.pairs, k, {}) BY <1>3 DEF Says
<1>9. IsRegex(EmptyRegex, repair)
  <2>1. EmptyRegex.patterns = <<>> /\ EmptyRegex.offers = <<>> BY DEF EmptyRegex
  <2>2. <<>> \in Seq(Trails) /\ Len(<<>>) = 0 OBVIOUS
  <2>3. PICK f : /\ Offering(f, EmptyRegex, <<>>, repair, 0)
                 /\ OfferAll(EmptyRegex, <<>>, repair) = f[0]
    BY <2>2, OfferRuns
  <2>4. OfferAll(EmptyRegex, <<>>, repair) = EmptyRegex BY <2>3 DEF Offering
  <2>5. EmptyRegex = [patterns |-> EmptyRegex.patterns, offers |-> EmptyRegex.offers]
    BY DEF EmptyRegex
  <2> QED BY <2>1, <2>2, <2>4, <2>5 DEF IsRegex
<1>10. PatternsAre(db.regex.patterns, lines, Usable(lines, 0, wl, repair))
  <2>1. Usable(lines, 0, wl, repair) = {} BY <1>5 DEF Usable
  <2>2. db.regex.patterns = <<>> /\ Len(<<>>) = 0 BY <1>1 DEF EmptyRegex
  <2>3. Cardinality({}) = 0 BY FS_EmptySet
  <2>4. MaxGroups \in Nat BY StoreAssumption
  <2>5. Min({0, MaxGroups}) = 0 BY <2>4, MinOfTwo
  <2>6. PatternsAre(<<>>, lines, {}) BY <2>2, <2>3, <2>5, PatternsSay
  <2> QED BY <2>1, <2>2, <2>6
<1>11. db.fingerprints = Shapes(lines, 0, wl) BY <1>1, <1>5 DEF Shapes
<1>12. Built(db, lines, 0, wl, repair)
  BY <1>1, <1>2, <1>3, <1>4, <1>6, <1>7, <1>8, <1>9, <1>10, <1>11 DEF Built
<1> QED BY <1>12 DEF db

(* Tables that hold what the lines say answer as the lines do.             *)
LEMMA BuiltAnswers ==
  ASSUME NEW db, NEW lines, NEW n, NEW wl, NEW repair, Built(db, lines, n, wl, repair)
  PROVE  Answers(db, lines, n, wl, repair, Trails, Addresses)
<1>1. ASSUME NEW k \in Trails PROVE Lookup(db, k) = SaysOfText(lines, n, wl, k)
  <2>1. IsKey(k) BY KeysHash
  <2>2. Get(db.strings, k) = Values(db.strings.slots, k) BY <2>1, GetIs DEF Built
  <2>3. Says(db.strings, db.pairs, k, SaysOfText(lines, n, wl, k)) BY DEF Built
  <2> QED BY <2>2, <2>3 DEF Says, Lookup
<1>2. ASSUME NEW a \in Addresses PROVE LookupNative(db, a) = SaysOfAddress(lines, n, wl, a)
  <2>1. IsKey(a) BY KeysHash
  <2>2. Get(db.native, a) = Values(db.native.slots, a) BY <2>1, GetIs DEF Built
  <2>3. Says(db.native, db.pairs, a, SaysOfAddress(lines, n, wl, a)) BY DEF Built
  <2> QED BY <2>2, <2>3 DEF Says, LookupNative
<1>3. PatternsAre(db.regex.patterns, lines, Usable(lines, n, wl, repair)) BY DEF Built
<1>4. db.fingerprints = UNION {ShapeOf(lines[i].trail) : i \in Kept(lines, n, wl)}
  BY DEF Built, Shapes
<1> QED BY <1>1, <1>2, <1>3, <1>4 DEF Answers

-----------------------------------------------------------------------------
(* A sensor that has opened the CSV, and the content it loads.             *)
Loading(r) == r.pc \in {"opened", "reading", "parsed", "written"}

Content(r) == IF r.pc \in {"opened", "reading"} THEN r.fd ELSE r.got

IsSensor(r) ==
  r = [pc |-> r.pc, wl |-> r.wl, build |-> r.build, hash |-> r.hash, meta |-> r.meta, fd |-> r.fd,
       identity |-> r.identity, got |-> r.got, db |-> r.db, from |-> r.from, seen |-> r.seen,
       torn |-> r.torn, serving |-> r.serving]

HoldsLines(r, lines) ==
  /\ lines \in Seq(Lines)
  /\ Built(r.db, lines, Len(lines), WhitelistOf(r.wl), r.build.repair)

(* What is true of a running sensor by itself: the tables it serves or     *)
(* fills hold the lines they were filled from, and unless the CSV was      *)
(* overwritten between two reads, these are lines it was seen to have.     *)
Fits(r) ==
  /\ IsSensor(r) /\ r.torn \in BOOLEAN /\ (r.pc = "idle" \/ Loading(r))
  /\ r.serving => HoldsLines(r, r.from) /\ (r.from \in r.seen \/ r.torn) /\ r.pc = "idle"
  /\ Loading(r) => r.fd \in Contents /\ r.fd \in r.seen /\ EstimateOf(r.meta.len) \in Nat
  /\ r.pc = "opened" => r.got = <<>> /\ ~r.torn
  /\ r.pc \in {"reading", "parsed", "written"} => HoldsLines(r, r.got)
  /\ r.pc = "reading" /\ ~r.torn => Len(r.got) <= Len(r.fd) /\ SameTo(r.got, r.fd, Len(r.got))
  /\ r.pc \in {"parsed", "written"} => r.got \in r.seen \/ r.torn

(* And of a sensor next to the CSV, the whitelist and the clock.           *)
Meets(r, disk, wl) ==
  /\ r.wl = wl
  /\ Loading(r) => /\ r.hash = wl /\ disk.lines \in r.seen
                   /\ r.meta.ino = disk.ino => r.fd = disk.lines

(* An identity that was settled when it was taken stays true: as long as   *)
(* the CSV has it, the CSV has the content that was read under it, and a   *)
(* sensor that opened the CSV under it has seen that content.              *)
Claim(identity, torn, content, now, kept, disk, all) ==
  identity # NoIdentity =>
    /\ identity[2] + 2 <= now /\ identity[2] \in Nat
    /\ kept =>
         /\ identity = InodeParts(disk) => ~torn /\ content = disk.lines
         /\ \A s \in Sensors :
              Loading(all[s]) /\ identity = InodeParts(all[s].meta) =>
                torn \/ content \in all[s].seen

CsvOk(now, disk) ==
  /\ disk = [lines |-> disk.lines, mtime |-> disk.mtime, ino |-> disk.ino, ctime |-> disk.ctime]
  /\ disk.lines \in Contents /\ disk.ctime \in Nat \ {0} /\ now \in Nat /\ disk.ctime <= now

SensorOk(r, now, kept, disk, wl, all) ==
  /\ r.pc # "down" => Fits(r) /\ Meets(r, disk, wl)
  /\ Loading(r) => Claim(r.identity, r.torn, Content(r), now, kept, disk, all)

IsFile(pre) ==
  pre = [there |-> pre.there, damage |-> pre.damage, repair |-> pre.repair,
         whitelist |-> pre.whitelist, len |-> pre.len, mtime |-> pre.mtime,
         identity |-> pre.identity, hash |-> pre.hash, db |-> pre.db, count |-> pre.count,
         canaries |-> pre.canaries, torn |-> pre.torn]

FileHolds(pre) ==
  Built(pre.db, pre.hash, Len(pre.hash), WhitelistOf(pre.whitelist), pre.repair)

PrebuiltOk(pre, now, kept, disk, all) ==
  /\ Readable(pre) => FileHolds(pre)
  /\ pre.there => /\ IsFile(pre) /\ (pre.damage = "none" => FileHolds(pre))
                  /\ pre.hash \in Seq(Lines) /\ pre.torn \in BOOLEAN
                  /\ Claim(pre.identity, pre.torn, pre.hash, now, kept, disk, all)

StateOk(now, kept, disk, wl, pre, all) ==
  /\ CsvOk(now, disk)
  /\ all = [s \in Sensors |-> all[s]]
  /\ \A s \in Sensors : SensorOk(all[s], now, kept, disk, wl, all)
  /\ PrebuiltOk(pre, now, kept, disk, all)

(* The inductive invariant.                                                *)
StoreInv == StateOk(clock, ctimeKept, csv, whitelist, prebuilt, sensor)

-----------------------------------------------------------------------------
(* One step of one sensor.                                                 *)
Served(r, db, from, torn) ==
  [Idle(r.wl, r.build) EXCEPT !.serving = TRUE, !.db = db, !.from = from, !.torn = torn,
                              !.seen = r.seen]

(* A sensor that has just started serves nothing.                          *)
LEMMA FitsIdle ==
  ASSUME NEW wl, NEW build, NEW z, z = Idle(wl, build)
  PROVE  Fits(z) /\ z.pc = "idle" /\ z.wl = wl /\ ~Loading(z)
<1>1. /\ IsSensor(z) /\ z.pc = "idle" /\ z.wl = wl /\ z.torn = FALSE /\ z.serving = FALSE
  BY DEF Idle, IsSensor
<1>2. ~Loading(z) BY <1>1 DEF Loading
<1> QED BY <1>1, <1>2 DEF Fits

(* A sensor that serves tables that hold what it has seen.                 *)
LEMMA FitsServed ==
  ASSUME NEW r, NEW db, NEW from \in Seq(Lines), NEW torn \in BOOLEAN, from \in r.seen \/ torn,
         Built(db, from, Len(from), WhitelistOf(r.wl), r.build.repair),
         NEW z, z = Served(r, db, from, torn)
  PROVE  Fits(z) /\ z.pc = "idle" /\ z.wl = r.wl /\ ~Loading(z)
<1>1. /\ IsSensor(z) /\ z.pc = "idle" /\ z.wl = r.wl /\ z.build = r.build /\ z.torn = torn
      /\ z.serving = TRUE /\ z.db = db /\ z.from = from /\ z.seen = r.seen
  BY DEF Served, Idle, IsSensor
<1>2. ~Loading(z) BY <1>1 DEF Loading
<1>3. HoldsLines(z, z.from) BY <1>1 DEF HoldsLines
<1> QED BY <1>1, <1>2, <1>3 DEF Fits

(* A batch through the descriptor.                                         *)
Batch(r) == SubSeq(r.fd, Len(r.got) + 1, Min({Len(r.got) + BatchLines, Len(r.fd)}))

(* One more batch: what was read before, then the next lines of the        *)
(* descriptor, never past its end.                                         *)
LEMMA BatchIs ==
  ASSUME NEW r, r.fd \in Seq(Lines), r.got \in Seq(Lines), NEW z, z = r.got \o Batch(r)
  PROVE  /\ z \in Seq(Lines) /\ Len(z) \in Nat /\ Len(r.got) <= Len(z)
         /\ SameTo(z, r.got, Len(r.got))
         /\ Len(r.got) <= Len(r.fd) /\ SameTo(r.got, r.fd, Len(r.got)) =>
              Len(z) <= Len(r.fd) /\ SameTo(z, r.fd, Len(z))
<1> DEFINE fd == r.fd
           got == r.got
           a == Len(got)
           e == Min({a + BatchLines, Len(fd)})
           batch == SubSeq(fd, a + 1, e)
<1>1. BatchLines \in Nat \ {0} BY StoreAssumption
<1>2. a \in Nat /\ Len(fd) \in Nat OBVIOUS
<1>12. fd \in Seq(Lines) /\ got \in Seq(Lines) OBVIOUS
<1>3. e = IF a + BatchLines <= Len(fd) THEN a + BatchLines ELSE Len(fd)
  <2>1. a + BatchLines \in Nat BY <1>1, <1>2
  <2> HIDE DEF a, fd
  <2> QED BY <1>2, <2>1, MinOfTwo
<1>4. e \in Nat /\ e <= Len(fd) BY <1>1, <1>2, <1>3
<1>0. z = got \o batch BY DEF Batch
<1>13. a = Len(got) OBVIOUS
<1> HIDE DEF a, e, fd, got
<1>5. a + 1 \in 1 .. Len(fd) + 1 \/ a + 1 > e BY <1>2, <1>4
<1>6. batch \in Seq(Lines) /\ Len(batch) = IF a + 1 <= e THEN e - a ELSE 0
  <2>1. CASE a + 1 <= e
    <3>1. \A i \in (a + 1) .. e : fd[i] \in Lines BY <1>2, <1>4, <1>12
    <3> QED BY <1>2, <1>4, <1>12, <2>1, <3>1
  <2>2. CASE ~(a + 1 <= e)
    <3>1. batch = <<>> BY <1>2, <1>4, <1>12, <2>2
    <3>2. <<>> \in Seq(Lines) /\ Len(<<>>) = 0 OBVIOUS
    <3> HIDE DEF batch
    <3>3. batch \in Seq(Lines) /\ Len(batch) = 0 BY <3>1, <3>2
    <3> QED BY <2>2, <3>3
  <2> QED BY <2>1, <2>2
<1>7. a + 1 <= e => \A i \in 1 .. e - a : batch[i] = fd[a + i]
  <2> SUFFICES ASSUME a + 1 <= e, NEW i \in 1 .. e - a PROVE batch[i] = fd[a + i] OBVIOUS
  <2>1. i \in 1 .. (e - (a + 1) + 1) /\ (a + 1) + i - 1 = a + i BY <1>2, <1>4
  <2>2. batch[i] = fd[(a + 1) + i - 1] BY <1>2, <1>4, <1>12, <2>1
  <2> QED BY <2>1, <2>2
<1> HIDE DEF batch
<1>8. /\ z \in Seq(Lines) /\ Len(z) = a + Len(batch)
      /\ \A i \in 1 .. a : z[i] = got[i]
      /\ \A i \in 1 .. Len(batch) : z[a + i] = batch[i]
  <2>0. batch \in Seq(Lines) /\ Len(batch) \in Nat BY <1>6
  <2>1. z \in Seq(Lines) /\ Len(z) = Len(got) + Len(batch) BY <1>0, <1>12, <2>0
  <2>2. \A i \in 1 .. Len(got) : z[i] = got[i] BY <1>0, <1>12, <2>0
  <2>3. ASSUME NEW i \in 1 .. Len(batch) PROVE z[Len(got) + i] = batch[i]
    <3>1. Len(got) + i \in 1 .. Len(got) + Len(batch) /\ Len(got) + i > Len(got)
          /\ (Len(got) + i) - Len(got) = i
      BY <1>12, <2>0
    <3> QED BY <1>0, <1>12, <2>0, <3>1
  <2> QED BY <1>13, <2>1, <2>2, <2>3
<1>9. Len(batch) \in Nat BY <1>6
<1>10. SameTo(z, got, a) BY <1>8 DEF SameTo
<1>11. ASSUME a <= Len(fd), SameTo(got, fd, a) PROVE Len(z) <= Len(fd) /\ SameTo(z, fd, Len(z))
  <2>1. Len(z) <= Len(fd) BY <1>2, <1>4, <1>6, <1>8, <1>11
  <2>2. ASSUME NEW i \in 1 .. Len(z) PROVE z[i] = fd[i]
    <3>1. CASE i \in 1 .. a BY <1>8, <1>11, <3>1 DEF SameTo
    <3>2. CASE ~(i \in 1 .. a)
      <4>1. i - a \in 1 .. Len(batch) /\ a + (i - a) = i /\ a + 1 <= e
        BY <1>2, <1>4, <1>6, <1>8, <1>9, <3>2
      <4>2. Len(batch) = e - a BY <1>6, <4>1
      <4> QED BY <1>7, <1>8, <4>1, <4>2
    <3> QED BY <3>1, <3>2
  <2> QED BY <2>1, <2>2 DEF SameTo
<1> QED BY <1>2, <1>8, <1>9, <1>10, <1>11, <1>13 DEF fd, got

(* Two contents of one length with the same lines are one.                 *)
LEMMA SameSeq ==
  ASSUME NEW x \in Seq(Lines), NEW y \in Seq(Lines), Len(x) = Len(y), SameTo(x, y, Len(x))
  PROVE  x = y
<1>1. \A i \in 1 .. Len(x) : x[i] = y[i] BY DEF SameTo
<1>2. DOMAIN x = 1 .. Len(x) /\ DOMAIN y = 1 .. Len(x) OBVIOUS
<1>3. x = [i \in 1 .. Len(x) |-> x[i]] /\ y = [i \in 1 .. Len(x) |-> y[i]] BY <1>2
<1> QED BY <1>1, <1>3

(* Reading on: what has been read is what the tables hold.                 *)
LEMMA ReadHolds ==
  ASSUME NEW r, Fits(r), r.pc = "reading", NEW got, got = r.got \o Batch(r),
         NEW db, db = LoadBatch(r.db, got, Len(r.got), WhitelistOf(r.wl), r.build.repair, Threads)
  PROVE  /\ got \in Seq(Lines) /\ Built(db, got, Len(got), WhitelistOf(r.wl), r.build.repair)
         /\ ~r.torn => Len(got) <= Len(r.fd) /\ SameTo(got, r.fd, Len(got))
         /\ ~r.torn /\ Len(got) >= Len(r.fd) => got = r.fd
<1>1. /\ r.fd \in Contents /\ r.got \in Seq(Lines)
      /\ Built(r.db, r.got, Len(r.got), WhitelistOf(r.wl), r.build.repair)
      /\ ~r.torn => Len(r.got) <= Len(r.fd) /\ SameTo(r.got, r.fd, Len(r.got))
  BY DEF Fits, Loading, HoldsLines
<1>2. r.fd \in Seq(Lines) BY <1>1, StoreAssumption
<1>3. /\ got \in Seq(Lines) /\ Len(got) \in Nat /\ Len(r.got) <= Len(got)
      /\ SameTo(got, r.got, Len(r.got))
      /\ Len(r.got) <= Len(r.fd) /\ SameTo(r.got, r.fd, Len(r.got)) =>
           Len(got) <= Len(r.fd) /\ SameTo(got, r.fd, Len(got))
  BY <1>1, <1>2, BatchIs
<1>4. Len(r.got) \in Nat /\ Len(r.fd) \in Nat BY <1>1, <1>2
<1>5. Built(r.db, got, Len(r.got), WhitelistOf(r.wl), r.build.repair)
  BY <1>1, <1>3, <1>4, PrefixBuilt
<1>6. Threads \in Nat \ {0} BY StoreAssumption
<1>7. Len(r.got) \in 0 .. Len(got) BY <1>3, <1>4
<1>8. Built(db, got, Len(got), WhitelistOf(r.wl), r.build.repair)
  BY <1>3, <1>5, <1>6, <1>7, BatchBuilt
<1>9. ASSUME ~r.torn, Len(got) >= Len(r.fd) PROVE got = r.fd
  <2>1. Len(got) = Len(r.fd) /\ SameTo(got, r.fd, Len(got)) BY <1>1, <1>3, <1>4, <1>9
  <2> QED BY <1>2, <1>3, <2>1, SameSeq
<1> QED BY <1>1, <1>3, <1>8, <1>9

-----------------------------------------------------------------------------
(* A sensor that opens the CSV sees what it has; one that has it open sees *)
(* what comes.                                                             *)
Goes(old, new) == Loading(old) /\ new.meta = old.meta /\ old.seen \subseteq new.seen

Follows(old, new, disk) ==
  Loading(new) =>
    \/ Goes(old, new)
    \/ InodeParts(new.meta) = InodeParts(disk) /\ disk.lines \in new.seen

(* An identity that was settled stays true when sensors go on or open the  *)
(* CSV.                                                                    *)
LEMMA ClaimKept ==
  ASSUME NEW id, NEW torn, NEW content, NEW now, NEW kept, NEW disk, NEW all, NEW next,
         Claim(id, torn, content, now, kept, disk, all),
         \A s \in Sensors : Follows(all[s], next[s], disk)
  PROVE  Claim(id, torn, content, now, kept, disk, next)
<1> SUFFICES ASSUME id # NoIdentity, kept, NEW s \in Sensors, Loading(next[s]),
                    id = InodeParts(next[s].meta), ~torn
             PROVE  content \in next[s].seen
  BY DEF Claim
<1>1. CASE Goes(all[s], next[s]) BY <1>1 DEF Claim, Goes
<1>2. CASE InodeParts(next[s].meta) = InodeParts(disk) /\ disk.lines \in next[s].seen
  BY <1>2 DEF Claim
<1> QED BY <1>1, <1>2 DEF Follows

(* Whoever writes the CSV gives it a change time no settled identity has.  *)
LEMMA ClaimWritten ==
  ASSUME NEW id, NEW torn, NEW content, NEW now \in Nat, NEW kept, NEW disk, NEW all, NEW next,
         NEW other, Claim(id, torn, content, now, kept, disk, all), kept => other.ctime = now,
         \A s \in Sensors : Loading(next[s]) => Goes(all[s], next[s])
  PROVE  Claim(id, torn, content, now, kept, other, next)
<1> SUFFICES ASSUME id # NoIdentity, kept
             PROVE  /\ id # InodeParts(other)
                    /\ \A s \in Sensors :
                         Loading(next[s]) /\ id = InodeParts(next[s].meta) =>
                           torn \/ content \in next[s].seen
  BY DEF Claim
<1>1. id[2] + 2 <= now /\ id[2] \in Nat BY DEF Claim
<1>2. InodeParts(other)[2] = now BY DEF InodeParts
<1>3. id # InodeParts(other) BY <1>1, <1>2
<1>4. ASSUME NEW s \in Sensors, Loading(next[s]), id = InodeParts(next[s].meta), ~torn
      PROVE  content \in next[s].seen
  BY <1>4 DEF Claim, Goes
<1> QED BY <1>3, <1>4

(* A step of one sensor, with the CSV, the clock and the whitelist as they *)
(* are.                                                                    *)
LEMMA OneStep ==
  ASSUME NEW now, NEW kept, NEW disk, NEW wl, NEW pre, NEW all,
         StateOk(now, kept, disk, wl, pre, all),
         NEW s \in Sensors, NEW z, NEW next, next = [all EXCEPT ![s] = z],
         Follows(all[s], z, disk), SensorOk(z, now, kept, disk, wl, all)
  PROVE  StateOk(now, kept, disk, wl, pre, next)
<1>1. next = [r \in Sensors |-> IF r = s THEN z ELSE all[r]] BY DEF StateOk
<1>2. next = [r \in Sensors |-> next[r]] /\ next[s] = z
      /\ \A r \in Sensors : r # s => next[r] = all[r]
  BY <1>1
<1>3. \A r \in Sensors : Follows(all[r], next[r], disk)
  <2> SUFFICES ASSUME NEW r \in Sensors PROVE Follows(all[r], next[r], disk) OBVIOUS
  <2>1. CASE r = s BY <1>2, <2>1
  <2>2. CASE r # s BY <1>2, <2>2 DEF Follows, Goes
  <2> QED BY <2>1, <2>2
<1>4. ASSUME NEW r \in Sensors PROVE SensorOk(next[r], now, kept, disk, wl, next)
  <2>1. SensorOk(next[r], now, kept, disk, wl, all)
    BY <1>2 DEF StateOk
  <2>2. ASSUME Loading(next[r])
        PROVE  Claim(next[r].identity, next[r].torn, Content(next[r]), now, kept, disk, next)
    <3>1. Claim(next[r].identity, next[r].torn, Content(next[r]), now, kept, disk, all)
      BY <2>1, <2>2 DEF SensorOk
    <3> QED BY <1>3, <3>1, ClaimKept
  <2> QED BY <2>1, <2>2 DEF SensorOk
<1>5. PrebuiltOk(pre, now, kept, disk, next)
  <2>1. PrebuiltOk(pre, now, kept, disk, all) BY DEF StateOk
  <2>2. ASSUME pre.there PROVE Claim(pre.identity, pre.torn, pre.hash, now, kept, disk, next)
    <3>1. Claim(pre.identity, pre.torn, pre.hash, now, kept, disk, all)
      BY <2>1, <2>2 DEF PrebuiltOk
    <3> QED BY <1>3, <3>1, ClaimKept
  <2> QED BY <2>1, <2>2 DEF PrebuiltOk
<1> QED BY <1>2, <1>4, <1>5 DEF StateOk

(* The end of a load.                                                      *)
LEMMA ServeStep ==
  ASSUME NEW now, NEW kept, NEW disk, NEW wl, NEW pre, NEW all,
         StateOk(now, kept, disk, wl, pre, all),
         NEW s \in Sensors, all[s].pc # "down", NEW db, NEW from \in Seq(Lines),
         NEW torn \in BOOLEAN, from \in all[s].seen \/ torn,
         Built(db, from, Len(from), WhitelistOf(all[s].wl), all[s].build.repair),
         NEW next, next = [all EXCEPT ![s] = Served(all[s], db, from, torn)]
  PROVE  StateOk(now, kept, disk, wl, pre, next)
<1> DEFINE z == Served(all[s], db, from, torn)
<1>1. Fits(z) /\ z.pc = "idle" /\ z.wl = all[s].wl /\ ~Loading(z) BY FitsServed
<1>2. all[s].wl = wl BY DEF StateOk, SensorOk, Meets
<1> HIDE DEF z
<1>3. SensorOk(z, now, kept, disk, wl, all) BY <1>1, <1>2 DEF SensorOk, Meets
<1>4. Follows(all[s], z, disk) BY <1>1 DEF Follows
<1>5. next = [all EXCEPT ![s] = z] BY DEF z
<1> QED BY <1>3, <1>4, <1>5, OneStep

(* The steps of a sensor, one lemma each.                                  *)
LEMMA StartKeeps ==
  ASSUME StoreInv, NEW s \in Sensors, NEW b \in Builds, Start(s, b)
  PROVE  StoreInv'
<1> DEFINE z == Idle(whitelist, b)
<1>1. Fits(z) /\ z.pc = "idle" /\ z.wl = whitelist /\ ~Loading(z) BY FitsIdle
<1> HIDE DEF z
<1>2. SensorOk(z, clock, ctimeKept, csv, whitelist, sensor) BY <1>1 DEF SensorOk, Meets
<1>3. Follows(sensor[s], z, csv) BY <1>1 DEF Follows
<1>4. sensor' = [sensor EXCEPT ![s] = z] BY DEF Start, z
<1>5. StateOk(clock, ctimeKept, csv, whitelist, prebuilt, sensor')
  BY <1>2, <1>3, <1>4, OneStep DEF StoreInv
<1>6. UNCHANGED <<clock, ctimeKept, csv, whitelist, prebuilt>> BY DEF Start
<1> QED BY <1>5, <1>6 DEF StoreInv

LEMMA CrashKeeps ==
  ASSUME StoreInv, NEW s \in Sensors, Crash(s)
  PROVE  StoreInv'
<1>1. Down.pc = "down" /\ ~Loading(Down) BY DEF Down, Loading
<1>2. SensorOk(Down, clock, ctimeKept, csv, whitelist, sensor) BY <1>1 DEF SensorOk
<1>3. Follows(sensor[s], Down, csv) BY <1>1 DEF Follows
<1>4. sensor' = [sensor EXCEPT ![s] = Down] BY DEF Crash
<1>5. StateOk(clock, ctimeKept, csv, whitelist, prebuilt, sensor')
  BY <1>2, <1>3, <1>4, OneStep DEF StoreInv
<1>6. UNCHANGED <<clock, ctimeKept, csv, whitelist, prebuilt>> BY DEF Crash
<1> QED BY <1>5, <1>6 DEF StoreInv

(* The fields of a sensor that has opened the CSV, or filled its tables.   *)
AsOpened(wl, build, hash, meta, fd, id) ==
  [Idle(wl, build) EXCEPT !.pc = "opened", !.hash = hash, !.meta = meta, !.fd = fd,
                          !.identity = id, !.seen = {fd}]

LEMMA OpenedIs ==
  ASSUME NEW wl, NEW build, NEW hash, NEW meta, NEW fd, NEW id, NEW z,
         z = AsOpened(wl, build, hash, meta, fd, id)
  PROVE  /\ IsSensor(z) /\ z.pc = "opened" /\ z.wl = wl /\ z.hash = hash /\ z.meta = meta
         /\ z.fd = fd /\ z.identity = id /\ z.seen = {fd}
         /\ z.got = <<>> /\ z.torn \in BOOLEAN /\ ~z.torn /\ ~z.serving
BY DEF AsOpened, Idle, IsSensor

Further(r, stage, got, db) == [r EXCEPT !.pc = stage, !.got = got, !.db = db]

(* A sensor that is further in its load.                                   *)
LEMMA FurtherIs ==
  ASSUME NEW r, IsSensor(r), NEW stage, NEW got, NEW db, NEW z, z = Further(r, stage, got, db)
  PROVE  /\ IsSensor(z) /\ z.pc = stage /\ z.got = got /\ z.db = db
         /\ z.wl = r.wl /\ z.build = r.build /\ z.hash = r.hash /\ z.meta = r.meta
         /\ z.fd = r.fd /\ z.identity = r.identity /\ z.from = r.from /\ z.seen = r.seen
         /\ z.torn = r.torn /\ z.serving = r.serving
BY DEF IsSensor, Further

LEMMA OpenKeeps ==
  ASSUME StoreInv, NEW s \in Sensors, Open(s)
  PROVE  StoreInv'
<1> DEFINE r == sensor[s]
           meta == [len |-> Len(csv.lines), mtime |-> csv.mtime,
                    ino |-> csv.ino, ctime |-> csv.ctime]
           z == [Idle(r.wl, r.build) EXCEPT
                   !.pc = "opened", !.hash = whitelist, !.meta = meta, !.fd = csv.lines,
                   !.identity = SettledIdentity(meta), !.seen = {csv.lines}]
<1>1. r.pc = "idle" /\ sensor' = [sensor EXCEPT ![s] = z] BY DEF Open, WhitelistHash
<1>2. r.wl = whitelist BY <1>1 DEF StoreInv, StateOk, SensorOk, Meets
<1>3. /\ IsSensor(z) /\ z.pc = "opened" /\ z.wl = r.wl /\ z.hash = whitelist /\ z.meta = meta
      /\ z.fd = csv.lines /\ z.identity = SettledIdentity(meta) /\ z.seen = {csv.lines}
      /\ z.got = <<>> /\ z.torn \in BOOLEAN /\ ~z.torn /\ ~z.serving
  <2> DEFINE lines == csv.lines
             id == SettledIdentity(meta)
             rwl == r.wl
             build == r.build
  <2>1. z = AsOpened(rwl, build, whitelist, meta, lines, id) BY DEF AsOpened
  <2> HIDE DEF meta, r, z, lines, id, rwl, build
  <2>2. /\ IsSensor(z) /\ z.pc = "opened" /\ z.wl = rwl /\ z.hash = whitelist /\ z.meta = meta
        /\ z.fd = lines /\ z.identity = id /\ z.seen = {lines}
        /\ z.got = <<>> /\ z.torn \in BOOLEAN /\ ~z.torn /\ ~z.serving
    BY <2>1, OpenedIs
  <2> QED BY <2>2 DEF lines, id, rwl, build
<1>4. /\ meta.ino = csv.ino /\ InodeParts(meta) = InodeParts(csv) /\ meta.ctime = csv.ctime
      /\ meta.len = Len(csv.lines)
  BY DEF InodeParts
<1>0. z.identity = IF clock >= csv.ctime + 2 THEN InodeParts(csv) ELSE NoIdentity
  BY <1>3, <1>4 DEF SettledIdentity
<1> HIDE DEF z, meta, r
<1>5. csv.lines \in Contents /\ csv.ctime \in Nat /\ clock \in Nat
  BY DEF StoreInv, StateOk, CsvOk
<1>6. EstimateOf(z.meta.len) \in Nat BY <1>3, <1>4, <1>5, StoreAssumption
<1>7. Fits(z) BY <1>3, <1>5, <1>6 DEF Fits, Loading
<1>8. Meets(z, csv, whitelist) BY <1>2, <1>3 DEF Meets
<1>9. Follows(r, z, csv) BY <1>3, <1>4 DEF Follows
<1>10. Claim(z.identity, z.torn, Content(z), clock, ctimeKept, csv, sensor)
  <2>1. Content(z) = csv.lines BY <1>3 DEF Content
  <2>2. z.identity # NoIdentity => /\ z.identity[2] = csv.ctime /\ csv.ctime + 2 <= clock
    BY <1>0, <1>5 DEF InodeParts
  <2>3. ASSUME NEW i \in Sensors, Loading(sensor[i]) PROVE csv.lines \in sensor[i].seen
    <3>1. sensor[i].pc # "down" BY <2>3 DEF Loading
    <3> QED BY <2>3, <3>1 DEF StoreInv, StateOk, SensorOk, Meets
  <2> QED BY <1>3, <1>5, <2>1, <2>2, <2>3 DEF Claim
<1>11. SensorOk(z, clock, ctimeKept, csv, whitelist, sensor) BY <1>7, <1>8, <1>10 DEF SensorOk
<1>12. StateOk(clock, ctimeKept, csv, whitelist, prebuilt, sensor')
  BY <1>1, <1>9, <1>11, OneStep DEF StoreInv, r
<1>13. UNCHANGED <<clock, ctimeKept, csv, whitelist, prebuilt>> BY DEF Open
<1> QED BY <1>12, <1>13 DEF StoreInv

(* The tables of a readable store are the ones that were written, and its  *)
(* patterns are compiled to the same expression again.                     *)
LEMMA AssembleIs ==
  ASSUME NEW disk, NEW repair, NEW wl,
         Built(disk.db, disk.hash, Len(disk.hash), WhitelistOf(wl), repair)
  PROVE  Assemble(disk, repair) = disk.db
<1>1. IsDb(disk.db) /\ OfferAll(EmptyRegex, disk.db.regex.offers, repair) = disk.db.regex
  BY DEF Built, IsRegex
<1> DEFINE x == disk.db
<1>2. Assemble(disk, repair) = [x EXCEPT !.regex = OfferAll(EmptyRegex, x.regex.offers, repair)]
  BY DEF Assemble
<1>3. Assemble(disk, repair) = [x EXCEPT !.regex = x.regex] BY <1>1, <1>2
<1> QED BY <1>1, <1>3 DEF IsDb

(* A sensor that goes on with its load.                                    *)
LEMMA LoadStep ==
  ASSUME NEW now, NEW kept, NEW disk, NEW wl, NEW pre, NEW all,
         StateOk(now, kept, disk, wl, pre, all),
         NEW s \in Sensors, Loading(all[s]), NEW stage \in {"reading", "parsed", "written"},
         NEW got \in Seq(Lines), NEW db,
         Built(db, got, Len(got), WhitelistOf(all[s].wl), all[s].build.repair),
         stage = "reading" /\ ~all[s].torn =>
           Len(got) <= Len(all[s].fd) /\ SameTo(got, all[s].fd, Len(got)),
         stage \in {"parsed", "written"} => got \in all[s].seen \/ all[s].torn,
         all[s].torn \/ Content(all[s]) = IF stage = "reading" THEN all[s].fd ELSE got,
         NEW next, next = [all EXCEPT ![s] = Further(all[s], stage, got, db)]
  PROVE  StateOk(now, kept, disk, wl, pre, next)
<1> DEFINE r == all[s]
           z == Further(all[s], stage, got, db)
<1>1. /\ Fits(r) /\ Meets(r, disk, wl)
      /\ Claim(r.identity, r.torn, Content(r), now, kept, disk, all)
  <2>1. r.pc # "down" BY DEF Loading
  <2> QED BY <2>1 DEF StateOk, SensorOk
<1>2. IsSensor(r) /\ r.torn \in BOOLEAN /\ ~r.serving BY <1>1 DEF Fits, Loading
<1>3. /\ IsSensor(z) /\ z.pc = stage /\ z.got = got /\ z.db = db
      /\ z.wl = r.wl /\ z.build = r.build /\ z.hash = r.hash /\ z.meta = r.meta
      /\ z.fd = r.fd /\ z.identity = r.identity /\ z.from = r.from /\ z.seen = r.seen
      /\ z.torn = r.torn /\ z.serving = r.serving
  <2> HIDE DEF z
  <2>1. z = Further(r, stage, got, db) BY DEF z
  <2> HIDE DEF r
  <2> QED BY <1>2, <2>1, FurtherIs
<1>4. next = [all EXCEPT ![s] = z] OBVIOUS
<1>5. z.torn \/ Content(z) = Content(r) BY <1>3 DEF Content
<1>6. HoldsLines(z, z.got) BY <1>3 DEF HoldsLines
<1>7. Loading(r) /\ Loading(z) BY <1>3 DEF Loading
<1>8. /\ stage = "reading" /\ ~z.torn => Len(z.got) <= Len(z.fd) /\ SameTo(z.got, z.fd, Len(z.got))
      /\ stage \in {"parsed", "written"} => z.got \in z.seen \/ z.torn
  BY <1>3
<1> HIDE DEF z, r
<1>9. Fits(z)
  <2>1. /\ z.torn \in BOOLEAN /\ ~z.serving /\ z.pc # "opened"
        /\ z.fd \in Contents /\ z.fd \in z.seen /\ EstimateOf(z.meta.len) \in Nat
    BY <1>1, <1>2, <1>3, <1>7 DEF Fits
  <2> QED BY <1>3, <1>6, <1>7, <1>8, <2>1 DEF Fits
<1>10. Meets(z, disk, wl) BY <1>1, <1>3, <1>7 DEF Meets
<1>11. Follows(r, z, disk) BY <1>3, <1>7 DEF Follows, Goes
<1>12. Claim(z.identity, z.torn, Content(z), now, kept, disk, all)
  <2>1. CASE Content(z) = Content(r) BY <1>1, <1>3, <2>1
  <2>2. CASE z.torn BY <1>1, <1>3, <2>2 DEF Claim
  <2> QED BY <1>5, <2>1, <2>2
<1>13. SensorOk(z, now, kept, disk, wl, all) BY <1>9, <1>10, <1>12 DEF SensorOk
<1> QED BY <1>4, <1>11, <1>13, OneStep DEF r

LEMMA TryKeeps ==
  ASSUME StoreInv, NEW s \in Sensors, TryStore(s)
  PROVE  StoreInv'
<1> DEFINE r == sensor[s]
           proved == /\ Readable(prebuilt) /\ CheckIdentity(prebuilt, r, r.meta)
                     /\ \/ UntouchedSinceBuilt(prebuilt, r.meta)
                        \/ prebuilt.hash = ContentHash(csv.lines)
<1>1. /\ r.pc = "opened"
      /\ \/ /\ proved
            /\ sensor' = [sensor EXCEPT ![s] = Served(r, Assemble(prebuilt, r.build.repair),
                                                      prebuilt.hash, prebuilt.torn)]
         \/ sensor' = [sensor EXCEPT ![s].pc = "reading", ![s].db = EmptyDb(EstimateOf(r.meta.len))]
  BY DEF TryStore, Serve, Served
<1>2. UNCHANGED <<clock, ctimeKept, csv, whitelist, prebuilt>> BY DEF TryStore
<1>3. /\ Fits(r) /\ Meets(r, csv, whitelist) /\ Loading(r)
      /\ Claim(r.identity, r.torn, Content(r), clock, ctimeKept, csv, sensor)
  <2>1. Loading(r) /\ r.pc # "down" BY <1>1 DEF Loading
  <2> QED BY <2>1 DEF StoreInv, StateOk, SensorOk
<1>4. /\ sensor = [i \in Sensors |-> sensor[i]]
      /\ PrebuiltOk(prebuilt, clock, ctimeKept, csv, sensor)
  BY DEF StoreInv, StateOk
<1>5. r.wl = whitelist /\ r.hash = whitelist /\ csv.lines \in r.seen BY <1>3 DEF Meets
<1>6. CASE proved /\ sensor' = [sensor EXCEPT ![s] = Served(r, Assemble(prebuilt, r.build.repair),
                                                            prebuilt.hash, prebuilt.torn)]
  <2>1. /\ Readable(prebuilt) /\ prebuilt.there /\ prebuilt.repair = r.build.repair
        /\ prebuilt.whitelist = r.wl
    BY <1>5, <1>6 DEF CheckIdentity, Readable
  <2>2. /\ Built(prebuilt.db, prebuilt.hash, Len(prebuilt.hash), WhitelistOf(r.wl), r.build.repair)
        /\ prebuilt.hash \in Seq(Lines) /\ prebuilt.torn \in BOOLEAN
        /\ Claim(prebuilt.identity, prebuilt.torn, prebuilt.hash, clock, ctimeKept, csv, sensor)
    BY <1>4, <2>1 DEF PrebuiltOk, FileHolds
  <2>3. Assemble(prebuilt, r.build.repair) = prebuilt.db BY <2>2, AssembleIs
  <2>4. prebuilt.hash \in r.seen \/ prebuilt.torn
    <3>1. CASE prebuilt.hash = ContentHash(csv.lines) BY <1>5, <3>1 DEF ContentHash
    <3>2. CASE UntouchedSinceBuilt(prebuilt, r.meta)
      <4>1. /\ prebuilt.identity = InodeParts(r.meta) /\ prebuilt.identity # NoIdentity
            /\ ctimeKept
        BY <3>2 DEF UntouchedSinceBuilt
      <4> QED BY <1>3, <2>2, <4>1 DEF Claim
    <3> QED BY <1>6, <3>1, <3>2
  <2>5. sensor' = [sensor EXCEPT ![s] =
          Served(sensor[s], prebuilt.db, prebuilt.hash, prebuilt.torn)]
    BY <1>6, <2>3
  <2>6. sensor[s].pc # "down" BY <1>1
  <2>7. StateOk(clock, ctimeKept, csv, whitelist, prebuilt, sensor')
    BY <2>2, <2>4, <2>5, <2>6, ServeStep DEF StoreInv
  <2> QED BY <1>2, <2>7 DEF StoreInv
<1>7. CASE sensor' = [sensor EXCEPT ![s].pc = "reading", ![s].db = EmptyDb(EstimateOf(r.meta.len))]
  <2> DEFINE db == EmptyDb(EstimateOf(r.meta.len))
  <2>1. /\ EstimateOf(r.meta.len) \in Nat /\ r.got = <<>> /\ r.fd \in Contents /\ IsSensor(r)
    BY <1>1, <1>3 DEF Fits
  <2>2. sensor' = [sensor EXCEPT ![s] = Further(sensor[s], "reading", <<>>, db)]
    <3>1. sensor' = [sensor EXCEPT ![s] = [r EXCEPT !.pc = "reading", !.db = db]] BY <1>4, <1>7
    <3>2. ASSUME NEW x, IsSensor(x), x.got = <<>>, NEW d
          PROVE  [x EXCEPT !.pc = "reading", !.db = d] = Further(x, "reading", <<>>, d)
      BY <3>2 DEF IsSensor, Further
    <3> HIDE DEF r, db
    <3>3. [r EXCEPT !.pc = "reading", !.db = db] = Further(r, "reading", <<>>, db)
      BY <2>1, <3>2
    <3> QED BY <3>1, <3>3 DEF r
  <2>3. <<>> \in Seq(Lines) /\ Len(<<>>) = 0 OBVIOUS
  <2>4. Built(db, <<>>, 0, WhitelistOf(r.wl), r.build.repair)
    BY <2>1, EmptyBuilt
  <2>5. r.fd \in Seq(Lines) BY <2>1, StoreAssumption
  <2>6. Len(<<>>) <= Len(r.fd) /\ SameTo(<<>>, r.fd, Len(<<>>))
    BY <2>3, <2>5 DEF SameTo
  <2>7. Content(r) = r.fd BY <1>1 DEF Content
  <2> HIDE DEF db
  <2>8. StateOk(clock, ctimeKept, csv, whitelist, prebuilt, sensor')
    BY <1>3, <2>2, <2>3, <2>4, <2>6, <2>7, LoadStep DEF StoreInv
  <2> QED BY <1>2, <2>8 DEF StoreInv
<1> QED BY <1>1, <1>6, <1>7

LEMMA ReadKeeps ==
  ASSUME StoreInv, NEW s \in Sensors, Read(s)
  PROVE  StoreInv'
<1> DEFINE r == sensor[s]
           got == r.got \o Batch(r)
           db == LoadBatch(r.db, got, Len(r.got), WhitelistOf(r.wl), r.build.repair, Threads)
<1>1. /\ r.pc = "reading"
      /\ \/ sensor' = [sensor EXCEPT ![s].got = got, ![s].db = db]
         \/ /\ Len(got) >= Len(r.fd)
            /\ sensor' = [sensor EXCEPT ![s].got = got, ![s].db = db, ![s].pc = "parsed"]
         \/ /\ Len(got) >= Len(r.fd)
            /\ sensor' = [sensor EXCEPT ![s] = Served(r, db, got, r.torn)]
  BY DEF Read, Serve, Served, Batch
<1>2. UNCHANGED <<clock, ctimeKept, csv, whitelist, prebuilt>> BY DEF Read
<1>3. /\ r.pc # "down" /\ Loading(r) /\ Content(r) = r.fd BY <1>1 DEF Loading, Content
<1>4. Fits(r) BY <1>3 DEF StoreInv, StateOk, SensorOk
<1>5. r.fd \in r.seen /\ IsSensor(r) /\ r.torn \in BOOLEAN BY <1>3, <1>4 DEF Fits
<1>6. sensor = [i \in Sensors |-> sensor[i]] BY DEF StoreInv, StateOk
<1>7. /\ got \in Seq(Lines) /\ Built(db, got, Len(got), WhitelistOf(r.wl), r.build.repair)
      /\ ~r.torn => Len(got) <= Len(r.fd) /\ SameTo(got, r.fd, Len(got))
      /\ ~r.torn /\ Len(got) >= Len(r.fd) => got = r.fd
  <2> HIDE DEF r
  <2> QED BY <1>1, <1>4, ReadHolds
<1> HIDE DEF got, db
<1>9. CASE sensor' = [sensor EXCEPT ![s].got = got, ![s].db = db]
  <2>1. sensor' = [sensor EXCEPT ![s] = [r EXCEPT !.got = got, !.db = db]] BY <1>6, <1>9
  <2>2. [r EXCEPT !.got = got, !.db = db] = Further(r, "reading", got, db)
    <3>1. ASSUME NEW x, IsSensor(x), NEW g, NEW d
          PROVE  [x EXCEPT !.got = g, !.db = d] = Further(x, x.pc, g, d)
      BY <3>1 DEF IsSensor, Further
    <3> HIDE DEF r
    <3>2. [r EXCEPT !.got = got, !.db = db] = Further(r, r.pc, got, db) BY <1>5, <3>1
    <3> QED BY <1>1, <3>2
  <2>3. sensor' = [sensor EXCEPT ![s] = Further(sensor[s], "reading", got, db)] BY <2>1, <2>2
  <2>4. StateOk(clock, ctimeKept, csv, whitelist, prebuilt, sensor')
    BY <1>3, <1>7, <2>3, LoadStep DEF StoreInv
  <2> QED BY <1>2, <2>4 DEF StoreInv
<1>10. ASSUME Len(got) >= Len(r.fd) PROVE got \in r.seen \/ r.torn BY <1>5, <1>7, <1>10
<1>11. CASE /\ Len(got) >= Len(r.fd)
            /\ sensor' = [sensor EXCEPT ![s].got = got, ![s].db = db, ![s].pc = "parsed"]
  <2>1. sensor' = [sensor EXCEPT ![s] = [r EXCEPT !.got = got, !.db = db, !.pc = "parsed"]]
    BY <1>6, <1>11
  <2>2. [r EXCEPT !.got = got, !.db = db, !.pc = "parsed"] = Further(r, "parsed", got, db)
    <3>1. ASSUME NEW x, IsSensor(x), NEW g, NEW d
          PROVE  [x EXCEPT !.got = g, !.db = d, !.pc = "parsed"] = Further(x, "parsed", g, d)
      BY <3>1 DEF IsSensor, Further
    <3> HIDE DEF r
    <3> QED BY <1>5, <3>1
  <2>3. sensor' = [sensor EXCEPT ![s] = Further(sensor[s], "parsed", got, db)] BY <2>1, <2>2
  <2>4. got \in r.seen \/ r.torn BY <1>10, <1>11
  <2>5. r.torn \/ Content(r) = got BY <1>3, <1>7, <1>11
  <2>6. StateOk(clock, ctimeKept, csv, whitelist, prebuilt, sensor')
    BY <1>3, <1>7, <2>3, <2>4, <2>5, LoadStep DEF StoreInv
  <2> QED BY <1>2, <2>6 DEF StoreInv
<1>12. CASE /\ Len(got) >= Len(r.fd)
            /\ sensor' = [sensor EXCEPT ![s] = Served(r, db, got, r.torn)]
  <2>1. got \in r.seen \/ r.torn BY <1>10, <1>12
  <2>2. StateOk(clock, ctimeKept, csv, whitelist, prebuilt, sensor')
    BY <1>3, <1>5, <1>7, <1>12, <2>1, ServeStep DEF StoreInv
  <2> QED BY <1>2, <2>2 DEF StoreInv
<1> QED BY <1>1, <1>9, <1>11, <1>12

(* What was parsed is served.                                              *)
LEMMA ServeParsed ==
  ASSUME NEW now, NEW kept, NEW disk, NEW wl, NEW pre, NEW all,
         StateOk(now, kept, disk, wl, pre, all),
         NEW s \in Sensors, all[s].pc \in {"parsed", "written"},
         NEW next, next = [all EXCEPT ![s] = Served(all[s], all[s].db, all[s].got, all[s].torn)]
  PROVE  StateOk(now, kept, disk, wl, pre, next)
<1>1. all[s].pc # "down" OBVIOUS
<1>2. Fits(all[s]) BY <1>1 DEF StateOk, SensorOk
<1>3. /\ all[s].torn \in BOOLEAN /\ HoldsLines(all[s], all[s].got)
      /\ all[s].got \in all[s].seen \/ all[s].torn
  BY <1>2 DEF Fits
<1> QED BY <1>1, <1>3, ServeStep DEF HoldsLines

LEMMA WriteFailsKeeps ==
  ASSUME StoreInv, NEW s \in Sensors, WriteFails(s)
  PROVE  StoreInv'
<1>1. /\ sensor[s].pc = "parsed"
      /\ sensor' = [sensor EXCEPT ![s] =
                      Served(sensor[s], sensor[s].db, sensor[s].got, sensor[s].torn)]
  BY DEF WriteFails, Serve, Served
<1>2. UNCHANGED <<clock, ctimeKept, csv, whitelist, prebuilt>> BY DEF WriteFails
<1>3. StateOk(clock, ctimeKept, csv, whitelist, prebuilt, sensor')
  BY <1>1, ServeParsed DEF StoreInv
<1> QED BY <1>2, <1>3 DEF StoreInv

LEMMA ReopenKeeps ==
  ASSUME StoreInv, NEW s \in Sensors, Reopen(s)
  PROVE  StoreInv'
<1> DEFINE r == sensor[s]
           ours == /\ Readable(prebuilt) /\ CheckIdentity(prebuilt, r, r.meta)
                   /\ prebuilt.hash = ContentHash(r.got)
<1>1. /\ r.pc = "written"
      /\ \/ /\ ours
            /\ sensor' = [sensor EXCEPT ![s] = Served(r, Assemble(prebuilt, r.build.repair),
                                                      prebuilt.hash, r.torn)]
         \/ sensor' = [sensor EXCEPT ![s] = Served(r, r.db, r.got, r.torn)]
  BY DEF Reopen, Serve, Served
<1>2. UNCHANGED <<clock, ctimeKept, csv, whitelist, prebuilt>> BY DEF Reopen
<1>3. r.pc # "down" /\ Loading(r) BY <1>1 DEF Loading
<1>4. Fits(r) /\ Meets(r, csv, whitelist) BY <1>3 DEF StoreInv, StateOk, SensorOk
<1>5. r.torn \in BOOLEAN /\ (r.got \in r.seen \/ r.torn) BY <1>1, <1>4 DEF Fits
<1>6. CASE /\ ours
           /\ sensor' = [sensor EXCEPT ![s] = Served(r, Assemble(prebuilt, r.build.repair),
                                                     prebuilt.hash, r.torn)]
  <2>1. /\ Readable(prebuilt) /\ prebuilt.there /\ prebuilt.repair = r.build.repair
        /\ prebuilt.whitelist = r.wl /\ prebuilt.hash = r.got
    BY <1>3, <1>4, <1>6 DEF CheckIdentity, Readable, Meets, ContentHash
  <2>2. /\ Built(prebuilt.db, prebuilt.hash, Len(prebuilt.hash), WhitelistOf(r.wl), r.build.repair)
        /\ prebuilt.hash \in Seq(Lines)
    BY <2>1 DEF StoreInv, StateOk, PrebuiltOk, FileHolds
  <2>3. Assemble(prebuilt, r.build.repair) = prebuilt.db BY <2>2, AssembleIs
  <2>4. sensor' = [sensor EXCEPT ![s] = Served(sensor[s], prebuilt.db, prebuilt.hash, r.torn)]
    BY <1>6, <2>3
  <2>5. prebuilt.hash \in r.seen \/ r.torn BY <1>5, <2>1
  <2>6. StateOk(clock, ctimeKept, csv, whitelist, prebuilt, sensor')
    BY <1>3, <1>5, <2>2, <2>4, <2>5, ServeStep DEF StoreInv
  <2> QED BY <1>2, <2>6 DEF StoreInv
<1>7. CASE sensor' = [sensor EXCEPT ![s] = Served(r, r.db, r.got, r.torn)]
  <2>1. StateOk(clock, ctimeKept, csv, whitelist, prebuilt, sensor')
    BY <1>1, <1>7, ServeParsed DEF StoreInv
  <2> QED BY <1>2, <2>1 DEF StoreInv
<1> QED BY <1>1, <1>6, <1>7

(* The store that write() makes of what a sensor has parsed.               *)
LEMMA StoreFileIs ==
  ASSUME NEW r, NEW z, z = StoreFile(r)
  PROVE  /\ IsFile(z) /\ z.there /\ z.damage = "none" /\ z.repair = r.build.repair
         /\ z.whitelist = r.hash /\ z.identity = r.identity /\ z.hash = r.got /\ z.db = r.db
         /\ z.torn = r.torn
BY DEF StoreFile, IsFile, ContentHash

LEMMA RenameKeeps ==
  ASSUME StoreInv, NEW s \in Sensors, Rename(s)
  PROVE  StoreInv'
<1> DEFINE r == sensor[s]
<1>1. /\ r.pc = "parsed" /\ prebuilt' = StoreFile(r)
      /\ sensor' = [sensor EXCEPT ![s].pc = "written"]
  BY DEF Rename
<1>2. UNCHANGED <<clock, ctimeKept, csv, whitelist>> BY DEF Rename
<1>3. /\ r.pc # "down" /\ Loading(r) /\ Content(r) = r.got BY <1>1 DEF Loading, Content
<1>4. Fits(r) /\ Meets(r, csv, whitelist) BY <1>3 DEF StoreInv, StateOk, SensorOk
<1>5. /\ HoldsLines(r, r.got) /\ IsSensor(r) /\ r.torn \in BOOLEAN
      /\ r.got \in r.seen \/ r.torn
  BY <1>1, <1>4 DEF Fits
<1>6. sensor = [i \in Sensors |-> sensor[i]] BY DEF StoreInv, StateOk
<1>7. sensor' = [sensor EXCEPT ![s] = Further(sensor[s], "written", r.got, r.db)]
  <2>1. sensor' = [sensor EXCEPT ![s] = [r EXCEPT !.pc = "written"]] BY <1>1, <1>6
  <2>2. ASSUME NEW x, IsSensor(x)
        PROVE  [x EXCEPT !.pc = "written"] = Further(x, "written", x.got, x.db)
    BY <2>2 DEF IsSensor, Further
  <2> HIDE DEF r
  <2>3. [r EXCEPT !.pc = "written"] = Further(r, "written", r.got, r.db) BY <1>5, <2>2
  <2> QED BY <2>1, <2>3 DEF r
<1>8. StateOk(clock, ctimeKept, csv, whitelist, prebuilt, sensor')
  BY <1>3, <1>5, <1>7, LoadStep DEF StoreInv, HoldsLines
<1>9. Claim(r.identity, r.torn, r.got, clock, ctimeKept, csv, sensor')
  <2> DEFINE z == sensor'[s]
  <2>1. z = Further(r, "written", r.got, r.db) BY <1>6, <1>7
  <2> HIDE DEF z, r
  <2>2. z.pc = "written" /\ z.got = r.got /\ z.identity = r.identity /\ z.torn = r.torn
    BY <1>5, <2>1, FurtherIs
  <2>3. Loading(z) /\ Content(z) = r.got BY <2>2 DEF Loading, Content
  <2>4. Claim(z.identity, z.torn, Content(z), clock, ctimeKept, csv, sensor')
    BY <1>8, <2>3 DEF StateOk, SensorOk, z
  <2> QED BY <2>2, <2>3, <2>4
<1>10. PrebuiltOk(prebuilt', clock, ctimeKept, csv, sensor')
  <2> DEFINE f == prebuilt'
  <2>1. f = StoreFile(r) BY <1>1
  <2> HIDE DEF f, r
  <2>2. /\ IsFile(f) /\ f.there /\ f.damage = "none" /\ f.repair = r.build.repair
        /\ f.whitelist = r.hash /\ f.identity = r.identity /\ f.hash = r.got /\ f.db = r.db
        /\ f.torn = r.torn
    BY <2>1, StoreFileIs
  <2>3. r.hash = r.wl BY <1>3, <1>4 DEF Meets
  <2>4. FileHolds(f) /\ f.hash \in Seq(Lines) BY <1>5, <2>2, <2>3 DEF FileHolds, HoldsLines
  <2> HIDE DEF f
  <2>5. PrebuiltOk(f, clock, ctimeKept, csv, sensor') BY <1>5, <1>9, <2>2, <2>4 DEF PrebuiltOk
  <2> QED BY <2>5 DEF f
<1>11. StateOk(clock, ctimeKept, csv, whitelist, prebuilt', sensor')
  BY <1>8, <1>10 DEF StateOk
<1> QED BY <1>2, <1>11 DEF StoreInv

LEMMA TickKeeps ==
  ASSUME StoreInv, Tick
  PROVE  StoreInv'
<1>1. clock' = clock + 1 /\ UNCHANGED <<ctimeKept, csv, whitelist, prebuilt, sensor>> BY DEF Tick
<1>2. clock \in Nat /\ csv.ctime \in Nat BY DEF StoreInv, StateOk, CsvOk
<1>3. ASSUME NEW id, NEW torn, NEW content, NEW now \in Nat, NEW kept, NEW disk, NEW all,
             Claim(id, torn, content, now, kept, disk, all)
      PROVE  Claim(id, torn, content, now + 1, kept, disk, all)
  BY <1>3 DEF Claim
<1> DEFINE next == clock + 1
<1> HIDE DEF next
<1>4. ASSUME NEW id, NEW torn, NEW content,
             Claim(id, torn, content, clock, ctimeKept, csv, sensor)
      PROVE  Claim(id, torn, content, next, ctimeKept, csv, sensor)
  BY <1>2, <1>3, <1>4 DEF next
<1>5. CsvOk(next, csv) BY <1>2 DEF StoreInv, StateOk, CsvOk, next
<1>6. \A s \in Sensors : SensorOk(sensor[s], next, ctimeKept, csv, whitelist, sensor)
  BY <1>4 DEF StoreInv, StateOk, SensorOk
<1>7. PrebuiltOk(prebuilt, next, ctimeKept, csv, sensor)
  BY <1>4 DEF StoreInv, StateOk, PrebuiltOk
<1>8. StateOk(next, ctimeKept, csv, whitelist, prebuilt, sensor)
  BY <1>5, <1>6, <1>7 DEF StoreInv, StateOk
<1>9. clock' = next BY <1>1 DEF next
<1> QED BY <1>1, <1>8, <1>9 DEF StoreInv

LEMMA RemoveStoreKeeps ==
  ASSUME StoreInv, RemoveStore
  PROVE  StoreInv'
<1>1. /\ prebuilt' = Absent
      /\ UNCHANGED <<clock, ctimeKept, csv, whitelist, sensor>>
  BY DEF RemoveStore
<1>2. ~Absent.there /\ ~Readable(Absent) BY DEF Absent, Readable
<1>3. PrebuiltOk(Absent, clock, ctimeKept, csv, sensor) BY <1>2 DEF PrebuiltOk
<1>4. StateOk(clock, ctimeKept, csv, whitelist, Absent, sensor)
  BY <1>3 DEF StoreInv, StateOk
<1> QED BY <1>1, <1>4 DEF StoreInv

LEMMA EditWhitelistKeeps ==
  ASSUME StoreInv, EditWhitelist, ~LiveEdits
  PROVE  StoreInv'
<1>1. /\ \A s \in Sensors : sensor[s].pc = "down"
      /\ UNCHANGED <<clock, ctimeKept, csv, prebuilt, sensor>>
  BY DEF EditWhitelist, Running
<1>2. \A s \in Sensors : ~Loading(sensor[s]) BY <1>1 DEF Loading
<1>3. \A s \in Sensors : SensorOk(sensor[s], clock, ctimeKept, csv, whitelist', sensor)
  BY <1>1, <1>2 DEF SensorOk
<1>4. StateOk(clock, ctimeKept, csv, whitelist', prebuilt, sensor)
  BY <1>3 DEF StoreInv, StateOk
<1> QED BY <1>1, <1>4 DEF StoreInv

Damaged(x, kind, slots) == [x EXCEPT !.damage = kind, !.db.strings.slots = slots]

(* A store with other slots.                                               *)
LEMMA DamagedIs ==
  ASSUME NEW x, IsFile(x), IsDb(x.db), "slots" \in DOMAIN x.db.strings,
         NEW kind, NEW slots, NEW y, y = Damaged(x, kind, slots)
  PROVE  /\ IsFile(y) /\ y.there = x.there /\ y.damage = kind /\ y.hash = x.hash
         /\ y.torn = x.torn /\ y.identity = x.identity /\ y.db.strings.slots = slots
BY DEF IsFile, IsDb, Damaged

(* A damaged store is not readable: its checksum is wrong, it is cut       *)
(* short, or its zeroed slots are all occupied, which leaves no end to a   *)
(* probe.                                                                  *)
LEMMA DamageStoreKeeps ==
  ASSUME StoreInv, NEW kind \in {"checksum", "truncated", "zeroed"}, DamageStore(kind)
  PROVE  StoreInv'
<1> DEFINE old == prebuilt.db.strings.slots
           slots == IF kind = "zeroed" THEN [i \in DOMAIN old |-> ZeroSlot] ELSE old
           f == [prebuilt EXCEPT !.damage = kind, !.db.strings.slots = slots]
<1>1. /\ prebuilt.there /\ prebuilt.damage = "none"
      /\ UNCHANGED <<clock, ctimeKept, csv, whitelist, sensor>>
  BY DEF DamageStore
<1>2. prebuilt' = f BY DEF DamageStore
<1>3. PrebuiltOk(prebuilt, clock, ctimeKept, csv, sensor) BY DEF StoreInv, StateOk
<1>4. /\ IsFile(prebuilt) /\ FileHolds(prebuilt) /\ prebuilt.hash \in Seq(Lines)
      /\ prebuilt.torn \in BOOLEAN
      /\ Claim(prebuilt.identity, prebuilt.torn, prebuilt.hash, clock, ctimeKept, csv, sensor)
  BY <1>1, <1>3 DEF PrebuiltOk
<1>5. IsDb(prebuilt.db) /\ GoodTable(prebuilt.db.strings) BY <1>4 DEF FileHolds, Built
<1>7. "slots" \in DOMAIN prebuilt.db.strings BY <1>5 DEF GoodTable
<1>8. f = Damaged(prebuilt, kind, slots) BY DEF Damaged
<1>9. kind = "zeroed" => slots = [i \in DOMAIN old |-> ZeroSlot] OBVIOUS
<1> HIDE DEF f, slots
<1>10. /\ IsFile(f) /\ f.there = prebuilt.there /\ f.damage = kind /\ f.hash = prebuilt.hash
       /\ f.torn = prebuilt.torn /\ f.identity = prebuilt.identity
       /\ f.db.strings.slots = slots
  BY <1>4, <1>5, <1>7, <1>8, DamagedIs
<1>11. ~Readable(f)
  <2>1. CASE kind # "zeroed" BY <1>10, <2>1 DEF Readable
  <2>2. CASE kind = "zeroed"
    <3>1. f.db.strings.slots = [i \in DOMAIN old |-> ZeroSlot] BY <1>9, <1>10, <2>2
    <3>2. ZeroSlot.val # Empty BY DEF ZeroSlot, Empty
    <3>3. /\ DOMAIN f.db.strings.slots = DOMAIN old
          /\ Occupied(f.db.strings.slots) = DOMAIN old
      <4> HIDE DEF old
      <4> QED BY <3>1, <3>2 DEF Occupied
    <3>4. IsSlots(old, Capacity(prebuilt.db.strings)) BY <1>5 DEF GoodTable, Sound
    <3>5. PICK cap \in Nat : DOMAIN old = 0 .. cap - 1 BY <3>4 DEF IsSlots
    <3>6. Cardinality(0 .. cap - 1) \in Nat
      <4>1. 0 \in Int /\ cap - 1 \in Int OBVIOUS
      <4>2. IsFiniteSet(0 .. cap - 1) BY <4>1, FS_Interval
      <4> QED BY <4>2, FS_CardinalityType
    <3> HIDE DEF old
    <3>7. ASSUME ValidTable(f.db.strings, f.count, Len(f.db.pairs)) PROVE FALSE
      <4>1. /\ Cardinality(DOMAIN old) = f.count /\ f.count < Cardinality(DOMAIN old)
        BY <3>3, <3>7 DEF ValidTable, Capacity
      <4> QED BY <3>5, <3>6, <4>1
    <3> QED BY <3>7 DEF Readable
  <2> QED BY <2>1, <2>2
<1>12. PrebuiltOk(f, clock, ctimeKept, csv, sensor)
  <2>1. f.damage # "none" BY <1>10
  <2> QED BY <1>1, <1>4, <1>10, <1>11, <2>1 DEF PrebuiltOk
<1>13. StateOk(clock, ctimeKept, csv, whitelist, f, sensor)
  BY <1>12 DEF StoreInv, StateOk
<1> QED BY <1>1, <1>2, <1>13 DEF StoreInv

(* No sensor runs and there is no store.                                   *)
LEMMA InitOk ==
  ASSUME StoreInit
  PROVE  StoreInv
<1>1. PICK c \in Contents :
        csv = [lines |-> c, mtime |-> 1, ino |-> Min(Inodes), ctime |-> 1]
  BY DEF StoreInit
<1>2. clock = 1 /\ prebuilt = Absent /\ sensor = [s \in Sensors |-> Down] BY DEF StoreInit
<1>3. CsvOk(clock, csv) BY <1>1, <1>2 DEF CsvOk
<1>4. ~Absent.there /\ ~Readable(Absent) BY DEF Absent, Readable
<1>5. PrebuiltOk(prebuilt, clock, ctimeKept, csv, sensor) BY <1>2, <1>4 DEF PrebuiltOk
<1>6. Down.pc = "down" /\ ~Loading(Down) BY DEF Down, Loading
<1>7. /\ sensor = [s \in Sensors |-> sensor[s]]
      /\ \A s \in Sensors : sensor[s] = Down
  BY <1>2
<1>8. \A s \in Sensors : SensorOk(sensor[s], clock, ctimeKept, csv, whitelist, sensor)
  BY <1>6, <1>7 DEF SensorOk
<1> QED BY <1>3, <1>5, <1>7, <1>8 DEF StoreInv, StateOk

-----------------------------------------------------------------------------
(* Somebody writes the CSV: a sensor that has it open sees the new lines,  *)
(* through its descriptor if that is of the file they were written to.     *)
Sees(r, z, disk) ==
  /\ IsSensor(z) /\ z.pc = r.pc /\ z.wl = r.wl /\ z.build = r.build /\ z.hash = r.hash
  /\ z.meta = r.meta /\ z.identity = r.identity /\ z.got = r.got /\ z.db = r.db
  /\ z.serving = r.serving /\ z.seen = r.seen \cup {disk.lines} /\ z.torn \in BOOLEAN
  /\ r.meta.ino # disk.ino => z.fd = r.fd /\ (z.torn <=> r.torn)
  /\ r.meta.ino = disk.ino =>
       z.fd = disk.lines /\ (z.torn <=> r.torn \/ (r.pc = "reading" /\ r.got # <<>>))

(* A sensor that sees the CSV written still has tables that hold what it   *)
(* read.                                                                   *)
LEMMA SeesFits ==
  ASSUME NEW r, NEW z, NEW disk, NEW other, NEW wl, Sees(r, z, other), Loading(r),
         Fits(r), Meets(r, disk, wl), other.lines \in Contents
  PROVE  Fits(z) /\ Meets(z, other, wl) /\ Loading(z) /\ Goes(r, z)
<1>1. Loading(z) /\ z.pc = r.pc BY DEF Loading, Sees
<1>2. Goes(r, z) BY DEF Goes, Sees
<1>3. r.hash = wl /\ r.wl = wl BY DEF Meets
<1>4. Meets(z, other, wl) BY <1>1, <1>3 DEF Meets, Sees
<1>5. ~r.serving /\ ~z.serving
  <2>1. ~r.serving BY DEF Fits, Loading
  <2> QED BY <2>1 DEF Sees
<1>6. z.fd \in Contents /\ z.fd \in z.seen /\ EstimateOf(z.meta.len) \in Nat
  BY DEF Fits, Sees
<1>7. r.pc = "opened" => z.got = <<>> /\ ~z.torn BY DEF Fits, Sees
<1>8. r.pc \in {"reading", "parsed", "written"} => HoldsLines(z, z.got)
  BY DEF Fits, Sees, HoldsLines
<1>9. ASSUME r.pc = "reading", ~z.torn
      PROVE  Len(z.got) <= Len(z.fd) /\ SameTo(z.got, z.fd, Len(z.got))
  <2>1. CASE z.fd = r.fd /\ z.got = r.got /\ ~r.torn BY <1>9, <2>1 DEF Fits
  <2>2. CASE z.got = <<>>
    <3>1. z.fd \in Seq(Lines) BY <1>6, StoreAssumption
    <3>2. Len(z.fd) \in Nat /\ Len(<<>>) = 0 BY <3>1
    <3>3. Len(z.got) = 0 BY <2>2, <3>2
    <3> QED BY <3>2, <3>3 DEF SameTo
  <2> QED BY <1>9, <2>1, <2>2 DEF Sees
<1>10. r.pc \in {"parsed", "written"} => z.got \in z.seen \/ z.torn BY DEF Fits, Sees
<1>11. IsSensor(z) /\ z.torn \in BOOLEAN BY DEF Sees
<1>12. Fits(z) BY <1>1, <1>5, <1>6, <1>7, <1>8, <1>9, <1>10, <1>11 DEF Fits
<1> QED BY <1>1, <1>2, <1>4, <1>12

(* A write of the CSV takes a change time that no settled identity has.    *)
LEMMA WrittenKeeps ==
  ASSUME NEW now, NEW kept, NEW disk, NEW wl, NEW pre, NEW all,
         StateOk(now, kept, disk, wl, pre, all), NEW other, CsvOk(now, other),
         kept => other.ctime = now,
         NEW next, next = [s \in Sensors |-> next[s]],
         \A s \in Sensors : IF Loading(all[s]) THEN Sees(all[s], next[s], other)
                            ELSE next[s] = all[s]
  PROVE  StateOk(now, kept, other, wl, pre, next)
<1>1. now \in Nat /\ other.lines \in Contents BY DEF CsvOk
<1>2. \A s \in Sensors : SensorOk(all[s], now, kept, disk, wl, all) BY DEF StateOk
<1>3. ASSUME NEW s \in Sensors, Loading(all[s])
      PROVE  /\ Fits(next[s]) /\ Meets(next[s], other, wl) /\ Loading(next[s])
             /\ Goes(all[s], next[s])
  <2>1. all[s].pc # "down" BY <1>3 DEF Loading
  <2>2. Fits(all[s]) /\ Meets(all[s], disk, wl) BY <1>2, <2>1 DEF SensorOk
  <2> QED BY <1>1, <1>3, <2>2, SeesFits
<1>4. \A s \in Sensors : Loading(next[s]) => Loading(all[s]) /\ Goes(all[s], next[s]) BY <1>3
<1>5. \A s \in Sensors : Loading(next[s]) => other.lines \in next[s].seen BY <1>4 DEF Sees
<1>6. ASSUME NEW id, NEW torn, NEW content, Claim(id, torn, content, now, kept, disk, all)
      PROVE  Claim(id, torn, content, now, kept, other, next)
  BY <1>1, <1>4, <1>6, ClaimWritten
<1>7. ASSUME NEW id, NEW torn, NEW content, NEW late, NEW more,
             Claim(id, torn, content, now, kept, disk, all),
             more = other.lines \/ (more = content /\ (torn => late))
      PROVE  Claim(id, late, more, now, kept, other, next)
  <2>1. Claim(id, torn, content, now, kept, other, next) BY <1>6, <1>7
  <2>2. ASSUME id # NoIdentity, kept PROVE id # InodeParts(other)
    <3>1. id[2] + 2 <= now /\ id[2] \in Nat BY <2>1, <2>2 DEF Claim
    <3>2. InodeParts(other)[2] = now BY <2>2 DEF InodeParts
    <3> QED BY <1>1, <3>1, <3>2
  <2>3. CASE more = other.lines BY <1>5, <2>1, <2>2, <2>3 DEF Claim
  <2>4. CASE more = content /\ (torn => late) BY <2>1, <2>2, <2>4 DEF Claim
  <2> QED BY <1>7, <2>3, <2>4
<1>8. ASSUME NEW s \in Sensors PROVE SensorOk(next[s], now, kept, other, wl, next)
  <2>1. CASE Loading(all[s])
    <3> DEFINE r == all[s]
               z == next[s]
    <3>1. Claim(r.identity, r.torn, Content(r), now, kept, disk, all)
      BY <1>2, <2>1 DEF SensorOk
    <3>2. Sees(r, z, other) BY <2>1
    <3>3. z.identity = r.identity /\ z.pc = r.pc /\ z.got = r.got /\ (r.torn => z.torn)
          /\ (z.fd = r.fd \/ z.fd = other.lines)
      BY <3>2 DEF Sees
    <3>4. Content(z) = other.lines \/ (Content(z) = Content(r) /\ (r.torn => z.torn))
      <4> HIDE DEF r, z
      <4> QED BY <3>3 DEF Content
    <3> HIDE DEF r, z
    <3>5. Claim(r.identity, z.torn, Content(z), now, kept, other, next)
      BY <1>7, <3>1, <3>4
    <3>6. Claim(z.identity, z.torn, Content(z), now, kept, other, next) BY <3>3, <3>5
    <3>7. SensorOk(z, now, kept, other, wl, next)
      BY <1>3, <2>1, <3>6 DEF SensorOk, z
    <3> QED BY <3>7 DEF z
  <2>2. CASE ~Loading(all[s])
    <3>1. next[s] = all[s] BY <2>2
    <3>2. all[s].pc # "down" => Fits(all[s]) /\ Meets(all[s], disk, wl) BY <1>2 DEF SensorOk
    <3>3. all[s].pc # "down" => Meets(all[s], other, wl) BY <2>2, <3>2 DEF Meets
    <3> QED BY <2>2, <3>1, <3>2, <3>3 DEF SensorOk
  <2> QED BY <2>1, <2>2
<1>9. PrebuiltOk(pre, now, kept, other, next)
  <2>1. PrebuiltOk(pre, now, kept, disk, all) BY DEF StateOk
  <2>2. ASSUME pre.there PROVE Claim(pre.identity, pre.torn, pre.hash, now, kept, other, next)
    <3>1. Claim(pre.identity, pre.torn, pre.hash, now, kept, disk, all)
      BY <2>1, <2>2 DEF PrebuiltOk
    <3> QED BY <1>6, <3>1
  <2> QED BY <2>1, <2>2 DEF PrebuiltOk
<1> QED BY <1>8, <1>9 DEF StateOk

Saw(r, c) == [r EXCEPT !.seen = @ \cup {c}]

Rereads(r, c) ==
  [r EXCEPT !.seen = @ \cup {c}, !.fd = c, !.torn = @ \/ (r.pc = "reading" /\ r.got # <<>>)]

(* The two ways to see it.                                                 *)
LEMMA SawSees ==
  ASSUME NEW r, IsSensor(r), r.torn \in BOOLEAN, NEW disk, r.meta.ino # disk.ino,
         NEW z, z = Saw(r, disk.lines)
  PROVE  Sees(r, z, disk)
<1>1. /\ IsSensor(z) /\ z.pc = r.pc /\ z.wl = r.wl /\ z.build = r.build /\ z.hash = r.hash
      /\ z.meta = r.meta /\ z.identity = r.identity /\ z.got = r.got /\ z.db = r.db
      /\ z.serving = r.serving /\ z.seen = r.seen \cup {disk.lines} /\ z.torn = r.torn
      /\ z.fd = r.fd
  BY DEF Saw, IsSensor
<1> QED BY <1>1 DEF Sees

LEMMA RereadsSees ==
  ASSUME NEW r, IsSensor(r), r.torn \in BOOLEAN, NEW disk, r.meta.ino = disk.ino,
         NEW z, z = Rereads(r, disk.lines)
  PROVE  Sees(r, z, disk)
<1> DEFINE late == r.torn \/ (r.pc = "reading" /\ r.got # <<>>)
<1>1. late \in BOOLEAN OBVIOUS
<1>2. z = [r EXCEPT !.seen = r.seen \cup {disk.lines}, !.fd = disk.lines, !.torn = late]
  BY DEF Rereads, IsSensor
<1> HIDE DEF late
<1>3. /\ IsSensor(z) /\ z.pc = r.pc /\ z.wl = r.wl /\ z.build = r.build /\ z.hash = r.hash
      /\ z.meta = r.meta /\ z.identity = r.identity /\ z.got = r.got /\ z.db = r.db
      /\ z.serving = r.serving /\ z.seen = r.seen \cup {disk.lines} /\ z.torn = late
      /\ z.fd = disk.lines
  BY <1>2 DEF IsSensor
<1> QED BY <1>1, <1>3 DEF Sees, late

(* The sensors that have the CSV open.                                     *)
LEMMA WhoReads ==
  ASSUME StoreInv, NEW s \in Sensors
  PROVE  /\ Loading(sensor[s]) <=> ~(sensor[s].pc = "down" \/ sensor[s].pc = "idle")
         /\ Loading(sensor[s]) => IsSensor(sensor[s]) /\ sensor[s].torn \in BOOLEAN
<1>1. sensor[s].pc # "down" => Fits(sensor[s]) BY DEF StoreInv, StateOk, SensorOk
<1>2. Loading(sensor[s]) => sensor[s].pc # "down" /\ sensor[s].pc # "idle" BY DEF Loading
<1> QED BY <1>1, <1>2 DEF Fits

LEMMA OverwriteKeeps ==
  ASSUME StoreInv, Overwrite
  PROVE  StoreInv'
<1>1. PICK c \in Contents, m \in {csv.mtime, clock}, t \in ChangeTimes :
        /\ csv' = [csv EXCEPT !.lines = c, !.mtime = m, !.ctime = t]
        /\ sensor' = [s \in Sensors |->
             IF ~Running(s) \/ sensor[s].pc = "idle" THEN sensor[s]
             ELSE IF sensor[s].meta.ino # csv.ino THEN Saw(sensor[s], c)
             ELSE Rereads(sensor[s], c)]
  BY DEF Overwrite, Saw, Rereads
<1>2. UNCHANGED <<clock, ctimeKept, whitelist, prebuilt>> BY DEF Overwrite
<1>3. CsvOk(clock, csv) BY DEF StoreInv, StateOk
<1> DEFINE other == csv'
           next == sensor'
<1>4. /\ other = [lines |-> other.lines, mtime |-> other.mtime,
                  ino |-> other.ino, ctime |-> other.ctime]
      /\ other.lines = c /\ other.ino = csv.ino /\ other.ctime = t
  BY <1>1, <1>3 DEF CsvOk
<1>5. t \in Nat \ {0} /\ t <= clock /\ (ctimeKept => t = clock)
  BY <1>3 DEF CsvOk, ChangeTimes
<1>6. CsvOk(clock, other) BY <1>3, <1>4, <1>5 DEF CsvOk
<1>7. next = [s \in Sensors |-> next[s]] BY <1>1
<1>8. ASSUME NEW s \in Sensors
      PROVE  IF Loading(sensor[s]) THEN Sees(sensor[s], next[s], other) ELSE next[s] = sensor[s]
  <2>1. CASE ~Loading(sensor[s]) BY <1>1, <2>1, WhoReads DEF Running
  <2>2. CASE Loading(sensor[s])
    <3>1. IsSensor(sensor[s]) /\ sensor[s].torn \in BOOLEAN BY <2>2, WhoReads
    <3>2. next[s] = IF sensor[s].meta.ino # csv.ino THEN Saw(sensor[s], c)
                    ELSE Rereads(sensor[s], c)
      BY <1>1, <2>2, WhoReads DEF Running
    <3> HIDE DEF next, other
    <3>3. CASE sensor[s].meta.ino # other.ino BY <1>4, <2>2, <3>1, <3>2, <3>3, SawSees
    <3>4. CASE sensor[s].meta.ino = other.ino BY <1>4, <2>2, <3>1, <3>2, <3>4, RereadsSees
    <3> QED BY <3>3, <3>4
  <2> QED BY <2>1, <2>2
<1>9. ctimeKept => other.ctime = clock BY <1>4, <1>5
<1> HIDE DEF next, other
<1>10. StateOk(clock, ctimeKept, other, whitelist, prebuilt, next)
  BY <1>6, <1>7, <1>8, <1>9, WrittenKeeps DEF StoreInv
<1> QED BY <1>2, <1>10 DEF StoreInv, next, other

LEMMA ReplaceKeeps ==
  ASSUME StoreInv, Replace
  PROVE  StoreInv'
<1> DEFINE held == {sensor[s].meta.ino :
                      s \in {r \in Sensors : Running(r) /\ sensor[r].pc # "idle"}}
<1>1. PICK c \in Contents, m \in {csv.mtime, clock}, t \in ChangeTimes,
           i \in Inodes \ ({csv.ino} \cup held) :
        /\ csv' = [lines |-> c, mtime |-> m, ctime |-> t, ino |-> i]
        /\ sensor' = [s \in Sensors |->
             IF ~Running(s) \/ sensor[s].pc = "idle" THEN sensor[s] ELSE Saw(sensor[s], c)]
  BY DEF Replace, Saw
<1>2. UNCHANGED <<clock, ctimeKept, whitelist, prebuilt>> BY DEF Replace
<1>3. CsvOk(clock, csv) BY DEF StoreInv, StateOk
<1> DEFINE other == csv'
           next == sensor'
<1>4. /\ other = [lines |-> other.lines, mtime |-> other.mtime,
                  ino |-> other.ino, ctime |-> other.ctime]
      /\ other.lines = c /\ other.ino = i /\ other.ctime = t
  BY <1>1
<1>5. t \in Nat \ {0} /\ t <= clock /\ (ctimeKept => t = clock)
  BY <1>3 DEF CsvOk, ChangeTimes
<1>6. CsvOk(clock, other) BY <1>3, <1>4, <1>5 DEF CsvOk
<1>7. next = [s \in Sensors |-> next[s]] BY <1>1
<1>8. ASSUME NEW s \in Sensors
      PROVE  IF Loading(sensor[s]) THEN Sees(sensor[s], next[s], other) ELSE next[s] = sensor[s]
  <2>1. CASE ~Loading(sensor[s]) BY <1>1, <2>1, WhoReads DEF Running
  <2>2. CASE Loading(sensor[s])
    <3>1. IsSensor(sensor[s]) /\ sensor[s].torn \in BOOLEAN BY <2>2, WhoReads
    <3>2. next[s] = Saw(sensor[s], c) BY <1>1, <2>2, WhoReads DEF Running
    <3>3. sensor[s].meta.ino \in held BY <2>2, WhoReads DEF Running
    <3>4. sensor[s].meta.ino # other.ino
      <4> HIDE DEF held
      <4> QED BY <1>4, <3>3
    <3> HIDE DEF next, other, held
    <3>5. Sees(sensor[s], next[s], other) BY <1>4, <3>1, <3>2, <3>4, SawSees
    <3> QED BY <2>2, <3>5
  <2> QED BY <2>1, <2>2
<1>9. ctimeKept => other.ctime = clock BY <1>4, <1>5
<1> HIDE DEF next, other
<1>10. StateOk(clock, ctimeKept, other, whitelist, prebuilt, next)
  BY <1>6, <1>7, <1>8, <1>9, WrittenKeeps DEF StoreInv
<1> QED BY <1>2, <1>10 DEF StoreInv, next, other

(* Every step keeps the invariant while the whitelist is only edited with  *)
(* the sensors down.                                                       *)
LEMMA SetupKeeps ==
  ASSUME StoreInv, ~LiveEdits, [StoreNext]_storeVars
  PROVE  StoreInv'
<1>1. ASSUME NEW s \in Sensors, NEW b \in Builds, Start(s, b) PROVE StoreInv' BY <1>1, StartKeeps
<1>2. ASSUME NEW s \in Sensors, Open(s) PROVE StoreInv' BY <1>2, OpenKeeps
<1>3. ASSUME NEW s \in Sensors, TryStore(s) PROVE StoreInv' BY <1>3, TryKeeps
<1>4. ASSUME NEW s \in Sensors, Read(s) PROVE StoreInv' BY <1>4, ReadKeeps
<1>5. ASSUME NEW s \in Sensors, WriteFails(s) PROVE StoreInv' BY <1>5, WriteFailsKeeps
<1>6. ASSUME NEW s \in Sensors, Rename(s) PROVE StoreInv' BY <1>6, RenameKeeps
<1>7. ASSUME NEW s \in Sensors, Reopen(s) PROVE StoreInv' BY <1>7, ReopenKeeps
<1>8. ASSUME NEW s \in Sensors, Crash(s) PROVE StoreInv' BY <1>8, CrashKeeps
<1>9. CASE Tick BY <1>9, TickKeeps
<1>10. CASE Overwrite BY <1>10, OverwriteKeeps
<1>11. CASE Replace BY <1>11, ReplaceKeeps
<1>12. CASE EditWhitelist BY <1>12, EditWhitelistKeeps
<1>13. CASE RemoveStore BY <1>13, RemoveStoreKeeps
<1>14. ASSUME NEW kind \in {"checksum", "truncated", "zeroed"}, DamageStore(kind) PROVE StoreInv'
  BY <1>14, DamageStoreKeeps
<1>15. CASE UNCHANGED storeVars BY <1>15 DEF storeVars, StoreInv
<1> QED BY <1>1, <1>2, <1>3, <1>4, <1>5, <1>6, <1>7, <1>8, <1>9, <1>10, <1>11, <1>12, <1>13,
           <1>14, <1>15 DEF StoreNext

(* The inductive invariant holds: tables hold exactly the lines they were  *)
(* filled from (the slices of a batch, parsed side by side, and one pass   *)
(* over the file are the same), a settled identity stays true of the CSV,  *)
(* and a readable store is what was renamed there.                         *)
THEOREM SpecStoreInv == ~LiveEdits => (StoreSpec => []StoreInv)
<1> SUFFICES ASSUME ~LiveEdits PROVE StoreSpec => []StoreInv OBVIOUS
<1>1. StoreInit => StoreInv BY InitOk
<1>2. StoreInv /\ [StoreNext]_storeVars => StoreInv' BY SetupKeeps
<1> QED BY <1>1, <1>2, PTL DEF StoreSpec

(* store.rs, for every CSV, hash function, whitelist and history of        *)
(* crashes, writes and damages: a store that passes read_header() and      *)
(* assemble() answers as its header says, and while the CSV has the        *)
(* identity recorded there it has the content recorded there (as long as   *)
(* nobody edits the whitelist under a running sensor).                     *)
THEOREM SpecStoreHonest == ~LiveEdits => (StoreSpec => []StoreHonest)
<1>1. StoreInv => StoreHonest
  <2> SUFFICES ASSUME StoreInv, Readable(prebuilt) PROVE
        /\ Answers(prebuilt.db, prebuilt.hash, Len(prebuilt.hash),
                   WhitelistOf(prebuilt.whitelist), prebuilt.repair, Trails, Addresses)
        /\ ctimeKept /\ prebuilt.identity = InodeParts(csv) => csv.lines = prebuilt.hash
    BY DEF StoreHonest
  <2>1. prebuilt.there BY DEF Readable
  <2>2. PrebuiltOk(prebuilt, clock, ctimeKept, csv, sensor) /\ CsvOk(clock, csv)
    BY DEF StoreInv, StateOk
  <2>3. Built(prebuilt.db, prebuilt.hash, Len(prebuilt.hash), WhitelistOf(prebuilt.whitelist),
              prebuilt.repair)
    BY <2>2 DEF PrebuiltOk, FileHolds
  <2>4. Answers(prebuilt.db, prebuilt.hash, Len(prebuilt.hash),
                WhitelistOf(prebuilt.whitelist), prebuilt.repair, Trails, Addresses)
    BY <2>3, BuiltAnswers
  <2>5. InodeParts(csv) # NoIdentity BY <2>2 DEF CsvOk, InodeParts, NoIdentity
  <2>6. Claim(prebuilt.identity, prebuilt.torn, prebuilt.hash, clock, ctimeKept, csv, sensor)
    BY <2>1, <2>2 DEF PrebuiltOk
  <2>7. ctimeKept /\ prebuilt.identity = InodeParts(csv) => csv.lines = prebuilt.hash
    BY <2>5, <2>6 DEF Claim
  <2> QED BY <2>4, <2>7
<1> QED BY <1>1, SpecStoreInv, PTL

(* load_trails(), under the same condition: what a sensor serves, parsed   *)
(* or mapped from the store, answers as its whitelist and one content of   *)
(* the CSV say that the CSV has had since the load began, unless the CSV   *)
(* was overwritten between two reads.                                      *)
THEOREM SpecServedIsCsv == ~LiveEdits => (StoreSpec => []ServedIsCsv)
<1>1. StoreInv => ServedIsCsv
  <2> SUFFICES ASSUME StoreInv, NEW s \in Sensors, Running(s), sensor[s].serving
               PROVE  /\ Answers(sensor[s].db, sensor[s].from, Len(sensor[s].from),
                                 WhitelistOf(sensor[s].wl), sensor[s].build.repair,
                                 Trails, Addresses)
                      /\ sensor[s].from \in sensor[s].seen \/ sensor[s].torn
    BY DEF ServedIsCsv
  <2>1. Fits(sensor[s]) BY DEF StoreInv, StateOk, SensorOk, Running
  <2>2. /\ HoldsLines(sensor[s], sensor[s].from)
        /\ sensor[s].from \in sensor[s].seen \/ sensor[s].torn
    BY <2>1 DEF Fits
  <2>3. Built(sensor[s].db, sensor[s].from, Len(sensor[s].from),
              WhitelistOf(sensor[s].wl), sensor[s].build.repair)
    BY <2>2 DEF HoldsLines
  <2> QED BY <2>2, <2>3, BuiltAnswers
<1> QED BY <1>1, SpecStoreInv, PTL

=============================================================================
