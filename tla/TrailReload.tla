----------------------------- MODULE TrailReload -----------------------------
(***************************************************************************)
(* How a trail set reaches the capture workers: the start of the sensor    *)
(* and its reload thread (sensor/src/main.rs), the updater they run        *)
(* (trailupdate.rs), and the store through which the set is shared with    *)
(* the workers without a lock on the packet path (trails/mod.rs).          *)
(*                                                                         *)
(* A trail set is the version of TRAILS_FILE it was loaded from and its    *)
(* number of trails; version 0 is "no file".  Every write of the file gets *)
(* a modification time of its own, which is the version.  The shared store *)
(* is a mutex-protected pointer and a generation counter that are written  *)
(* and read in separate steps; each step below is one atomic operation.    *)
(***************************************************************************)
EXTENDS Integers

CONSTANTS
  Workers,      \* capture workers
  Counts,       \* how many trails a written file may hold
  RatioNum,     \* TRAIL_RELOAD_MIN_RATIO is RatioNum / RatioDen
  RatioDen,
  Updates,      \* FALSE with DISABLE_TRAIL_UPDATES
  AllowEmpty,   \* ALLOW_EMPTY_TRAILS
  MaxWrites,    \* bound: writes and removals of the file
  MaxSignals,   \* bound: SIGHUPs
  MaxUpdates    \* bound: update cycles of the reload thread

ASSUME ReloadAssumption ==
  /\ Counts \subseteq Nat
  /\ RatioNum \in Nat
  /\ RatioDen \in Nat \ {0}
  /\ Updates \in BOOLEAN /\ AllowEmpty \in BOOLEAN
  /\ MaxWrites \in Nat /\ MaxSignals \in Nat /\ MaxUpdates \in Nat

NoFile == [ver |-> 0, count |-> 0]

TrailSet == [ver : Nat, count : Nat]

VARIABLES
  file,        \* TRAILS_FILE: what a load of it would give
  written,     \* how many times it was written or removed
  pc,          \* where the main thread, then the reload thread, stands
  dueNow,      \* update_in_background: the first update is due at once
  updates,     \* update cycles run by the reload thread
  requested,   \* RELOAD_REQUESTED, set by the SIGHUP handler
  signals,     \* SIGHUPs so far
  lastMtime,   \* last_mtime
  loaded,      \* the set load_with() returned
  trailCount,  \* registry.trail_count
  current,     \* TrailStore.current
  generation,  \* TrailStore.generation
  wpc,         \* where each worker stands in TrailView::refresh()
  seenGen,     \* the generation a snapshot() in progress has read
  view,        \* each worker's TrailView: [gen, db]
  considered,  \* history: the version the last load attempt has read
  firstStat    \* history: the version the reload thread found when it started

fileVars == <<file, written>>
bootVars == <<dueNow, updates, firstStat>>
hupVars  == <<requested, signals>>
pollVars == <<lastMtime, loaded, considered>>
store    == <<current, generation>>
workVars == <<wpc, seenGen, view>>
vars     == <<fileVars, pc, bootVars, hupVars, pollVars, trailCount, store, workVars>>

Init ==
  /\ file \in {NoFile} \union [ver : {1}, count : Counts]
  /\ written = 1
  /\ pc = "boot"
  /\ dueNow = FALSE
  /\ updates = 0
  /\ requested = FALSE
  /\ signals = 0
  /\ lastMtime = 0
  /\ loaded = NoFile
  /\ trailCount = 0
  /\ current = NoFile
  /\ generation = 1
  /\ wpc = [w \in Workers |-> "off"]
  /\ seenGen = [w \in Workers |-> 0]
  /\ view = [w \in Workers |-> [gen |-> 0, db |-> NoFile]]
  /\ considered = 0
  /\ firstStat = 0

-----------------------------------------------------------------------------
(* The file, which the server, a cron job or an operator may rewrite or    *)
(* remove at any moment.                                                   *)

Rewritten(count) == [ver |-> written + 1, count |-> count]

WriteFile(count) ==
  /\ written < MaxWrites
  /\ written' = written + 1
  /\ file' = Rewritten(count)

RemoveFile ==
  /\ written < MaxWrites
  /\ file.ver # 0
  /\ written' = written + 1
  /\ file' = NoFile

Someone ==
  /\ pc # "exited"
  /\ RemoveFile \/ \E c \in Counts : WriteFile(c)
  /\ UNCHANGED <<pc, bootVars, hupVars, pollVars, trailCount, store, workVars>>

(* trailupdate::run(): disabled, unavailable, failed or killed at the      *)
(* deadline it leaves the file; otherwise the updater has rewritten it.    *)
UpdateOutcome ==
  \/ UNCHANGED fileVars
  \/ Updates /\ \E c \in Counts : WriteFile(c)

-----------------------------------------------------------------------------
(* have_trails asks for a file that is not empty, which one without a      *)
(* single trail may or may not be.                                         *)
MayHaveTrails(have) ==
  /\ have => file.ver # 0
  /\ file.count > 0 => have

(* main(): refresh before the load only when there is nothing to load.     *)
BootRefresh ==
  /\ pc = "boot"
  /\ pc' = "bootload"
  /\ \/ /\ Updates /\ MayHaveTrails(TRUE)
        /\ dueNow' = TRUE
        /\ UNCHANGED fileVars
     \/ /\ ~Updates \/ MayHaveTrails(FALSE)
        /\ dueNow' = FALSE
        /\ UpdateOutcome
  /\ UNCHANGED <<updates, firstStat, hupVars, pollVars, trailCount, store, workVars>>

(* The first load.  A missing file or an empty set ends the sensor.        *)
BootLoad ==
  /\ pc = "bootload"
  /\ considered' = file.ver
  /\ IF file.ver = 0 \/ (file.count = 0 /\ ~AllowEmpty)
     THEN /\ pc' = "exited"
          /\ UNCHANGED <<current, trailCount>>
     ELSE /\ pc' = "spawn"
          /\ current' = file
          /\ trailCount' = file.count
  /\ UNCHANGED <<fileVars, bootVars, hupVars, lastMtime, loaded, generation, workVars>>

(* The reload thread starts by remembering the file's mtime, which may be  *)
(* of a later file than the one just loaded; the workers are spawned after *)
(* it and take their first snapshot.                                       *)
SpawnReload ==
  /\ pc = "spawn"
  /\ pc' = "tick"
  /\ lastMtime' = file.ver /\ firstStat' = file.ver
  /\ wpc' = [w \in Workers |-> "gen"]
  /\ UNCHANGED <<fileVars, dueNow, updates, hupVars, loaded, considered, trailCount,
                 store, seenGen, view>>

-----------------------------------------------------------------------------
(* The reload thread, once a second.                                       *)

(* An update is due: at once after a start with an old file, then every    *)
(* UPDATE_PERIOD.  The thread waits for it, whatever else is asked.        *)
StartUpdate ==
  /\ pc = "tick"
  /\ updates < MaxUpdates
  /\ updates' = updates + 1
  /\ dueNow' = FALSE
  /\ pc' = "updating"
  /\ UNCHANGED <<fileVars, firstStat, hupVars, pollVars, trailCount, store, workVars>>

EndUpdate ==
  /\ pc = "updating"
  /\ pc' = "poll"
  /\ UpdateOutcome
  /\ UNCHANGED <<bootVars, hupVars, pollVars, trailCount, store, workVars>>

SkipUpdate ==
  /\ pc = "tick"
  /\ ~dueNow \/ updates >= MaxUpdates
  /\ pc' = "poll"
  /\ UNCHANGED <<fileVars, bootVars, hupVars, pollVars, trailCount, store, workVars>>

(* Mutant of Poll: only a changed mtime leads to a load.                   *)
PollDeaf ==
  /\ pc = "poll"
  /\ requested' = FALSE
  /\ IF file.ver = lastMtime
     THEN pc' = "tick" /\ UNCHANGED lastMtime
     ELSE pc' = "load" /\ lastMtime' = file.ver
  /\ UNCHANGED <<fileVars, bootVars, signals, loaded, considered, trailCount,
                 store, workVars>>

(* Take the SIGHUP flag, then compare mtimes.                              *)
Poll ==
  /\ pc = "poll"
  /\ requested' = FALSE
  /\ IF file.ver = lastMtime /\ ~requested
     THEN pc' = "tick" /\ UNCHANGED lastMtime
     ELSE pc' = "load" /\ lastMtime' = file.ver
  /\ UNCHANGED <<fileVars, bootVars, signals, loaded, considered, trailCount,
                 store, workVars>>

(* load_with(): an absent file is an error, counted and not retried until  *)
(* the mtime changes again.                                                *)
Load ==
  /\ pc = "load"
  /\ considered' = file.ver
  /\ IF file.ver = 0 THEN pc' = "tick" /\ UNCHANGED loaded
                     ELSE pc' = "decide" /\ loaded' = file
  /\ UNCHANGED <<fileVars, bootVars, hupVars, lastMtime, trailCount, store, workVars>>

Floor(count) == (count * RatioNum) \div RatioDen

(* The floor is taken from the metric, not from the set being served.      *)
BelowFloor ==
  /\ RatioNum > 0
  /\ trailCount > 0
  /\ loaded.count < Floor(trailCount)

Reject ==
  /\ pc = "decide"
  /\ BelowFloor
  /\ pc' = "tick"
  /\ UNCHANGED <<fileVars, bootVars, hupVars, pollVars, trailCount, store, workVars>>

(* Mutant of Accept: the metric is not updated.                            *)
AcceptUncounted ==
  /\ pc = "decide"
  /\ ~BelowFloor
  /\ pc' = "publish"
  /\ UNCHANGED <<fileVars, bootVars, hupVars, pollVars, trailCount, store, workVars>>

(* Mutant of Accept: the mtime is read again after the load.               *)
AcceptThenStat ==
  /\ pc = "decide"
  /\ ~BelowFloor
  /\ trailCount' = loaded.count
  /\ lastMtime' = file.ver
  /\ pc' = "publish"
  /\ UNCHANGED <<fileVars, bootVars, hupVars, loaded, considered, store, workVars>>

(* The metric first, then the set.                                         *)
Accept ==
  /\ pc = "decide"
  /\ ~BelowFloor
  /\ trailCount' = loaded.count
  /\ pc' = "publish"
  /\ UNCHANGED <<fileVars, bootVars, hupVars, pollVars, store, workVars>>

(* publish(): the pointer under the mutex, then the generation.            *)
PublishDb ==
  /\ pc = "publish"
  /\ current' = loaded
  /\ pc' = "bump"
  /\ UNCHANGED <<fileVars, bootVars, hupVars, pollVars, trailCount, generation, workVars>>

(* Mutant of PublishGeneration: the generation is not bumped.              *)
PublishWithoutGeneration ==
  /\ pc = "bump"
  /\ pc' = "tick"
  /\ UNCHANGED <<fileVars, bootVars, hupVars, pollVars, trailCount, store, workVars>>

PublishGeneration ==
  /\ pc = "bump"
  /\ generation' = generation + 1
  /\ pc' = "tick"
  /\ UNCHANGED <<fileVars, bootVars, hupVars, pollVars, trailCount, current, workVars>>

(* The SIGHUP handler may run at any moment once it is installed.          *)
Sighup ==
  /\ pc \notin {"boot", "bootload", "exited"}
  /\ signals < MaxSignals
  /\ signals' = signals + 1
  /\ requested' = TRUE
  /\ UNCHANGED <<fileVars, pc, bootVars, pollVars, trailCount, store, workVars>>

-----------------------------------------------------------------------------
(* A worker's refresh() between two packets: compare the generations, then *)
(* snapshot(): the generation FIRST, then the pointer.                     *)

RefreshStale(w) ==
  /\ wpc[w] = "run"
  /\ generation # view[w].gen
  /\ wpc' = [wpc EXCEPT ![w] = "gen"]
  /\ UNCHANGED <<fileVars, pc, bootVars, hupVars, pollVars, trailCount, store,
                 seenGen, view>>

SnapshotGeneration(w) ==
  /\ wpc[w] = "gen"
  /\ seenGen' = [seenGen EXCEPT ![w] = generation]
  /\ wpc' = [wpc EXCEPT ![w] = "db"]
  /\ UNCHANGED <<fileVars, pc, bootVars, hupVars, pollVars, trailCount, store, view>>

(* Mutant of SnapshotDb: the pointer first, then the generation.           *)
SnapshotDbLateGen(w) ==
  \/ /\ wpc[w] = "db"
     /\ view' = [view EXCEPT ![w].db = current]
     /\ wpc' = [wpc EXCEPT ![w] = "late"]
     /\ UNCHANGED <<fileVars, pc, bootVars, hupVars, pollVars, trailCount, store, seenGen>>
  \/ /\ wpc[w] = "late"
     /\ view' = [view EXCEPT ![w].gen = generation]
     /\ wpc' = [wpc EXCEPT ![w] = "run"]
     /\ UNCHANGED <<fileVars, pc, bootVars, hupVars, pollVars, trailCount, store, seenGen>>

SnapshotDb(w) ==
  /\ wpc[w] = "db"
  /\ view' = [view EXCEPT ![w] = [gen |-> seenGen[w], db |-> current]]
  /\ wpc' = [wpc EXCEPT ![w] = "run"]
  /\ UNCHANGED <<fileVars, pc, bootVars, hupVars, pollVars, trailCount, store, seenGen>>

-----------------------------------------------------------------------------
Boot == BootRefresh \/ BootLoad \/ SpawnReload

ReloadThread ==
  \/ StartUpdate \/ EndUpdate \/ SkipUpdate
  \/ Poll \/ Load \/ Reject \/ Accept \/ PublishDb \/ PublishGeneration

Worker(w) == RefreshStale(w) \/ SnapshotGeneration(w) \/ SnapshotDb(w)

Next ==
  \/ Someone
  \/ Boot
  \/ ReloadThread
  \/ Sighup
  \/ \E w \in Workers : Worker(w)

(* Threads are scheduled, sleeps end, and the updater is killed at its     *)
(* deadline: no thread stands still.  Nobody has to write the file.        *)
Fairness ==
  /\ WF_vars(Boot)
  /\ WF_vars(ReloadThread)
  /\ \A w \in Workers : WF_vars(Worker(w))

Spec == Init /\ [][Next]_vars

FairSpec == Spec /\ Fairness

-----------------------------------------------------------------------------
Pcs == {"boot", "bootload", "spawn", "exited", "tick", "updating", "poll",
        "load", "decide", "publish", "bump"}

(* Types.  A worker never knows a generation the store has not reached.    *)
TypeOK ==
  /\ file \in TrailSet /\ written \in Nat
  /\ pc \in Pcs
  /\ dueNow \in BOOLEAN /\ updates \in Nat /\ firstStat \in Nat
  /\ requested \in BOOLEAN /\ signals \in Nat
  /\ lastMtime \in Nat /\ considered \in Nat
  /\ loaded \in TrailSet /\ current \in TrailSet
  /\ trailCount \in Nat /\ generation \in Nat
  /\ wpc \in [Workers -> {"off", "run", "gen", "db"}]
  /\ seenGen \in [Workers -> Nat]
  /\ view \in [Workers -> [gen : Nat, db : TrailSet]]

(* A worker that believes it is up to date IS: whenever its generation is  *)
(* the store's (and no publish() is half done) it uses the current set.    *)
(* Reading the two the other way round could pair a new generation with an *)
(* old set, which nothing would ever correct.                              *)
ViewCoherent ==
  \A w \in Workers :
    (wpc[w] = "run" /\ view[w].gen = generation /\ pc # "bump")
      => view[w].db = current

(* A truncated or half-written file never replaces the set being SERVED by *)
(* one below TRAIL_RELOAD_MIN_RATIO of it.                                 *)
FloorOnServed ==
  [][(current # NoFile /\ current' # current /\ RatioNum > 0)
       => current'.count >= Floor(current.count)]_vars

(* "A file refreshed by anyone is picked up within a second (an mtime      *)
(* poll)" (BEHAVIOUR.md): once nobody writes it any more, the last version *)
(* has been read by a load.                                                *)
RefreshedFilePickedUp == <>[](pc = "exited" \/ considered = file.ver)

(* What the mtime poll does give: once nobody writes the file any more,    *)
(* its last version has been read by a load, or it is the version the      *)
(* reload thread found in place when it started.  A write during an        *)
(* update, between the poll and the load or during a load is not missed.   *)
ChangePickedUp ==
  <>[](pc = "exited" \/ considered = file.ver \/ file.ver = firstStat)

(* A published set reaches every worker.                                   *)
AdoptedByAll ==
  <>[](pc = "exited" \/ \A w \in Workers : wpc[w] = "run" /\ view[w].db = current)

(* "SIGHUP forces a reload even when the mtime is unchanged": a request is *)
(* always followed by a load.                                              *)
SighupReloads == requested ~> pc = "load"
=============================================================================
