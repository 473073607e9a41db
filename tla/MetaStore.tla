------------------------------ MODULE MetaStore ------------------------------
(***************************************************************************)
(* The condensed observable store, LOG_DIR/meta.sqlite (sensor/src/meta.rs)*)
(*                                                                         *)
(* Every worker counts addresses and names in a window of its own; once    *)
(* per period, and at its end, it hands the window to the one writer       *)
(* thread, which merges it into the database in one transaction.  The      *)
(* trail-update thread prunes the database.                                *)
(***************************************************************************)
EXTENDS Integers, Sequences, FiniteSets, FiniteSetsExt, SequencesExt, Functions

CONSTANTS
  Workers,
  V4, V6,          \* addresses, by family
  Names,           \* DNS names
  Junk,            \* is_junk_ip(): addresses never worth a row
  Conns,           \* <<src, dst>>: the connections seen
  SlotOf(_),       \* Recent::slot()
  FlagsOf(_),      \* FLAG_DNS and the scope of an address
  ScoreOf(_),      \* score()
  MaxWindowKeys,   \* CONDENSED_MAX_WINDOW_KEYS
  FlushPeriod,     \* CONDENSED_FLUSH_PERIOD
  Backlog,         \* WRITER_BACKLOG
  MaxRows,         \* META_MAX_ROWS
  Seconds,         \* the timestamps of packets, in any order: not the wall clock
  MaxClock, MaxSightings

VARIABLES
  clock,    \* the wall clock: it drives the flush, and nothing else
  win,      \* of each worker: its window
  pc,       \* of each worker: "run", then the steps of flush() to "done"
  queue,    \* the channel to the writer
  hand,     \* the job the writer is at: <<>> or <<job>>
  db,       \* the rows of the database, by observable
  results,  \* of each worker: [flushed, errors]
  overflow, \* of a prune() between its two statements: the rows to delete, or 0
  hist,     \* history: of each observable, the sightings taken: [sec, by]
  lost      \* history: the rows of windows lost and of rows pruned

vars == <<clock, win, pc, queue, hand, db, results, overflow, hist, lost>>

Addresses == V4 \cup V6

Observables == Addresses \cup Names

(* pack_ip(): an address is a blob and a name is text, never the same key. *)
ASSUME MetaAssumption ==
  /\ Conns \subseteq Addresses \X Addresses
  /\ Junk \subseteq Addresses
  /\ Addresses \cap Names = {}
  /\ Seconds \subseteq Nat

None == [x \in {} |-> 0]

EmptyWindow ==
  [ips |-> <<>>, index |-> None, recent |-> None, names |-> None, lastFlush |-> 0,
   saturations |-> 0]

Init ==
  /\ clock = 1
  /\ win = [w \in Workers |-> EmptyWindow]
  /\ pc = [w \in Workers |-> "run"]
  /\ queue = <<>> /\ hand = <<>> /\ db = None
  /\ results = [w \in Workers |-> [flushed |-> 0, errors |-> 0]]
  /\ overflow = 0
  /\ hist = [o \in Observables |-> <<>>] /\ lost = None

-----------------------------------------------------------------------------
(* The rows.  Beside the code's columns a row has the history of it: the   *)
(* sightings it stands for, each a place in the observable's hist.         *)
NewRow(o, sec, n) ==
  [flags |-> FlagsOf(o), first |-> sec, last |-> sec, count |-> 1, seen |-> {n}]

(* Row::bump(): the last second is assigned, not a maximum taken.          *)
Bump(row, sec, n) ==
  [flags |-> row.flags, first |-> row.first, last |-> sec, count |-> row.count + 1,
   seen |-> row.seen \cup {n}]

(* The upsert of write(): the flags of the first sighting, MIN, MAX, sum.  *)
Merged(a, b) ==
  [flags |-> a.flags, first |-> Min({a.first, b.first}), last |-> Max({a.last, b.last}),
   count |-> a.count + b.count, seen |-> a.seen \cup b.seen]

MergeAll(rows, more) ==
  [o \in DOMAIN rows \cup DOMAIN more |->
     IF o \notin DOMAIN more THEN rows[o]
     ELSE IF o \notin DOMAIN rows THEN more[o]
     ELSE Merged(rows[o], more[o])]

Pending(x) == Len(x.ips) + Cardinality(DOMAIN x.names)

Put(f, key, val) == [k \in DOMAIN f \cup {key} |-> IF k = key THEN val ELSE f[k]]

(* Recent::get(): the slot of an address, if it still holds that address.  *)
Recent(x, ip) ==
  ip \in V4 /\ SlotOf(ip) \in DOMAIN x.recent /\ x.recent[SlotOf(ip)][1] = ip

Remembered(x, ip, at) ==
  IF ip \in V4 THEN [x EXCEPT !.recent = Put(@, SlotOf(ip), <<ip, at>>)] ELSE x

(* self.ips[at].1.bump(sec)                                                *)
BumpAt(x, at, sec, n) ==
  LET bumped == [x.ips EXCEPT ![at] = <<@[1], Bump(@[2], sec, n)>>]
  IN  [x EXCEPT !.ips = bumped]

(* A new row at the end of the array, and its place in the map.            *)
Pushed(x, ip, sec, n) ==
  [x EXCEPT !.ips = Append(@, <<ip, NewRow(ip, sec, n)>>),
            !.index = Put(@, ip, Len(x.ips) + 1)]

(* observe_ip() and observe_ip_slow(): bumped through the direct-mapped    *)
(* array, else through the map, else a new row if there is room.           *)
ObserveIp(x, ip, sec, n) ==
  IF Recent(x, ip) THEN BumpAt(x, x.recent[SlotOf(ip)][2], sec, n)
  ELSE IF ip \in DOMAIN x.index
  THEN Remembered(BumpAt(x, x.index[ip], sec, n), ip, x.index[ip])
  ELSE IF ip \in Junk THEN x
  ELSE IF Pending(x) >= MaxWindowKeys THEN [x EXCEPT !.saturations = @ + 1]
  ELSE Remembered(Pushed(x, ip, sec, n), ip, Len(x.ips) + 1)

ObserveName(x, name, sec, n) ==
  IF name \in DOMAIN x.names
  THEN [x EXCEPT !.names = Put(@, name, Bump(@[name], sec, n))]
  ELSE IF Pending(x) >= MaxWindowKeys THEN [x EXCEPT !.saturations = @ + 1]
  ELSE [x EXCEPT !.names = Put(@, name, NewRow(name, sec, n))]

(* Mutant of Drained: the direct-mapped array outlives its window.         *)
DrainedButRecent(x) == [x EXCEPT !.ips = <<>>, !.index = None, !.names = None]

(* take_ips() and the taking of the names.                                 *)
Drained(x) == [x EXCEPT !.ips = <<>>, !.index = None, !.recent = None, !.names = None]

(* ... and a window nobody takes.                                          *)
Dropped(x) == [Drained(x) EXCEPT !.saturations = x.saturations + Pending(x)]

(* The rows of a window by observable: the upserts of write() meet each    *)
(* once, since the array has one place for an address.                     *)
Held(x) == {x.ips[i][1] : i \in DOMAIN x.ips}

PlaceOf(x, ip) == CHOOSE i \in DOMAIN x.ips : x.ips[i][1] = ip

Rows(x) ==
  [o \in DOMAIN x.names \cup Held(x) |->
     IF o \in DOMAIN x.names THEN x.names[o] ELSE x.ips[PlaceOf(x, o)][2]]

WriteJob(w) == [kind |-> "write", owner |-> w, rows |-> Rows(win[w])]

BarrierJob(w) == [kind |-> "barrier", owner |-> w, rows |-> None]

(* The sighting of o by w as it is taken: nothing when it was junk or      *)
(* refused for want of room.                                               *)
Taken(before, after, o, h, sec, w) ==
  IF o \in Junk \/ after.saturations > before.saturations THEN h
  ELSE [h EXCEPT ![o] = Append(@, [sec |-> sec, by |-> w])]

-----------------------------------------------------------------------------
(* The bound of the model: sightings taken and sightings refused.          *)
Sightings ==
  SumFunction([o \in Observables |-> Len(hist[o])]) +
  SumFunction([w \in Workers |-> win[w].saturations])

(* observe_conn(): the destination, then the source, at the timestamp of   *)
(* the packet; a second capture or a clock set back takes it backwards.    *)
ObserveConn(w) ==
  \E c \in Conns, sec \in Seconds :
    LET one == ObserveIp(win[w], c[2], sec, Len(hist[c[2]]) + 1)
        then == Taken(win[w], one, c[2], hist, sec, w)
        both == ObserveIp(one, c[1], sec, Len(then[c[1]]) + 1)
    IN  /\ pc[w] = "run" /\ Sightings < MaxSightings
        /\ win' = [win EXCEPT ![w] = both]
        /\ hist' = Taken(one, both, c[1], then, sec, w)
        /\ UNCHANGED <<clock, pc, queue, hand, db, results, overflow, lost>>

ObserveDns(w) ==
  \E name \in Names, sec \in Seconds :
    LET after == ObserveName(win[w], name, sec, Len(hist[name]) + 1)
    IN  /\ pc[w] = "run" /\ Sightings < MaxSightings
        /\ win' = [win EXCEPT ![w] = after]
        /\ hist' = Taken(win[w], after, name, hist, sec, w)
        /\ UNCHANGED <<clock, pc, queue, hand, db, results, overflow, lost>>

(* maybe_flush() and flush_async(): a window the channel has no room for   *)
(* is dropped and its rows counted.                                        *)
FlushDue(x) == clock - x.lastFlush >= FlushPeriod

MaybeFlush(w) ==
  /\ pc[w] = "run" /\ Pending(win[w]) > 0
  /\ \/ /\ win[w].lastFlush = 0
        /\ win' = [win EXCEPT ![w].lastFlush = clock]
        /\ UNCHANGED <<queue, lost>>
     \/ /\ win[w].lastFlush # 0 /\ FlushDue(win[w]) /\ Len(queue) < Backlog
        /\ win' = [win EXCEPT ![w] = [Drained(@) EXCEPT !.lastFlush = clock]]
        /\ queue' = Append(queue, WriteJob(w))
        /\ UNCHANGED lost
     \/ /\ win[w].lastFlush # 0 /\ FlushDue(win[w]) /\ Len(queue) >= Backlog
        /\ win' = [win EXCEPT ![w] = [Dropped(@) EXCEPT !.lastFlush = clock]]
        /\ lost' = MergeAll(lost, Rows(win[w]))
        /\ UNCHANGED queue
  /\ UNCHANGED <<clock, pc, hand, db, results, overflow, hist>>

(* flush(), at the end of a worker: its tail, sent however long that takes *)
(* (SyncSender::send() blocks while the channel is full) ...               *)
SendTail(w) ==
  /\ pc[w] = "run"
  /\ \/ Pending(win[w]) = 0 /\ UNCHANGED queue
     \/ Pending(win[w]) > 0 /\ Len(queue) < Backlog /\ queue' = Append(queue, WriteJob(w))
  /\ win' = [win EXCEPT ![w] = Drained(@)]
  /\ pc' = [pc EXCEPT ![w] = "sent"]
  /\ UNCHANGED <<clock, hand, db, results, overflow, hist, lost>>

(* Mutant of SendBarrier: the worker ends without waiting for the answer.  *)
SendBarrierUnawaited(w) ==
  /\ pc[w] = "sent" /\ Len(queue) < Backlog
  /\ queue' = Append(queue, BarrierJob(w))
  /\ pc' = [pc EXCEPT ![w] = "done"]
  /\ UNCHANGED <<clock, win, hand, db, results, overflow, hist, lost>>

(* ... then a barrier, and the wait for its answer.                        *)
SendBarrier(w) ==
  /\ pc[w] = "sent" /\ Len(queue) < Backlog
  /\ queue' = Append(queue, BarrierJob(w))
  /\ pc' = [pc EXCEPT ![w] = "waiting"]
  /\ UNCHANGED <<clock, win, hand, db, results, overflow, hist, lost>>

-----------------------------------------------------------------------------
(* writer(): one job at a time, in the order of the channel.               *)
WriterTakes ==
  /\ hand = <<>> /\ queue # <<>>
  /\ hand' = <<Head(queue)>> /\ queue' = Tail(queue)
  /\ UNCHANGED <<clock, win, pc, db, results, overflow, hist, lost>>

(* write(): one transaction, merged as a whole or not at all.              *)
WriterStores ==
  /\ hand # <<>> /\ hand[1].kind = "write"
  /\ db' = MergeAll(db, hand[1].rows)
  /\ results' = [results EXCEPT ![hand[1].owner].flushed = @ + Cardinality(DOMAIN hand[1].rows)]
  /\ hand' = <<>>
  /\ UNCHANGED <<clock, win, pc, queue, overflow, hist, lost>>

WriterFails ==
  /\ hand # <<>> /\ hand[1].kind = "write"
  /\ lost' = MergeAll(lost, hand[1].rows)
  /\ results' = [results EXCEPT ![hand[1].owner].errors = @ + 1]
  /\ hand' = <<>>
  /\ UNCHANGED <<clock, win, pc, queue, db, overflow, hist>>

WriterAnswers ==
  /\ hand # <<>> /\ hand[1].kind = "barrier"
  /\ pc' = [pc EXCEPT ![hand[1].owner] = IF @ = "waiting" THEN "done" ELSE @]
  /\ hand' = <<>>
  /\ UNCHANGED <<clock, win, queue, db, results, overflow, hist, lost>>

(* prune(), on the trail-update thread, in two statements: the COUNT ...   *)
PruneCount ==
  /\ overflow = 0 /\ Cardinality(DOMAIN db) > MaxRows
  /\ overflow' = Cardinality(DOMAIN db) - MaxRows
  /\ UNCHANGED <<clock, win, pc, queue, hand, db, results, hist, lost>>

(* ... and the DELETE of so many rows, of the lowest score by then: the    *)
(* writer may have stored more in between.                                 *)
PruneDelete ==
  \E out \in kSubset(overflow, DOMAIN db) :
    /\ overflow > 0
    /\ \A o \in out, k \in DOMAIN db \ out : ScoreOf(db[o]) <= ScoreOf(db[k])
    /\ db' = Restrict(db, DOMAIN db \ out)
    /\ lost' = MergeAll(lost, Restrict(db, out))
    /\ overflow' = 0
    /\ UNCHANGED <<clock, win, pc, queue, hand, results, hist>>

Tick ==
  /\ clock < MaxClock
  /\ clock' = clock + 1
  /\ UNCHANGED <<win, pc, queue, hand, db, results, overflow, hist, lost>>

Finished ==
  /\ \A w \in Workers : pc[w] = "done"
  /\ UNCHANGED vars

Next ==
  \/ \E w \in Workers :
       ObserveConn(w) \/ ObserveDns(w) \/ MaybeFlush(w) \/ SendTail(w) \/ SendBarrier(w)
  \/ WriterTakes \/ WriterStores \/ WriterFails \/ WriterAnswers
  \/ PruneCount \/ PruneDelete \/ Tick \/ Finished

Spec == Init /\ [][Next]_vars

-----------------------------------------------------------------------------
(* Where rows are: the database, the rows known to be lost, the jobs on    *)
(* their way and the windows.                                              *)
Jobs == hand \o queue

Places ==
  {<<"db", 0>>, <<"lost", 0>>} \cup ({"job"} \X DOMAIN Jobs) \cup ({"win"} \X Workers)

RowsAt(p) ==
  CASE p[1] = "db" -> db
    [] p[1] = "lost" -> lost
    [] p[1] = "job" -> Jobs[p[2]].rows
    [] p[1] = "win" -> Rows(win[p[2]])

Counts(rows, o, n) == o \in DOMAIN rows /\ n \in rows[o].seen

(* "Within one worker the packet clock only moves forward".               *)
InOrder(seen, secs) ==
  \A m, n \in seen : m < n /\ secs[m].by = secs[n].by => secs[m].sec <= secs[n].sec

Spans(row, secs) ==
  \A n \in row.seen : row.first <= secs[n].sec /\ secs[n].sec <= row.last

(* A row says of the sightings it stands for how many they are, and when   *)
(* the first and the last of them were: seconds of theirs whatever the     *)
(* timestamps, and the extremes while each worker's clock moves forward.   *)
HonestRow(o, row, secs) ==
  /\ row.flags = FlagsOf(o)
  /\ row.seen # {} /\ row.seen \subseteq DOMAIN secs
  /\ row.count = Cardinality(row.seen)
  /\ \E n \in row.seen : row.first = secs[n].sec
  /\ \E n \in row.seen : row.last = secs[n].sec
  /\ InOrder(row.seen, secs) => Spans(row, secs)

(* Every sighting a worker took is counted in exactly one row, under the   *)
(* name it was seen as, and each row has the number, the first and the     *)
(* last second of its sightings: the rows of the database, of the windows  *)
(* still on their way and of those reported lost or pruned add up to what  *)
(* was seen, however the direct-mapped array, the map and the windows of   *)
(* several workers interleave.  The seconds are those of the packets, in   *)
(* any order; a row whose sightings no worker took backwards in time has   *)
(* their extremes, whichever of its windows was written first.             *)
NothingMiscounted ==
  /\ \A p \in Places :
       /\ DOMAIN RowsAt(p) \subseteq Observables
       /\ \A o \in DOMAIN RowsAt(p) : HonestRow(o, RowsAt(p)[o], hist[o])
  /\ \A o \in Observables : \A n \in DOMAIN hist[o] :
       \E p \in Places :
         Counts(RowsAt(p), o, n) /\ \A q \in Places \ {p} : ~Counts(RowsAt(q), o, n)

(* "The same min/max/count merge" as core/meta.py: a row of the database   *)
(* spans its sightings.  Not so when a worker's timestamps go back within  *)
(* a window, since Row::bump() assigns the last second.                    *)
FirstAndLast == \A o \in DOMAIN db : Spans(db[o], hist[o])

(* Once a worker has ended, nothing it saw is still on its way: its tail   *)
(* is in the database or is counted as an error.                           *)
TailStored ==
  \A w \in Workers :
    pc[w] = "done" =>
      /\ Pending(win[w]) = 0
      /\ \A i \in DOMAIN Jobs : Jobs[i].owner = w => Jobs[i].kind # "write"

=============================================================================
