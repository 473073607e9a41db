# A TLA+ model of Maltrail

Maltrail watches traffic for known-bad names and addresses ("trails") and for
suspicious behaviour. A **sensor** (Rust, `src/sensor`) captures packets and
writes events; a **server** (Python, `src/core`, `src/server.py`) collects
events, shows them and builds the trails file. The two share only files and
datagrams. This project models the sensor from the captured frame to the
delivered event: decoding, verdicts, heuristics, the trail store behind them,
the sinks after them and the processes around them. TLC checks the models on
small instances; for all of them, TLAPS proves the safety of the sinks, the
reload protocol, the supervisor, the verdicts, the connection heuristics and the
metadata tail.

## 1. Inventory

| component | state | operations | meets |
|---|---|---|---|
| throttle (`throttle.rs`) | per worker: table of keys, each with a growing window, a burst count, held events | admit, close a window, evict, flush due, flush all | event sink |
| event sink (`output.rs`) | per worker: condense buffer | log, condense, merge, flush | throttle, worker |
| event log (`output.rs`) | per worker: open file and its path; shared: the files of the days | open, append | event sink, server's readers |
| remote delivery (`output.rs`) | per worker: retry deadlines, sockets; shared: resolved endpoints | look up, publish, send, beat | event sink, resolver and heartbeat threads, name service |
| trail reload (`main.rs`, `trailupdate.rs`, `trails/mod.rs`) | trails file, last mtime, SIGHUP flag, trail count metric, shared pointer and generation, one view per worker | refresh, load, accept or reject, publish, adopt | updater process, anyone who writes the file, workers |
| capture worker (`worker.rs`) | handles, counters, error streak, outcome | read, housekeeping, tail | libpcap, metrics slot, sink |
| supervisor (`main.rs`, `metrics.rs`) | shutdown flags, unjoined threads, failures, deadline, exit code; one slot per worker | signal, watch, join, expire, exit | workers, service manager |
| trail store (`trails/store.rs`, `loader.rs`, `table.rs`, `regexset.rs`) | hash tables with a negative filter, pairs, wildcard expression; a compiled store beside the CSV | parse in slices, insert, grow; validate, map, write, rename, reopen | reload, writers of the CSV and of the whitelist, other sensors |
| packet decoding (`packet/`) | learned offset per unknown link type | find the IP header, walk extensions, enter tunnels | packet processing |
| ClientHello reassembly (`protocols/hello.rs`, `tls.rs`, `quic.rs`) | pairs of slots with a partly filled buffer each | start, put, complete, expire | packet processing |
| verdicts (`process.rs`, `state.rs`, `lru.rs`) | cache of clean names with a doorkeeper, burst stamps | check a name, a lookup, its answer, a request, a connection | trail view, whitelist, sink |
| heuristics (`heuristics/`) | bounded tables of zones, pairs, names, scan keys, flows; queues and marks | observe, cross a threshold, sweep once a second, reset, prune | verdicts, sink |
| metadata store (`meta.rs`) | window per worker with an array of recent addresses; channel, database | count, hand over, barrier, merge, prune | worker, writer thread, update thread |
| endpoint and capture set-up (`stats.rs`, `capture/`) | listener; kernel handles | scrape; open, fan out | metrics, workers |
| server: log receiver (`core/log.py`) | receiver processes, sensor status | receive, append, respawn | sensors, web interface |
| server: web access (`core/httpd.py`) | sessions, nonces, login failures, stream slots, connection counts | login, request, reap, refuse | handler threads |
| server: updater (`core/update.py`) | lock, build database, trails file and sidecars | fetch, build, replace | sensors, feeds |

What is hard about them:

* **Time.** Packets carry their own, slightly old, timestamps; housekeeping uses
  the wall clock; merged events are older still. Windows grow, and a traffic
  burst that stops leaves nothing behind to close its window.
* **Bounds.** Every table is capped because the traffic chooses its keys. What
  happens at a cap decides whether evidence is lost.
* **Sharing without locks on the packet path.** A trail set is published by a
  pointer and a generation counter, read in a different order by each worker.
* **Files written by others.** The trails file may change, shrink or vanish
  between any two steps of the reload thread, and a store compiled from it is
  believed later by what `stat()` said then.
* **Caches of answers that change.** Clean names, compiled stores, positions of
  recent addresses and stamps of the packet before outlive what they were
  computed from.
* **Reporting exactly once.** A lookup is a request and an answer, a scan is a
  queue entry that stays, a handshake is several packets: each must be reported,
  and none twice.
* **Failure of one part.** An interface goes away, a call never returns, a thread
  panics, a file cannot be read; the process must still flush, count and exit
  with an honest code.

`PROJECT.json` lists each of these places as a hazard with its line and the
properties aimed at it, and every component with its status.

## 2. Modules

    sinks     Throttle <-- EventSink      EventLog      Delivery
                            | (refines       |             |
                            | Throttle)      |             |
    proofs               SinkProofs       LogProofs     DeliveryProofs

    verdicts  SieveCache <-- DomainCheck <--+
              (refines BoundedCache)        DnsPath <-- HttpPath <-- MCVerdict
                         DnsHeuristics <----+                    <-- VerdictProofs

    packets   Frames <-- FrameShapes <--+
                                        PacketPath <--+
                         ClientHello <--+             +-- MCProcess
                                        ScanPath <----+
                                        (ScanProofs)

    trails    TrailTable <-- TrailLoader <-- TrailStoreFile <--+
                                             TrailReload <-----+-- TrailProofs

    process   Supervisor  (SupervisorProofs)      MetaStore  (MetaProofs)

An arrow points from a module to one that EXTENDS it; every model has an MC
module and one to three `.cfg` files. `MCOutput` runs `EventLog` and `Delivery`,
`MCProcess` runs `ScanPath` and `PacketPath`, `MCTrails` runs `TrailReload` and
`TrailStoreFile`. These are not compositions: the two parts of each have no variable
in common and neither reads the other's, so a behaviour picks one of them, runs it
from its start and leaves the other one where it began. Invariants
and action properties of a part are thereby checked on all of its behaviours. So is
its liveness: a behaviour in which the part with fairness is held back although it
could move is not fair and counts neither for nor against a property.

`EventSink` composes the condense buffer with the throttle: it EXTENDS
`Throttle`, calls its `Admit`, `Housekeeping` and `Exit`, and is shown to
implement `Throttle`'s own specification (`DrivesThrottle`).

### Throttle

One worker's `Throttle`. An action stands for each return of `admit()`:
`AdmitIdle` and `AdmitBusy` (window over, key silent or still busy),
`AdmitBurst`, `AdmitHeld`, `AdmitNew` (with eviction), `AdmitLegacy`,
`AdmitOff`; then `FlushDue`, `FlushAll`. The worker around it is `Packet`,
`Housekeeping`, `Tick`, `Exit`. An event is two addresses and a subject; the
64-bit digest of a pair is the pair, so digest collisions are outside the
model; a buffer of held events is its length. Eviction keeps the rule of the
code: every key at or below the target-th smallest `last_seen` goes, ties
included. The clock is the wall clock a live worker flushes by. A replay
flushes by the packet clock instead; that is the case in which the timestamps
of packets and of flushes agree, up to reordering.

`admitted`, `verbatim`, `summarized`, `discarded`, `episode` and `waitingSince`
are history variables. They record what left the throttle and guard nothing. The
throttle is checked inside the sink, its only caller, and proved by itself.

### EventSink

`log_event()` is `Condense` and `Direct`. `flush_condensed()` first drains the
buffer (`StartFlush`) and then re-enters `log_event()` once per group
(`FlushGroup`), in the arbitrary order of the hash map. The housekeeping pass
and the tail of the worker then flush the throttle (`FinishHousekeeping`,
`FinishExit`). The filters before the buffer have no state and are left out.

### EventLog

`write_line()` up to and including `write_event_log()`, for all workers, whose
sinks append to the same files. An action is an outcome of the handler:
`OpenFails`, `WriteWhole`, `WriteShort`, `WriteFails`. The open and the write are
one step, because only the append touches what workers share. A file is the
sequence of what each `write(2)` left in it; of a line's text only its newline is
kept, which `render_line()` adds and `local_json_line()` does not. A log file that
is removed or renamed while a sink has it open is outside the model: the sink
never looks at the path again that day, and its writes go to the unlinked file.

### Delivery

`send_datagram()` for each endpoint in turn. `EndpointKnown`, `EndpointWaiting`,
`StartLookup`, `LookupAnswer`, `LookupFails`, `PublishLookup` are the branches of
`endpoint_addr()`, with the blocking call split in two; `SendWorks` and `SendFails`
the outcomes of the send. `ResolverLookup`, `ResolverPublish` and `BeatLookup`,
`BeatPublish`, `BeatSend` are the two threads. `ServerMoves` and `DnsOutage` are the
name service. Addresses are numbered in the order the server has them. Deadlines
are timers that `Tick` counts down, so no clock needs a bound. `EventLog` and
`Delivery` model two consecutive parts of `write_line()` that share no state but
the worker that runs them, which is why they are two modules.

### TrailReload

`BootRefresh`, `BootLoad`, `SpawnReload` are the start of the sensor;
`StartUpdate` to `PublishGeneration` the reload thread; `Sighup` the handler;
`Someone` any other writer of the file; `RefreshStale`, `SnapshotGeneration`,
`SnapshotDb` a worker's `TrailView::refresh()`. Each is one atomic operation of
the code: `publish()` and `snapshot()` are two steps each. A trail set is the
version of the file it came from and its size. The file may be written at every
step, the start of the sensor included; `firstStat` is history, the version the
reload thread's first `stat()` found. Each version has its own
modification time, which means that two writes within the granularity of the
file system's clock are outside the model.

### Supervisor

A worker walks through `start, loop, drain, housekeeping, tail, publish, dead,
ended`; `LoseInterface`, `Wedge` and `Panic` are what may happen to it, the last two
wherever it has code of its own to run, housekeeping and the drain included. `Signal`
and `Watcher` set the two flags. `Join`, `PassOver`, `AllJoined`, `NextPass` and
`GraceExpired` are main's polling loop, one slot at a time. A panic of the
packet parser is caught per packet and is no event here; `Panic` is a panic
outside that guard, after which nothing of the tail runs.

### SieveCache, BoundedCache, DomainCheck

`SieveCache` is `LruMap`: a list of nodes with visited bits, the hand, and the
doorkeeper's fingerprints. Look-ups go by hash, so two keys of one hash displace
each other, as in the code. `BoundedCache` says what its users rely on, and
`CleanCacheBounded` is the refinement. `DomainCheck` is `domain_hit()` and
`check_domain_inner()`: cache, whitelist walk, gateway suffix, parent walk with
its skip rules, wildcard, homograph, onion. A name is a sequence of labels;
`Policy` restates the precedence rules by quantifiers, without walks or caches.
`AdoptTrails` is a worker's refresh. `judged` and `cleanAt` are history.

### DnsHeuristics, DnsPath, HttpPath

`DnsHeuristics` has the tables of `dns_exhaustion.rs`, `dns_tunneling.rs` and
`nxdomain.rs` as operators from a table to a table. `DnsPath` is a datagram of
port 53 from the burst stamp on: a query may be swallowed by the exhaustion rule
(`ExhaustedQuery`) or checked (`CheckedQuery`), an answer is walked for aliases
(`AliasedResponse`), tested for sinkholes and counted if the name does not exist
(`NxResponse`); `ServerName` is a server name of a handshake. `HttpPath` adds
requests, in two steps (`RequestHost`, `RequestTarget`) because each may insert into
the cache, and responses. Whether one of the many expressions matches a path or a
body is part of the packet.

### ScanPath

Everything that counts connections: burst stamps, address trails and their noise
rules, the port, infection, UDP, path and ICMP accumulators with their two budgets,
the local prefix learned on the way, the queue and marks of each accumulator, the
beacon tracker, the sweep that runs with the first packet of a new second, the
window reset, and the final sweep. The clock may step back by one second.
`contacts` is history: the connections seen and the ones a trail was reported for,
each with its second. `ListedContactReported` says of every one that it was
reported in its second if the code labels it at all: a UDP datagram is matched by
address only, and a connection attempt to the loopback address is not looked at.

### Frames, FrameShapes, ClientHello, PacketPath

A frame is a sequence of cells: a link header, a tag, an IP header, a word of an
extension. `Frames` translates the decoder; `FrameShapes` builds frames from a
description after the RFCs and says which layers a correct decoder finds
(`Expected`). `ClientHello` is the assembler of `hello.rs`; a byte is its flow and its
offset, so a byte of another flow in a message is visible. `PacketPath` sends frames
of a scenario through `process_packet()` and `handshake_sni()`. It counts what was
processed and, by reason, what was dropped (`ignored`, `fragment`, `truncated`), the
frames in which the link layer found no IP header among the ignored ones:
`LayersFound` asks of every frame that has arrived that it was walked to the layers
`Expected` names, or was counted under the reason it names.

### TrailTable, TrailLoader, TrailStoreFile

`TrailTable` is the open-addressed table with the multiplicative home slot, linear
probes, growth and the negative filter. `TrailLoader` cuts a batch into slices,
interns pairs per slice, drains the shards in order and builds the wildcard
expression. `TrailStoreFile` runs sensors over files: start, open, try the store,
read the CSV a batch at a time, write, rename, reopen, crash; around them writers
that replace the CSV or overwrite it in place, an editor of the whitelist, a disk
that damages the store, a clock of few ticks and a file system with or without
change times. A hash is what it is the hash of. The canaries of a store are a sample
of its slots, as in the code. Damage is what a check at load can meet: a cut file, a
wrong header or tail, zeroed slots. The sections themselves are not summed at a
start; that a flipped bit in one of them may pass is deliberate (the test at
`sensor/src/trails/store.rs:1045`, the comment at `sensor/src/main.rs:247`), and
`--verify-trail-store` is there to find it. The table sizes of the code (16
slots, 1024 bits) are parameters, so that a file of six lines makes tables grow.
Loops of the code (a rehash, the rows of a slice, the cuts of a batch) are recursive
functions over how far the loop has come. Two histories are added to a sensor: the
contents the CSV has had since the load began (`seen`), and whether it was overwritten
between two reads (`torn`).

### MetaStore

A worker's window (rows in insertion order, an index, the direct-mapped array of
recent addresses, names), `MaybeFlush` over a channel that may be full, `SendTail`
and `SendBarrier` at the end; the writer takes a job, stores it or fails, and answers
barriers; `PruneCount` and `PruneDelete`, two statements with writes possible between
them, are the other user of the database. A sighting is stamped with the packet's own
second (any of `Seconds`, in any order); the wall clock only drives the flush. Two
histories are added: `hist` has the second and the worker of every sighting taken, and
each row the set of the sightings it stands for (`seen`). Nothing the code does reads
them.

## 3. Runs

| run | shows |
|---|---|
| `sink` | every detection is reported by the time the worker has exited, except what a full bucket did not keep; nothing is lost silently in the throttle; both tables are bounded; a busy key never gets a second burst; nothing waits longer than its window or flush period; the sink drives the throttle as `Throttle` assumes |
| `supervisor` | honest exit code, complete tail, last counters visible to a scrape, replay accounting, a signal always ends the process, a lost interface is reported |
| `output` | event log: every record is whole in the file of its day or counted, and a short write damages at most one more record; delivery: every datagram is sent or counted, and the shared map ends up with the right addresses whatever is published late |
| `verdict` | a verdict is what the precedence rules say of the trail set in use, or of the one the name was last judged clean by; a lookup and its answer are one event; a zone and a pair are reported once per window; a whitelisted platform keeps its trails and loses the heuristics; the cache is a bounded cache |
| `process` | connections: the shared budget is exact, the burst stamps never hide a contact with a listed host, a key over its threshold is reported before its evidence is dropped, and once; frames: every IP header down to the third tunnel is found and nothing else, what is dropped is counted under its reason, and a ClientHello in several packets is read as if it were in one |
| `meta` | each sighting is counted in exactly one row, of its own observable, in a window, on its way, in the database or among what was lost or pruned, and a row has the number of its sightings and, if no worker's clock went back between two of them, their first and last second; the tail of a worker that has ended is stored |
| `trails` | reload: a worker that thinks it is current is, the floor protects the set being served, every change of the file after the reload thread's first `stat()` is read and adopted by all, and a SIGHUP leads to a load; store: what is served is what one content of the CSV, not older than the load, and the whitelist say, and a readable store is what its header claims |
| `verdict_stale`, `store_whitelist`, `reload_boot`, `supervisor_outage`, `meta_clock` | disagreements between code and comments, see section 6 |

### Bounds

* `sink`: two addresses, one condensable and one other subject, one slot in the
  condense buffer and two in the throttle, so that both saturate and evict; two
  events per bucket; windows of one growing to two. `Lag` is the packet lag plus
  the flush period, which is how old a merged event can be. Larger windows, bursts
  and tables are covered by the proofs of the throttle.
* `trails`, reload: two workers (one may be between two reads while the other has
  finished), three versions of the file with none, one or four trails (below, at
  and above the floor of one half), one SIGHUP, an update at the start and one later.
* `supervisor`: two workers, an error limit of two, two packets per pass, one
  mishap, replays of one or two files of at most two packets each ending in
  end-of-file or in an error.
* `output`, log: two workers, two days, five records and three failing calls: a
  failed open between records of either day, a fragment followed by another
  worker's record, two fragments in a row.
* `output`, delivery: two workers, one endpoint, a server that moves once, three records, a
  retry interval of two, lookups of up to two (so that a deadline may be over when
  the lookup fails), one failing send and any number of outages. Several endpoints
  are covered by the proof.
* `verdict`, and `process` for connections: a behaviour picks one of several small traffics (`Offers`), each
  aimed at one group of rules: names that come back on a cache of two with two
  doorkeeper slots, every shape of name, alias chains, an alias whose name was
  cached before a reload and is evicted after it (nine packets), a flood of one
  zone, missing names, web requests; scans that compete for three keys, a clock that steps back,
  UDP and its replies, contacts with listed hosts (with a clock that steps back to a
  second already stamped), timers. Otherwise three to seven packets
  are enough to fill a table, cross a threshold, be reported and try again.
* `process`, frames: every link type, up to five VLAN tags, three and four extension headers,
  each carrier alone and each pair of carriers around a third; handshakes of two
  TCP flows and a QUIC flow on one pair of slots, five arrivals. Two cells stand for
  the 144 bytes of a Prism header and for the 64 bytes in which an unknown link header
  is searched for an IP header (`MaxGuess`), so that a frame may lie beyond that.
* `meta`: two symmetric workers, two addresses of one slot, one each of IPv6, junk
  and name; windows of two keys, a channel of one window, packets of two seconds in any
  order, three sightings (one more when the last connection adds two).
* `trails`, store: one sensor started twice, two contents of six lines with duplicates, two
  spellings of an address, wildcards that compile, can be repaired or cannot, a
  sample of two canaries per table, three ticks of the clock and two edits.

Deadlock is checked only in `meta`, where a worker waits for the writer and the
writer for the channel; the other processes end, or their clock is bounded.

### Fairness

* `TrailReload`: weak fairness of the boot sequence, of the reload thread and of
  each worker's refresh. They are threads the operating system schedules, with
  sleeps that end; the updater process is killed at its deadline, so waiting for
  it ends. Nobody is obliged to write the file or to send a signal. A worker
  refreshes in every housekeeping pass, traffic or not.
* `Supervisor`: weak fairness of each worker (a wedged one has no step left), of
  the watcher and of main; strong fairness of `GraceExpired`, because main is at
  the end of a pass again and again and a deadline in the past stays in the past.
  Nothing is assumed about signals, interfaces, wedges or panics.
* `Delivery`: weak fairness of each worker inside a `send_datagram()`, of the resolver
  and of a heartbeat that has its answer. A lookup always returns, with an answer
  or without. Nothing is assumed about new records, new heartbeats or the name
  service; `AddressesConverge` has the premise that outages end. The resolver must
  exist: the code ignores a failure to spawn it.
* The other modules have safety and action properties only: what they promise is
  tied to a packet, a sweep or a load, not to eventually being scheduled.
* `Throttle` and `EventSink` need none: `Tick` requires that housekeeping has run
  in the current second (`HOUSEKEEPING_MAX_IDLE` is one second), so their
  waiting-time properties are invariants. A worker that is inside one very long
  drain may be late by as long as that drain takes; the model counts that as the
  same second.

## 4. Proofs

The theorems hold for every value of the constants the named assumptions allow,
without the model checker's bounds; `PROJECT.json` lists them. The assumptions say
that limits are natural numbers, positive where the code divides by them or
indexes with them, and that workers are finitely many. Some say more.
`SinkAssumption` has `PacketLag + FlushPeriod <= Lag`: a merged event carries the
timestamp of its first packet and is re-entered one flush period later at the
latest, so this is how old an event the throttle can be handed. `LogAssumption`
lets `Json` be anything, and `SpecDamageCounted` alone assumes `~Json`, because without
newlines no record has a line of its own. `SupervisorAssumption` has that a replay
has at least one file. `DomainAssumption` and `TrafficAssumption` only say that the
names in trail sets and packets are sequences of labels and have a hash.
`StoreAssumption` says that of the keys of the CSV, that the smallest table has two
slots (16 in the code), and that a trail is the text of at most one address.

Each proof has the same shape: an inductive invariant, a lemma per action that
keeps it, and the property from it. What the invariants add to the properties:

* **Throttle**: `SpecTypeOK`, `SpecConservation`, `SpecHeldHasBuffer`,
  `SpecBurstRespected`, from
  `Inv == TypeInv /\ Conservation /\ HeldHasBuffer /\ WithinBurst`.
  `Conservation` is not inductive: `summarize()` resets the total of a key even
  when its buffer is empty and no line comes out, so one must know that a
  positive total always has a buffer (`HeldHasBuffer`). `BurstRespected` speaks of
  lines over many windows; `WithinBurst` ties them to the count of the current
  window, which `close_window()` sets to the burst for a busy key. Each admission
  is a lemma; the three that only touch one key share `ChargedStep`, and the two
  flushes share `FlushInv`.
  `SpecTableBounded` and `SpecHeldWaitBounded` need `BoundInv` on top: the table bound
  itself, `Timely` for every tracked key (nothing held waits since before its window
  opened, and strictly less than the longest window once housekeeping has run this
  second), and no waiting without summarizing. The table bound needs an eviction
  batch that is never empty: the smallest cutoff exists because the naturals are
  well-founded and no `last_seen` is ahead of the clock.
* **Sink**: `SinkDrivesThrottle` is the refinement: every step of the sink is a step
  of `Throttle` or leaves it alone, so all of the above holds of the throttle inside
  the sink (`SinkThrottlePromises`). Its hard case is the flush: that a merged event
  is not older than `Lag` (`Ages`), and that no more events reach the throttle than
  detections reached the sink (`Accounts`). `SpecAllReported` follows from `Accounts` and
  `FlushPhases` (the snapshot of a flush is empty outside it and the buffer during
  it, so the exit leaves nothing in either), `SpecCondensedWaitBounded` from `Ages`.
  What a buffer weighs is the cardinality of a set of slots, so that no sum over
  the groups has to be unfolded.
* **Log**: `SpecRightDay` and `SpecLogAccounted`, from
  `LogInv == LogTypeOK /\ RightDay /\ Accounted`. `RightDay` needs that the open file is
  the one the path names; `Accounted` adds that what a worker has written is a
  finite set, so that an append is one more element of it. `SpecDamageCounted` needs
  the damage that has not happened yet: a torn last line will cost the next record
  of that file its line, and `DamageAhead` counts it with the short write already.
* **Delivery**: `SpecRemoteAccounted` and `SpecDeliveryTypeOK`, from their conjunction.
  Every return of `send_datagram()` moves on by one endpoint (`OneMoreDue`) and
  either counts (`LostAccounted`) or sends (`SentAccounted`).
* **Reload**: `SpecViewCoherent` and `SpecReloadTypeOK`, from
  `ViewInv == TypeOK /\ NotSpawned /\ GenerationsBehind /\ ViewCoherent`: before the
  workers are spawned they are all off, and neither a worker's generation nor one
  it has just read is ahead of the store's. `SpecFloorOnServed` needs `FloorInv`:
  the trail count metric, against which the floor is computed, is the size of the
  set being served, except between accepting a set and publishing it, and there
  the accepted set has passed the floor of the served one.
* **Store** (`TrailProofs`): `SpecServedIsCsv` and `SpecStoreHonest`, from `StoreInv`,
  for any CSV, hash function (all keys may collide), table sizes, batch size and number
  of parse threads. They assume `~LiveEdits`: with the whitelist edited under a running
  sensor they do not hold (section 6). The proof has three layers.
  A table is `GoodTable` if no probe for a key it has meets an empty slot before the
  key, if every probe ends, and if the filter lets its keys through. `put` keeps this
  (`PutSound`), a rehash rebuilds it (`RehashSound`), and the load factor leaves a slot
  empty (`NeverFull`).
  Tables are `Built` from the first n lines if every look-up, the patterns and the
  fingerprints are as these lines say. `DrainStep` is the heart of it: draining a shard
  with one more line is adding that line to the tables, so a slice, a batch of slices
  parsed side by side, and the whole file give what one pass gives (`SliceBuilt`,
  `BatchBuilt`; the slices tile the batch, `SplitTiles`). This is what the comment at
  `sensor/src/trails/loader.rs:141` claims.
  `StoreInv` is about files. `Claim` says of an identity that was settled when it was
  taken that as long as the CSV has it the CSV has the content read under it, and
  that a sensor that has opened the CSV under it has seen that content: a later write
  has a change time at least two seconds after the one in the identity
  (`ClaimWritten`). A damaged store is never readable, zeroed slots because they are
  all occupied (`DamageStoreKeeps`).
  What a recursive function computes is shown by induction in the form of a least
  counterexample (`UpTo`).
* **Supervisor**: `SpecSupervisorTypeOK`, `SpecExitCodeHonest`, `SpecTailBeforeExit`,
  `SpecScrapeSeesLastCounters` and `SpecReplayAccounted`, from `SupervisorInv`. It says
  of a worker what it has done when it stands at each step of its tail (`TailSteps`),
  that its slot is alive from its first step to its last publish (`SlotHonest`), that
  it has no outcome while it is in its loop (`Undecided`) and leaves it quietly only
  if a signal asked it to (`StopAsked`); of main, that its failures are exactly the
  failed workers among the ones it has joined (`Joined`); of a replay, that the
  packets of the current file are added to the report exactly once (`ReplayCounts`).
* **Metadata**: `SpecTailStored`, from `TailInv`: on the channel and in the writer's
  hand no window of a worker is behind the worker's barrier (`BarrierLast`), and a
  worker that has sent its tail has an empty window. The answer to a barrier then
  means that nothing of the worker is under way.
  `SpecNothingMiscounted` is from `CountInv`, for packet timestamps in any order. That a
  row has the extremes of its sightings is claimed only of sightings that no worker
  took backwards in time (`InOrder`), because bumping a row overwrites its last second;
  and within a window the rows are of one worker alone (`OwnRows`), so that under
  `InOrder` the second that is written over is never later. Merging in the database
  takes minimum and maximum and needs no order between windows. `CountInv` adds that
  barriers carry no rows, and that the three structures of a window agree
  (`Coherent`): the map has exactly the places of the array, and an entry of the
  direct-mapped array is a place of the array with that address. The last is what
  emptying the direct-mapped array with the window is for. Each path of
  `observe_ip()` and `observe_name()` is then a step of one plain map from observables
  to rows (`Noted`), and every other step moves the rows of one place to another
  (`Moved`, `Poured`). A count is the cardinality of the sightings of its row, and
  merging two rows that share none adds cardinalities, so no sum over places or rows
  has to be unfolded. `MetaAssumption` is that connections are between addresses, and
  that an address and a name are never the same key: the code stores blobs and text.
* **Scan**: `SpecSharedBudget`, `SpecReportedOnce` and `SpecCrossingReported`, from
  `ScanInv`: the count of shared keys is the number of prefixes in the table, never
  more than the limit; a key past its threshold is in the queue or has been
  reported (`BucketHonest`, over what was probed in this window), and the marks are
  exactly what was reported. A queue entry leaves only once it is marked, and a
  window reset drops queue, marks and evidence together. `SpecListedContactReported`
  is about the stamps that suppress repetitions, from `StampInv`: a stamp is always
  of a packet that was seen in the second it says (`Stamped`), so a suppressed packet
  is a repetition of one that was judged. The proof is what fixed the statement: it
  does not hold per second of the clock when the clock steps back, and contacts are
  therefore kept with their second and never forgotten.

* **Verdicts** (`VerdictProofs`). `SpecCleanCacheBounded` is the refinement of
  `BoundedCache`. `IsCache` says of the list that its nodes have different hashes,
  that they are no more than the capacity and that the hand is at one of them or
  nowhere; an eviction finds its victim within one lap and takes one node, an insert
  displaces, prepends or evicts and prepends, and a walk over aliases only sets bits.
  `SpecVerdictFollowsPolicy` has two halves. One is about operators:
  `JudgementIsPolicy`, that the five look-ups of `domain_hit()` together find something
  exactly when `Policy`, which walks nothing, says so. The other is the history of
  the cache, `CleanInv`: a held name was found clean, and the set it was found clean
  in really has no judgement on it; adopting a set changes neither.
  `SpecLookupReportedOnce` needs `AskedInv`: what a request was told is what the trails
  in use say, and the cache knows nothing older of the name, whatever is checked
  between request and response. The walk over the targets is a recursive function;
  what it keeps is shown by the least number of targets that would break it.
  `SpecReportedOncePerWindow` is from `WindowInv`: a zone or pair that was reported is
  marked in the table of its window, and the mark goes only with the window: a full
  table refuses new keys and drops none.
  `SpecPlatformKeepsTrails` is from the whitelist walk (`DepthOf`, `OwnEntry`) and the
  order of the candidates (`UrlFound`).
  These proofs changed two properties. `LookupReportedOnce` does not hold of a name
  that is answered from the cache of an older trail set (section 6), and now leaves
  those requests out. The second half of `PlatformKeepsTrails` was under the
  quantifier of the first and said nothing; it is a conjunct of its own now.

`SpecTypeOK`, `SpecHeldHasBuffer`, `SpecReloadTypeOK` and `SpecDeliveryTypeOK` are not
properties of a run any more: they are the parts of the inductive invariants the
others rest on.

Only model-checked:

* All liveness (`StopsOnSignal`, `LostInterfaceReported`, `ChangePickedUp`,
  `AdoptedByAll`, `SighupReloads`, `AddressesConverge`): liveness under fairness is
  outside what the proof system handles.
* `LayersFound`, `HelloRead`: what the frame walks compute for a frame and the
  reassembly for an order of arrivals. A walk is a recursive function over headers
  nested in headers and the chunks of a packet are folded, so that a proof for every
  frame is an induction over that data; the run enumerates the shapes of frames and
  the orders of arrival instead. `HelloRead` rests on the walks as well: only a
  payload that a walk reached is looked at.

## 5. Not modelled

* The **server** (Python) and its browser interface are programs of their own. What
  the sensor sees of them is in the models: a trails file that changes at any time
  and a name that moves.
* **Bytes**: CSV quoting, DNS, HTTP and TLS grammar, QUIC decryption, JA3/JA4, the
  layout of the store, SQL. The models start from what such a parser reads.
* **Patterns**: the expressions of the HTTP rules, entropy, the pronounceability
  score, the homograph table and the echo patterns are predicates of the instance.
* **Configuration**, ignore rules, colours, the self test, and the HTTP rendering of
  the metrics.
* libpcap, the kernel's fan-out, the updater process and other writers of files
  appear only as the inputs they give. libpcap's 32-bit drop counters are left out.
* Memory-model effects weaker than the acquire/release pairs of the code, digest
  and hash collisions (other than in `SieveCache` and the UDP sender table, where
  they decide something), and clock jumps larger than the stated ones.

## 6. Where the code and its comments disagree

Shown by a run:

1. `verdict_stale`: `lru.rs` says its caches never decide a verdict. `domain_clean` is
   not cleared when a worker adopts a new trail set, so a name that was clean
   before a reload and is listed after it goes unreported while the cache keeps it.
   `VerdictFollowsPolicy` bounds the damage: the name really was clean in the set it
   was last judged by. One consequence is worth knowing. A request for such a name is
   not reported. If the name is evicted before the response arrives and an alias in
   the response has the label the name has now, the response is taken to repeat the
   request's event, and nothing is reported at all.
2. `store_whitelist`: `store.rs` says a store is used only if it was built with exactly
   this whitelist. The whitelist is read at the start, its hash at every load. After
   an edit while the sensor runs, the next reload writes a store filtered with the
   old whitelist under the hash of the new one; the next start believes it. Without
   such an edit (`trails`) the statement holds.
3. `reload_boot`: `BEHAVIOUR.md` says a file refreshed by anyone is picked up within a
   second. The mtime that the poll compares with is from a `stat()` the reload thread
   makes when it starts (`main.rs:583`), after the first load. A file rewritten between
   the two is taken for the one that was loaded, and is read only when it changes
   again or a SIGHUP forces a load. `ChangePickedUp` (`trails`) is what
   does hold: this is the only write that is missed.
4. `supervisor_outage`: `main.rs:783` says that a worker that dies while the sensor is
   supposed to be monitoring must end the process with a failure, and `worker.rs:42`
   that a worker may be asked to stop because another one failed. No code asks. A
   failure is noted (`main.rs:799`) and the join loop waits for the others, so a sensor
   of two workers that has lost one interface runs on. The exit code is honest once it
   comes (`ExitCodeHonest`).
5. `meta_clock`: `BEHAVIOUR.md` promises the same min/max/count merge as `core/meta.py`,
   and `Row::bump()` assigns `last_seen` because a worker's packet clock only moves
   forward. It need not: a worker replays several captures with one state, and other
   parts expect a reordered clock. A row may then say that it was last seen before it
   was first seen. `NothingMiscounted` (`meta`) has the condition under which rows are
   right.

Met while modelling, visible in the models but not the subject of a run:

* `throttle.rs`, `close_window`: "A key silent for `MAX_SPAN` starts over ... written at
  once". Silence is only looked for when the window is over; in a window that has
  grown to `MAX_SPAN` an event after such a silence is held.
* `worker.rs:240`: "no packet could be read" is asked of the whole replay, not of the
  file.
* `output.rs:276`: with `LOCAL_LOG_FORMAT json` objects are written without a newline
  between them (`Json` in `EventLog`); the comment promises one object per line.
* `output.rs:848`: a late publication of an old lookup undoes the address the
  heartbeat has just published, until the resolver's next round.
* `process.rs`, `dns_name`: a query past the exhaustion threshold of its zone ends
  there, so a listed name under that zone is not reported for it; `is_exhausted` and
  `mark_exhausted` see different zones when the second-level label is short. With
  `USE_HEURISTICS` off, exhaustion events and findings in responses are still
  written.
* `process.rs`, `http_request`: a path that starts with "/" and contains "://" is taken
  for a proxy request when heuristics are off.
* `hello.rs`: a repeated first segment restarts the reassembly, so later segments that
  came before it are lost and the name is checked again; a later segment that comes
  before the first is dropped. On the QUIC path without fingerprints a message
  whose first frame has fewer than four bytes is not read. `HelloRead` speaks of the
  other cases.
* `store.rs`: a CSV overwritten in place while it is read gives a mixture, which is then
  stored under the hash of the mixture; nothing is wrong once it is read again.
* `dlt.rs`: the learned offset of an unknown link type is kept after it is locked,
  whatever the length of later headers.
* `beacon.rs:107`: the comment says that the clock does not move for a gap below the
  minimum; `observe` moves `last_sec` for every gap, and the model does what it does.
* The retry deadline of a failed lookup counts from before the lookup, so a name
  service that takes as long to fail as `ENDPOINT_RETRY_INTERVAL` leaves no window.

## 7. Plan

Done: the sensor from frame to event, the trail store, reload, supervision.

Left, in order of what it would add:

1. `TrailReload` over `TrailStoreFile`: the reload thread's load as the steps of the
   store, with two sensors on one store.
2. The server's receiver respawn, sessions and trail builder, in a project of its own
   beside that code.
