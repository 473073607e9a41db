------------------------------ MODULE ScanPath ------------------------------
(***************************************************************************)
(* Connection tracking: the scan, infection, tunnel and beacon heuristics  *)
(* of sensor/src/heuristics/scan.rs, icmp.rs and beacon.rs, the sweep that *)
(* turns their queues into events once a second, and the address trails    *)
(* beside them (sensor/src/process.rs heuristics_sweep,                    *)
(* final_heuristics_sweep, tcp, syn, udp off port 53, other_proto).        *)
(*                                                                         *)
(* A packet is one of: "syn"; "stealth", flags no stack sends; "udp";      *)
(* "path", an HTTP request for a path; "echo", an ICMP echo request; "ip", *)
(* another protocol with a label.  item is what its accumulator counts.    *)
(* Of the details kept for the event only the key is modelled, and the     *)
(* queues are sets: they are sorted before they are reported.              *)
(***************************************************************************)
EXTENDS Integers, Sequences, FiniteSets, Functions, FiniteSetsExt, SequencesExt

CONSTANTS
  Offers,        \* the traffics a behaviour may see: packets, and bounds on their
                 \* number, on the seconds they take and on steps back of the clock
  Listed,        \* address trails: <<ip>> or <<ip, port>> -> info
  WhitelistedIps,
  Localhost, Private, \* is_localhost(), is_local()
  PrefixOf,      \* ip -> its A.B. prefix, as a number in text order
  InfectionPorts,\* POTENTIAL_INFECTION_PORTS
  ThresholdOf,   \* per accumulator: the count a key must exceed
  MaxScanKeys,   \* SCAN_MAX_KEYS
  MaxFlows,      \* HEURISTIC_MAX_KEYS, of the beacon table
  ScanWindow,    \* SCAN_WINDOW
  UdpSlotOf(_),  \* the slot of a sender's fingerprint in udp_sent
  UseHeuristics, Muted,
  MinInterval, MaxInterval, \* MIN_INTERVAL_SECS, MAX_INTERVAL_SECS
  MinIntervals,  \* MIN_INTERVALS
  MaxCvPct,      \* MAX_CV, in per cent
  SwarmPeers,    \* SWARM_PEERS
  Hour, StaleAfter \* the beacon table's prune: how often, and how old

Kinds == {"port", "infection", "web", "udp", "icmp"}

ASSUME ScanAssumption ==
  /\ ThresholdOf \in [Kinds -> Nat \ {0}]
  /\ MaxScanKeys \in Nat \ {0} /\ ScanWindow \in Nat \ {0} /\ MinInterval <= MaxInterval
  /\ MinIntervals \in Nat \ {0} /\ UseHeuristics \in BOOLEAN

VARIABLES
  offer,      \* the traffic of this behaviour
  sec,        \* the second of the next packet
  lastSec,    \* last_sec
  connectSec, \* connect_sec
  scan,       \* the ScanState
  prefix,     \* local_prefix_cache
  beacon,     \* the BeaconTracker
  lastSyn, lastLoggedSyn, lastUdp, lastLoggedUdp, \* the FlowStamps
  out,        \* the events of the last step
  probes,     \* history: what was counted in this window
  reported,   \* history: scan alerts of this window
  contacts,   \* history: connections and datagrams by second, and those reported
  packets,    \* packets so far
  done        \* the worker has made its final sweep

burstVars == <<lastSyn, lastLoggedSyn, lastUdp, lastLoggedUdp>>
historyVars == <<probes, reported, contacts>>
vars == <<offer, sec, lastSec, connectSec, scan, prefix, beacon, burstVars, out,
          historyVars, packets, done>>

-----------------------------------------------------------------------------
EmptyTable == [k \in {} |-> 0]

WithKey(table, k, value) ==
  [x \in DOMAIN table \cup {k} |-> IF x = k THEN value ELSE table[x]]

(* clear_window()                                                          *)
EmptyScan(start) ==
  [items |-> [kind \in Kinds |-> EmptyTable], alerted |-> {}, ready |-> {},
   prefixes |-> EmptyTable, connectKeys |-> 0, sent |-> EmptyTable, start |-> start]

NoPrefix == -1

NoStamp == [flow |-> <<>>, sec |-> 0]

Enabled(h) == h \notin Muted

Init ==
  /\ offer \in Offers
  /\ sec = 1 /\ lastSec = 0 /\ connectSec = 0
  /\ scan = EmptyScan(0)
  /\ prefix = NoPrefix
  /\ beacon = [flows |-> EmptyTable, pruned |-> NoPrefix]
  /\ lastSyn = NoStamp /\ lastLoggedSyn = NoStamp
  /\ lastUdp = [stamp |-> NoStamp, digest |-> 0] /\ lastLoggedUdp = NoStamp
  /\ out = {} /\ probes = {} /\ reported = {} /\ contacts = [seen |-> {}, told |-> {}]
  /\ packets = 0 /\ done = FALSE

-----------------------------------------------------------------------------
(* Port and infection keys share one budget; the others have one each.     *)
Shares(kind) == kind \in {"port", "infection"}

Refused(s, kind) ==
  IF Shares(kind) THEN s.connectKeys >= MaxScanKeys
  ELSE Cardinality(DOMAIN s.items[kind]) >= MaxScanKeys

(* Mutant of Tracked: every key counts for the budget ports and infections *)
(* share.                                                                  *)
TrackedTogether(s, kind, key, item) ==
  LET known == key \in DOMAIN s.items[kind]
      after == (IF known THEN s.items[kind][key] ELSE {}) \cup {item}
  IN  IF ~known /\ s.connectKeys >= MaxScanKeys THEN s
      ELSE [s EXCEPT !.items[kind] = WithKey(@, key, after),
                     !.connectKeys = IF known THEN @ ELSE @ + 1]

(* Bucket: the distinct items of a key, up to the one that passes the      *)
(* threshold.                                                              *)
BucketAfter(bucket, item, threshold) ==
  IF Cardinality(bucket) <= threshold THEN bucket \cup {item} ELSE bucket

(* note_source(): one more source of the prefix.                           *)
NotedSource(prefixes, src) ==
  LET p == PrefixOf[src]
  IN  WithKey(prefixes, p, (IF p \in DOMAIN prefixes THEN prefixes[p] ELSE 0) + 1)

(* track_port(), track_infection(), track_path() and track_icmp(): a key   *)
(* counts distinct items until it has passed its threshold, and is queued  *)
(* at that moment.  A new port or infection key counts for the prefix of   *)
(* its source.                                                             *)
Tracked(s, kind, key, item) ==
  LET known == key \in DOMAIN s.items[kind]
      before == IF known THEN s.items[kind][key] ELSE {}
      after == BucketAfter(before, item, ThresholdOf[kind])
      crossed == after # before /\ Cardinality(after) = ThresholdOf[kind] + 1
  IN  IF ~known /\ Refused(s, kind) THEN s
      ELSE [s EXCEPT
             !.items[kind] = WithKey(@, key, after),
             !.ready = IF crossed THEN @ \cup {<<kind, key>>} ELSE @,
             !.connectKeys = IF ~known /\ Shares(kind) THEN @ + 1 ELSE @,
             !.prefixes = IF known \/ ~Shares(kind) THEN @ ELSE NotedSource(@, key[1])]

(* track_udp(): a datagram to a port that has just sent to its source is a *)
(* reply and is not counted.                                               *)
Sender(src, port, dst) == <<src, port, dst>>

NotesSender(s, p) ==
  [s EXCEPT !.sent = WithKey(@, UdpSlotOf(Sender(p.src, p.sport, p.dst)),
                             Sender(p.src, p.sport, p.dst))]

IsReply(s, p) ==
  LET reply == Sender(p.dst, p.port, p.src)
  IN  UdpSlotOf(reply) \in DOMAIN s.sent /\ s.sent[UdpSlotOf(reply)] = reply

TrackedUdp(s, p) ==
  LET noted == NotesSender(s, p)
  IN  IF IsReply(noted, p) THEN noted ELSE Tracked(noted, "udp", <<p.src, p.dst>>, p.port)

-----------------------------------------------------------------------------
(* local_prefix(): the prefix most sources share, the larger text on a     *)
(* tie; the last one known while nothing is tracked.                       *)
LocalPrefix(s, cached) ==
  LET best == {p \in DOMAIN s.prefixes : \A q \in DOMAIN s.prefixes :
                 \/ s.prefixes[p] > s.prefixes[q]
                 \/ s.prefixes[p] = s.prefixes[q] /\ p >= q}
  IN  IF best = {} THEN cached ELSE Max(best)

HeuristicOf(kind) ==
  CASE kind = "port" -> "port_scanning" [] kind = "infection" -> "infection"
    [] kind = "web" -> "web_scanning" [] kind = "udp" -> "udp_scanning"
    [] kind = "icmp" -> "icmp_tunneling"

(* What the sweep passes over: it stays queued, as the local prefix may    *)
(* still change.                                                           *)
Spared(kind, key, local) ==
  CASE kind = "infection" -> PrefixOf[key[1]] # local
    [] kind = "web" -> \/ key[1] \in WhitelistedIps
                       \/ key[1] \in Private /\ key[2] \in Private
    [] kind = "icmp" -> key[1] \in WhitelistedIps \/ key[2] \in WhitelistedIps
    [] OTHER -> key[1] \in WhitelistedIps

(* Mutant of Due: a key that was reported stays in the queue.              *)
DueAgain(s, local) ==
  {k \in s.ready : Enabled(HeuristicOf(k[1])) /\ ~Spared(k[1], k[2], local)}

Due(s, local) ==
  {k \in s.ready \ s.alerted : Enabled(HeuristicOf(k[1])) /\ ~Spared(k[1], k[2], local)}

ScanEvent(k) == [kind |-> "scan", trail |-> k, info |-> HeuristicOf(k[1])]

(* heuristics_sweep(): the events of the queue, then the end of a window.  *)
Swept(s, now, local) ==
  LET marked == [s EXCEPT !.alerted = @ \cup Due(s, local),
                          !.ready = {k \in @ : ~Enabled(HeuristicOf(k[1])) \/ k \notin s.alerted}]
  IN  IF now - s.start >= ScanWindow THEN [EmptyScan(now) EXCEPT !.sent = s.sent] ELSE marked

PrunedFlows(b, now) ==
  IF b.pruned = now \div Hour THEN b
  ELSE [pruned |-> now \div Hour,
        flows |-> Restrict(b.flows, {f \in DOMAIN b.flows : now - b.flows[f].last <= StaleAfter})]

(* The sweep comes first, when the second has moved on.                    *)
SweepRuns == UseHeuristics /\ sec > connectSec

LocalNow == IF Enabled("infection") THEN LocalPrefix(scan, prefix) ELSE prefix

SweepEvents == IF SweepRuns THEN {ScanEvent(k) : k \in Due(scan, LocalNow)} ELSE {}

ScanNow == IF SweepRuns THEN Swept(scan, sec, LocalNow) ELSE scan

BeaconNow == IF SweepRuns THEN PrunedFlows(beacon, sec) ELSE beacon

WindowEnds == SweepRuns /\ sec - scan.start >= ScanWindow

-----------------------------------------------------------------------------
NewFlow(now) == [last |-> now, gaps |-> <<>>, alerted |-> FALSE]

Kept == 2 * MinIntervals

PushGap(gaps, gap) ==
  IF Len(gaps) = Kept THEN Append(Tail(gaps), gap) ELSE Append(gaps, gap)

(* cv() <= MAX_CV without the root: n * sum of squares - square of the     *)
(* sum is n^2 times the variance.                                          *)
Regular(gaps) ==
  LET n == Len(gaps)
      total == FoldLeft(+, 0, gaps)
      squares == FoldLeft(LAMBDA x, g : x + g * g, 0, gaps)
  IN  n >= 2 /\ (n * squares - total * total) * 10000 <= MaxCvPct * MaxCvPct * total * total

(* observe() on a flow that is known and has moved on: a gap too long      *)
(* forgets the gaps, one too short is not kept, either restarts the clock. *)
FlowAfter(flow, now) ==
  LET gap == now - flow.last
      kept == IF gap > MaxInterval THEN <<>>
              ELSE IF gap < MinInterval THEN flow.gaps ELSE PushGap(flow.gaps, gap)
      judged == gap >= MinInterval /\ gap <= MaxInterval
  IN  [last |-> now, gaps |-> kept,
       alerted |-> \/ flow.alerted
                   \/ judged /\ Len(kept) >= MinIntervals /\ Regular(kept)]

Observed(b, f, now) ==
  IF f \in DOMAIN b.flows
  THEN IF now <= b.flows[f].last THEN b
       ELSE [b EXCEPT !.flows[f] = FlowAfter(@, now)]
  ELSE IF Cardinality(DOMAIN b.flows) >= MaxFlows THEN b
  ELSE [b EXCEPT !.flows = WithKey(@, f, NewFlow(now))]

(* A source that keeps a timer to many peers is a swarm client.            *)
IsSwarm(b, src, now) ==
  Cardinality({f \in DOMAIN b.flows :
                 /\ f[1] = src /\ Len(b.flows[f].gaps) >= MinIntervals \div 2
                 /\ now - b.flows[f].last <= MaxInterval}) >= SwarmPeers

(* Mutant of BeaconVerdict: the verdict is not remembered.                 *)
BeaconVerdictAgain(before, after, f, now) ==
  f \in DOMAIN before.flows /\ after.flows[f].alerted /\ ~IsSwarm(after, f[1], now)

(* The attempt that completes the verdict.                                 *)
BeaconVerdict(before, after, f, now) ==
  /\ f \in DOMAIN before.flows /\ ~before.flows[f].alerted
  /\ after.flows[f].alerted /\ ~IsSwarm(after, f[1], now)

-----------------------------------------------------------------------------
Flow(p) == <<p.src, p.sport, p.dst, p.port>>

(* Mutant of StampOf: the hosts without the ports.                         *)
StampOfHosts(p) == [flow |-> <<p.src, p.dst>>, sec |-> sec]

StampOf(p) == [flow |-> Flow(p), sec |-> sec]

(* The trail of one end: its address and port before its address.          *)
TrailOf(ip, port) ==
  IF <<ip, port>> \in DOMAIN Listed THEN {<<ip, port>>}
  ELSE IF <<ip>> \in DOMAIN Listed THEN {<<ip>>} ELSE {}

(* The trail a SYN is matched with: the far end, or the near one.          *)
SynTrail(p) ==
  IF TrailOf(p.dst, p.port) # {} THEN TrailOf(p.dst, p.port)
  ELSE IF p.dst \in Localhost THEN {} ELSE TrailOf(p.src, p.sport)

(* Listings that say nothing here: an attacker we answer to, a parking     *)
(* site off the web; at the near end, malware that calls us.               *)
SynNoise(p, trail) ==
  IF trail[1] = p.dst /\ TrailOf(p.dst, p.port) # {}
  THEN \/ Listed[trail] = "attacker"
       \/ Listed[trail] = "parking site" /\ p.port \notin {80, 443}
  ELSE Listed[trail] = "malware"

TrailEvent(p, trail) == [kind |-> "ip", trail |-> trail, info |-> Listed[trail]]

(* UDP matches addresses only.                                             *)
UdpTrail(p) ==
  IF <<p.dst>> \in DOMAIN Listed THEN {<<p.dst>>}
  ELSE IF <<p.src>> \in DOMAIN Listed THEN {<<p.src>>} ELSE {}

UdpNoise(p, trail) ==
  IF trail[1] = p.dst THEN Listed[trail] = "attacker" ELSE Listed[trail] = "malware"

-----------------------------------------------------------------------------
(* What every packet begins with.  more are the events of its handler.     *)
Arrives(p, more) ==
  /\ ~done /\ p \in offer.traffic /\ packets < offer.maxPackets /\ packets' = packets + 1
  /\ lastSec' = sec /\ connectSec' = IF UseHeuristics THEN sec ELSE connectSec
  /\ prefix' = IF SweepRuns THEN LocalNow ELSE prefix
  /\ out' = SweepEvents \cup more
  /\ reported' = IF WindowEnds THEN {}
                 ELSE reported \cup {e.trail : e \in SweepEvents}
  /\ UNCHANGED <<offer, sec, done>>

(* The accumulators after the packet, and the history of what they saw.    *)
Tracks(after, seen) ==
  /\ scan' = after
  /\ probes' = (IF WindowEnds THEN {} ELSE probes)
                 \cup {x \in seen : x[2] \in DOMAIN after.items[x[1]]}

TracksNothing == Tracks(ScanNow, {})

(* The connection of a packet, and whether its trail was reported.         *)
ContactOf(p) == [kind |-> p.kind, flow |-> Flow(p), sec |-> sec]

Contact(p, told) ==
  contacts' = [seen |-> contacts.seen \cup {ContactOf(p)},
               told |-> contacts.told \cup (IF told THEN {ContactOf(p)} ELSE {})]

(* syn(): the trails unless it repeats the SYN before, then the trackers.  *)
Syn(p) ==
  LET burst == lastSyn = StampOf(p)
      trails == IF burst THEN {} ELSE SynTrail(p)
      loud == {t \in trails : ~SynNoise(p, t) /\ lastLoggedSyn # StampOf(p)}
      tracks == ~burst /\ UseHeuristics /\ p.dst \notin Localhost
      port == Tracked(ScanNow, "port", <<p.src, p.dst>>, p.port)
      infects == tracks /\ p.port \in InfectionPorts
      f == <<p.src, p.dst, p.port>>
      times == tracks /\ p.dst \notin Private /\ Enabled("beaconing")
      after == Observed(BeaconNow, f, sec)
      beacons == /\ times /\ BeaconVerdict(BeaconNow, after, f, sec)
                 /\ p.src \notin WhitelistedIps /\ p.dst \notin WhitelistedIps
  IN  /\ p.kind = "syn"
      /\ Arrives(p, {TrailEvent(p, t) : t \in loud}
                    \cup (IF beacons THEN {[kind |-> "beacon", trail |-> f, info |-> "beacon"]}
                          ELSE {}))
      /\ lastSyn' = StampOf(p)
      /\ lastLoggedSyn' = IF trails = {} THEN lastLoggedSyn ELSE StampOf(p)
      /\ Tracks(IF infects THEN Tracked(port, "infection", <<p.src, p.port>>, p.dst)
                ELSE IF tracks THEN port ELSE ScanNow,
                (IF tracks THEN {<<"port", <<p.src, p.dst>>, p.port>>} ELSE {})
                \cup (IF infects THEN {<<"infection", <<p.src, p.port>>, p.dst>>} ELSE {}))
      /\ beacon' = IF times THEN after ELSE BeaconNow
      /\ Contact(p, loud # {})
      /\ UNCHANGED <<lastUdp, lastLoggedUdp>>

(* A NULL, FIN or XMAS probe counts like a SYN.                            *)
Stealth(p) ==
  /\ p.kind = "stealth" /\ Arrives(p, {})
  /\ IF UseHeuristics /\ p.dst \notin Localhost /\ Enabled("port_scanning")
     THEN Tracks(Tracked(ScanNow, "port", <<p.src, p.dst>>, p.port),
                 {<<"port", <<p.src, p.dst>>, p.port>>})
     ELSE TracksNothing
  /\ beacon' = BeaconNow
  /\ UNCHANGED <<burstVars, contacts>>

(* udp(): a repeated datagram is skipped.                                  *)
IsUdpBurst(p) == lastUdp = [stamp |-> StampOf(p), digest |-> p.item]

(* udp() off port 53.                                                      *)
Udp(p) ==
  LET burst == IsUdpBurst(p)
      trails == IF burst THEN {} ELSE UdpTrail(p)
      loud == {t \in trails : ~UdpNoise(p, t) /\ lastLoggedUdp # StampOf(p)}
      tracks == ~burst /\ UseHeuristics /\ p.dst \notin Localhost /\ Enabled("udp_scanning")
  IN  /\ p.kind = "udp"
      /\ Arrives(p, {TrailEvent(p, t) : t \in loud})
      /\ lastUdp' = [stamp |-> StampOf(p), digest |-> p.item]
      /\ lastLoggedUdp' = IF trails = {} THEN lastLoggedUdp ELSE StampOf(p)
      /\ IF tracks
         THEN Tracks(TrackedUdp(ScanNow, p),
                     IF IsReply(NotesSender(ScanNow, p), p) THEN {}
                     ELSE {<<"udp", <<p.src, p.dst>>, p.port>>})
         ELSE TracksNothing
      /\ beacon' = BeaconNow
      /\ Contact(p, loud # {})
      /\ UNCHANGED <<lastSyn, lastLoggedSyn>>

(* A request for a path, as http_request() counts it.                      *)
Path(p) ==
  /\ p.kind = "path" /\ Arrives(p, {})
  /\ IF UseHeuristics /\ Enabled("web_scanning")
     THEN Tracks(Tracked(ScanNow, "web", <<p.src, p.dst>>, p.item),
                 {<<"web", <<p.src, p.dst>>, p.item>>})
     ELSE TracksNothing
  /\ beacon' = BeaconNow
  /\ UNCHANGED <<burstVars, contacts>>

(* is_standard_echo_payload(): what ping tools send; distinct_part() of it *)
(* is item 0, of any other payload what tells it from the next one.        *)
StandardEcho(p) == p.item = 0

(* other_proto(): an echo request whose payload is no ping tool's counts   *)
(* unless it stays at home; then the trails of both ends.                  *)
Other(p) ==
  LET counts == /\ p.kind = "echo" /\ UseHeuristics /\ Enabled("icmp_tunneling")
                /\ p.dst \notin Localhost \cup Private /\ ~StandardEcho(p)
  IN  /\ p.kind \in {"echo", "ip"}
      /\ Arrives(p, {TrailEvent(p, t) : t \in UdpTrail(p)})
      /\ IF counts THEN Tracks(Tracked(ScanNow, "icmp", <<p.src, p.dst>>, p.item),
                               {<<"icmp", <<p.src, p.dst>>, p.item>>})
         ELSE TracksNothing
      /\ beacon' = BeaconNow
      /\ UNCHANGED <<burstVars, contacts>>

(* The second of the next packet: later, or in a merged or reordered       *)
(* capture earlier.                                                        *)
Tick ==
  /\ ~done
  /\ \/ sec < offer.maxTime /\ sec' = sec + 1
     \/ offer.back /\ sec > 1 /\ sec' = sec - 1
  /\ out' = {}
  /\ UNCHANGED <<offer, lastSec, connectSec, scan, prefix, beacon, burstVars, historyVars,
                 packets, done>>

(* Mutant of FinalSweep: the worker just ends.                             *)
NoFinalSweep ==
  /\ ~done /\ done' = TRUE /\ out' = {}
  /\ UNCHANGED <<offer, sec, lastSec, connectSec, scan, prefix, beacon, burstVars,
                 historyVars, packets>>

(* final_heuristics_sweep(), for the second of the last packet.            *)
FinalSweep ==
  LET local == LocalNow
      runs == UseHeuristics /\ lastSec > 0
      events == IF runs THEN {ScanEvent(k) : k \in Due(scan, local)} ELSE {}
  IN  /\ ~done /\ done' = TRUE
      /\ connectSec' = IF runs THEN lastSec ELSE connectSec
      /\ out' = events
      /\ reported' = reported \cup {e.trail : e \in events}
      /\ prefix' = IF runs THEN local ELSE prefix
      /\ scan' = IF runs THEN Swept(scan, lastSec, local) ELSE scan
      /\ beacon' = IF runs THEN PrunedFlows(beacon, lastSec) ELSE beacon
      /\ UNCHANGED <<offer, sec, lastSec, burstVars, probes, contacts, packets>>

Next ==
  \/ \E p \in offer.traffic : Syn(p) \/ Stealth(p) \/ Udp(p) \/ Path(p) \/ Other(p)
  \/ Tick \/ FinalSweep

Spec == Init /\ [][Next]_vars

-----------------------------------------------------------------------------
(* What was probed says a key passed its threshold.                        *)
Crossed(kind, key) ==
  Cardinality({x \in probes : x[1] = kind /\ x[2] = key}) > ThresholdOf[kind]

Probed == {<<x[1], x[2]>> : x \in probes}

(* A scan is not lost between the packet that completes it, the sweep and  *)
(* the end of the window or of the capture: when the evidence of a window  *)
(* is dropped, or the worker ends, every key that passed its threshold has *)
(* been reported, unless it is muted, whitelisted or not one of ours.      *)
CrossingReported ==
  [][UseHeuristics /\ ((scan'.start # scan.start) \/ (done' /\ ~done)) =>
       \A k \in Probed :
         /\ Crossed(k[1], k[2]) /\ Enabled(HeuristicOf(k[1]))
         /\ ~Spared(k[1], k[2], LocalNow)
         => k \in reported \cup {e.trail : e \in {o \in out' : o.kind = "scan"}}]_vars

(* A key is reported at most once a window, although it stays queued, and  *)
(* a flow beacons at most once while it is tracked.                        *)
ReportedOnce ==
  [][\A e \in out' :
       /\ e.kind = "scan" => e.trail \notin reported
       /\ e.kind = "beacon" => /\ e.trail \in DOMAIN beacon.flows
                               /\ ~beacon.flows[e.trail].alerted]_vars

(* The sources counted for the prefixes, one element for each.             *)
Sources(prefixes) == UNION {{p} \X (1..prefixes[p]) : p \in DOMAIN prefixes}

(* The budget that port and infection keys share is what they use, and so  *)
(* is the number of sources the local prefix is learned from.              *)
SharedBudget ==
  /\ scan.connectKeys = Cardinality(DOMAIN scan.items["port"])
                          + Cardinality(DOMAIN scan.items["infection"])
  /\ scan.connectKeys <= MaxScanKeys
  /\ Cardinality(Sources(scan.prefixes)) = scan.connectKeys

(* What is listed of one end: UDP matches addresses only.                  *)
Labels(kind, ip, port) ==
  {Listed[t] : t \in ({<<ip>>} \cup (IF kind = "syn" THEN {<<ip, port>>} ELSE {}))
                      \cap DOMAIN Listed}

(* A connection or datagram to a host listed as malware, or from a host    *)
(* listed as an attacker to one that is not listed, nor for TCP this one.  *)
Notable(c) ==
  LET near == Labels(c.kind, c.flow[1], c.flow[2])
      far == Labels(c.kind, c.flow[3], c.flow[4])
  IN  \/ far = {"malware"}
      \/ far = {} /\ near = {"attacker"} /\ ~(c.kind = "syn" /\ c.flow[3] \in Localhost)

(* The repetition rules never hide a contact: a notable one is reported in *)
(* the second it is seen, whatever came between its packets and however    *)
(* the capture orders the seconds.                                         *)
ListedContactReported == \A c \in contacts.seen : Notable(c) => c \in contacts.told

=============================================================================
