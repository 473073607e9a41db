--------------------------- MODULE DnsHeuristics ---------------------------
(***************************************************************************)
(* The tables behind the three DNS heuristics: distinct subdomains of a    *)
(* zone (sensor/src/heuristics/dns_exhaustion.rs), evidence for a tunnel   *)
(* of a (source, zone) pair (dns_tunneling.rs) and the counters of names   *)
(* that do not exist (nxdomain.rs).  A table is a function whose domain is *)
(* its keys.  All three refuse a new key at HEURISTIC_MAX_KEYS rather than *)
(* evict one.  The operators take a table and return it as it is after     *)
(* the call.                                                               *)
(***************************************************************************)
EXTENDS Naturals, FiniteSets, Functions

CONSTANTS
  MaxKeys,             \* HEURISTIC_MAX_KEYS
  Hour,                \* HOURLY_SECS
  ExhaustionThreshold, \* DNS_EXHAUSTION_THRESHOLD
  ExhaustionWindow,    \* the 60 seconds of a zone's window
  LocalLookups,        \* LOCAL_SUBDOMAIN_LOOKUPS
  TunnelWindow,        \* DNS_TUNNELING_WINDOW
  TunnelQueries,       \* DNS_TUNNELING_MIN_QUERIES
  TunnelBytes,         \* DNS_TUNNELING_MIN_BYTES
  TunnelSpan,          \* DNS_TUNNELING_MIN_SPAN
  DistinctPct,         \* DNS_TUNNELING_MIN_DISTINCT_PCT
  LongPct,             \* DNS_TUNNELING_MIN_LONG_PCT
  NameSample,          \* NAME_SAMPLE
  NxThreshold          \* NO_SUCH_NAME_PER_HOUR_THRESHOLD

ASSUME DnsHeuristicsAssumption ==
  {MaxKeys, Hour, ExhaustionThreshold, ExhaustionWindow, TunnelWindow, TunnelQueries,
   TunnelBytes, TunnelSpan, DistinctPct, LongPct, NameSample, NxThreshold} \subseteq Nat

EmptyTable == [k \in {} |-> 0]

WithKey(table, k, value) ==
  [x \in DOMAIN table \cup {k} |-> IF x = k THEN value ELSE table[x]]

Full(table) == Cardinality(DOMAIN table) >= MaxKeys

SaturatingSub(a, b) == IF a > b THEN a - b ELSE 0

-----------------------------------------------------------------------------
EmptyExhaustion == [domains |-> EmptyTable, marker |-> 0, exhausted |-> {}]

HourlyReset(exh, sec) ==
  IF SaturatingSub(sec, exh.marker) > Hour
  THEN [domains |-> EmptyTable, marker |-> sec, exhausted |-> {}]
  ELSE exh

(* The window a query of the zone falls in, none if it is refused.         *)
ZoneWindow(exh, zone, sec) ==
  IF zone \in DOMAIN exh.domains THEN {exh.domains[zone]}
  ELSE IF Full(exh.domains) THEN {}
  ELSE {[start |-> sec, subs |-> {}]}

(* Mutant of ExhaustionOutcome: a zone is reported as long as it lasts.    *)
ExhaustionOutcomeAgain(exh, zone, sec) ==
  IF \E w \in ZoneWindow(exh, zone, sec) :
       SaturatingSub(sec, w.start) <= ExhaustionWindow
       /\ Cardinality(w.subs) >= ExhaustionThreshold
  THEN "alert" ELSE "continue"

(* What observe_keyed() answers.                                           *)
ExhaustionOutcome(exh, zone, sec) ==
  IF \E w \in ZoneWindow(exh, zone, sec) :
       SaturatingSub(sec, w.start) <= ExhaustionWindow
       /\ Cardinality(w.subs) >= ExhaustionThreshold
  THEN IF zone \in exh.exhausted THEN "suppress" ELSE "alert"
  ELSE "continue"

(* What it leaves: the query that finds its window over opens a new one    *)
(* and is not in it; a full window takes no more names.                    *)
ExhaustionObserved(exh, zone, sub, sec) ==
  LET Noted(w) ==
        IF SaturatingSub(sec, w.start) > ExhaustionWindow THEN [start |-> sec, subs |-> {}]
        ELSE IF Cardinality(w.subs) < ExhaustionThreshold THEN [w EXCEPT !.subs = @ \cup {sub}]
        ELSE w
      windows == ZoneWindow(exh, zone, sec)
  IN  IF windows = {} THEN exh
      ELSE [exh EXCEPT !.domains = WithKey(@, zone, Noted(CHOOSE w \in windows : TRUE))]

HasLocalLookup(exh, zone) ==
  zone \in DOMAIN exh.domains /\ exh.domains[zone].subs \cap LocalLookups # {}

MarkExhausted(exh, zone) == [exh EXCEPT !.exhausted = @ \cup {zone}]

-----------------------------------------------------------------------------
EmptyTunnels == [pairs |-> EmptyTable, start |-> 0]

WindowReset(tun, sec) ==
  IF SaturatingSub(sec, tun.start) > TunnelWindow
  THEN [pairs |-> EmptyTable, start |-> sec] ELSE tun

FirstEvidence(exempt, sec) ==
  [queries |-> 0, names |-> {}, carrying |-> 0, bytes |-> 0, first |-> sec, last |-> 0,
   alerted |-> FALSE, exempt |-> exempt]

Smaller(a, b) == IF a < b THEN a ELSE b

(* Accumulator::verdict()                                                  *)
TunnelVerdict(e) ==
  /\ e.queries >= TunnelQueries
  /\ e.bytes >= TunnelBytes
  /\ SaturatingSub(e.last, e.first) >= TunnelSpan
  /\ Cardinality(e.names) * 100 >= Smaller(e.queries, NameSample) * DistinctPct
  /\ e.carrying * 100 >= e.queries * LongPct

(* observe_unless(): the evidence of the pair after the query; none if the *)
(* pair is refused.                                                        *)
TunnelEvidence(tun, pair, query, exempt, sec) ==
  LET known == IF pair \in DOMAIN tun.pairs THEN {tun.pairs[pair]}
               ELSE IF Full(tun.pairs) THEN {} ELSE {FirstEvidence(exempt, sec)}
      More(e) == [e EXCEPT !.queries = @ + 1, !.last = sec, !.bytes = @ + query.bytes,
                           !.carrying = IF query.carrying THEN @ + 1 ELSE @,
                           !.names = IF e.queries < NameSample THEN @ \cup {query.sub} ELSE @]
      Judged(e) == [e EXCEPT !.alerted = TunnelVerdict(e)]
  IN  {IF e.exempt \/ e.alerted THEN e ELSE Judged(More(e)) : e \in known}

TunnelObserved(tun, pair, query, exempt, sec) ==
  LET after == TunnelEvidence(tun, pair, query, exempt, sec)
  IN  IF after = {} THEN tun
      ELSE [tun EXCEPT !.pairs = WithKey(@, pair, CHOOSE e \in after : TRUE)]

(* Mutant of TunnelAlert: every query past the threshold alerts.           *)
TunnelAlertEach(tun, pair, query, exempt, sec) ==
  \E e \in TunnelEvidence(tun, pair, query, exempt, sec) : e.alerted

(* Outcome::Alert: the query that made the verdict true.                   *)
TunnelAlert(tun, pair, query, exempt, sec) ==
  /\ \E e \in TunnelEvidence(tun, pair, query, exempt, sec) : e.alerted
  /\ pair \in DOMAIN tun.pairs => ~tun.pairs[pair].alerted

-----------------------------------------------------------------------------
NoHour == 0 - 1

EmptyNx == [counters |-> EmptyTable, pruned |-> NoHour]

HourOf(sec) == sec \div Hour

Prune(nx, sec) ==
  IF nx.pruned = HourOf(sec) THEN nx
  ELSE [pruned |-> HourOf(sec),
        counters |-> Restrict(nx.counters,
                              {k \in DOMAIN nx.counters : nx.counters[k].hour = HourOf(sec)})]

Current(nx, key, sec) ==
  key \in DOMAIN nx.counters /\ nx.counters[key].hour = HourOf(sec)

NxOver(nx, key, sec) == Current(nx, key, sec) /\ nx.counters[key].count >= NxThreshold

(* NxCounters::observe() for the key of the name or of its zone: the       *)
(* counters after it.  A zone that alerts takes the counters of its names  *)
(* with it.                                                                *)
NxObserved(nx, key, isZone, name, sec) ==
  LET counters == nx.counters
      names == IF isZone THEN counters[key].names \cup {name} ELSE {}
      after ==
        IF NxOver(nx, key, sec) THEN Restrict(counters, DOMAIN counters \ ({key} \cup names))
        ELSE IF Current(nx, key, sec)
             THEN [counters EXCEPT ![key].count = @ + 1, ![key].names = @ \cup {name}]
        ELSE IF Full(counters) THEN counters
        ELSE WithKey(counters, key, [hour |-> HourOf(sec), count |-> 1, names |-> {}])
  IN  [nx EXCEPT !.counters = after]

=============================================================================
