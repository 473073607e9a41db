------------------------------ MODULE DnsPath ------------------------------
(***************************************************************************)
(* What a worker does with a datagram from or to port 53                   *)
(* (sensor/src/process.rs udp, dns_packet and dns_name): burst             *)
(* suppression, the DNS heuristics, the endpoint trails and the check of   *)
(* the name for a request; the aliases, the sinkhole test and the counting *)
(* of names that do not exist for a response.                              *)
(*                                                                         *)
(* A datagram is what the parser of protocols/dns.rs reads from it.  flags *)
(* is its class: "query", a standard query; "ok" and "okPlain", a response *)
(* without error whose flags are or are not exactly 0x80; "nx", 0x83;      *)
(* "failure", any other response; "neither".  type is "checked", or        *)
(* "unchecked" for PTR, AAAA and classes other than IN, or "cut" if the    *)
(* packet ends before it.                                                  *)
(***************************************************************************)
EXTENDS DomainCheck, DnsHeuristics

CONSTANTS
  Offers,      \* the traffics a behaviour may see: packets, and bounds on their
               \* number, on the seconds they take and on the trail sets adopted
  Short,       \* second-level labels of at most three characters
  DashedQuads, \* first labels that spell an address
  Blocklists,  \* labels that end in "bl"
  HashZones,   \* zones allowed_zone() knows
  HashLabels,  \* labels it knows
  Carrying,    \* labels long and random enough to carry a payload
  DgaLabels,   \* labels over the entropy or the consonant threshold
  IgnoredTops, \* ignore_dns_query_suffixes
  Private      \* local addresses

VARIABLES
  offer,   \* the traffic of this behaviour
  sec,     \* the second of the next packet
  last,    \* last_udp and last_udp_payload
  exh,     \* dns_exhaustion
  tun,     \* dns_tunneling
  nx,      \* nxdomain
  out,     \* the events of the last packet
  told,    \* history: windowed alerts so far
  asked,   \* history: requests checked against the trail set in use
  answer,  \* history: the lookup the last packet answered
  packets  \* packets so far

dnsVars == <<last, exh, tun, nx, told, asked, answer>>
clockVars == <<offer, sec, out, packets>>
pathVars == <<checkVars, dnsVars, clockVars>>

NoPacket == [flow |-> "none", sec |-> 0, digest |-> "none"]

DnsInit ==
  /\ CheckInit
  /\ offer \in Offers
  /\ sec = Hour + 1
  /\ last = NoPacket
  /\ exh = EmptyExhaustion /\ tun = EmptyTunnels /\ nx = EmptyNx
  /\ out = {} /\ told = {} /\ asked = {} /\ answer = {} /\ packets = 0

-----------------------------------------------------------------------------
(* A packet of the offered traffic, counted against the bound.             *)
Arrives(p) == p \in offer.traffic /\ packets < offer.maxPackets /\ packets' = packets + 1

Stamp(p) == [flow |-> p.flow, sec |-> sec, digest |-> p.digest]

(* The 5-tuple, the second and the payload digest of the datagram before.  *)
IsBurst(p) == last = Stamp(p)

(* The trail of the query's endpoints: the server's address and port, its  *)
(* address, or the client's.                                               *)
EndpointEvents(p) ==
  LET keys == <<<<p.dst, 53>>, <<p.dst>>, <<p.src>>>>
      found == {i \in 1..3 : keys[i] \in DOMAIN Trails.ips}
      key == keys[Min(found)]
  IN  IF found = {} THEN {}
      ELSE {[kind |-> IF Len(key) = 2 THEN "iport" ELSE "ip",
             trail |-> key, info |-> Trails.ips[key]]}

(* The validity and ignore filter at the head of dns_name().               *)
Filtered(q) ==
  \/ q = <<>> \/ ~IsValid(q)
  \/ \E i \in 2..(Len(q) - 1) : q[i] = "intranet"
  \/ Last(q) \in IgnoredTops

(* The zone a query is counted under, and the part below its last two      *)
(* labels.                                                                 *)
Zone(q) ==
  LET n == Len(q)
  IN  IF n > 3 /\ q[n - 1] \in Short THEN Parent(q, n - 2) ELSE Parent(q, n - 1)

Below(q) == SubSeq(q, 1, Len(q) - 2)

Labels(q) == {q[i] : i \in DOMAIN q}

(* Tunnelling evidence of a query; a carrying label counts three bytes.    *)
Evidence(q) ==
  [sub |-> Below(q), carrying |-> q[1] \in Carrying,
   bytes |-> FoldLeft(LAMBDA n, l : n + (IF l \in Carrying THEN 3 ELSE 1), 0, Below(q))]

Exempt(zone) ==
  \/ \E i \in DOMAIN zone : Parent(zone, i) \in HashZones
  \/ Labels(zone) \cap (HashLabels \cup Blocklists) # {}

Heuristic(kind, key, trail) == [kind |-> kind, key |-> key, trail |-> trail]

-----------------------------------------------------------------------------
(* The part both heuristics share: a zone that is not whitelisted.         *)
Tracked(q) == Len(q) > 2 /\ ~Whitelisted(Zone(q))

Counted(q) == Tracked(q) /\ q[1] \notin DashedQuads

Swallowed(q) ==
  /\ Counted(q)
  /\ ExhaustionOutcome(HourlyReset(exh, sec), Zone(q), sec) \in {"alert", "suppress"}

AfterExhaustion(q) ==
  LET reset == HourlyReset(exh, sec)
  IN  IF Counted(q) THEN ExhaustionObserved(reset, Zone(q), Below(q), sec)
      ELSE IF Tracked(q) THEN reset ELSE exh

(* A query past the threshold of its zone ends here, whether or not the    *)
(* zone is reported for it.                                                *)
ReportsExhaustion(q, seen) ==
  /\ ExhaustionOutcome(HourlyReset(exh, sec), Zone(q), sec) = "alert"
  /\ Labels(q) \cap Blocklists = {}
  /\ ~HasLocalLookup(seen, Zone(q))
  /\ HeuristicEnabled("dns_exhaustion")

ExhaustedQuery(p) ==
  /\ p.type # "cut" /\ Swallowed(p.name)
  /\ \E zone \in {Zone(p.name)}, seen \in {AfterExhaustion(p.name)} :
       IF ReportsExhaustion(p.name, seen)
       THEN /\ exh' = MarkExhausted(seen, zone)
            /\ out' = {Heuristic("exhaustion", zone, p.name)}
            /\ told' = told \cup {<<"exhaustion", zone, seen.marker>>}
       ELSE exh' = seen /\ out' = {} /\ UNCHANGED told
  /\ NoCheck /\ UNCHANGED <<tun, nx, asked>> /\ answer' = {}

(* Any other query: the tunnel evidence, the trails of its endpoints and   *)
(* the check of the name.                                                  *)
JudgesTunnel(q) == Tracked(q) /\ UseHeuristics /\ HeuristicEnabled("dns_tunneling")

TunnelEvents(p) ==
  IF /\ JudgesTunnel(p.name)
     /\ TunnelAlert(WindowReset(tun, sec), <<p.src, Zone(p.name)>>, Evidence(p.name),
                    Exempt(Zone(p.name)), sec)
  THEN {Heuristic("tunnel", <<p.src, Zone(p.name)>>, p.name)} ELSE {}

\* The name is remembered as clean from an earlier trail set.
Outdated(q) == Hit(clean, q) /\ cleanAt[q] # view

CheckedQuery(p) ==
  /\ p.type # "cut" /\ ~Swallowed(p.name)
  /\ exh' = AfterExhaustion(p.name)
  /\ tun' = IF JudgesTunnel(p.name)
            THEN TunnelObserved(WindowReset(tun, sec), <<p.src, Zone(p.name)>>,
                                Evidence(p.name), Exempt(Zone(p.name)), sec)
            ELSE tun
  /\ \E events \in {TunnelEvents(p)} :
       /\ told' = told \cup {<<"tunnel", e.key, tun'.start>> : e \in events}
       /\ \/ p.type # "checked" /\ NoCheck /\ out' = events /\ UNCHANGED asked
          \/ /\ p.type = "checked"
             /\ \E c \in {Checked(clean, p.name, FALSE)} :
                  /\ CheckDomain(p.name, c)
                  /\ out' = events \cup EndpointEvents(p) \cup DomainEvents(c.hit)
                  /\ asked' = {r \in asked : r.name # p.name}
                                \cup (IF Outdated(p.name) THEN {}
                                      ELSE {[name |-> p.name, infos |-> {h.info : h \in c.hit}]})
  /\ UNCHANGED nx /\ answer' = {}

-----------------------------------------------------------------------------
(* The chain of a response: the first target that is listed, and the cache *)
(* after the targets looked at.                                            *)
AliasLook(q, before, t) ==
  IF before.hit # NoHit \/ t = q \/ ~IsValid(t) THEN before
  ELSE Checked(before.cache, t, TRUE)

AliasScan(p) ==
  LET scan[n \in 0..Len(p.targets)] ==
        IF n = 0 THEN [cache |-> clean, hit |-> NoHit, fresh |-> FALSE]
        ELSE AliasLook(p.name, scan[n - 1], p.targets[n])
  IN  scan[Len(p.targets)]

(* Mutant of AliasEvents: an alias is reported beside the request's event. *)
AliasEventsTwice(p, alias, own) ==
  {[kind |-> "alias", trail |-> h.entry, info |-> h.info] : h \in alias}

(* One event for the chain.  An alias with the label of the name asked for *)
(* adds nothing: the request was reported if its type is one it checks,    *)
(* and is reported in its place if not.                                    *)
AliasEvents(p, alias, own) ==
  LET same == {h.info : h \in alias} = {h.info : h \in own}
  IN  IF ~same THEN {[kind |-> "alias", trail |-> h.entry, info |-> h.info] : h \in alias}
      ELSE IF p.type = "checked" THEN {} ELSE DomainEvents(own)

(* A response without error whose flags say so in some way: every CNAME    *)
(* target against the trails, then the name itself once one is listed.     *)
AliasedResponse(p, more) ==
  /\ \E scan \in {AliasScan(p)} :
       \/ /\ scan.hit = NoHit
          /\ clean' = scan.cache /\ UNCHANGED cleanAt /\ judged' = {}
          /\ out' = more /\ answer' = {}
       \/ /\ scan.hit # NoHit
          /\ \E own \in {Checked(scan.cache, p.name, FALSE)} :
             \E events \in {AliasEvents(p, scan.hit, own.hit)} :
               /\ CheckDomain(p.name, own)
               /\ out' = events \cup more
               /\ answer' = {[name |-> p.name, type |-> p.type,
                              found |-> {h.info : h \in scan.hit},
                              infos |-> {e.info : e \in events}]}
  /\ UNCHANGED <<exh, tun, nx, told, asked>>

(* The first A record of a plain answer is a listed sinkhole or parking.   *)
SinkholeEvents(p) ==
  IF /\ UseHeuristics /\ <<p.answer>> \in DOMAIN Trails.ips /\ ~Whitelisted(p.name)
     /\ Trails.ips[<<p.answer>>] \in {"sinkhole", "parking"}
  THEN {[kind |-> "dns", trail |-> p.name, info |-> Trails.ips[<<p.answer>>]]}
  ELSE {}

(* A name that does not exist, once it is none of the exhausted, the       *)
(* whitelisted and the listed ones nor the lookup of an address.           *)
CountsNx(q) ==
  /\ UseHeuristics
  /\ Parent(q, IF Len(q) < 2 THEN 1 ELSE Len(q) - 1) \notin exh.exhausted
  /\ ~Whitelisted(q) /\ ~Listed(Trails, q)
  /\ Last(q) \notin Digits
  /\ ~(Len(q) > 4 /\ \A i \in 1..4 : q[i] \in Digits)

ZoneKey(q) == <<"*">> \o Parent(q, Len(q) - 1)

(* The counter of the name, and unless that one alerts, of its zone.       *)
DgaEvents(q) == IF Len(q) = 2 /\ q[1] \in DgaLabels THEN {Heuristic("dga", q[1], q)} ELSE {}

\* The names of a zone's counter and the one that makes it alert.
QuietZone(table, q) ==
  \E n \in table.counters[ZoneKey(q)].names \cup {q} : Labels(n) \cap LocalLookups # {}

NxResponse(p) ==
  /\ \/ p.dst \in Private /\ out' = DgaEvents(p.name) /\ UNCHANGED nx
     \/ /\ p.dst \notin Private
        /\ \E q \in {p.name}, pruned \in {Prune(nx, sec)} :
           \E exact \in {NxOver(pruned, q, sec)}, one \in {NxObserved(pruned, q, FALSE, q, sec)} :
           \E wild \in {Len(q) > 2 /\ ~exact /\ NxOver(one, ZoneKey(q), sec)} :
             /\ nx' = IF Len(q) > 2 /\ ~exact THEN NxObserved(one, ZoneKey(q), TRUE, q, sec) ELSE one
             /\ out' = (IF exact THEN {Heuristic("nx", q, q)}
                        ELSE IF wild /\ ~QuietZone(one, q)
                        THEN {Heuristic("nx", ZoneKey(q), q)} ELSE {}) \cup DgaEvents(q)
  /\ NoCheck /\ UNCHANGED <<exh, tun, told, asked>> /\ answer' = {}

(* Nothing in it is looked at any further.                                 *)
Passed == /\ NoCheck /\ out' = {} /\ answer' = {}
          /\ UNCHANGED <<exh, tun, nx, told, asked>>

(* udp() on port 53 and dns_packet(), by what the datagram is.             *)
DnsDatagram(p) ==
  /\ p.kind = "dns" /\ Arrives(p)
  /\ last' = Stamp(p)
  /\ \/ (IsBurst(p) \/ Filtered(p.name)) /\ Passed
     \/ /\ ~IsBurst(p) /\ ~Filtered(p.name)
        /\ \/ p.flags = "query" /\ (ExhaustedQuery(p) \/ CheckedQuery(p))
           \/ /\ p.flags \in {"ok", "okPlain"}
              /\ AliasedResponse(p, IF p.flags = "ok" THEN SinkholeEvents(p) ELSE {})
           \/ p.flags = "nx" /\ CountsNx(p.name) /\ NxResponse(p)
           \/ p.flags = "nx" /\ ~CountsNx(p.name) /\ Passed
           \/ (p.flags \in {"failure", "neither"} \/ (p.flags = "query" /\ p.type = "cut"))
              /\ Passed
  /\ UNCHANGED <<view, offer, sec>>

(* handshake_sni(): the name a ClientHello asks for is checked like one of *)
(* a query.                                                                *)
ServerName(p) ==
  /\ p.kind = "sni" /\ Arrives(p)
  /\ \E c \in {Checked(clean, p.name, FALSE)} :
       CheckDomain(p.name, c) /\ out' = DomainEvents(c.hit)
  /\ answer' = {}
  /\ UNCHANGED <<view, offer, sec, last, exh, tun, nx, told, asked>>

Tick ==
  /\ sec < Hour + 1 + offer.maxTime
  /\ sec' = sec + 1
  /\ out' = {} /\ answer' = {} /\ judged' = {}
  /\ UNCHANGED <<view, clean, cleanAt, offer, packets, last, exh, tun, nx, told, asked>>

Refresh ==
  /\ view < offer.maxViews /\ AdoptTrails
  /\ out' = {} /\ answer' = {} /\ asked' = {}
  /\ UNCHANGED <<offer, sec, packets, last, exh, tun, nx, told>>

-----------------------------------------------------------------------------
(* A lookup whose chain meets a listed name is reported, and once: a       *)
(* request the check has seen and its response name the label of the first *)
(* listed target in exactly one of the two; where the request's type is    *)
(* not checked, the response does.  (Nothing is said of a request that was *)
(* swallowed by the exhaustion rule, checked against older trails, or      *)
(* answered from the cache of names those found clean: if the name is      *)
(* evicted before the response comes, neither of the two is reported.)     *)
LookupReportedOnce ==
  \A a \in answer :
    /\ a.type # "checked" => a.infos = a.found
    /\ a.type = "checked" =>
         \A r \in asked :
           r.name = a.name => ((a.found \subseteq r.infos) <=> ~(a.found \subseteq a.infos))

(* A zone is reported as exhausted at most once an hour and a (source,     *)
(* zone) pair as a tunnel at most once a window, however many windows of   *)
(* names it fills.                                                         *)
ReportedOncePerWindow ==
  [][\A e \in out' :
       /\ e.kind = "exhaustion" => <<"exhaustion", e.key, exh'.marker>> \notin told
       /\ e.kind = "tunnel" => <<"tunnel", e.key, tun'.start>> \notin told]_pathVars

=============================================================================
