--------------------------- MODULE VerdictProofs ---------------------------
(***************************************************************************)
(* Proofs about the verdicts, of DomainCheck, DnsPath and HttpPath, for    *)
(* every traffic, every series of trail sets, every whitelist and every    *)
(* size of the caches and tables: the SIEVE cache is a bounded cache, what *)
(* a check reports is what the policy says or what it said of an earlier   *)
(* set, a lookup is reported once, a zone or a tunnel once a window, and a *)
(* whitelisted platform keeps its trails.                                  *)
(***************************************************************************)
EXTENDS HttpPath, FiniteSetTheorems, WellFoundedInduction, TLAPS

(* The smallest of some numbers.                                           *)
LEMMA MinIn ==
  ASSUME NEW S \in SUBSET Nat, S # {}
  PROVE  Min(S) \in S /\ \A y \in S : Min(S) <= y
<1> DEFINE R == {ss \in Nat \X Nat : ss[1] < ss[2]}
<1>1. IsWellFoundedOn(R, Nat) BY NatLessThanWellFounded, Zenon DEF OpToRel
<1>2. PICK x \in S : \A y \in S : <<y, x>> \notin R BY <1>1, WFMin
<1>3. \A y \in S : x <= y
  <2> SUFFICES ASSUME NEW y \in S, ~(x <= y) PROVE FALSE OBVIOUS
  <2>1. y < x /\ y \in Nat /\ x \in Nat OBVIOUS
  <2>2. <<y, x>> \in R BY <2>1
  <2> QED BY <1>2, <2>2
<1>4. \E z \in S : \A y \in S : z <= y BY <1>3
<1> QED BY <1>4 DEF Min

-----------------------------------------------------------------------------
(* The windows of the DNS heuristics.                                      *)

(* What was reported in the window a table is at is marked in it.          *)
ZonesMarked(table, alerts) ==
  /\ DOMAIN table = {"domains", "marker", "exhausted"} /\ table.marker \in Nat
  /\ \A t \in alerts : t[1] = "exhaustion" =>
       /\ t[3] \in Nat /\ t[3] <= table.marker
       /\ t[3] = table.marker => t[2] \in table.exhausted

PairsMarked(table, alerts) ==
  /\ DOMAIN table = {"pairs", "start"} /\ table.start \in Nat
  /\ \A t \in alerts : t[1] = "tunnel" =>
       /\ t[3] \in Nat /\ t[3] <= table.start
       /\ t[3] = table.start => t[2] \in DOMAIN table.pairs /\ table.pairs[t[2]].alerted

WindowInv == sec \in Nat /\ ZonesMarked(exh, told) /\ PairsMarked(tun, told)

(* What ReportedOncePerWindow says of a step.                              *)
OnceMore ==
  \A e \in out' :
    /\ e.kind = "exhaustion" => <<"exhaustion", e.key, exh'.marker>> \notin told
    /\ e.kind = "tunnel" => <<"tunnel", e.key, tun'.start>> \notin told

(* The limits are numbers.                                                 *)
LEMMA HourNat == Hour \in Nat /\ TunnelWindow \in Nat /\ MaxKeys \in Nat
  BY DnsHeuristicsAssumption

(* The reset of a table starts a window nothing was reported in.           *)
LEMMA ZonesReset ==
  ASSUME NEW table, NEW alerts, ZonesMarked(table, alerts), NEW now \in Nat
  PROVE  ZonesMarked(HourlyReset(table, now), alerts)
<1>1. CASE SaturatingSub(now, table.marker) > Hour
  <2>1. now > table.marker BY <1>1, HourNat DEF SaturatingSub, ZonesMarked
  <2>2. HourlyReset(table, now) = [domains |-> EmptyTable, marker |-> now, exhausted |-> {}]
    BY <1>1 DEF HourlyReset
  <2> QED BY <2>1, <2>2 DEF ZonesMarked
<1>2. CASE ~(SaturatingSub(now, table.marker) > Hour)
  BY <1>2 DEF HourlyReset
<1> QED BY <1>1, <1>2

(* A window reset forgets the pairs, and the alerts it is told of are      *)
(* those of an earlier window.                                             *)
LEMMA PairsReset ==
  ASSUME NEW table, NEW alerts, PairsMarked(table, alerts), NEW now \in Nat
  PROVE  PairsMarked(WindowReset(table, now), alerts)
<1>1. CASE SaturatingSub(now, table.start) > TunnelWindow
  <2>1. now > table.start BY <1>1, HourNat DEF SaturatingSub, PairsMarked
  <2>2. WindowReset(table, now) = [pairs |-> EmptyTable, start |-> now]
    BY <1>1 DEF WindowReset
  <2> QED BY <2>1, <2>2 DEF PairsMarked
<1>2. CASE ~(SaturatingSub(now, table.start) > TunnelWindow)
  BY <1>2 DEF WindowReset
<1> QED BY <1>1, <1>2

(* Counting a query neither moves the window nor unmarks a zone.           *)
LEMMA ZonesObserved ==
  ASSUME NEW table, NEW alerts, ZonesMarked(table, alerts), NEW zone, NEW s, NEW now,
         NEW t, t = ExhaustionObserved(table, zone, s, now)
  PROVE  ZonesMarked(t, alerts) /\ t.marker = table.marker /\ t.exhausted = table.exhausted
<1>1. t = table \/ \E d : t = [table EXCEPT !.domains = d]
  BY DEF ExhaustionObserved
<1> QED BY <1>1 DEF ZonesMarked

(* A pair that was reported keeps its mark.                                *)
LEMMA PairsObserved ==
  ASSUME NEW table, NEW alerts, PairsMarked(table, alerts), NEW pair, NEW query, NEW ex, NEW now,
         NEW t, t = TunnelObserved(table, pair, query, ex, now)
  PROVE  /\ PairsMarked(t, alerts) /\ t.start = table.start
         /\ TunnelAlert(table, pair, query, ex, now) =>
              /\ pair \in DOMAIN t.pairs /\ t.pairs[pair].alerted
              /\ <<"tunnel", pair, table.start>> \notin alerts
<1> DEFINE after == TunnelEvidence(table, pair, query, ex, now)
<1>1. CASE after = {}
  BY <1>1 DEF TunnelObserved, TunnelAlert
<1>2. CASE after # {}
  <2>1. \E e : after = {e} /\ (pair \in DOMAIN table.pairs /\ table.pairs[pair].alerted
                                  => e = table.pairs[pair])
    <3> DEFINE known == IF pair \in DOMAIN table.pairs THEN {table.pairs[pair]}
                        ELSE IF Full(table.pairs) THEN {} ELSE {FirstEvidence(ex, now)}
               More(e) == [e EXCEPT !.queries = @ + 1, !.last = now, !.bytes = @ + query.bytes,
                             !.carrying = IF query.carrying THEN @ + 1 ELSE @,
                             !.names = IF e.queries < NameSample THEN @ \cup {query.sub} ELSE @]
               Judged(e) == [e EXCEPT !.alerted = TunnelVerdict(e)]
               New(e) == IF e.exempt \/ e.alerted THEN e ELSE Judged(More(e))
    <3>1. after = {New(e) : e \in known} BY DEF TunnelEvidence
    <3>2. \A e : e.alerted => New(e) = e OBVIOUS
    <3> HIDE DEF New
    <3>3. CASE pair \in DOMAIN table.pairs
      <4>1. known = {table.pairs[pair]} BY <3>3
      <4> HIDE DEF known
      <4>2. after = {New(table.pairs[pair])} BY <3>1, <4>1
      <4> QED BY <4>2, <3>2
    <3>4. CASE pair \notin DOMAIN table.pairs
      <4>1. known = {} \/ known = {FirstEvidence(ex, now)} BY <3>4
      <4> HIDE DEF known
      <4>2. known = {FirstEvidence(ex, now)} BY <1>2, <3>1, <4>1
      <4>3. after = {New(FirstEvidence(ex, now))} BY <3>1, <4>2
      <4> QED BY <3>4, <4>3
    <3> QED BY <3>3, <3>4
  <2>2. PICK e : after = {e} /\ (pair \in DOMAIN table.pairs /\ table.pairs[pair].alerted
                                  => e = table.pairs[pair])
    BY <2>1
  <2> HIDE DEF after
  <2>3. (CHOOSE x \in after : TRUE) = e BY <2>2
  <2>4. t = [table EXCEPT !.pairs = WithKey(table.pairs, pair, e)]
    BY <1>2, <2>3 DEF TunnelObserved, after
  <2>5. DOMAIN t = {"pairs", "start"} /\ t.start = table.start
        /\ t.pairs = WithKey(table.pairs, pair, e)
    BY <2>4 DEF PairsMarked
  <2>6. /\ DOMAIN t.pairs = DOMAIN table.pairs \cup {pair}
        /\ t.pairs[pair] = e
        /\ \A k \in DOMAIN table.pairs : k # pair => t.pairs[k] = table.pairs[k]
    BY <2>5 DEF WithKey
  <2>7. PairsMarked(t, alerts)
    BY <2>2, <2>5, <2>6 DEF PairsMarked
  <2>8. TunnelAlert(table, pair, query, ex, now) =>
          /\ e.alerted
          /\ pair \in DOMAIN table.pairs => ~table.pairs[pair].alerted
    BY <2>2 DEF TunnelAlert, after
  <2>9. TunnelAlert(table, pair, query, ex, now) => <<"tunnel", pair, table.start>> \notin alerts
    BY <2>8 DEF PairsMarked
  <2> QED BY <2>5, <2>6, <2>7, <2>8, <2>9
<1> QED BY <1>1, <1>2

(* The kinds of event that are not about a window.                         *)
Quiet(events) == \A e \in events : e.kind \notin {"exhaustion", "tunnel"}

(* No other part of the path makes an event of these two kinds.            *)
LEMMA QuietEvents ==
  /\ \A p : Quiet(EndpointEvents(p)) /\ Quiet(SinkholeEvents(p)) /\ Quiet(HostEvents(p))
  /\ \A h : Quiet(DomainEvents(h))
  /\ \A p, a, o : Quiet(AliasEvents(p, a, o))
  /\ \A q : Quiet(DgaEvents(q))
  /\ \A p : Quiet(UserAgentEvents(p)) /\ Quiet(RequestEvents(p))
<1>1. \A p : Quiet(EndpointEvents(p)) BY DEF Quiet, EndpointEvents
<1>2. \A p : Quiet(SinkholeEvents(p)) BY DEF Quiet, SinkholeEvents
<1>3. \A p : Quiet(HostEvents(p)) BY DEF Quiet, HostEvents, HttpHeuristic
<1>4. \A h : Quiet(DomainEvents(h)) BY DEF Quiet, DomainEvents
<1>5. ASSUME NEW p, NEW a, NEW o PROVE Quiet(AliasEvents(p, a, o))
  <2>1. Quiet(DomainEvents(o)) BY <1>4
  <2>2. Quiet({[kind |-> "alias", trail |-> h.entry, info |-> h.info] : h \in a}) BY DEF Quiet
  <2>3. Quiet({}) BY DEF Quiet
  <2> QED BY <2>1, <2>2, <2>3 DEF AliasEvents
<1>6. \A q : Quiet(DgaEvents(q)) BY DEF Quiet, DgaEvents, Heuristic
<1>7. \A p : Quiet(UserAgentEvents(p)) BY DEF Quiet, UserAgentEvents, HttpHeuristic
<1>8. ASSUME NEW p PROVE Quiet(RequestEvents(p))
  <2>1. Quiet(UrlHit(p)) BY DEF Quiet, UrlHit, UrlEvent
  <2>2. Quiet(RequestFindings(p)) BY DEF Quiet, RequestFindings, HttpHeuristic
  <2>3. Quiet({}) BY DEF Quiet
  <2> QED BY <2>1, <2>2, <2>3 DEF RequestEvents
<1> QED BY <1>1, <1>2, <1>3, <1>4, <1>5, <1>6, <1>7, <1>8

(* A step that leaves the tables alone and reports nothing about them.     *)
LEMMA QuietStep ==
  ASSUME WindowInv, UNCHANGED <<exh, tun, told>>, sec' \in Nat, Quiet(out')
  PROVE  WindowInv' /\ OnceMore
<1>1. exh' = exh /\ tun' = tun /\ told' = told OBVIOUS
<1> QED BY <1>1 DEF WindowInv, ZonesMarked, PairsMarked, OnceMore, Quiet

(* The exhaustion table after a query still marks every zone that was      *)
(* reported in its hour.                                                   *)
LEMMA AfterExhaustionMarked ==
  ASSUME WindowInv, NEW q
  PROVE  /\ ZonesMarked(AfterExhaustion(q), told)
         /\ Counted(q) => /\ AfterExhaustion(q).marker = HourlyReset(exh, sec).marker
                          /\ AfterExhaustion(q).exhausted = HourlyReset(exh, sec).exhausted
<1> DEFINE reset == HourlyReset(exh, sec)
<1>1. ZonesMarked(exh, told) BY DEF WindowInv
<1>2. ZonesMarked(reset, told) BY <1>1, ZonesReset DEF WindowInv
<1>3. AfterExhaustion(q) = IF Counted(q) THEN ExhaustionObserved(reset, Zone(q), Below(q), sec)
                           ELSE IF Tracked(q) THEN reset ELSE exh
  BY DEF AfterExhaustion
<1> HIDE DEF reset
<1>4. CASE Counted(q)
  <2>1. AfterExhaustion(q) = ExhaustionObserved(reset, Zone(q), Below(q), sec) BY <1>3, <1>4
  <2> QED BY <1>2, <2>1, ZonesObserved DEF reset
<1>5. CASE ~Counted(q)
  BY <1>1, <1>2, <1>3, <1>5
<1> QED BY <1>4, <1>5

(* A zone is reported only if it has no mark, and gets one.                *)
LEMMA ExhaustedStep ==
  ASSUME WindowInv, NEW p, ExhaustedQuery(p), sec' = sec
  PROVE  WindowInv' /\ OnceMore
<1> DEFINE zone == Zone(p.name)
           seen == AfterExhaustion(p.name)
<1>1. /\ Swallowed(p.name) /\ tun' = tun
      /\ IF ReportsExhaustion(p.name, seen)
         THEN /\ exh' = MarkExhausted(seen, zone)
              /\ out' = {Heuristic("exhaustion", zone, p.name)}
              /\ told' = told \cup {<<"exhaustion", zone, seen.marker>>}
         ELSE exh' = seen /\ out' = {} /\ UNCHANGED told
  BY DEF ExhaustedQuery
<1>2. Counted(p.name) BY <1>1 DEF Swallowed
<1>3. /\ ZonesMarked(seen, told)
      /\ seen.marker = HourlyReset(exh, sec).marker
      /\ seen.exhausted = HourlyReset(exh, sec).exhausted
  BY <1>2, AfterExhaustionMarked
<1>4. ReportsExhaustion(p.name, seen) => zone \notin seen.exhausted
  BY <1>3 DEF ReportsExhaustion, ExhaustionOutcome
<1> HIDE DEF seen, zone
<1>5. CASE ReportsExhaustion(p.name, seen)
  <2>1. /\ exh' = MarkExhausted(seen, zone)
        /\ out' = {Heuristic("exhaustion", zone, p.name)}
        /\ told' = told \cup {<<"exhaustion", zone, seen.marker>>}
    BY <1>1, <1>5
  <2>2. /\ DOMAIN exh' = {"domains", "marker", "exhausted"}
        /\ exh'.marker = seen.marker /\ exh'.exhausted = seen.exhausted \cup {zone}
    BY <2>1, <1>3 DEF MarkExhausted, ZonesMarked
  <2>3. ZonesMarked(exh', told') BY <1>3, <2>1, <2>2 DEF ZonesMarked
  <2>4. <<"exhaustion", zone, seen.marker>> \notin told
    BY <1>3, <1>4, <1>5 DEF ZonesMarked
  <2>5. OnceMore BY <2>1, <2>2, <2>4 DEF OnceMore, Heuristic
  <2>6. PairsMarked(tun', told') BY <1>1, <2>1 DEF WindowInv, PairsMarked
  <2> QED BY <2>3, <2>5, <2>6 DEF WindowInv
<1>6. CASE ~ReportsExhaustion(p.name, seen)
  <2>1. exh' = seen /\ out' = {} /\ told' = told BY <1>1, <1>6
  <2> QED BY <1>1, <1>3, <2>1 DEF WindowInv, OnceMore
<1> QED BY <1>5, <1>6

(* A pair is reported by the query that marks it.                          *)
LEMMA CheckedStep ==
  ASSUME WindowInv, NEW p, CheckedQuery(p), sec' = sec
  PROVE  WindowInv' /\ OnceMore
<1> DEFINE pair == <<p.src, Zone(p.name)>>
           reset == WindowReset(tun, sec)
           ev == Evidence(p.name)
           ex == Exempt(Zone(p.name))
           events == TunnelEvents(p)
<1>1. /\ exh' = AfterExhaustion(p.name)
      /\ tun' = IF JudgesTunnel(p.name) THEN TunnelObserved(reset, pair, ev, ex, sec) ELSE tun
      /\ told' = told \cup {<<"tunnel", e.key, tun'.start>> : e \in events}
  BY DEF CheckedQuery
<1>2. \E c : out' = events \cup c /\ Quiet(c)
  <2>1. CASE p.type # "checked"
    <3>1. out' = events \cup {} BY <2>1 DEF CheckedQuery
    <3>2. Quiet({}) BY DEF Quiet
    <3> QED BY <3>1, <3>2
  <2>2. CASE p.type = "checked"
    <3>1. \E c : out' = events \cup EndpointEvents(p) \cup DomainEvents(c.hit)
      BY <2>2 DEF CheckedQuery
    <3>2. PICK c : out' = events \cup EndpointEvents(p) \cup DomainEvents(c.hit) BY <3>1
    <3>3. Quiet(EndpointEvents(p) \cup DomainEvents(c.hit)) BY QuietEvents DEF Quiet
    <3>4. out' = events \cup (EndpointEvents(p) \cup DomainEvents(c.hit)) BY <3>2
    <3> QED BY <3>3, <3>4
  <2> QED BY <2>1, <2>2
<1>3. ZonesMarked(exh', told) BY <1>1, AfterExhaustionMarked
<1>4. PairsMarked(tun, told) BY DEF WindowInv
<1>5. events = {} \/ /\ JudgesTunnel(p.name) /\ TunnelAlert(reset, pair, ev, ex, sec)
                     /\ events = {Heuristic("tunnel", pair, p.name)}
  BY DEF TunnelEvents
<1>6. PairsMarked(reset, told) BY <1>4, PairsReset DEF WindowInv
<1> HIDE DEF pair, reset, ev, ex, events
<1>7. PairsMarked(tun', told)
  <2>1. CASE JudgesTunnel(p.name) BY <1>1, <1>6, <2>1, PairsObserved
  <2>2. CASE ~JudgesTunnel(p.name) BY <1>1, <1>4, <2>2
  <2> QED BY <2>1, <2>2
<1>8. CASE events = {}
  <2>1. told' = told BY <1>1, <1>8
  <2>2. OnceMore BY <1>2, <1>8 DEF OnceMore, Quiet
  <2> QED BY <1>3, <1>7, <2>1, <2>2 DEF WindowInv
<1>9. CASE events # {}
  <2>1. /\ tun' = TunnelObserved(reset, pair, ev, ex, sec)
        /\ TunnelAlert(reset, pair, ev, ex, sec)
        /\ events = {Heuristic("tunnel", pair, p.name)}
    BY <1>1, <1>5, <1>9
  <2>2. /\ tun'.start = reset.start
        /\ pair \in DOMAIN tun'.pairs /\ tun'.pairs[pair].alerted
        /\ <<"tunnel", pair, reset.start>> \notin told
    BY <1>6, <2>1, PairsObserved
  <2>3. told' = told \cup {<<"tunnel", pair, tun'.start>>}
    BY <1>1, <2>1 DEF Heuristic
  <2>4. PairsMarked(tun', told') BY <1>7, <2>2, <2>3 DEF PairsMarked
  <2>5. ZonesMarked(exh', told') BY <1>3, <2>3 DEF ZonesMarked
  <2>6. \A e \in out' : /\ e.kind # "exhaustion"
                        /\ e.kind = "tunnel" => e = Heuristic("tunnel", pair, p.name)
    BY <1>2, <2>1 DEF Quiet, Heuristic
  <2>7. OnceMore BY <2>2, <2>6 DEF OnceMore, Heuristic
  <2> QED BY <2>4, <2>5, <2>7 DEF WindowInv
<1> QED BY <1>8, <1>9

(* Nothing is reported yet.                                                *)
LEMMA WindowInit == Init => WindowInv
  BY HourNat DEF Init, DnsInit, WindowInv, ZonesMarked, PairsMarked, EmptyExhaustion, EmptyTunnels

(* A datagram of port 53, by what it is.                                   *)
LEMMA WindowDatagram ==
  ASSUME WindowInv, NEW p, DnsDatagram(p)
  PROVE  WindowInv' /\ OnceMore
<1>0. sec' = sec /\ sec' \in Nat BY DEF DnsDatagram, WindowInv
<1>1. \/ Passed
      \/ ExhaustedQuery(p)
      \/ CheckedQuery(p)
      \/ \E more : Quiet(more) /\ AliasedResponse(p, more)
      \/ NxResponse(p)
  <2>1. Quiet(IF p.flags = "ok" THEN SinkholeEvents(p) ELSE {}) BY QuietEvents DEF Quiet
  <2> DEFINE more == IF p.flags = "ok" THEN SinkholeEvents(p) ELSE {}
  <2>2. \/ Passed \/ ExhaustedQuery(p) \/ CheckedQuery(p) \/ AliasedResponse(p, more)
        \/ NxResponse(p)
    BY DEF DnsDatagram
  <2> QED BY <2>1, <2>2
<1>2. CASE Passed BY <1>0, <1>2, QuietStep DEF Passed, Quiet
<1>3. CASE ExhaustedQuery(p) BY <1>0, <1>3, ExhaustedStep
<1>4. CASE CheckedQuery(p) BY <1>0, <1>4, CheckedStep
<1>5. ASSUME NEW more, Quiet(more), AliasedResponse(p, more)
      PROVE  WindowInv' /\ OnceMore
  <2>1. UNCHANGED <<exh, tun, told>> BY <1>5 DEF AliasedResponse
  <2>2. out' = more \/ \E a, o : out' = AliasEvents(p, a, o) \cup more
    BY <1>5 DEF AliasedResponse
  <2>3. Quiet(out') BY <1>5, <2>2, QuietEvents DEF Quiet
  <2> QED BY <1>0, <2>1, <2>3, QuietStep
<1>6. CASE NxResponse(p)
  <2>1. UNCHANGED <<exh, tun, told>> BY <1>6 DEF NxResponse
  <2>2. \A k, q : Quiet({Heuristic("nx", k, q)}) BY DEF Quiet, Heuristic
  <2>3. Quiet({}) BY DEF Quiet
  <2>4. \E events : Quiet(events) /\ out' = events \cup DgaEvents(p.name)
    <3>1. CASE out' = DgaEvents(p.name)
      <4>1. out' = {} \cup DgaEvents(p.name) BY <3>1
      <4> QED BY <4>1, <2>3
    <3>2. CASE ~(out' = DgaEvents(p.name))
      <4> DEFINE q == p.name
                 pruned == Prune(nx, sec)
                 exact == NxOver(pruned, q, sec)
                 one == NxObserved(pruned, q, FALSE, q, sec)
                 wild == Len(q) > 2 /\ ~exact /\ NxOver(one, ZoneKey(q), sec)
      <4>1. out' = (IF exact THEN {Heuristic("nx", q, q)}
                    ELSE IF wild /\ ~QuietZone(one, q)
                    THEN {Heuristic("nx", ZoneKey(q), q)} ELSE {}) \cup DgaEvents(q)
        BY <1>6, <3>2 DEF NxResponse
      <4> HIDE DEF exact, wild, one
      <4>2. \E events \in {{Heuristic("nx", p.name, p.name)},
                           {Heuristic("nx", ZoneKey(p.name), p.name)}, {}} :
              out' = events \cup DgaEvents(p.name)
        BY <4>1
      <4> QED BY <4>2, <2>2, <2>3
    <3> QED BY <3>1, <3>2
  <2>5. Quiet(out') BY <2>4, QuietEvents DEF Quiet
  <2> QED BY <1>0, <2>1, <2>5, QuietStep
<1> QED BY <1>1, <1>2, <1>3, <1>4, <1>5, <1>6

(* Every step keeps the marks and repeats no alert.                        *)
LEMMA WindowStep ==
  ASSUME WindowInv, Next
  PROVE  WindowInv' /\ OnceMore
<1>1. ASSUME NEW p, DnsDatagram(p) PROVE WindowInv' /\ OnceMore BY <1>1, WindowDatagram
<1>2. ASSUME NEW p, ServerName(p) PROVE WindowInv' /\ OnceMore
  <2>1. \E h : out' = DomainEvents(h) BY <1>2 DEF ServerName
  <2>2. Quiet(out') BY <2>1, QuietEvents
  <2>3. sec' \in Nat /\ UNCHANGED <<exh, tun, told>> BY <1>2 DEF ServerName, WindowInv
  <2> QED BY <2>2, <2>3, QuietStep
<1>3. ASSUME NEW p, RequestHost(p) PROVE WindowInv' /\ OnceMore
  <2>1. out' = HostEvents(p) \/ \E h : out' = DomainEvents(h) BY <1>3 DEF RequestHost
  <2>2. Quiet(out') BY <2>1, QuietEvents
  <2>3. sec' \in Nat /\ UNCHANGED <<exh, tun, told>> BY <1>3 DEF RequestHost, WindowInv
  <2> QED BY <2>2, <2>3, QuietStep
<1>4. ASSUME NEW p, Response(p) PROVE WindowInv' /\ OnceMore
  <2>1. Quiet(out') BY <1>4 DEF Response, Quiet, HttpHeuristic
  <2>3. sec' \in Nat /\ UNCHANGED <<exh, tun, told>> BY <1>4 DEF Response, WindowInv
  <2> QED BY <2>1, <2>3, QuietStep
<1>5. CASE RequestTarget
  <2> DEFINE p == req.packet
  <2>1. \/ out' = {HttpHeuristic("proxyProbe")}
        \/ \E d \in {{}} \cup {DomainEvents(c.hit) : c \in {Checked(clean, p.target, FALSE)}} :
             out' = UserAgentEvents(p) \cup RequestEvents(p) \cup d
    BY <1>5 DEF RequestTarget
  <2>2. Quiet({HttpHeuristic("proxyProbe")}) /\ Quiet({}) BY DEF Quiet, HttpHeuristic
  <2>3. Quiet(out') BY <2>1, <2>2, QuietEvents DEF Quiet
  <2>4. sec' \in Nat /\ UNCHANGED <<exh, tun, told>> BY <1>5 DEF RequestTarget, WindowInv
  <2> QED BY <2>3, <2>4, QuietStep
<1>6. CASE Tick
  <2>1. sec' \in Nat /\ UNCHANGED <<exh, tun, told>> /\ Quiet(out')
    BY <1>6 DEF Tick, WindowInv, Quiet
  <2> QED BY <2>1, QuietStep
<1>7. CASE Refresh
  <2>1. sec' \in Nat /\ UNCHANGED <<exh, tun, told>> /\ Quiet(out')
    BY <1>7 DEF Refresh, WindowInv, Quiet
  <2> QED BY <2>1, QuietStep
<1> QED BY <1>1, <1>2, <1>3, <1>4, <1>5, <1>6, <1>7 DEF Next

(* In every behaviour a zone is reported as exhausted at most once an hour *)
(* and a (source, zone) pair as a tunnel at most once a window.            *)
THEOREM SpecReportedOncePerWindow == Spec => ReportedOncePerWindow
<1>1. WindowInv /\ [Next]_vars => WindowInv'
  <2> SUFFICES ASSUME WindowInv, UNCHANGED vars PROVE WindowInv' BY WindowStep
  <2> QED BY DEF vars, pathVars, clockVars, dnsVars, WindowInv, ZonesMarked, PairsMarked
<1>2. WindowInv /\ [Next]_vars =>
        [\A e \in out' :
           /\ e.kind = "exhaustion" => <<"exhaustion", e.key, exh'.marker>> \notin told
           /\ e.kind = "tunnel" => <<"tunnel", e.key, tun'.start>> \notin told]_pathVars
  <2>1. CASE UNCHANGED vars BY <2>1 DEF vars
  <2>2. ASSUME WindowInv, Next
        PROVE  \A e \in out' :
           /\ e.kind = "exhaustion" => <<"exhaustion", e.key, exh'.marker>> \notin told
           /\ e.kind = "tunnel" => <<"tunnel", e.key, tun'.start>> \notin told
    BY <2>2, WindowStep DEF OnceMore
  <2> QED BY <2>1, <2>2
<1> QED BY <1>1, <1>2, WindowInit, PTL DEF Spec, ReportedOncePerWindow

-----------------------------------------------------------------------------
(* The whitelist walk.                                                     *)

(* The indices of a name.                                                  *)
LEMMA SomeDomain ==
  ASSUME NEW q \in Seq(Label)
  PROVE  DOMAIN q = 1..Len(q) /\ Len(q) \in Nat /\ DOMAIN q \subseteq Nat
  OBVIOUS

(* The depth is above that of a parent exactly if neither the parent nor a *)
(* name below it is whitelisted; it is 0 if no parent is.                  *)
LEMMA DepthOf ==
  ASSUME NEW q \in Seq(Label)
  PROVE  /\ WhitelistDepth(q) \in 0..Len(q)
         /\ WhitelistDepth(q) > 0 <=> \E i \in DOMAIN q : Parent(q, i) \in Whitelist
         /\ \A i \in DOMAIN q : Len(q) + 1 - i > WhitelistDepth(q)
                                  <=> \A j \in 1..i : Parent(q, j) \notin Whitelist
<1> DEFINE at == {i \in DOMAIN q : Parent(q, i) \in Whitelist}
<1>0. DOMAIN q = 1..Len(q) /\ Len(q) \in Nat BY SomeDomain
<1>1. WhitelistDepth(q) = IF at = {} THEN 0 ELSE Len(q) + 1 - Min(at) BY DEF WhitelistDepth
<1>2. at \subseteq 1..Len(q) /\ at \in SUBSET Nat BY <1>0
<1>3. \A i \in 1..Len(q) : i \in at <=> Parent(q, i) \in Whitelist BY <1>0
<1> HIDE DEF at
<1>4. CASE at = {}
  BY <1>0, <1>1, <1>3, <1>4
<1>5. CASE at # {}
  <2>1. Min(at) \in at /\ \A y \in at : Min(at) <= y BY <1>2, <1>5, MinIn
  <2>2. Min(at) \in 1..Len(q) BY <1>2, <2>1
  <2>3. WhitelistDepth(q) = Len(q) + 1 - Min(at) BY <1>1, <1>5
  <2>4. \A i \in 1..Len(q) : Len(q) + 1 - i > WhitelistDepth(q) <=> i < Min(at)
    BY <1>0, <2>2, <2>3
  <2>5. \A i \in 1..Len(q) : i < Min(at) <=> \A j \in 1..i : j \notin at
    BY <1>0, <1>2, <2>1, <2>2
  <2>6. \A i \in 1..Len(q) : \A j \in 1..i : j \in 1..Len(q) BY <1>0
  <2>7. WhitelistDepth(q) \in 1..Len(q) BY <1>0, <2>2, <2>3
  <2>8. Parent(q, Min(at)) \in Whitelist /\ Min(at) \in DOMAIN q BY <1>0, <1>3, <2>1, <2>2
  <2>9. WhitelistDepth(q) \in 0..Len(q) /\ WhitelistDepth(q) > 0 BY <1>0, <2>7
  <2>10. \A i \in DOMAIN q : Len(q) + 1 - i > WhitelistDepth(q)
                               <=> \A j \in 1..i : Parent(q, j) \notin Whitelist
    BY <1>0, <1>3, <2>4, <2>5, <2>6
  <2> QED BY <2>8, <2>9, <2>10
<1> QED BY <1>4, <1>5

(* The first parent of a name is the name.                                 *)
LEMMA WholeName ==
  ASSUME NEW q \in Seq(Label)
  PROVE  Parent(q, 1) = q
  BY DEF Parent

(* A depth of the whole name is the name's own entry.                      *)
LEMMA OwnEntry ==
  ASSUME NEW q \in Seq(Label), WhitelistDepth(q) >= Len(q), WhitelistDepth(q) > 0
  PROVE  q \in Whitelist
<1>1. Len(q) > 0 /\ 1 \in DOMAIN q BY DepthOf
<1>2. ~(Len(q) + 1 - 1 > WhitelistDepth(q)) BY <1>1, DepthOf
<1>3. \E j \in 1..1 : Parent(q, j) \in Whitelist BY <1>1, <1>2, DepthOf
<1> QED BY <1>3, WholeName

-----------------------------------------------------------------------------
(* Requests.                                                               *)

RequestInv ==
  /\ offer \in Offers
  /\ req = NoRequest \/ \E p \in offer.traffic : p.kind = "http"
                                                  /\ req = [state |-> "host", packet |-> p]

(* No request is under way at first.                                       *)
LEMMA RequestInit == Init => RequestInv
  BY DEF Init, DnsInit, HttpInit, RequestInv

(* The request between its two steps is one of the traffic.                *)
LEMMA RequestStep == RequestInv /\ [Next]_vars => RequestInv'
<1> SUFFICES ASSUME RequestInv, [Next]_vars PROVE RequestInv' OBVIOUS
<1>1. offer' = offer
  BY DEF Next, vars, pathVars, clockVars, DnsDatagram, ServerName, RequestHost, Response,
         RequestTarget, Tick, Refresh
<1>2. \/ req' = req
      \/ req' = NoRequest
      \/ \E p \in offer.traffic : p.kind = "http" /\ req' = [state |-> "host", packet |-> p]
  BY DEF Next, vars, RequestHost, Response, RequestTarget
<1> QED BY <1>1, <1>2 DEF RequestInv

(* What the assumption says of the packet of a request.                    *)
LEMMA RequestNames ==
  ASSUME RequestInv, req.state = "host"
  PROVE  LET p == req.packet
         IN  /\ HostOf(p) \in Seq(Label) /\ p.checks \in Seq(Label)
             /\ AsksProxy(p) => p.target \in Names
<1>1. req # NoRequest BY DEF NoRequest
<1>2. PICK p \in offer.traffic : p.kind = "http" /\ req = [state |-> "host", packet |-> p]
  BY <1>1 DEF RequestInv
<1>3. req.packet = p BY <1>2
<1>4. /\ {p.host, p.target} \subseteq Seq(Label) /\ p.checks \in Seq(Label)
      /\ p.form \in {"absolute", "embedded", "connect"} => p.target \in Names
  BY <1>2, TrafficAssumption DEF RequestInv
<1> QED BY <1>3, <1>4 DEF HostOf, AsksProxy

(* Each candidate is tried without and with the host.                      *)
LEMMA UrlFound ==
  ASSUME NEW p, HostOf(p) \in Seq(Label), p.checks \in Seq(Label),
         NEW c \in Range(p.checks),
         {<<c>>, HostOf(p) \o <<c>>} \cap DOMAIN Trails.urls # {}
  PROVE  UrlHit(p) # {} /\ \E e \in UrlHit(p) : e.kind = "url"
<1> DEFINE n == Len(p.checks)
           Key(i) == IF i > 2 * n THEN HostOf(p) \o <<"/">>
                     ELSE (IF i % 2 = 1 THEN <<>> ELSE HostOf(p)) \o <<p.checks[(i + 1) \div 2]>>
           found == {i \in 1..(2 * n + 1) : Key(i) \in DOMAIN Trails.urls}
<1>1. UrlHit(p) = IF found = {} THEN {} ELSE {UrlEvent(Key(Min(found)))} BY DEF UrlHit
<1>2. PICK k \in 1..n : p.checks[k] = c BY DEF Range
<1>3. n \in Nat /\ k \in Nat /\ c \in Label BY <1>2
<1>4. Key(2 * k - 1) = <<c>>
  <2>1. 2 * k - 1 <= 2 * n /\ (2 * k - 1) % 2 = 1 /\ (2 * k - 1 + 1) \div 2 = k BY <1>2, <1>3
  <2>2. Key(2 * k - 1) = <<>> \o <<p.checks[k]>> BY <1>2, <1>3, <2>1
  <2> QED BY <1>2, <1>3, <2>2
<1>5. Key(2 * k) = HostOf(p) \o <<c>>
  <2>1. 2 * k <= 2 * n /\ (2 * k) % 2 = 0 /\ (2 * k + 1) \div 2 = k BY <1>2, <1>3
  <2>2. ~(2 * k > 2 * n) BY <1>2, <1>3
  <2>3. \A i : ~(i > 2 * n) /\ i % 2 # 1 => Key(i) = HostOf(p) \o <<p.checks[(i + 1) \div 2]>>
    BY Zenon
  <2>4. (2 * k) % 2 # 1 BY <2>1
  <2>5. Key(2 * k) = HostOf(p) \o <<p.checks[(2 * k + 1) \div 2]>>
    <3> HIDE DEF Key
    <3> QED BY <2>2, <2>3, <2>4
  <2> QED BY <1>2, <2>1, <2>5
<1>6. {2 * k - 1, 2 * k} \subseteq 1..(2 * n + 1) BY <1>2, <1>3
<1> HIDE DEF Key, n
<1>7. found # {} BY <1>4, <1>5, <1>6
<1>8. UrlHit(p) = {UrlEvent(Key(Min(found)))} BY <1>1, <1>7
<1>9. UrlEvent(Key(Min(found))).kind = "url" BY DEF UrlEvent
<1> QED BY <1>8, <1>9

(* What PlatformKeepsTrails says of a step.                                *)
KeepsTrails ==
  req.state = "host" /\ req' = NoRequest =>
    LET p == req.packet
        host == HostOf(p)
        listed == \E c \in Range(p.checks) : {<<c>>, host \o <<c>>} \cap DOMAIN Trails.urls # {}
    IN  /\ listed /\ host \notin Whitelist /\ ~ProxyProbe(p)
             => \E e \in out' : e.kind = "url"
        /\ (\E i \in DOMAIN host : Parent(host, i) \in Whitelist)
             => \A e \in out' : e.kind \notin {"path", "body", "download", "file"}

(* The second half of a request.                                           *)
LEMMA PlatformStep ==
  ASSUME RequestInv, Next
  PROVE  KeepsTrails
<1> SUFFICES ASSUME req.state = "host", req' = NoRequest PROVE KeepsTrails BY DEF KeepsTrails
<1> DEFINE p == req.packet
           host == HostOf(p)
<1>1. req # NoRequest BY DEF NoRequest
<1>2. RequestTarget
  BY <1>1 DEF Next, Idle, RequestHost, Response
<1>3. host \in Seq(Label) /\ p.checks \in Seq(Label) BY RequestNames
<1>4. \/ ProxyProbe(p) /\ out' = {HttpHeuristic("proxyProbe")}
      \/ \E h : out' = UserAgentEvents(p) \cup RequestEvents(p) \cup DomainEvents(h)
      \/ out' = UserAgentEvents(p) \cup RequestEvents(p)
  BY <1>2 DEF RequestTarget
<1> HIDE DEF p
<1>5. ASSUME NEW c \in Range(p.checks), {<<c>>, host \o <<c>>} \cap DOMAIN Trails.urls # {},
             host \notin Whitelist, ~ProxyProbe(p)
      PROVE  \E e \in out' : e.kind = "url"
  <2>1. UrlHit(p) # {} /\ \E e \in UrlHit(p) : e.kind = "url" BY <1>3, <1>5, UrlFound
  <2>2. ~(WhitelistDepth(host) >= Len(host) /\ WhitelistDepth(host) > 0) BY <1>3, <1>5, OwnEntry
  <2>3. RequestEvents(p) = UrlHit(p) BY <2>1, <2>2 DEF RequestEvents
  <2>4. UrlHit(p) \subseteq out' BY <1>4, <1>5, <2>3
  <2> QED BY <2>1, <2>4
<1>6. ASSUME NEW i \in DOMAIN host, Parent(host, i) \in Whitelist, NEW e \in out'
      PROVE  e.kind \notin {"path", "body", "download", "file"}
  <2>1. WhitelistDepth(host) > 0 BY <1>3, <1>6, DepthOf
  <2>2. RequestEvents(p) \subseteq UrlHit(p) BY <2>1 DEF RequestEvents
  <2>3. \A x \in UrlHit(p) : x.kind = "url" BY DEF UrlHit, UrlEvent
  <2>4. \A x \in UserAgentEvents(p) : x.kind = "userAgent" BY DEF UserAgentEvents, HttpHeuristic
  <2>5. \A h : \A x \in DomainEvents(h) : x.kind = "dns" BY DEF DomainEvents
  <2>6. HttpHeuristic("proxyProbe").kind = "proxyProbe" BY DEF HttpHeuristic
  <2> QED BY <1>4, <1>6, <2>2, <2>3, <2>4, <2>5, <2>6
<1> QED BY <1>5, <1>6 DEF KeepsTrails, p

(* In every behaviour a host that is whitelisted only through a parent     *)
(* loses the heuristics, not its trails.                                   *)
THEOREM SpecPlatformKeepsTrails == Spec => PlatformKeepsTrails
<1>1. RequestInv /\ [Next]_vars => [KeepsTrails]_vars BY PlatformStep
<1>2. Spec => [][KeepsTrails]_vars BY <1>1, RequestInit, RequestStep, PTL DEF Spec
<1> QED BY <1>2 DEF PlatformKeepsTrails, KeepsTrails

-----------------------------------------------------------------------------
(* The SIEVE cache.                                                        *)

Node == [key : Names, visited : BOOLEAN]

HashAt(list, i) == HashOf[list[i].key]

(* A list of nodes of different hashes, no more than fit, and a hand that  *)
(* is at one of them or nowhere.                                           *)
GoodList(list, hand) ==
  /\ list \in Seq(Node)
  /\ Len(list) <= Capacity
  /\ \A i, j \in 1..Len(list) : HashAt(list, i) = HashAt(list, j) => i = j
  /\ hand = NoHand \/ \E i \in 1..Len(list) : HashAt(list, i) = hand

IsCache(cache) ==
  DOMAIN cache = {"list", "hand", "door"} /\ GoodList(cache.list, cache.hand)

(* The cache at the start.                                                 *)
LEMMA EmptyIsCache == IsCache(EmptyCache) /\ Held(EmptyCache) = {}
  BY SieveAssumption DEF IsCache, GoodList, EmptyCache, Held, NoHand

(* What the nodes of a cache hold.                                         *)
LEMMA HeldKeys ==
  ASSUME NEW cache, IsCache(cache)
  PROVE  /\ DOMAIN cache.list = 1..Len(cache.list) /\ Len(cache.list) \in Nat
         /\ Held(cache) = {cache.list[i].key : i \in 1..Len(cache.list)}
         /\ Held(cache) \subseteq Names
         /\ \A i \in 1..Len(cache.list) : /\ cache.list[i] \in Node /\ cache.list[i].key \in Names
                                          /\ HashAt(cache.list, i) \in Nat
<1>1. DOMAIN cache.list = 1..Len(cache.list) /\ Len(cache.list) \in Nat
      /\ \A i \in 1..Len(cache.list) : cache.list[i] \in Node
  BY DEF IsCache, GoodList
<1>2. \A i \in 1..Len(cache.list) : cache.list[i].key \in Names BY <1>1 DEF Node
<1>3. \A i \in 1..Len(cache.list) : HashAt(cache.list, i) \in Nat
  BY <1>2, SieveAssumption DEF HashAt, Names
<1>4. Held(cache) = {cache.list[i].key : i \in 1..Len(cache.list)} BY <1>1 DEF Held
<1> QED BY <1>1, <1>2, <1>3, <1>4

(* The node of a hash, if there is one.                                    *)
LEMMA NodeFound ==
  ASSUME NEW cache, IsCache(cache), NEW h, NEW m, m = NodeOf(cache, h)
  PROVE  \/ m = 0 /\ \A i \in 1..Len(cache.list) : HashAt(cache.list, i) # h
         \/ m \in 1..Len(cache.list) /\ HashAt(cache.list, m) = h
<1> DEFINE at == {i \in DOMAIN cache.list : HashOf[cache.list[i].key] = h}
<1>1. m = IF at = {} THEN 0 ELSE Min(at) BY DEF NodeOf
<1>2. at = {i \in 1..Len(cache.list) : HashAt(cache.list, i) = h}
  BY HeldKeys DEF HashAt
<1> HIDE DEF at
<1>3. at \in SUBSET Nat BY <1>2, HeldKeys
<1>4. CASE at = {} BY <1>1, <1>2, <1>4
<1>5. CASE at # {}
  <2>1. m \in at BY <1>1, <1>3, <1>5, MinIn
  <2> QED BY <1>2, <2>1
<1> QED BY <1>4, <1>5

(* The cache holds as many names as it has nodes.                          *)
LEMMA HeldCount ==
  ASSUME NEW cache, IsCache(cache)
  PROVE  /\ IsFiniteSet(Held(cache)) /\ Cardinality(Held(cache)) = Len(cache.list)
         /\ \A i, j \in 1..Len(cache.list) : cache.list[i].key = cache.list[j].key => i = j
<1> DEFINE n == Len(cache.list)
           f == [i \in 1..n |-> cache.list[i].key]
<1>1. n \in Nat BY HeldKeys
<1>2. \A i, j \in 1..n : cache.list[i].key = cache.list[j].key => i = j
  BY DEF IsCache, GoodList, HashAt
<1>3. Held(cache) = {cache.list[i].key : i \in 1..n} BY HeldKeys
<1> HIDE DEF n
<1>4. f \in [1..n -> Held(cache)] BY <1>3
<1>5. f \in Injection(1..n, Held(cache)) BY <1>2, <1>4 DEF Injection, IsInjective
<1>6. f \in Surjection(1..n, Held(cache)) BY <1>3, <1>4 DEF Surjection
<1>7. IsFiniteSet(1..n) /\ Cardinality(1..n) = n BY <1>1, FS_Interval
<1>8. ExistsBijection(1..n, Held(cache)) BY <1>5, <1>6 DEF ExistsBijection, Bijection
<1>9. IsFiniteSet(Held(cache)) /\ Cardinality(Held(cache)) = Cardinality(1..n)
  BY <1>7, <1>8, FS_Bijection
<1> QED BY <1>2, <1>7, <1>9 DEF n

(* Changing bits only.                                                     *)
LEMMA SameKeys ==
  ASSUME NEW cache, IsCache(cache), NEW list \in Seq(Node), Len(list) = Len(cache.list),
         \A i \in 1..Len(list) : list[i].key = cache.list[i].key,
         NEW t, t = [cache EXCEPT !.list = list]
  PROVE  IsCache(t) /\ Held(t) = Held(cache)
<1>1. DOMAIN t = {"list", "hand", "door"} /\ t.list = list /\ t.hand = cache.hand
  BY DEF IsCache, GoodList
<1>2. \A i \in 1..Len(list) : HashAt(list, i) = HashAt(cache.list, i) BY DEF HashAt
<1>3. IsCache(t) BY <1>1, <1>2 DEF IsCache, GoodList
<1>4. Held(t) = {list[i].key : i \in 1..Len(list)} BY <1>1, <1>3, HeldKeys
<1>5. Held(cache) = {cache.list[i].key : i \in 1..Len(list)} BY HeldKeys
<1>6. {list[i].key : i \in 1..Len(list)} = {cache.list[i].key : i \in 1..Len(list)} OBVIOUS
<1> QED BY <1>3, <1>4, <1>5, <1>6

(* A hit on the cache sets a bit.                                          *)
LEMMA TouchedCache ==
  ASSUME NEW cache, IsCache(cache), NEW k \in Names, NEW t, t = Touched(cache, k)
  PROVE  IsCache(t) /\ Held(t) = Held(cache)
<1>1. CASE Hit(cache, k)
  <2> DEFINE m == NodeOf(cache, HashOf[k])
             list == [cache.list EXCEPT ![m] = [cache.list[m] EXCEPT !.visited = TRUE]]
  <2>1. t = [cache EXCEPT !.list[m].visited = TRUE] BY <1>1 DEF Touched
  <2>2. PICK j \in 1..Len(cache.list) : cache.list[j].key = k BY <1>1, HeldKeys DEF Hit
  <2>3. m \in 1..Len(cache.list) BY <2>2, NodeFound DEF HashAt
  <2> HIDE DEF m
  <2>4. t = [cache EXCEPT !.list = list] BY <2>1 DEF IsCache, GoodList
  <2>5. /\ list \in Seq(Node) /\ Len(list) = Len(cache.list)
        /\ \A i \in 1..Len(list) : list[i].key = cache.list[i].key
    <3>1. cache.list \in Seq(Node) BY DEF IsCache, GoodList
    <3>a. \A i \in 1..Len(cache.list) : cache.list[i] \in Node BY <3>1
    <3>b. DOMAIN cache.list = 1..Len(cache.list) BY <3>1
    <3>2. \A i \in 1..Len(cache.list) :
            list[i] = IF i = m THEN [cache.list[m] EXCEPT !.visited = TRUE] ELSE cache.list[i]
      BY <2>3, <3>b
    <3>3. \A x \in Node : [x EXCEPT !.visited = TRUE] \in Node
                          /\ [x EXCEPT !.visited = TRUE].key = x.key
      BY DEF Node
    <3>4. \A i \in 1..Len(cache.list) : list[i] \in Node /\ list[i].key = cache.list[i].key
      BY <2>3, <3>a, <3>2, <3>3
    <3>5. DOMAIN list = 1..Len(cache.list) /\ Len(cache.list) \in Nat BY <3>1
    <3>6. list = [i \in 1..Len(cache.list) |-> list[i]] BY <3>5
    <3> HIDE DEF list
    <3>7. list \in [1..Len(cache.list) -> Node] BY <3>4, <3>6
    <3>8. list \in Seq(Node) /\ Len(list) = Len(cache.list) BY <3>5, <3>7
    <3> QED BY <3>4, <3>8
  <2> QED BY <2>4, <2>5, SameKeys
<1>2. CASE ~Hit(cache, k) BY <1>2 DEF Touched
<1> QED BY <1>1, <1>2

(* A sequence without one of its elements.                                 *)
LEMMA RemovedAt ==
  ASSUME NEW S, NEW s \in Seq(S), NEW v \in 1..Len(s), NEW r, r = RemoveAt(s, v)
  PROVE  /\ r \in Seq(S) /\ Len(r) = Len(s) - 1
         /\ \A i \in 1..Len(r) : r[i] = IF i < v THEN s[i] ELSE s[i + 1]
<1> DEFINE a == SubSeq(s, 1, v - 1)
           b == SubSeq(s, v + 1, Len(s))
<1>1. a \in Seq(S) /\ Len(a) = v - 1 /\ \A i \in 1..(v - 1) : a[i] = s[i] OBVIOUS
<1>2. b \in Seq(S) /\ Len(b) = Len(s) - v /\ \A i \in 1..(Len(s) - v) : b[i] = s[v + i] OBVIOUS
<1>3. r = a \o b BY DEF RemoveAt
<1> HIDE DEF a, b
<1>4. r \in Seq(S) /\ Len(r) = Len(s) - 1
  <2>a. a \in Seq(S) /\ b \in Seq(S) BY <1>1, <1>2
  <2>b. a \o b \in Seq(S) BY <2>a
  <2>c. Len(a \o b) = Len(a) + Len(b) BY <2>a
  <2>1. r \in Seq(S) /\ Len(r) = Len(a) + Len(b) BY <1>3, <2>b, <2>c
  <2>2. Len(s) \in Nat /\ v \in Int OBVIOUS
  <2> QED BY <1>1, <1>2, <2>1, <2>2
<1>5. ASSUME NEW i \in 1..Len(r) PROVE r[i] = IF i < v THEN s[i] ELSE s[i + 1]
  <2>1. CASE i < v BY <1>1, <1>2, <1>3, <1>4, <2>1
  <2>2. CASE ~(i < v)
    <3>1. r[i] = b[i - (v - 1)] BY <1>1, <1>2, <1>3, <1>4, <2>2
    <3>2. i - (v - 1) \in 1..(Len(s) - v) /\ v + (i - (v - 1)) = i + 1 BY <1>4, <2>2
    <3> QED BY <1>2, <2>2, <3>1, <3>2
  <2> QED BY <2>1, <2>2
<1> QED BY <1>4, <1>5

(* The lap of the hand stays in the list.                                  *)
LEMMA LapInList ==
  ASSUME NEW n \in Nat, n >= 1, NEW start \in 1..n, NEW k \in 0..n
  PROVE  LapNode(start, n, k) \in 1..n
<1>1. start + n - 1 - k \in Nat /\ n > 0 OBVIOUS
<1> DEFINE a == start + n - 1 - k
<1>2. a % n \in 0..(n - 1)
  <2> HIDE DEF a
  <2> QED BY <1>1 DEF a
<1> QED BY <1>2 DEF LapNode

(* evict() drops one node.                                                 *)
LEMMA EvictCache ==
  ASSUME NEW cache, IsCache(cache), Len(cache.list) >= 1, NEW t, t = Evict(cache)
  PROVE  /\ IsCache(t) /\ Len(t.list) = Len(cache.list) - 1
         /\ \E v \in 1..Len(cache.list) : Held(t) = Held(cache) \ {cache.list[v].key}
<1> DEFINE n == Len(cache.list)
           start == IF cache.hand = NoHand THEN n ELSE NodeOf(cache, cache.hand)
           ends == {k \in 0..n : k = n \/ ~cache.list[LapNode(start, n, k)].visited}
           stop == Min(ends)
           passed == {LapNode(start, n, k) : k \in 0..(stop - 1)}
           victim == LapNode(start, n, stop)
           swept == [i \in 1..n |-> [cache.list[i] EXCEPT !.visited = @ /\ i \notin passed]]
           list == RemoveAt(swept, victim)
           hand == IF victim = 1 THEN NoHand ELSE HashOf[cache.list[victim - 1].key]
<1>1. t = [cache EXCEPT !.list = list, !.hand = hand] BY DEF Evict
<1>2. n \in Nat /\ n >= 1 /\ n <= Capacity /\ Capacity \in Nat
  BY HeldKeys, SieveAssumption DEF IsCache, GoodList
<1>3. start \in 1..n
  <2>1. CASE cache.hand = NoHand BY <1>2, <2>1
  <2>2. CASE cache.hand # NoHand
    <3>1. \E i \in 1..n : HashAt(cache.list, i) = cache.hand BY <2>2 DEF IsCache, GoodList
    <3>2. NodeOf(cache, cache.hand) \in 1..n BY <3>1, NodeFound
    <3> QED BY <2>2, <3>2
  <2> QED BY <2>1, <2>2
<1> HIDE DEF start
<1>4. stop \in 0..n
  <2>1. ends \in SUBSET Nat /\ n \in ends /\ ends \subseteq 0..n BY <1>2
  <2> HIDE DEF ends
  <2> QED BY <2>1, MinIn
<1> HIDE DEF stop, n
<1>5. victim \in 1..n BY <1>2, <1>3, <1>4, LapInList
<1> HIDE DEF victim, passed
<1>6. /\ swept \in Seq(Node) /\ Len(swept) = n
      /\ \A i \in 1..n : swept[i].key = cache.list[i].key
  <2>1. \A x \in Node : \A b \in BOOLEAN : /\ [x EXCEPT !.visited = @ /\ b] \in Node
                                           /\ [x EXCEPT !.visited = @ /\ b].key = x.key
    BY DEF Node
  <2>2. \A i \in 1..n : cache.list[i] \in Node BY HeldKeys DEF n
  <2>3. \A i \in 1..n : swept[i] = [cache.list[i] EXCEPT !.visited = @ /\ i \notin passed]
    BY Zenon
  <2>4. \A i \in 1..n : swept[i] \in Node /\ swept[i].key = cache.list[i].key
    BY <2>1, <2>2, <2>3
  <2>5. DOMAIN swept = 1..n /\ swept = [i \in 1..n |-> swept[i]] BY Zenon
  <2> HIDE DEF swept
  <2>6. swept \in [1..n -> Node] BY <2>4, <2>5
  <2>7. swept \in Seq(Node) /\ Len(swept) = n BY <1>2, <2>5, <2>6
  <2> QED BY <2>4, <2>7
<1> HIDE DEF swept
<1>7. /\ list \in Seq(Node) /\ Len(list) = n - 1
      /\ \A i \in 1..(n - 1) : list[i] = IF i < victim THEN swept[i] ELSE swept[i + 1]
  <2>1. swept \in Seq(Node) /\ victim \in 1..Len(swept) BY <1>5, <1>6
  <2>2. /\ list \in Seq(Node) /\ Len(list) = Len(swept) - 1
        /\ \A i \in 1..Len(list) : list[i] = IF i < victim THEN swept[i] ELSE swept[i + 1]
    BY <2>1, RemovedAt
  <2> QED BY <1>6, <2>2
<1> HIDE DEF list
<1> DEFINE Old(i) == IF i < victim THEN i ELSE i + 1
<1>8. \A i \in 1..(n - 1) : Old(i) \in 1..n /\ Old(i) # victim BY <1>2, <1>5
<1>9. \A i \in 1..(n - 1) : list[i].key = cache.list[Old(i)].key
  BY <1>2, <1>5, <1>6, <1>7, <1>8
<1>10. \A i, j \in 1..(n - 1) : Old(i) = Old(j) => i = j BY <1>2, <1>5
<1>11. \A m \in 1..n : m # victim => \E i \in 1..(n - 1) : Old(i) = m
  <2> SUFFICES ASSUME NEW m \in 1..n, m # victim PROVE \E i \in 1..(n - 1) : Old(i) = m OBVIOUS
  <2>1. CASE m < victim
    <3>1. m \in 1..(n - 1) /\ Old(m) = m BY <1>2, <1>5, <2>1
    <3> QED BY <3>1
  <2>2. CASE m > victim
    <3>1. m - 1 \in 1..(n - 1) /\ Old(m - 1) = m BY <1>2, <1>5, <2>2
    <3> QED BY <3>1
  <2> QED BY <1>5, <2>1, <2>2
<1>12. victim # 1 => victim - 1 \in 1..(n - 1) /\ Old(victim - 1) = victim - 1
  BY <1>2, <1>5
<1> HIDE DEF Old
<1>13. \A i \in 1..(n - 1) : HashAt(list, i) = HashAt(cache.list, Old(i)) BY <1>9 DEF HashAt
<1>14. DOMAIN t = {"list", "hand", "door"} /\ t.list = list /\ t.hand = hand
  BY <1>1 DEF IsCache, GoodList
<1>15. \A i, j \in 1..(n - 1) : HashAt(list, i) = HashAt(list, j) => i = j
  BY <1>8, <1>10, <1>13 DEF IsCache, GoodList, n
<1>16. hand = NoHand \/ \E i \in 1..(n - 1) : HashAt(list, i) = hand
  <2>1. CASE victim = 1 BY <2>1
  <2>2. CASE victim # 1
    <3>1. hand = HashAt(cache.list, victim - 1) BY <2>2 DEF HashAt
    <3> QED BY <1>12, <1>13, <2>2, <3>1
  <2> QED BY <2>1, <2>2
<1> HIDE DEF hand
<1>17. IsCache(t)
  <2>1. n - 1 <= Capacity BY <1>2
  <2> QED BY <1>7, <1>14, <1>15, <1>16, <2>1 DEF IsCache, GoodList
<1>18. Held(t) = {list[i].key : i \in 1..(n - 1)} BY <1>7, <1>14, <1>17, HeldKeys
<1>19. Held(cache) = {cache.list[i].key : i \in 1..n} BY HeldKeys DEF n
<1>20. \A i, j \in 1..n : cache.list[i].key = cache.list[j].key => i = j BY HeldCount DEF n
<1>21. Held(t) = Held(cache) \ {cache.list[victim].key}
  <2>1. \A x \in Held(t) : x \in Held(cache) /\ x # cache.list[victim].key
    BY <1>5, <1>8, <1>9, <1>18, <1>19, <1>20
  <2>2. ASSUME NEW x \in Held(cache), x # cache.list[victim].key PROVE x \in Held(t)
    <3>1. PICK m \in 1..n : x = cache.list[m].key BY <1>19
    <3>2. m # victim BY <2>2, <3>1
    <3>3. PICK i \in 1..(n - 1) : Old(i) = m BY <1>11, <3>2
    <3> QED BY <1>9, <1>18, <3>1, <3>3
  <2> QED BY <2>1, <2>2
<1> QED BY <1>5, <1>7, <1>14, <1>17, <1>21 DEF n

KeysOf(list) == {list[i].key : i \in 1..Len(list)}

(* A good list makes a cache, and holds its keys.                          *)
LEMMA MakesCache ==
  ASSUME NEW t, NEW list, DOMAIN t = {"list", "hand", "door"}, t.list = list,
         GoodList(list, t.hand)
  PROVE  IsCache(t) /\ Held(t) = KeysOf(list)
<1>1. IsCache(t) BY DEF IsCache
<1> QED BY <1>1, HeldKeys DEF KeysOf

(* A new node at the head.                                                 *)
LEMMA PrependCache ==
  ASSUME NEW cache, IsCache(cache), Len(cache.list) < Capacity, NEW k \in Names,
         \A h \in Held(cache) : ~SameHash(h, k),
         NEW t, t = [cache EXCEPT !.list = <<[key |-> k, visited |-> FALSE]>> \o @]
  PROVE  IsCache(t) /\ Held(t) = Held(cache) \cup {k}
<1> DEFINE node == [key |-> k, visited |-> FALSE]
           n == Len(cache.list)
           list == <<node>> \o cache.list
<1>1. DOMAIN t = {"list", "hand", "door"} /\ t.list = list /\ t.hand = cache.hand
  BY DEF IsCache, GoodList
<1>2. node \in Node /\ node.key = k BY DEF Node
<1>3. cache.list \in Seq(Node) /\ n \in Nat BY HeldKeys DEF IsCache, GoodList
<1> HIDE DEF node
<1>4. <<node>> \in Seq(Node) /\ Len(<<node>>) = 1 BY <1>2
<1>5. list \in Seq(Node) BY <1>3, <1>4
<1>6. Len(list) = n + 1 BY <1>3, <1>4
<1>7. list[1] = node BY <1>3, <1>4
<1>8. \A i \in 1..n : list[i + 1] = cache.list[i]
  <2> SUFFICES ASSUME NEW i \in 1..n PROVE list[i + 1] = cache.list[i] OBVIOUS
  <2>1. i + 1 \in 1..(n + 1) /\ ~(i + 1 <= 1) /\ (i + 1) - 1 = i BY <1>3
  <2> QED BY <1>3, <1>4, <2>1
<1> HIDE DEF list
<1>9. \A i \in 1..(n + 1) : i = 1 \/ (i - 1 \in 1..n /\ (i - 1) + 1 = i) BY <1>3
<1>10. \A i \in 1..(n + 1) : i # 1 => list[i] = cache.list[i - 1] BY <1>8, <1>9
<1>11. Held(cache) = {cache.list[i].key : i \in 1..n} BY HeldKeys
<1> HIDE DEF n
<1>12. \A i \in 1..n : HashAt(cache.list, i) # HashOf[k]
  BY <1>11 DEF SameHash, HashAt
<1>13. HashAt(list, 1) = HashOf[k] BY <1>2, <1>7 DEF HashAt
<1>14. \A i \in 1..(n + 1) : i # 1 => HashAt(list, i) = HashAt(cache.list, i - 1)
  BY <1>10 DEF HashAt
<1>15. \A i, j \in 1..(n + 1) : HashAt(list, i) = HashAt(list, j) => i = j
  <2> SUFFICES ASSUME NEW i \in 1..(n + 1), NEW j \in 1..(n + 1),
                      HashAt(list, i) = HashAt(list, j)
               PROVE  i = j
    OBVIOUS
  <2>1. CASE i = 1 BY <1>9, <1>12, <1>13, <1>14, <2>1
  <2>2. CASE j = 1 BY <1>9, <1>12, <1>13, <1>14, <2>2
  <2>3. CASE i # 1 /\ j # 1
    <3>1. i - 1 \in 1..n /\ j - 1 \in 1..n BY <1>9, <2>3
    <3>2. HashAt(cache.list, i - 1) = HashAt(cache.list, j - 1) BY <1>14, <2>3
    <3>3. i - 1 = j - 1 BY <3>1, <3>2 DEF IsCache, GoodList, n
    <3> QED BY <1>3, <3>3
  <2> QED BY <2>1, <2>2, <2>3
<1>16. cache.hand = NoHand \/ \E i \in 1..(n + 1) : HashAt(list, i) = cache.hand
  <2>1. CASE cache.hand = NoHand BY <2>1
  <2>2. CASE cache.hand # NoHand
    <3>1. PICK i \in 1..n : HashAt(cache.list, i) = cache.hand BY <2>2 DEF IsCache, GoodList, n
    <3>2. i + 1 \in 1..(n + 1) /\ i + 1 # 1 /\ (i + 1) - 1 = i BY <1>3
    <3>3. HashAt(list, i + 1) = HashAt(cache.list, i) BY <1>14, <3>2
    <3> QED BY <3>1, <3>2, <3>3
  <2> QED BY <2>1, <2>2
<1>17. n + 1 <= Capacity BY <1>3, SieveAssumption DEF n
<1>18. GoodList(list, cache.hand) BY <1>5, <1>6, <1>15, <1>16, <1>17 DEF GoodList
<1>19. IsCache(t) /\ Held(t) = {list[i].key : i \in 1..(n + 1)}
  <2>1. IsCache(t) /\ Held(t) = KeysOf(list) BY <1>1, <1>18, MakesCache
  <2>2. KeysOf(list) = {list[i].key : i \in 1..(n + 1)} BY <1>6 DEF KeysOf
  <2> QED BY <2>1, <2>2
<1>20. {list[i].key : i \in 1..(n + 1)} = {cache.list[i].key : i \in 1..n} \cup {k}
  <2>1. \A i \in 1..(n + 1) : list[i].key \in {cache.list[j].key : j \in 1..n} \cup {k}
    BY <1>2, <1>7, <1>9, <1>10
  <2>2. k \in {list[i].key : i \in 1..(n + 1)}
    <3>1. 1 \in 1..(n + 1) BY <1>3
    <3> QED BY <1>2, <1>7, <3>1
  <2>3. ASSUME NEW i \in 1..n PROVE cache.list[i].key \in {list[j].key : j \in 1..(n + 1)}
    <3>1. i + 1 \in 1..(n + 1) BY <1>3
    <3> QED BY <1>8, <3>1
  <2> QED BY <2>1, <2>2, <2>3
<1> QED BY <1>11, <1>19, <1>20

(* A node of the new name's hash is taken over.                            *)
LEMMA DisplaceCache ==
  ASSUME NEW cache, IsCache(cache), NEW k \in Names, NEW at \in 1..Len(cache.list),
         HashAt(cache.list, at) = HashOf[k],
         NEW t, t = [cache EXCEPT !.list[at] = [key |-> k, visited |-> @.key = k]]
  PROVE  IsCache(t) /\ Held(t) = (Held(cache) \ {cache.list[at].key}) \cup {k}
<1> DEFINE n == Len(cache.list)
           node == [key |-> k, visited |-> cache.list[at].key = k]
           list == [cache.list EXCEPT ![at] = node]
<1>1. DOMAIN t = {"list", "hand", "door"} /\ t.list = list /\ t.hand = cache.hand
  BY DEF IsCache, GoodList
<1>2. node \in Node /\ node.key = k BY DEF Node
<1>3. cache.list \in Seq(Node) /\ n \in Nat /\ DOMAIN cache.list = 1..n
  BY HeldKeys DEF IsCache, GoodList
<1> HIDE DEF node
<1>4. \A i \in 1..n : list[i] = IF i = at THEN node ELSE cache.list[i] BY <1>3
<1>5. list \in Seq(Node) /\ Len(list) = n BY <1>2, <1>3
<1> HIDE DEF list
<1>6. \A i \in 1..n : HashAt(list, i) = HashAt(cache.list, i)
  BY <1>2, <1>4 DEF HashAt
<1>a. GoodList(list, cache.hand) BY <1>5, <1>6 DEF IsCache, GoodList
<1>7. IsCache(t) /\ Held(t) = {list[i].key : i \in 1..n}
  <2>1. IsCache(t) /\ Held(t) = KeysOf(list) BY <1>1, <1>a, MakesCache
  <2>2. KeysOf(list) = {list[i].key : i \in 1..n} BY <1>5 DEF KeysOf
  <2> QED BY <2>1, <2>2
<1>8. Held(t) = {list[i].key : i \in 1..n} BY <1>7
<1>9. Held(cache) = {cache.list[i].key : i \in 1..n} BY HeldKeys
<1>10. \A i, j \in 1..n : cache.list[i].key = cache.list[j].key => i = j BY HeldCount
<1> HIDE DEF n
<1>11. Held(t) = (Held(cache) \ {cache.list[at].key}) \cup {k}
  <2>1. at \in 1..n BY DEF n
  <2>2. \A x \in Held(t) : x \in (Held(cache) \ {cache.list[at].key}) \cup {k}
    BY <1>2, <1>4, <1>8, <1>9, <1>10, <2>1
  <2>3. k \in Held(t) BY <1>2, <1>4, <1>8, <2>1
  <2>4. \A x \in Held(cache) \ {cache.list[at].key} : x \in Held(t)
    BY <1>4, <1>8, <1>9
  <2> QED BY <2>2, <2>3, <2>4
<1> QED BY <1>7, <1>11

(* BoundedCache's Insert, of the sets of names before and after.           *)
Inserted(before, after, k) ==
  \/ /\ \A h \in before : ~SameHash(h, k)
     /\ Cardinality(before) < Capacity
     /\ after = before \cup {k}
  \/ \E gone \in before :
       /\ SameHash(gone, k) \/ Cardinality(before) = Capacity
       /\ \A h \in before \ {gone} : ~SameHash(h, k)
       /\ after = (before \ {gone}) \cup {k}

(* insert_hashed() of a new name is BoundedCache's Insert.                 *)
LEMMA InsertCache ==
  ASSUME NEW cache, IsCache(cache), NEW k \in Names, k \notin Held(cache),
         NEW t, t = InsertHashed(cache, k)
  PROVE  IsCache(t) /\ Inserted(Held(cache), Held(t), k)
<1> DEFINE at == NodeOf(cache, HashOf[k])
           room == IF Len(cache.list) >= Capacity THEN Evict(cache) ELSE cache
           n == Len(cache.list)
<1>1. t = IF at # 0 THEN [cache EXCEPT !.list[at] = [key |-> k, visited |-> @.key = k]]
          ELSE [room EXCEPT !.list = <<[key |-> k, visited |-> FALSE]>> \o @]
  BY DEF InsertHashed
<1>2. \/ at = 0 /\ \A i \in 1..n : HashAt(cache.list, i) # HashOf[k]
      \/ at \in 1..n /\ HashAt(cache.list, at) = HashOf[k]
  BY NodeFound
<1> HIDE DEF at
<1>3. Cardinality(Held(cache)) = n /\ n \in Nat /\ n <= Capacity /\ Capacity \in Nat /\ Capacity >= 1
  BY HeldCount, HeldKeys, SieveAssumption DEF IsCache, GoodList
<1>4. Held(cache) = {cache.list[i].key : i \in 1..n} BY HeldKeys
<1>5. CASE at # 0
  <2>1. at \in 1..n /\ HashAt(cache.list, at) = HashOf[k] BY <1>2, <1>5
  <2>2. t = [cache EXCEPT !.list[at] = [key |-> k, visited |-> @.key = k]] BY <1>1, <1>5
  <2>3. IsCache(t) /\ Held(t) = (Held(cache) \ {cache.list[at].key}) \cup {k}
    BY <2>1, <2>2, DisplaceCache
  <2>4. cache.list[at].key \in Held(cache) BY <1>4, <2>1
  <2>5. SameHash(cache.list[at].key, k) BY <2>1 DEF SameHash, HashAt
  <2>6. \A h \in Held(cache) \ {cache.list[at].key} : ~SameHash(h, k)
    <3> SUFFICES ASSUME NEW i \in 1..n, cache.list[i].key # cache.list[at].key
                 PROVE  ~SameHash(cache.list[i].key, k)
      BY <1>4
    <3>1. i # at OBVIOUS
    <3>2. HashAt(cache.list, i) # HashAt(cache.list, at) BY <2>1, <3>1 DEF IsCache, GoodList
    <3> QED BY <2>1, <3>2 DEF SameHash, HashAt
  <2> QED BY <2>3, <2>4, <2>5, <2>6 DEF Inserted
<1>6. CASE at = 0
  <2>1. \A h \in Held(cache) : ~SameHash(h, k)
    <3>1. \A i \in 1..n : HashAt(cache.list, i) # HashOf[k] BY <1>2, <1>6
    <3> QED BY <1>4, <3>1 DEF SameHash, HashAt
  <2>2. t = [room EXCEPT !.list = <<[key |-> k, visited |-> FALSE]>> \o @] BY <1>1, <1>6
  <2>3. CASE n < Capacity
    <3>1. room = cache BY <1>3, <2>3
    <3>2. t = [cache EXCEPT !.list = <<[key |-> k, visited |-> FALSE]>> \o @] BY <2>2, <3>1
    <3>3. IsCache(t) /\ Held(t) = Held(cache) \cup {k} BY <2>1, <2>3, <3>2, PrependCache
    <3> QED BY <1>3, <2>1, <2>3, <3>3 DEF Inserted
  <2>4. CASE n = Capacity
    <3>1. room = Evict(cache) BY <1>3, <2>4
    <3> HIDE DEF room
    <3>2. /\ IsCache(room) /\ Len(room.list) = n - 1
          /\ \E v \in 1..n : Held(room) = Held(cache) \ {cache.list[v].key}
      BY <1>3, <2>4, <3>1, EvictCache
    <3>3. PICK v \in 1..n : Held(room) = Held(cache) \ {cache.list[v].key} BY <3>2
    <3>4. Len(room.list) < Capacity BY <1>3, <3>2
    <3>5. \A h \in Held(room) : ~SameHash(h, k) BY <2>1, <3>3
    <3>6. IsCache(t) /\ Held(t) = Held(room) \cup {k} BY <2>2, <3>2, <3>4, <3>5, PrependCache
    <3>7. cache.list[v].key \in Held(cache) BY <1>4
    <3> QED BY <1>3, <2>1, <2>4, <3>3, <3>6, <3>7 DEF Inserted
  <2> QED BY <1>3, <2>3, <2>4
<1> QED BY <1>5, <1>6

(* The doorkeeper in front of it.                                          *)
LEMMA SeenBeforeCache ==
  ASSUME NEW cache, IsCache(cache), NEW k \in Names, k \notin Held(cache),
         NEW t, t = InsertIfSeenBefore(cache, k)
  PROVE  IsCache(t) /\ (Held(t) = Held(cache) \/ Inserted(Held(cache), Held(t), k))
<1>1. CASE Admitted(cache, k)
  BY <1>1, InsertCache DEF InsertIfSeenBefore
<1>2. CASE ~Admitted(cache, k)
  <2>1. t = [cache EXCEPT !.door[HashOf[k] % Slots] = FingerprintOf(HashOf[k])]
    BY <1>2 DEF InsertIfSeenBefore, AtTheDoor
  <2>2. \E d : t = [cache EXCEPT !.door = d] BY <2>1 DEF IsCache
  <2>3. DOMAIN t = {"list", "hand", "door"} /\ t.list = cache.list /\ t.hand = cache.hand
    BY <2>2 DEF IsCache
  <2> QED BY <2>3 DEF IsCache, Held
<1> QED BY <1>1, <1>2

-----------------------------------------------------------------------------
(* domain_hit().                                                           *)

(* The three ways through it.                                              *)
CheckedAs(cache, q, al, c) ==
  \/ /\ IsNumeric(q)
     /\ c.cache = cache /\ c.hit = NoHit /\ c.fresh = FALSE
  \/ /\ ~IsNumeric(q) /\ Hit(cache, q)
     /\ c.cache = Touched(cache, q) /\ c.hit = NoHit /\ c.fresh = FALSE
  \/ /\ ~IsNumeric(q) /\ ~Hit(cache, q)
     /\ c.hit = Judgement(Trails, q, al)
     /\ c.fresh = (c.hit = NoHit /\ ~al)
     /\ c.cache = IF c.hit = NoHit /\ ~al THEN InsertIfSeenBefore(cache, q) ELSE cache

(* domain_hit() goes one of the three ways.                                *)
LEMMA CheckedCases ==
  ASSUME NEW cache, NEW q, NEW al, NEW c, c = Checked(cache, q, al)
  PROVE  CheckedAs(cache, q, al, c)
<1>1. CASE IsNumeric(q) BY <1>1 DEF Checked, CheckedAs
<1>2. CASE ~IsNumeric(q) /\ Hit(cache, q) BY <1>2 DEF Checked, CheckedAs
<1>3. CASE ~IsNumeric(q) /\ ~Hit(cache, q)
  <2> DEFINE found == Judgement(Trails, q, al)
  <2>1. c = Remembered(cache, q, ~al, found) BY <1>3 DEF Checked
  <2> HIDE DEF found
  <2>2. /\ c.hit = found
        /\ c.fresh = (found = NoHit /\ ~al)
        /\ c.cache = IF found = NoHit /\ ~al THEN InsertIfSeenBefore(cache, q) ELSE cache
    BY <2>1 DEF Remembered
  <2> QED BY <1>3, <2>2 DEF found, CheckedAs
<1> QED BY <1>1, <1>2, <1>3

(* A check adds at most the name, and that of an alias adds nothing.       *)
LEMMA CheckedCache ==
  ASSUME NEW cache, IsCache(cache), NEW q \in Names, NEW al,
         NEW c, c = Checked(cache, q, al)
  PROVE  /\ IsCache(c.cache)
         /\ \/ Held(c.cache) = Held(cache)
            \/ ~al /\ c.fresh /\ q \notin Held(cache) /\ Inserted(Held(cache), Held(c.cache), q)
<1>1. CASE c.cache = cache BY <1>1
<1>2. CASE c.cache = Touched(cache, q) BY <1>2, TouchedCache
<1>3. CASE c.cache # cache /\ c.cache # Touched(cache, q)
  <2>1. ~al /\ c.fresh /\ ~Hit(cache, q) /\ c.cache = InsertIfSeenBefore(cache, q)
    <3>1. CheckedAs(cache, q, al, c) BY CheckedCases
    <3> QED BY <1>3, <3>1 DEF CheckedAs
  <2> QED BY <2>1, SeenBeforeCache DEF Hit
<1> QED BY <1>1, <1>2, <1>3

(* What the walk over the aliases has done so far.                         *)
Looked(x) ==
  /\ IsCache(x.cache) /\ Held(x.cache) = Held(clean)
  /\ x.hit = NoHit \/ \E t \in Names : x.hit = Judgement(Trails, t, TRUE)

(* Another target.                                                         *)
LEMMA LookedOn ==
  ASSUME NEW q, NEW x, Looked(x), NEW t \in Names
  PROVE  Looked(AliasLook(q, x, t))
<1>1. CASE AliasLook(q, x, t) = x BY <1>1
<1>2. CASE AliasLook(q, x, t) # x
  <2> DEFINE c == Checked(x.cache, t, TRUE)
  <2>1. AliasLook(q, x, t) = c BY <1>2 DEF AliasLook
  <2>2. c.hit = NoHit \/ c.hit = Judgement(Trails, t, TRUE)
    <3>1. CheckedAs(x.cache, t, TRUE, c) BY CheckedCases
    <3> QED BY <3>1 DEF CheckedAs
  <2>3. IsCache(c.cache) /\ Held(c.cache) = Held(x.cache) BY CheckedCache DEF Looked
  <2> HIDE DEF c
  <2> QED BY <2>1, <2>2, <2>3 DEF Looked
<1> QED BY <1>1, <1>2

(* The walk over all targets: by the least number of targets that would    *)
(* break it.                                                               *)
LEMMA AliasScanned ==
  ASSUME IsCache(clean), NEW p, p.targets \in Seq(Names), NEW s, s = AliasScan(p)
  PROVE  Looked(s)
<1> DEFINE L == Len(p.targets)
           base == [cache |-> clean, hit |-> NoHit, fresh |-> FALSE]
           To(f, n) == IF n = 0 THEN base ELSE AliasLook(p.name, f[n - 1], p.targets[n])
           Def(f, m) == f = [n \in 0..m |-> To(f, n)]
<1>1. L \in Nat /\ \A n \in 1..L : p.targets[n] \in Names OBVIOUS
<1>2. s = (CHOOSE f : Def(f, L))[L] BY DEF AliasScan
<1>3. Looked(base) BY DEF Looked
<1> HIDE DEF L, base
<1>4. \A m \in 0..L : \E f : Def(f, m)
  <2> DEFINE bad == {m \in 0..L : ~\E f : Def(f, m)}
  <2> SUFFICES ASSUME bad # {} PROVE FALSE OBVIOUS
  <2>1. bad \in SUBSET Nat BY <1>1
  <2>2. Min(bad) \in bad /\ \A y \in bad : Min(bad) <= y BY <2>1, MinIn
  <2>3. PICK m \in 0..L : (~\E f : Def(f, m)) /\ \A y \in bad : m <= y BY <2>2
  <2>4. CASE m = 0
    <3> DEFINE f == [n \in 0..0 |-> base]
    <3>1. \A n \in 0..0 : To(f, n) = base OBVIOUS
    <3> HIDE DEF To
    <3>2. Def(f, 0) BY <3>1
    <3> QED BY <2>3, <2>4, <3>2
  <2>5. CASE m # 0
    <3>1. m - 1 \in 0..L /\ m - 1 \notin bad BY <1>1, <2>3, <2>5
    <3>2. PICK f : Def(f, m - 1) BY <3>1
    <3> DEFINE g == [n \in 0..m |-> IF n = m THEN AliasLook(p.name, f[m - 1], p.targets[m]) ELSE f[n]]
    <3>3. \A n \in 0..(m - 1) : f[n] = To(f, n) BY <3>2
    <3>4. \A n \in 0..m : g[n] = To(g, n)
      <4> SUFFICES ASSUME NEW n \in 0..m PROVE g[n] = To(g, n) OBVIOUS
      <4>1. CASE n = m
        <5>1. m - 1 \in 0..m /\ m - 1 # m BY <3>1
        <5>2. g[m - 1] = f[m - 1] BY <5>1
        <5>3. g[m] = AliasLook(p.name, f[m - 1], p.targets[m]) BY <1>1
        <5> QED BY <2>5, <4>1, <5>2, <5>3
      <4>2. CASE n # m
        <5>1. n \in 0..(m - 1) BY <1>1, <4>2
        <5>2. g[n] = f[n] BY <4>2
        <5>3. f[n] = To(f, n) BY <3>3, <5>1
        <5>4. n # 0 => g[n - 1] = f[n - 1]
          <6>1. n # 0 => n - 1 \in 0..m /\ n - 1 # m BY <1>1, <4>2
          <6> QED BY <6>1
        <5> QED BY <5>2, <5>3, <5>4
      <4> QED BY <4>1, <4>2
    <3>5. g = [n \in 0..m |-> g[n]] OBVIOUS
    <3> HIDE DEF g, To
    <3>6. Def(g, m) BY <3>4, <3>5
    <3> QED BY <2>3, <3>6
  <2> QED BY <2>4, <2>5
<1>5. L \in 0..L BY <1>1
<1> DEFINE f == CHOOSE f : Def(f, L)
<1>6. Def(f, L) BY <1>4, <1>5
<1> HIDE DEF f
<1>7. \A n \in 0..L : f[n] = To(f, n) BY <1>6
<1>8. \A n \in 0..L : Looked(f[n])
  <2> DEFINE bad == {m \in 0..L : ~Looked(f[m])}
  <2> SUFFICES ASSUME bad # {} PROVE FALSE OBVIOUS
  <2>1. bad \in SUBSET Nat BY <1>1
  <2>2. Min(bad) \in bad /\ \A y \in bad : Min(bad) <= y BY <2>1, MinIn
  <2>3. PICK m \in 0..L : ~Looked(f[m]) /\ \A y \in bad : m <= y BY <2>2
  <2>4. CASE m = 0 BY <1>3, <1>7, <2>3, <2>4
  <2>5. CASE m # 0
    <3>1. m - 1 \in 0..L /\ m - 1 \notin bad /\ m \in 1..L BY <1>1, <2>3, <2>5
    <3>2. Looked(f[m - 1]) BY <3>1
    <3>3. f[m] = AliasLook(p.name, f[m - 1], p.targets[m]) BY <1>7, <2>5
    <3>4. p.targets[m] \in Names BY <1>1, <3>1
    <3>5. Looked(AliasLook(p.name, f[m - 1], p.targets[m])) BY <3>2, <3>4, LookedOn
    <3> QED BY <2>3, <3>3, <3>5
  <2> QED BY <2>4, <2>5
<1> QED BY <1>2, <1>5, <1>8 DEF f

-----------------------------------------------------------------------------
(* The walks and the policy.                                               *)

Unlisted(q) == \A j \in DOMAIN q : Parent(q, j) \notin Whitelist

Counts(trails, q, i) ==
  Parent(q, i) \in DOMAIN trails.exact /\ ~Skipped(q, i, trails.exact[Parent(q, i)])

Fires(trails, q, i) ==
  /\ Counts(trails, q, i)
  /\ \A j \in 1..i : Parent(q, j) \notin Whitelist
  /\ \A j \in 1..(i - 1) : ~Counts(trails, q, j)

Gateway(trails, q) == \E b \in DOMAIN trails.exact : b # <<>> /\ q = b \o <<"ip-adress", "com">>

Onion(trails, q) ==
  \E b \in DOMAIN trails.exact :
    /\ Last(b) = "onion" /\ Len(b) > 1 /\ Len(q) > Len(b)
    /\ SubSeq(q, 1, Len(b)) = b
    /\ \A i \in 2..(Len(b) - 1) : b[i] # "onion"

(* The policy in its parts.                                                *)
LEMMA PolicyParts ==
  ASSUME NEW trails, NEW q
  PROVE  Policy(trails, q) <=>
           \/ \E i \in DOMAIN q : Fires(trails, q, i)
           \/ /\ Unlisted(q)
              /\ \/ q \in DOMAIN trails.wild
                 \/ UseHeuristics /\ HeuristicEnabled("idn_homograph") /\ q \in Impersonators
                 \/ Gateway(trails, q) \/ Onion(trails, q)
  BY Zenon DEF Policy, Fires, Counts, Unlisted, Gateway, Onion

(* The whitelist walk finds something exactly if a parent is whitelisted.  *)
LEMMA NotListed ==
  ASSUME NEW q \in Seq(Label)
  PROVE  ~Whitelisted(q) <=> Unlisted(q)
  BY DepthOf DEF Whitelisted, Unlisted

(* A hit is one.                                                           *)
LEMMA HitOnSome == \A e, i : HitOn(e, i) # NoHit
  BY DEF HitOn, NoHit

(* The parent walk finds something exactly if a parent fires.              *)
LEMMA WalkFires ==
  ASSUME NEW trails, NEW q \in Seq(Label)
  PROVE  WalkHit(trails, q) # NoHit <=> \E i \in DOMAIN q : Fires(trails, q, i)
<1> DEFINE at == {i \in DOMAIN q : Counts(trails, q, i)}
           first == Min(at)
<1>1. WalkHit(trails, q) = IF at # {} /\ Len(q) + 1 - first > WhitelistDepth(q)
                           THEN HitOn(Parent(q, first), trails.exact[Parent(q, first)])
                           ELSE NoHit
  BY DEF WalkHit, Counts
<1>2. WalkHit(trails, q) # NoHit <=> at # {} /\ Len(q) + 1 - first > WhitelistDepth(q)
  BY <1>1, HitOnSome
<1>3. at \in SUBSET Nat /\ at \subseteq DOMAIN q /\ DOMAIN q = 1..Len(q) /\ Len(q) \in Nat
  BY SomeDomain
<1>4. \A i \in DOMAIN q : i \in at <=> Counts(trails, q, i) OBVIOUS
<1> HIDE DEF at
<1>5. ASSUME at # {}, Len(q) + 1 - first > WhitelistDepth(q)
      PROVE  \E i \in DOMAIN q : Fires(trails, q, i)
  <2>1. first \in at /\ \A y \in at : first <= y BY <1>3, <1>5, MinIn
  <2>2. first \in DOMAIN q /\ Counts(trails, q, first) BY <1>3, <1>4, <2>1
  <2>3. \A j \in 1..first : Parent(q, j) \notin Whitelist BY <1>5, <2>2, DepthOf
  <2>4. \A j \in 1..(first - 1) : ~Counts(trails, q, j) BY <1>3, <1>4, <2>1, <2>2
  <2> QED BY <2>2, <2>3, <2>4 DEF Fires
<1>6. ASSUME NEW i \in DOMAIN q, Fires(trails, q, i)
      PROVE  at # {} /\ Len(q) + 1 - first > WhitelistDepth(q)
  <2>1. i \in at BY <1>4, <1>6 DEF Fires
  <2>2. first \in at /\ first <= i BY <1>3, <2>1, MinIn
  <2>3. first = i
    <3>1. first \in 1..Len(q) /\ Counts(trails, q, first) BY <1>3, <1>4, <2>2
    <3>2. ~(first \in 1..(i - 1)) BY <1>6, <3>1 DEF Fires
    <3> QED BY <1>3, <2>2, <3>1, <3>2
  <2>4. Len(q) + 1 - i > WhitelistDepth(q) BY <1>6, DepthOf DEF Fires
  <2> QED BY <2>1, <2>3, <2>4
<1> QED BY <1>2, <1>5, <1>6

(* Two labels more.                                                        *)
EndsWith(q, x, y) == Len(q) > 2 /\ Parent(q, Len(q) - 1) = <<x, y>>

Extends(q, b, x, y) == b # <<>> /\ q = b \o <<x, y>>

Shortened(q, b, x, y) == EndsWith(q, x, y) /\ SubSeq(q, 1, Len(q) - 2) = b

(* A name that ends with two labels is the rest and the two.               *)
LEMMA TwoOff ==
  ASSUME NEW S, NEW x \in S, NEW y \in S, NEW q \in Seq(S), EndsWith(q, x, y)
  PROVE  SubSeq(q, 1, Len(q) - 2) # <<>> /\ q = SubSeq(q, 1, Len(q) - 2) \o <<x, y>>
<1> DEFINE base == SubSeq(q, 1, Len(q) - 2)
           tail == <<x, y>>
           n == Len(q)
<1>0. n > 2 /\ n \in Nat /\ Parent(q, n - 1) = tail BY DEF EndsWith
<1>1. tail \in Seq(S) OBVIOUS
<1>2. Len(tail) = 2 /\ tail[1] = x /\ tail[2] = y OBVIOUS
<1>3. base \in Seq(S) BY <1>0
<1>4. Len(base) = n - 2 BY <1>0
<1>5. \A i \in 1..(n - 2) : base[i] = q[i] BY <1>0
<1>6. tail[1] = q[n - 1] /\ tail[2] = q[n]
  <2>1. SubSeq(q, n - 1, n)[1] = q[n - 1] BY <1>0
  <2>2. SubSeq(q, n - 1, n)[2] = q[n] BY <1>0
  <2> QED BY <1>0, <2>1, <2>2 DEF Parent
<1> DEFINE r == base \o tail
<1> HIDE DEF tail, base
<1>7. r \in Seq(S) BY <1>1, <1>3
<1>8. Len(r) = Len(base) + Len(tail) BY <1>1, <1>3
<1>9. Len(r) = n BY <1>0, <1>2, <1>4, <1>8
<1>10. \A i \in 1..Len(base) : r[i] = base[i] BY <1>1, <1>3
<1>11. \A i \in (Len(base) + 1)..(Len(base) + Len(tail)) : r[i] = tail[i - Len(base)] BY <1>1, <1>3
<1> HIDE DEF r, n
<1>12. ASSUME NEW i \in 1..n PROVE r[i] = q[i]
  <2>1. CASE i <= n - 2
    <3>1. i \in 1..(n - 2) /\ i \in 1..Len(base) BY <1>0, <1>4, <2>1
    <3> QED BY <1>5, <1>10, <3>1
  <2>2. CASE i = n - 1
    <3>1. i \in (Len(base) + 1)..(Len(base) + Len(tail)) /\ i - Len(base) = 1
      BY <1>0, <1>2, <1>4, <2>2
    <3>2. r[i] = tail[i - Len(base)] BY <1>11, <3>1
    <3> QED BY <1>6, <2>2, <3>1, <3>2
  <2>3. CASE i = n
    <3>1. i \in (Len(base) + 1)..(Len(base) + Len(tail)) /\ i - Len(base) = 2
      BY <1>0, <1>2, <1>4, <2>3
    <3>2. r[i] = tail[i - Len(base)] BY <1>11, <3>1
    <3> QED BY <1>6, <2>3, <3>1, <3>2
  <2> QED BY <1>0, <2>1, <2>2, <2>3
<1>13. Len(q) = n BY DEF n
<1>14. r = q BY <1>7, <1>9, <1>12, <1>13
<1>15. base # <<>> BY <1>0, <1>4
<1> QED BY <1>14, <1>15 DEF r, base, tail, n

(* A name made of a rest and two labels ends with them, and the rest is    *)
(* what is left.                                                           *)
LEMMA TwoOn ==
  ASSUME NEW S, NEW x \in S, NEW y \in S, NEW b \in Seq(S),
         NEW q, Extends(q, b, x, y)
  PROVE  Shortened(q, b, x, y)
<1> DEFINE tail == <<x, y>>
           n == Len(b)
           base == SubSeq(q, 1, n)
           r == SubSeq(q, n + 1, n + 2)
<1>1. tail \in Seq(S) OBVIOUS
<1>2. Len(tail) = 2 /\ tail[1] = x /\ tail[2] = y OBVIOUS
<1>3. n \in Nat /\ n > 0 BY DEF Extends
<1>4. q = b \o tail BY DEF Extends
<1> HIDE DEF tail
<1>5. q \in Seq(S) BY <1>1, <1>4
<1>6. Len(q) = Len(b) + Len(tail) BY <1>1, <1>4
<1>7. Len(q) = n + 2 BY <1>2, <1>6
<1>8. \A i \in 1..Len(b) : q[i] = b[i] BY <1>1, <1>4
<1>9. \A i \in (Len(b) + 1)..(Len(b) + Len(tail)) : q[i] = tail[i - Len(b)] BY <1>1, <1>4
<1>10. q[n + 1] = tail[1] /\ q[n + 2] = tail[2]
  <2>1. n + 1 \in (Len(b) + 1)..(Len(b) + Len(tail)) /\ (n + 1) - Len(b) = 1 BY <1>2, <1>3
  <2>2. n + 2 \in (Len(b) + 1)..(Len(b) + Len(tail)) /\ (n + 2) - Len(b) = 2 BY <1>2, <1>3
  <2>3. q[n + 1] = tail[(n + 1) - Len(b)] BY <1>9, <2>1
  <2>4. q[n + 2] = tail[(n + 2) - Len(b)] BY <1>9, <2>2
  <2> QED BY <2>1, <2>2, <2>3, <2>4
<1>11. base = b
  <2>1. base \in Seq(S) BY <1>3, <1>5, <1>7
  <2>2. Len(base) = n BY <1>3, <1>5, <1>7
  <2>3. \A i \in 1..n : base[i] = q[i] BY <1>3, <1>5, <1>7
  <2> HIDE DEF base
  <2>4. \A i \in 1..Len(b) : base[i] = b[i] BY <1>8, <2>3
  <2> QED BY <2>1, <2>2, <2>4
<1>12. r = tail
  <2>1. r \in Seq(S) BY <1>3, <1>5, <1>7
  <2>2. Len(r) = 2 BY <1>3, <1>5, <1>7
  <2>3. r[1] = q[n + 1] BY <1>3, <1>5, <1>7
  <2>4. r[2] = q[n + 2] BY <1>3, <1>5, <1>7
  <2> HIDE DEF r
  <2>5. \A i \in 1..2 : r[i] = tail[i] BY <1>10, <2>3, <2>4
  <2> QED BY <1>1, <1>2, <2>1, <2>2, <2>5
<1>13. Len(q) - 2 = n /\ Len(q) - 1 = n + 1 /\ Len(q) > 2 BY <1>3, <1>7
<1>14. Parent(q, Len(q) - 1) = r BY <1>7, <1>13 DEF Parent
<1>15. SubSeq(q, 1, Len(q) - 2) = b BY <1>11, <1>13
<1> QED BY <1>12, <1>13, <1>14, <1>15 DEF Shortened, EndsWith, tail

(* The gateway suffix, against the policy.                                 *)
LEMMA GatewayFires ==
  ASSUME NEW trails, DOMAIN trails.exact \subseteq Seq(Label), NEW q \in Seq(Label)
  PROVE  GatewayHit(trails, q) # NoHit <=> Unlisted(q) /\ Gateway(trails, q)
<1> DEFINE base == SubSeq(q, 1, Len(q) - 2)
           x == "ip-adress"
           y == "com"
           S == Label \cup {x, y}
<1>1. GatewayHit(trails, q) # NoHit <=>
        ~Whitelisted(q) /\ EndsWith(q, x, y) /\ base \in DOMAIN trails.exact
  BY HitOnSome DEF GatewayHit, EndsWith
<1>2. x \in S /\ y \in S /\ Label \subseteq S OBVIOUS
<1>3. \A s \in Seq(Label) : s \in Seq(S)
  <2> HIDE DEF S
  <2> QED BY <1>2
<1>4. Gateway(trails, q) <=> \E b \in DOMAIN trails.exact : b # <<>> /\ q = b \o <<x, y>>
  BY DEF Gateway
<1> HIDE DEF x, y, S
<1>5. q \in Seq(S) /\ DOMAIN trails.exact \subseteq Seq(S) BY <1>3
<1>6. ASSUME Gateway(trails, q) PROVE EndsWith(q, x, y) /\ base \in DOMAIN trails.exact
  <2>1. PICK b \in DOMAIN trails.exact : b # <<>> /\ q = b \o <<x, y>> BY <1>4, <1>6
  <2>2. b \in Seq(S) BY <1>5
  <2>3. Extends(q, b, x, y) BY <2>1 DEF Extends
  <2>4. Shortened(q, b, x, y) BY <1>2, <2>2, <2>3, TwoOn
  <2> QED BY <2>4 DEF Shortened
<1>7. ASSUME EndsWith(q, x, y), base \in DOMAIN trails.exact PROVE Gateway(trails, q)
  <2>1. base # <<>> /\ q = base \o <<x, y>> BY <1>2, <1>5, <1>7, TwoOff
  <2> HIDE DEF base
  <2> QED BY <1>4, <1>7, <2>1
<1> HIDE DEF base
<1> QED BY <1>1, <1>6, <1>7, NotListed

(* The onion gateway, against the policy: the first label onion ends the   *)
(* address.                                                                *)
LEMMA OnionFires ==
  ASSUME NEW trails, DOMAIN trails.exact \subseteq Seq(Label), NEW q \in Seq(Label)
  PROVE  OnionHit(trails, q) # NoHit <=> Unlisted(q) /\ Onion(trails, q)
<1> DEFINE on == "onion"
           n == Len(q)
           at == {i \in 2..(n - 1) : q[i] = on}
           m == Min(at)
           base == SubSeq(q, 1, m)
<1>1. OnionHit(trails, q) # NoHit <=>
        ~Whitelisted(q) /\ at # {} /\ base \in DOMAIN trails.exact
  BY HitOnSome DEF OnionHit
<1>2. Onion(trails, q) <=>
        \E b \in DOMAIN trails.exact :
          /\ Last(b) = on /\ Len(b) > 1 /\ n > Len(b) /\ SubSeq(q, 1, Len(b)) = b
          /\ \A i \in 2..(Len(b) - 1) : b[i] # on
  BY DEF Onion
<1> HIDE DEF on
<1>3. n \in Nat OBVIOUS
<1>4. \A i \in 2..(n - 1) : q[i] = on => i \in at OBVIOUS
<1>5. \A i \in at : i \in 2..(n - 1) /\ q[i] = on OBVIOUS
<1>6. at \in SUBSET Nat
  <2> HIDE DEF n
  <2> QED BY <1>3
<1> HIDE DEF at
<1>7. at # {} => m \in at /\ \A y \in at : m <= y BY <1>6, MinIn
<1> HIDE DEF m
<1>8. ASSUME at # {}, base \in DOMAIN trails.exact PROVE Onion(trails, q)
  <2>1. m \in 2..(n - 1) /\ q[m] = on BY <1>5, <1>7, <1>8
  <2>2. m \in Nat /\ m > 1 /\ m < n BY <1>3, <2>1
  <2>3. base \in Seq(Label) BY <2>2
  <2>4. Len(base) = m BY <2>2
  <2>5. \A i \in 1..m : base[i] = q[i] BY <2>2
  <2>6. base[m] = on BY <2>1, <2>2, <2>5
  <2>7. ASSUME NEW i \in 2..(m - 1) PROVE base[i] # on
    <3>1. i \in 2..(n - 1) /\ i \in 1..m /\ ~(m <= i) BY <1>3, <2>2
    <3>2. i \notin at BY <1>7, <1>8, <3>1
    <3> QED BY <1>4, <2>5, <3>1, <3>2
  <2>8. SubSeq(q, 1, Len(base)) = base BY <2>4
  <2>9. Last(base) = on BY <2>4, <2>6 DEF Last
  <2> HIDE DEF base, n
  <2>10. Len(base) > 1 /\ n > Len(base) /\ \A i \in 2..(Len(base) - 1) : base[i] # on
    BY <1>3, <2>2, <2>4, <2>7
  <2> QED BY <1>2, <1>8, <2>8, <2>9, <2>10
<1>9. ASSUME NEW b \in DOMAIN trails.exact, Last(b) = on, Len(b) > 1, n > Len(b),
             SubSeq(q, 1, Len(b)) = b, \A i \in 2..(Len(b) - 1) : b[i] # on
      PROVE  at # {} /\ base \in DOMAIN trails.exact
  <2> DEFINE k == Len(b)
  <2>1. b \in Seq(Label) OBVIOUS
  <2>2. k \in Nat BY <2>1
  <2>3. k \in 2..(n - 1) /\ k \in 1..k BY <1>3, <1>9, <2>2
  <2>4. \A i \in 1..k : SubSeq(q, 1, k)[i] = q[i] BY <1>3, <1>9, <2>2
  <2>5. \A i \in 1..k : b[i] = q[i] BY <1>9, <2>4
  <2>6. b[k] = on BY <1>9 DEF Last
  <2> HIDE DEF k
  <2>7. k \in at BY <1>4, <2>3, <2>5, <2>6
  <2>8. m \in at /\ m <= k BY <1>7, <2>7
  <2>9. m \in 2..(n - 1) /\ q[m] = on BY <1>5, <2>8
  <2>10. \A i \in 2..(k - 1) : b[i] # on BY <1>9 DEF k
  <2>11. ~(m \in 2..(k - 1))
    <3>1. ASSUME m \in 2..(k - 1) PROVE m \in 1..k BY <2>2, <3>1
    <3> QED BY <2>5, <2>9, <2>10, <3>1
  <2>12. m = k BY <1>3, <2>2, <2>8, <2>9, <2>11
  <2> QED BY <1>9, <2>7, <2>12 DEF k
<1> HIDE DEF base, n
<1>10. Onion(trails, q) <=> at # {} /\ base \in DOMAIN trails.exact BY <1>2, <1>8, <1>9
<1> QED BY <1>1, <1>10, NotListed

FoundIn(hit, a, b, c, d, e) ==
  /\ hit # NoHit <=> a # NoHit \/ b # NoHit \/ c # NoHit \/ d # NoHit \/ e # NoHit
  /\ hit \in {a, b, c, d, e, NoHit}

(* The first of the five that finds something.                             *)
LEMMA FirstOfFive ==
  ASSUME NEW a, NEW b, NEW c, NEW d, NEW e, NEW hit, hit = FirstOf(<<a, b, c, d, e>>)
  PROVE  FoundIn(hit, a, b, c, d, e)
<1> DEFINE hits == <<a, b, c, d, e>>
           found == {i \in DOMAIN hits : hits[i] # NoHit}
<1>1. FirstOf(hits) = IF found = {} THEN NoHit ELSE hits[Min(found)] BY DEF FirstOf
<1>2. DOMAIN hits = 1..5 OBVIOUS
<1>3. hits[1] = a /\ hits[2] = b /\ hits[3] = c /\ hits[4] = d /\ hits[5] = e OBVIOUS
<1> HIDE DEF hits
<1>4. found \in SUBSET Nat /\ found \subseteq 1..5 BY <1>2
<1>5. \A i \in 1..5 : hits[i] # NoHit => i \in found BY <1>2
<1>6. \A i \in found : hits[i] # NoHit OBVIOUS
<1> HIDE DEF found
<1>7. CASE found = {}
  <2>1. a = NoHit /\ b = NoHit /\ c = NoHit /\ d = NoHit /\ e = NoHit BY <1>3, <1>5, <1>7
  <2> QED BY <1>1, <1>7, <2>1 DEF hits, FoundIn
<1>8. CASE found # {}
  <2>1. Min(found) \in found BY <1>4, <1>8, MinIn
  <2>2. FirstOf(hits) = hits[Min(found)] /\ hits[Min(found)] # NoHit BY <1>1, <1>6, <1>8, <2>1
  <2>3. Min(found) \in 1..5 BY <1>4, <2>1
  <2>4. hits[Min(found)] \in {a, b, c, d, e} BY <1>3, <2>3
  <2>5. FirstOf(hits) # NoHit /\ FirstOf(hits) \in {a, b, c, d, e} BY <2>2, <2>4
  <2>6. a # NoHit \/ b # NoHit \/ c # NoHit \/ d # NoHit \/ e # NoHit BY <2>5
  <2> QED BY <2>5, <2>6 DEF hits, FoundIn
<1> QED BY <1>7, <1>8

(* The walks of domain_hit() find what the policy says.                    *)
LEMMA JudgementIsPolicy ==
  ASSUME NEW trails, DOMAIN trails.exact \subseteq Seq(Label), NEW q \in Seq(Label), IsValid(q)
  PROVE  Judgement(trails, q, FALSE) # NoHit <=> Policy(trails, q)
<1> DEFINE g == GatewayHit(trails, q)
           w == WalkHit(trails, q)
           h == HomographHit(q)
           c == WildcardHit(trails, q)
           o == OnionHit(trails, q)
<1>1. Judgement(trails, q, FALSE) = FirstOf(<<g, w, h, c, o>>) BY DEF Judgement
<1>2. Judgement(trails, q, FALSE) # NoHit <=>
        g # NoHit \/ w # NoHit \/ h # NoHit \/ c # NoHit \/ o # NoHit
  <2> HIDE DEF g, w, h, c, o
  <2>1. FoundIn(Judgement(trails, q, FALSE), g, w, h, c, o) BY <1>1, FirstOfFive
  <2> QED BY <2>1 DEF FoundIn
<1>3. HomographHit(q) # NoHit <=>
        /\ Unlisted(q) /\ UseHeuristics /\ HeuristicEnabled("idn_homograph")
        /\ q \in Impersonators
  BY HitOnSome, NotListed DEF HomographHit
<1>4. WildcardHit(trails, q) # NoHit <=> Unlisted(q) /\ q \in DOMAIN trails.wild
  BY HitOnSome, NotListed DEF WildcardHit
<1> QED BY <1>2, <1>3, <1>4, WalkFires, GatewayFires, OnionFires, PolicyParts

-----------------------------------------------------------------------------
(* What a step does to the cache of clean names.                           *)

Rests ==
  IsCache(clean') /\ Held(clean') = Held(clean) /\ cleanAt' = cleanAt /\ judged' = {}

Adopts ==
  Rests /\ view < Len(TrailSets) /\ view' = view + 1 /\ asked' = {} /\ answer' = {}

Idles == Rests /\ view' = view /\ asked' = asked /\ answer' = {}

(* The cache a check starts from may have bits set by a walk before it.    *)
ChecksFrom(b, q) ==
  IsCache(b) /\ Held(b) = Held(clean) /\ CheckDomain(q, Checked(b, q, FALSE)) /\ view' = view

Infos(hit) == {h.info : h \in hit}

ChecksName(b, q) == ChecksFrom(b, q) /\ asked' = asked /\ answer' = {}

Asks(b, q) ==
  /\ b = clean /\ ChecksFrom(b, q) /\ answer' = {}
  /\ asked' = {r \in asked : r.name # q}
                \cup (IF Outdated(q) THEN {}
                      ELSE {[name |-> q, infos |-> Infos(Checked(b, q, FALSE).hit)]})

Answered(p, hit, events) ==
  [name |-> p.name, type |-> p.type, found |-> Infos(hit), infos |-> Infos(events)]

Answers(b, q) ==
  /\ ChecksFrom(b, q) /\ asked' = asked
  /\ \E p, hit :
       /\ p.name = q /\ hit # NoHit /\ \E t \in Names : hit = Judgement(Trails, t, TRUE)
       /\ answer' = {Answered(p, hit, AliasEvents(p, hit, Checked(b, q, FALSE).hit))}

StepKind ==
  \/ Adopts
  \/ Idles
  \/ \E q \in Names : \E b : ChecksName(b, q) \/ Asks(b, q) \/ Answers(b, q)

(* A packet that checks no name.                                           *)
LEMMA NoCheckRests ==
  ASSUME IsCache(clean), NoCheck, view' = view, asked' = asked, answer' = {}
  PROVE  Idles
  BY DEF NoCheck, Idles, Rests

(* A check that no walk precedes.                                          *)
LEMMA CleanCheck ==
  ASSUME IsCache(clean), NEW q \in Names, CheckDomain(q, Checked(clean, q, FALSE)), view' = view
  PROVE  ChecksFrom(clean, q)
  BY DEF ChecksFrom

(* A query that is not swallowed.                                          *)
LEMMA QueryKind ==
  ASSUME IsCache(clean), NEW p, p.name \in Names, CheckedQuery(p), view' = view
  PROVE  Idles \/ Asks(clean, p.name)
<1>1. answer' = {} BY DEF CheckedQuery
<1>2. CASE NoCheck /\ asked' = asked BY <1>1, <1>2, NoCheckRests
<1>3. CASE ~(NoCheck /\ asked' = asked)
  <2>1. \E c \in {Checked(clean, p.name, FALSE)} :
          /\ CheckDomain(p.name, c)
          /\ asked' = {r \in asked : r.name # p.name}
                        \cup (IF Outdated(p.name) THEN {}
                              ELSE {[name |-> p.name, infos |-> {h.info : h \in c.hit}]})
    BY <1>3 DEF CheckedQuery
  <2>2. /\ CheckDomain(p.name, Checked(clean, p.name, FALSE))
        /\ asked' = {r \in asked : r.name # p.name}
                      \cup (IF Outdated(p.name) THEN {}
                            ELSE {[name |-> p.name, infos |-> Infos(Checked(clean, p.name, FALSE).hit)]})
    BY <2>1 DEF Infos
  <2>3. ChecksFrom(clean, p.name) BY <2>2, CleanCheck
  <2> QED BY <1>1, <2>2, <2>3 DEF Asks
<1> QED BY <1>2, <1>3

(* A response with a chain of aliases.                                     *)
LEMMA ResponseKind ==
  ASSUME IsCache(clean), NEW p, p.name \in Names, p.targets \in Seq(Names),
         NEW more, AliasedResponse(p, more), view' = view
  PROVE  Idles \/ \E b : Answers(b, p.name)
<1> DEFINE s == AliasScan(p)
           own == Checked(s.cache, p.name, FALSE)
           events == AliasEvents(p, s.hit, own.hit)
<1>1. Looked(s) BY AliasScanned
<1>2. asked' = asked BY DEF AliasedResponse
<1>3. \/ /\ clean' = s.cache /\ cleanAt' = cleanAt /\ judged' = {} /\ answer' = {}
      \/ /\ s.hit # NoHit /\ CheckDomain(p.name, own)
         /\ answer' = {[name |-> p.name, type |-> p.type,
                        found |-> {h.info : h \in s.hit}, infos |-> {e.info : e \in events}]}
  BY DEF AliasedResponse
<1>4. answer' = {[name |-> p.name, type |-> p.type,
                  found |-> {h.info : h \in s.hit}, infos |-> {e.info : e \in events}]}
      => answer' = {Answered(p, s.hit, events)}
  BY DEF Answered, Infos
<1> HIDE DEF s
<1>5. CASE clean' = s.cache /\ cleanAt' = cleanAt /\ judged' = {} /\ answer' = {}
  BY <1>1, <1>2, <1>5 DEF Looked, Idles, Rests
<1>6. CASE /\ s.hit # NoHit /\ CheckDomain(p.name, own) /\ answer' = {Answered(p, s.hit, events)}
  <2>1. ChecksFrom(s.cache, p.name) BY <1>1, <1>6 DEF Looked, ChecksFrom
  <2>2. \E t \in Names : s.hit = Judgement(Trails, t, TRUE) BY <1>1, <1>6 DEF Looked
  <2>3. Answers(s.cache, p.name) BY <1>2, <1>6, <2>1, <2>2 DEF Answers
  <2> QED BY <2>3
<1> QED BY <1>3, <1>4, <1>5, <1>6

(* A datagram of port 53.                                                  *)
LEMMA DatagramKind ==
  ASSUME IsCache(clean), NEW p, p.name \in Names, p.targets \in Seq(Names), DnsDatagram(p)
  PROVE  StepKind
<1>0. view' = view BY DEF DnsDatagram
<1>1. \/ Passed \/ ExhaustedQuery(p) \/ CheckedQuery(p) \/ NxResponse(p)
      \/ \E more : AliasedResponse(p, more)
  BY DEF DnsDatagram
<1>2. CASE Passed BY <1>0, <1>2, NoCheckRests DEF Passed, StepKind
<1>3. CASE ExhaustedQuery(p)
  <2>1. NoCheck /\ asked' = asked /\ answer' = {} BY <1>3 DEF ExhaustedQuery
  <2> QED BY <1>0, <2>1, NoCheckRests DEF StepKind
<1>4. CASE CheckedQuery(p) BY <1>0, <1>4, QueryKind DEF StepKind
<1>5. CASE NxResponse(p)
  <2>1. NoCheck /\ asked' = asked /\ answer' = {} BY <1>5 DEF NxResponse
  <2> QED BY <1>0, <2>1, NoCheckRests DEF StepKind
<1>6. ASSUME NEW more, AliasedResponse(p, more) PROVE StepKind
  <2>1. Idles \/ \E b : Answers(b, p.name) BY <1>0, <1>6, ResponseKind
  <2> QED BY <2>1 DEF StepKind
<1> QED BY <1>1, <1>2, <1>3, <1>4, <1>5, <1>6

(* Every step is of one of the kinds.                                      *)
LEMMA StepKinds ==
  ASSUME RequestInv, IsCache(clean), view \in 1..Len(TrailSets), Next
  PROVE  StepKind
<1>0. \A p \in offer.traffic :
        /\ p.kind \in {"dns", "sni"} => p.name \in Names
        /\ p.kind = "dns" => p.targets \in Seq(Names)
        /\ p.kind = "http" => (p.hasHost => p.host \in Names)
  BY TrafficAssumption DEF RequestInv
<1>1. ASSUME NEW p \in offer.traffic, DnsDatagram(p) PROVE StepKind
  <2>1. p.kind = "dns" BY <1>1 DEF DnsDatagram
  <2> QED BY <1>0, <1>1, <2>1, DatagramKind
<1>2. ASSUME NEW p \in offer.traffic, ServerName(p) PROVE StepKind
  <2>1. p.name \in Names BY <1>0, <1>2 DEF ServerName
  <2>2. /\ CheckDomain(p.name, Checked(clean, p.name, FALSE))
        /\ view' = view /\ asked' = asked /\ answer' = {}
    BY <1>2 DEF ServerName
  <2>3. ChecksName(clean, p.name) BY <2>1, <2>2, CleanCheck DEF ChecksName
  <2> QED BY <2>1, <2>3 DEF StepKind
<1>3. ASSUME NEW p \in offer.traffic, RequestHost(p) PROVE StepKind
  <2>1. view' = view /\ asked' = asked /\ answer' = {} BY <1>3 DEF RequestHost
  <2>2. CASE ChecksHost(p)
    <3>1. p.host \in Names BY <1>0, <1>3, <2>2 DEF RequestHost, ChecksHost
    <3>2. CheckDomain(p.host, Checked(clean, p.host, FALSE)) BY <1>3, <2>2 DEF RequestHost
    <3>3. ChecksName(clean, p.host) BY <2>1, <3>1, <3>2, CleanCheck DEF ChecksName
    <3> QED BY <3>1, <3>3 DEF StepKind
  <2>3. CASE ~ChecksHost(p)
    <3>1. NoCheck BY <1>3, <2>3 DEF RequestHost
    <3> QED BY <2>1, <3>1, NoCheckRests DEF StepKind
  <2> QED BY <2>2, <2>3
<1>4. ASSUME NEW p \in offer.traffic, Response(p) PROVE StepKind
  <2>1. NoCheck /\ view' = view /\ asked' = asked /\ answer' = {} BY <1>4 DEF Response
  <2> QED BY <2>1, NoCheckRests DEF StepKind
<1>5. CASE RequestTarget
  <2>1. view' = view /\ asked' = asked /\ answer' = {} BY <1>5 DEF RequestTarget
  <2> DEFINE p == req.packet
  <2>2. CASE AsksProxy(p)
    <3>1. p.target \in Names BY <1>5, <2>2, RequestNames DEF RequestTarget
    <3>2. CheckDomain(p.target, Checked(clean, p.target, FALSE)) BY <1>5, <2>2 DEF RequestTarget
    <3>3. ChecksName(clean, p.target) BY <2>1, <3>1, <3>2, CleanCheck DEF ChecksName
    <3> QED BY <3>1, <3>3 DEF StepKind
  <2>3. CASE ~AsksProxy(p)
    <3>1. NoCheck BY <1>5, <2>3 DEF RequestTarget
    <3> QED BY <2>1, <3>1, NoCheckRests DEF StepKind
  <2> QED BY <2>2, <2>3
<1>6. CASE Tick
  <2>1. NoCheck /\ view' = view /\ asked' = asked /\ answer' = {} BY <1>6 DEF Tick, NoCheck
  <2> QED BY <2>1, NoCheckRests DEF StepKind
<1>7. CASE Refresh BY <1>7 DEF Refresh, AdoptTrails, StepKind, Adopts, Rests
<1> QED BY <1>1, <1>2, <1>3, <1>4, <1>5, <1>6, <1>7 DEF Next

-----------------------------------------------------------------------------
(* The cache is bounded.                                                   *)

CacheInv == RequestInv /\ IsCache(clean) /\ view \in 1..Len(TrailSets)

(* What a check leaves of the cache.                                       *)
Leaves(q, c) ==
  /\ IsCache(clean') /\ clean' = c.cache
  /\ \/ Held(clean') = Held(clean)
     \/ c.fresh /\ q \notin Held(clean) /\ Inserted(Held(clean), Held(clean'), q)

(* A check adds at most the name, as an insertion.                         *)
LEMMA CheckLeaves ==
  ASSUME NEW q \in Names, NEW b, ChecksFrom(b, q), NEW c, c = Checked(b, q, FALSE)
  PROVE  Leaves(q, c)
<1>1. IsCache(b) /\ Held(b) = Held(clean) /\ clean' = c.cache BY DEF ChecksFrom, CheckDomain
<1>2. /\ IsCache(c.cache)
      /\ \/ Held(c.cache) = Held(b)
         \/ c.fresh /\ q \notin Held(b) /\ Inserted(Held(b), Held(c.cache), q)
  BY <1>1, CheckedCache
<1> QED BY <1>1, <1>2 DEF Leaves

(* Every step rests or checks a name.                                      *)
LEMMA StepChecks ==
  ASSUME StepKind
  PROVE  Adopts \/ Idles \/ \E q \in Names : \E b : ChecksFrom(b, q)
  BY DEF StepKind, ChecksName, Asks, Answers

(* The empty cache is one.                                                 *)
LEMMA CacheInit == Init => CacheInv
<1> SUFFICES ASSUME Init PROVE CacheInv OBVIOUS
<1>1. RequestInv BY RequestInit
<1>2. clean = EmptyCache /\ view = 1 BY DEF Init, DnsInit, CheckInit
<1>3. 1 \in 1..Len(TrailSets) BY DomainAssumption
<1> QED BY <1>1, <1>2, <1>3, EmptyIsCache DEF CacheInv

(* Every step leaves a cache.                                              *)
LEMMA CacheStep == CacheInv /\ [Next]_vars => CacheInv'
<1> SUFFICES ASSUME CacheInv, [Next]_vars PROVE CacheInv' OBVIOUS
<1>1. RequestInv' BY RequestStep DEF CacheInv
<1>2. CASE UNCHANGED vars
  <2>1. clean' = clean /\ view' = view BY <1>2 DEF vars, pathVars, checkVars
  <2> QED BY <1>1, <2>1 DEF CacheInv
<1>3. CASE Next
  <2>1. StepKind BY <1>3, StepKinds DEF CacheInv
  <2>2. CASE Adopts
    <3>1. view + 1 \in 1..Len(TrailSets) BY <2>2, DomainAssumption DEF CacheInv, Adopts
    <3> QED BY <1>1, <2>2, <3>1 DEF CacheInv, Adopts, Rests
  <2>3. CASE Idles BY <1>1, <2>3 DEF CacheInv, Idles, Rests
  <2>4. ASSUME NEW q \in Names, NEW b, ChecksFrom(b, q) PROVE CacheInv'
    <3>1. IsCache(clean') BY <2>4, CheckLeaves DEF Leaves
    <3>2. view' = view BY <2>4 DEF ChecksFrom
    <3> QED BY <1>1, <3>1, <3>2 DEF CacheInv
  <2> QED BY <2>1, <2>2, <2>3, <2>4, StepChecks
<1> QED BY <1>2, <1>3

(* The cardinality the abstract cache counts with.                         *)
LEMMA CountsAlike == \A S : Bounded!Cardinality(S) = Cardinality(S)
  BY Zenon DEF Bounded!Cardinality, Cardinality

(* A step that changes what is held inserts one name.                      *)
LEMMA BoundedStep == CacheInv /\ [Next]_vars => [Bounded!Next]_(Held(clean))
<1> SUFFICES ASSUME CacheInv, [Next]_vars, Held(clean)' # Held(clean) PROVE Bounded!Next OBVIOUS
<1>1. Next BY DEF vars, pathVars, checkVars, Held
<1>2. StepKind BY <1>1, StepKinds DEF CacheInv
<1>3. Held(clean)' = Held(clean') BY DEF Held
<1>4. ~Adopts /\ ~Idles BY <1>3 DEF Adopts, Idles, Rests
<1>5. PICK q \in Names : \E b : ChecksFrom(b, q) BY <1>2, <1>4, StepChecks
<1>6. PICK b : ChecksFrom(b, q) BY <1>5
<1>7. q \notin Held(clean) /\ Inserted(Held(clean), Held(clean)', q)
  BY <1>3, <1>6, CheckLeaves DEF Leaves
<1>8. Bounded!Insert(q) BY <1>7, CountsAlike DEF Inserted, Bounded!Insert
<1> QED BY <1>7, <1>8 DEF Bounded!Next

(* In every behaviour the SIEVE cache of clean names is a bounded cache:   *)
(* never more names than its capacity or two of one hash, one name added   *)
(* at a time, for which at most one other is dropped.                      *)
THEOREM SpecCleanCacheBounded == Spec => CleanCacheBounded
<1>1. Init => Bounded!Init
  BY EmptyIsCache DEF Init, DnsInit, CheckInit, Bounded!Init
<1> QED BY <1>1, CacheInit, CacheStep, BoundedStep, PTL DEF Spec, CleanCacheBounded, Bounded!Spec

-----------------------------------------------------------------------------
(* The verdicts.                                                           *)

(* A name the cache holds was found clean, and every name found clean is   *)
(* clean in the set it was judged by.                                      *)
CleanInv ==
  /\ cleanAt \in [Names -> 0..Len(TrailSets)]
  /\ \A q \in Names : Hit(clean, q) => cleanAt[q] # 0
  /\ \A q \in Names : cleanAt[q] # 0 => Judgement(TrailSets[cleanAt[q]], q, FALSE) = NoHit

VerdictInv == CacheInv /\ CleanInv /\ VerdictFollowsPolicy

(* An insertion brings nothing else in.                                    *)
LEMMA InsertedOne ==
  ASSUME NEW before, NEW after, NEW k, Inserted(before, after, k)
  PROVE  after \subseteq before \cup {k}
  BY DEF Inserted

(* The walks find what the policy says, in each of the trail sets.         *)
LEMMA SetJudges ==
  ASSUME NEW i \in 1..Len(TrailSets), NEW q \in Names, IsValid(q)
  PROVE  Judgement(TrailSets[i], q, FALSE) # NoHit <=> Policy(TrailSets[i], q)
<1>1. DOMAIN TrailSets[i].exact \subseteq Seq(Label) /\ q \in Seq(Label)
  BY DomainAssumption DEF Names
<1> QED BY <1>1, JudgementIsPolicy

(* The history after a check.                                              *)
LEMMA CheckHistory ==
  ASSUME CacheInv, CleanInv, NEW q \in Names, NEW b, ChecksFrom(b, q),
         NEW c, c = Checked(b, q, FALSE)
  PROVE  /\ cleanAt' \in [Names -> 0..Len(TrailSets)]
         /\ \A r \in Names : r # q => cleanAt'[r] = cleanAt[r]
         /\ cleanAt'[q] = IF c.fresh THEN view ELSE cleanAt[q]
<1>1. cleanAt' = IF c.fresh THEN [cleanAt EXCEPT ![q] = view] ELSE cleanAt
  BY DEF ChecksFrom, CheckDomain
<1>2. cleanAt \in [Names -> 0..Len(TrailSets)] BY DEF CleanInv
<1>3. view \in 0..Len(TrailSets) BY DomainAssumption DEF CacheInv
<1>4. CASE c.fresh BY <1>1, <1>2, <1>3, <1>4
<1>5. CASE ~c.fresh BY <1>1, <1>2, <1>5
<1> QED BY <1>4, <1>5

(* Nothing is remembered at first.                                         *)
LEMMA CleanInit == Init => CleanInv /\ VerdictFollowsPolicy
  BY EmptyIsCache, DomainAssumption
  DEF Init, DnsInit, CheckInit, CleanInv, VerdictFollowsPolicy, Hit

(* A check is what the policy says, or the cache's word for an earlier     *)
(* set.                                                                    *)
LEMMA CheckVerdict ==
  ASSUME CacheInv, CleanInv, NEW q \in Names, NEW b, ChecksFrom(b, q)
  PROVE  CleanInv' /\ VerdictFollowsPolicy'
<1> DEFINE c == Checked(b, q, FALSE)
<1>1. CheckedAs(b, q, FALSE, c) BY CheckedCases
<1>2. Leaves(q, c) BY CheckLeaves
<1>3. /\ cleanAt' \in [Names -> 0..Len(TrailSets)]
      /\ \A r \in Names : r # q => cleanAt'[r] = cleanAt[r]
      /\ cleanAt'[q] = IF c.fresh THEN view ELSE cleanAt[q]
  BY CheckHistory
<1>4. view' = view /\ view \in 1..Len(TrailSets) /\ view # 0 /\ judged' = {[name |-> q, hit |-> c.hit]}
      /\ Held(b) = Held(clean)
  BY DEF ChecksFrom, CheckDomain, CacheInv
<1> HIDE DEF c
<1>5. c.fresh => Judgement(TrailSets[view], q, FALSE) = NoHit
  BY <1>1 DEF CheckedAs, Trails
<1>6. ASSUME NEW r \in Names, Hit(clean', r) PROVE cleanAt'[r] # 0
  <2>1. CASE Held(clean') = Held(clean)
    <3>1. cleanAt[r] # 0 BY <1>6, <2>1 DEF Hit, CleanInv
    <3> QED BY <1>3, <1>4, <3>1
  <2>2. CASE c.fresh /\ Inserted(Held(clean), Held(clean'), q)
    <3>1. r \in Held(clean) \/ r = q BY <1>6, <2>2, InsertedOne DEF Hit
    <3>2. r # q => cleanAt[r] # 0 BY <3>1 DEF Hit, CleanInv
    <3> QED BY <1>3, <1>4, <2>2, <3>2
  <2> QED BY <1>2, <2>1, <2>2 DEF Leaves
<1>7. ASSUME NEW r \in Names, cleanAt'[r] # 0
      PROVE  Judgement(TrailSets[cleanAt'[r]], r, FALSE) = NoHit
  <2>1. CASE r = q /\ c.fresh BY <1>3, <1>5, <2>1
  <2>2. CASE ~(r = q /\ c.fresh)
    <3>1. cleanAt'[r] = cleanAt[r] BY <1>3, <2>2
    <3> QED BY <1>7, <3>1 DEF CleanInv
  <2> QED BY <2>1, <2>2
<1>8. CleanInv' BY <1>3, <1>6, <1>7 DEF CleanInv, Hit
<1>9. ASSUME IsValid(q), ~IsNumeric(q)
      PROVE  \/ (c.hit # NoHit) <=> Policy(TrailSets[view], q)
             \/ /\ c.hit = NoHit /\ Hit(clean', q) /\ cleanAt'[q] # 0
                /\ ~Policy(TrailSets[cleanAt'[q]], q)
  <2>1. CASE Hit(b, q)
    <3>1. c.hit = NoHit /\ ~c.fresh BY <1>1, <1>9, <2>1 DEF CheckedAs
    <3>2. Held(clean') = Held(clean) BY <1>2, <3>1 DEF Leaves
    <3>3. Hit(clean', q) /\ Hit(clean, q) BY <1>4, <2>1, <3>2 DEF Hit
    <3>4. cleanAt'[q] = cleanAt[q] /\ cleanAt[q] # 0 BY <1>3, <3>1, <3>3 DEF CleanInv
    <3>5. cleanAt[q] \in 1..Len(TrailSets) BY <3>4, DomainAssumption DEF CleanInv
    <3>6. Judgement(TrailSets[cleanAt[q]], q, FALSE) = NoHit BY <3>4 DEF CleanInv
    <3>7. ~Policy(TrailSets[cleanAt[q]], q) BY <1>9, <3>5, <3>6, SetJudges
    <3> QED BY <3>1, <3>3, <3>4, <3>7
  <2>2. CASE ~Hit(b, q)
    <3>1. c.hit = Judgement(TrailSets[view], q, FALSE) BY <1>1, <1>9, <2>2 DEF CheckedAs, Trails
    <3> QED BY <1>4, <1>9, <3>1, SetJudges
  <2> QED BY <2>1, <2>2
<1>10. VerdictFollowsPolicy'
  <2> SUFFICES ASSUME NEW j \in judged', IsValid(j.name), ~IsNumeric(j.name)
               PROVE  \/ (j.hit # NoHit) <=> Policy(TrailSets[view'], j.name)
                      \/ /\ j.hit = NoHit /\ Hit(clean', j.name) /\ cleanAt'[j.name] # 0
                         /\ ~Policy(TrailSets[cleanAt'[j.name]], j.name)
    BY Zenon DEF VerdictFollowsPolicy, Trails, Hit
  <2>1. j.name = q /\ j.hit = c.hit BY <1>4
  <2> QED BY <1>4, <1>9, <2>1
<1> QED BY <1>8, <1>10

(* Only a check touches the verdicts; adopting a trail set leaves what is  *)
(* remembered as it was judged.                                            *)
LEMMA VerdictStep == VerdictInv /\ [Next]_vars => VerdictInv'
<1> SUFFICES ASSUME VerdictInv, [Next]_vars PROVE VerdictInv' OBVIOUS
<1>1. CacheInv' BY CacheStep DEF VerdictInv
<1>2. CASE UNCHANGED vars
  <2>1. UNCHANGED <<clean, view, cleanAt, judged>> BY <1>2 DEF vars, pathVars, checkVars
  <2> QED BY <1>1, <2>1 DEF VerdictInv, CleanInv, VerdictFollowsPolicy, Trails, Hit
<1>3. CASE Next
  <2>1. StepKind BY <1>3, StepKinds DEF VerdictInv, CacheInv
  <2>2. CASE Rests
    <3>1. CleanInv' BY <2>2 DEF Rests, VerdictInv, CleanInv, Hit
    <3>2. VerdictFollowsPolicy' BY <2>2 DEF Rests, VerdictFollowsPolicy
    <3> QED BY <1>1, <3>1, <3>2 DEF VerdictInv
  <2>3. ASSUME NEW q \in Names, NEW b, ChecksFrom(b, q) PROVE VerdictInv'
    BY <1>1, <2>3, CheckVerdict DEF VerdictInv
  <2> QED BY <2>1, <2>2, <2>3, StepChecks DEF Adopts, Idles
<1> QED BY <1>2, <1>3

(* In every behaviour, through all reloads and evictions, what a check     *)
(* reports is what the policy says of the name in the trail set in use, or *)
(* nothing where the name is remembered as clean, and then it is clean in  *)
(* the set it was last judged by.                                          *)
THEOREM SpecVerdictFollowsPolicy == Spec => []VerdictFollowsPolicy
<1>1. Init => VerdictInv BY CacheInit, CleanInit DEF VerdictInv
<1>2. VerdictInv => VerdictFollowsPolicy BY DEF VerdictInv
<1> QED BY <1>1, <1>2, VerdictStep, PTL DEF Spec

-----------------------------------------------------------------------------
(* Lookups.                                                                *)

Own(i, q) == IF IsNumeric(q) THEN NoHit ELSE Judgement(TrailSets[i], q, FALSE)

(* What a request in asked was told is what the trails in use say of its   *)
(* name, and the cache knows nothing else of it.                           *)
AskedInv ==
  \A r \in asked :
    /\ r.name \in Names
    /\ r.infos = Infos(Own(view, r.name))
    /\ Hit(clean, r.name) => cleanAt[r.name] = view

LookupInv == CacheInv /\ CleanInv /\ AskedInv /\ LookupReportedOnce

(* A judgement names at most one trail.                                    *)
LEMMA JudgesOne ==
  ASSUME NEW trails, NEW q, NEW al \in BOOLEAN
  PROVE  Judgement(trails, q, al) = NoHit \/ \E e, i : Judgement(trails, q, al) = HitOn(e, i)
<1> DEFINE g == GatewayHit(trails, q)
           w == WalkHit(trails, q)
           h == IF al THEN NoHit ELSE HomographHit(q)
           c == WildcardHit(trails, q)
           o == OnionHit(trails, q)
           One(x) == x = NoHit \/ \E e, i : x = HitOn(e, i)
<1>1. One(g) BY DEF GatewayHit
<1>2. One(w) BY DEF WalkHit
<1>3. One(h) BY DEF HomographHit
<1>4. One(c) BY DEF WildcardHit
<1>5. One(o) BY DEF OnionHit
<1>6. One(NoHit) OBVIOUS
<1>7. Judgement(trails, q, al) = NoHit \/ Judgement(trails, q, al) = FirstOf(<<g, w, h, c, o>>)
  BY DEF Judgement
<1> HIDE DEF g, w, h, c, o, One
<1>8. Judgement(trails, q, al) = NoHit \/ FoundIn(Judgement(trails, q, al), g, w, h, c, o)
  BY <1>7, FirstOfFive
<1>9. One(Judgement(trails, q, al)) BY <1>1, <1>2, <1>3, <1>4, <1>5, <1>6, <1>8 DEF FoundIn
<1> QED BY <1>9 DEF One

(* One trail has one label.                                                *)
LEMMA OneInfo ==
  ASSUME NEW hit, hit = NoHit \/ \E e, i : hit = HitOn(e, i)
  PROVE  (hit = NoHit /\ Infos(hit) = {}) \/ (hit # NoHit /\ \E i : Infos(hit) = {i})
<1>1. CASE hit = NoHit BY <1>1 DEF NoHit, Infos
<1>2. ASSUME NEW e, NEW i, hit = HitOn(e, i) PROVE hit # NoHit /\ Infos(hit) = {i}
  BY <1>2 DEF HitOn, NoHit, Infos
<1> QED BY <1>1, <1>2

(* A check of a name the cache knows nothing stale of finds what the       *)
(* trails in use say.                                                      *)
LEMMA ChecksOwn ==
  ASSUME CacheInv, CleanInv, NEW q \in Names, NEW b, ChecksFrom(b, q),
         NEW c, c = Checked(b, q, FALSE), Hit(clean, q) => cleanAt[q] = view
  PROVE  c.hit = Own(view, q)
<1>1. CheckedAs(b, q, FALSE, c) BY CheckedCases
<1>2. CASE IsNumeric(q) BY <1>1, <1>2 DEF CheckedAs, Own
<1>3. CASE ~IsNumeric(q) /\ Hit(b, q)
  <2>1. c.hit = NoHit BY <1>1, <1>3 DEF CheckedAs
  <2>2. Hit(clean, q) BY <1>3 DEF ChecksFrom, Hit
  <2>3. cleanAt[q] = view /\ cleanAt[q] # 0 BY <2>2 DEF CleanInv
  <2>4. Judgement(TrailSets[view], q, FALSE) = NoHit BY <2>3 DEF CleanInv
  <2> QED BY <1>3, <2>1, <2>4 DEF Own
<1>4. CASE ~IsNumeric(q) /\ ~Hit(b, q) BY <1>1, <1>4 DEF CheckedAs, Own, Trails
<1> QED BY <1>2, <1>3, <1>4

(* No check makes what the cache knows of a name stale.                    *)
LEMMA StaysFresh ==
  ASSUME CacheInv, CleanInv, NEW q \in Names, NEW b, ChecksFrom(b, q),
         NEW r \in Names, Hit(clean, r) => cleanAt[r] = view
  PROVE  Hit(clean', r) => cleanAt'[r] = view
<1> DEFINE c == Checked(b, q, FALSE)
<1>1. Leaves(q, c) BY CheckLeaves
<1>2. /\ \A n \in Names : n # q => cleanAt'[n] = cleanAt[n]
      /\ cleanAt'[q] = IF c.fresh THEN view ELSE cleanAt[q]
  BY CheckHistory
<1> HIDE DEF c
<1> SUFFICES ASSUME Hit(clean', r) PROVE cleanAt'[r] = view OBVIOUS
<1>3. CASE Hit(clean, r) BY <1>2, <1>3
<1>4. CASE ~Hit(clean, r)
  <2>1. Held(clean') # Held(clean) BY <1>4 DEF Hit
  <2>2. c.fresh /\ Inserted(Held(clean), Held(clean'), q) BY <1>1, <2>1 DEF Leaves
  <2>3. r = q BY <1>4, <2>2, InsertedOne DEF Hit
  <2> QED BY <1>2, <2>2, <2>3
<1> QED BY <1>3, <1>4

(* A check of any name keeps what was asked up to date.                    *)
LEMMA AskedKept ==
  ASSUME CacheInv, CleanInv, AskedInv, NEW q \in Names, NEW b, ChecksFrom(b, q), asked' = asked
  PROVE  AskedInv'
<1> SUFFICES ASSUME NEW r \in asked
             PROVE  /\ r.name \in Names
                    /\ r.infos = Infos(Own(view', r.name))
                    /\ Hit(clean', r.name) => cleanAt'[r.name] = view'
  BY DEF AskedInv, Own, Infos, Hit
<1>1. view' = view BY DEF ChecksFrom
<1>2. /\ r.name \in Names /\ r.infos = Infos(Own(view, r.name))
      /\ Hit(clean, r.name) => cleanAt[r.name] = view
  BY DEF AskedInv
<1>3. Hit(clean', r.name) => cleanAt'[r.name] = view BY <1>2, StaysFresh
<1> QED BY <1>1, <1>2, <1>3

(* So does a request that is added to it.                                  *)
LEMMA AskedMore ==
  ASSUME CacheInv, CleanInv, AskedInv, NEW q \in Names, NEW b, Asks(b, q)
  PROVE  AskedInv'
<1> DEFINE c == Checked(b, q, FALSE)
<1>0. b = clean /\ ChecksFrom(b, q) BY DEF Asks
<1>1. view' = view BY <1>0 DEF ChecksFrom
<1> SUFFICES ASSUME NEW r \in asked'
             PROVE  /\ r.name \in Names
                    /\ r.infos = Infos(Own(view, r.name))
                    /\ Hit(clean', r.name) => cleanAt'[r.name] = view
  BY <1>1 DEF AskedInv, Own, Infos, Hit
<1>2. r \in asked \/ (~Outdated(q) /\ r = [name |-> q, infos |-> Infos(c.hit)]) BY DEF Asks
<1> HIDE DEF c
<1>3. CASE r \in asked
  <2>1. /\ r.name \in Names /\ r.infos = Infos(Own(view, r.name))
        /\ Hit(clean, r.name) => cleanAt[r.name] = view
    BY <1>3 DEF AskedInv
  <2> QED BY <1>0, <2>1, StaysFresh
<1>4. CASE ~Outdated(q) /\ r = [name |-> q, infos |-> Infos(c.hit)]
  <2>1. Hit(clean, q) => cleanAt[q] = view BY <1>4 DEF Outdated
  <2>2. c.hit = Own(view, q) BY <1>0, <2>1, ChecksOwn DEF c
  <2>3. Hit(clean', q) => cleanAt'[q] = view BY <1>0, <2>1, StaysFresh
  <2>4. r.name = q /\ r.infos = Infos(c.hit) BY <1>4
  <2> QED BY <2>2, <2>3, <2>4
<1> QED BY <1>2, <1>3, <1>4

(* The events of a chain, with the label of the listed target.             *)
LEMMA AliasInfos ==
  ASSUME NEW p, NEW hit, NEW own, NEW events, events = AliasEvents(p, hit, own)
  PROVE  Infos(events) =
           IF Infos(hit) # Infos(own) THEN Infos(hit)
           ELSE IF p.type = "checked" THEN {} ELSE Infos(own)
<1> DEFINE al == {[kind |-> "alias", trail |-> h.entry, info |-> h.info] : h \in hit}
           dn == {[kind |-> "dns", trail |-> h.entry, info |-> h.info] : h \in own}
<1>1. events =
        IF Infos(hit) # Infos(own) THEN al ELSE IF p.type = "checked" THEN {} ELSE dn
  BY DEF AliasEvents, DomainEvents, Infos
<1>2. Infos(al) = Infos(hit)
  <2>1. \A h \in hit : [kind |-> "alias", trail |-> h.entry, info |-> h.info] \in al
                       /\ [kind |-> "alias", trail |-> h.entry, info |-> h.info].info = h.info
    OBVIOUS
  <2>2. \A e \in al : \E h \in hit : e.info = h.info OBVIOUS
  <2> HIDE DEF al
  <2>3. \A x \in Infos(al) : x \in Infos(hit) BY <2>2 DEF Infos
  <2>4. \A h \in hit : \E e \in al : e.info = h.info BY <2>1
  <2>5. \A x \in Infos(hit) : x \in Infos(al) BY <2>4 DEF Infos
  <2> QED BY <2>3, <2>5
<1>3. Infos(dn) = Infos(own)
  <2>1. \A h \in own : [kind |-> "dns", trail |-> h.entry, info |-> h.info] \in dn
                       /\ [kind |-> "dns", trail |-> h.entry, info |-> h.info].info = h.info
    OBVIOUS
  <2>2. \A e \in dn : \E h \in own : e.info = h.info OBVIOUS
  <2> HIDE DEF dn
  <2>3. \A x \in Infos(dn) : x \in Infos(own) BY <2>2 DEF Infos
  <2>4. \A h \in own : \E e \in dn : e.info = h.info BY <2>1
  <2>5. \A x \in Infos(own) : x \in Infos(dn) BY <2>4 DEF Infos
  <2> QED BY <2>3, <2>5
<1>4. Infos({}) = {} BY DEF Infos
<1> HIDE DEF al, dn
<1> QED BY <1>1, <1>2, <1>3, <1>4

(* The response names the listed target exactly if the request did not.    *)
LEMMA AnswerOnce ==
  ASSUME CacheInv, CleanInv, AskedInv, NEW q \in Names, NEW b, Answers(b, q)
  PROVE  LookupReportedOnce'
<1> DEFINE own == Checked(b, q, FALSE).hit
<1>1. ChecksFrom(b, q) /\ asked' = asked BY DEF Answers
<1>2. PICK p : \E hit :
        /\ p.name = q /\ hit # NoHit /\ \E t \in Names : hit = Judgement(Trails, t, TRUE)
        /\ answer' = {Answered(p, hit, AliasEvents(p, hit, own))}
  BY DEF Answers
<1>3. PICK hit :
        /\ p.name = q /\ hit # NoHit /\ \E t \in Names : hit = Judgement(Trails, t, TRUE)
        /\ answer' = {Answered(p, hit, AliasEvents(p, hit, own))}
  BY <1>2
<1>4. PICK i : Infos(hit) = {i} BY <1>3, JudgesOne, OneInfo
<1> DEFINE a == Answered(p, hit, AliasEvents(p, hit, own))
<1>5. a.name = q /\ a.type = p.type /\ a.found = {i}
      /\ a.infos = IF {i} # Infos(own) THEN {i}
                   ELSE IF p.type = "checked" THEN {} ELSE Infos(own)
  <2> DEFINE events == AliasEvents(p, hit, own)
  <2>1. Infos(events) = IF Infos(hit) # Infos(own) THEN Infos(hit)
                        ELSE IF p.type = "checked" THEN {} ELSE Infos(own)
    <3> HIDE DEF own
    <3> QED BY AliasInfos
  <2> HIDE DEF events
  <2>2. Answered(p, hit, events).name = q /\ Answered(p, hit, events).type = p.type
        /\ Answered(p, hit, events).found = Infos(hit)
        /\ Answered(p, hit, events).infos = Infos(events)
    BY <1>3 DEF Answered
  <2> QED BY <1>4, <2>1, <2>2 DEF events
<1> HIDE DEF own, a
<1>6. a.type # "checked" => a.infos = a.found BY <1>5
<1>7. ASSUME a.type = "checked", NEW r \in asked, r.name = a.name
      PROVE  (a.found \subseteq r.infos) <=> ~(a.found \subseteq a.infos)
  <2>1. r.infos = Infos(Own(view, q)) /\ (Hit(clean, q) => cleanAt[q] = view)
    BY <1>5, <1>7 DEF AskedInv
  <2>2. own = Own(view, q) BY <1>1, <2>1, ChecksOwn DEF own
  <2>3. Infos(own) = {} \/ \E k : Infos(own) = {k}
    <3>0. FALSE \in BOOLEAN OBVIOUS
    <3>a. \/ Judgement(TrailSets[view], q, FALSE) = NoHit
          \/ \E e, k : Judgement(TrailSets[view], q, FALSE) = HitOn(e, k)
      BY <3>0, JudgesOne
    <3>1. own = NoHit \/ \E e, k : own = HitOn(e, k) BY <2>2, <3>a DEF Own
    <3> QED BY <3>1, OneInfo
  <2>4. r.infos = Infos(own) BY <2>1, <2>2
  <2>5. CASE Infos(own) = {i} BY <1>5, <1>7, <2>4, <2>5
  <2>6. CASE Infos(own) # {i}
    <3>1. ~({i} \subseteq Infos(own)) BY <2>3, <2>6
    <3> QED BY <1>5, <2>4, <2>6, <3>1
  <2> QED BY <2>5, <2>6
<1>8. answer' = {a} BY <1>3 DEF a
<1> QED BY <1>1, <1>6, <1>7, <1>8 DEF LookupReportedOnce

(* Nothing is asked yet.                                                   *)
LEMMA LookupInit == Init => AskedInv /\ LookupReportedOnce
  BY DEF Init, DnsInit, AskedInv, LookupReportedOnce

(* Every step keeps the record of requests and reports a lookup once.      *)
LEMMA LookupStep == LookupInv /\ VerdictInv /\ [Next]_vars => LookupInv'
<1> SUFFICES ASSUME LookupInv, VerdictInv, [Next]_vars PROVE LookupInv' OBVIOUS
<1>1. CacheInv' /\ CleanInv' BY VerdictStep DEF VerdictInv
<1>0. CacheInv /\ CleanInv /\ AskedInv BY DEF LookupInv
<1>a. answer' = {} => LookupReportedOnce' BY DEF LookupReportedOnce
<1>2. CASE UNCHANGED vars
  <2>1. UNCHANGED <<clean, view, cleanAt, asked, answer>>
    BY <1>2 DEF vars, pathVars, checkVars, dnsVars
  <2>2. AskedInv' BY <1>0, <2>1 DEF AskedInv, Hit, Own, Infos
  <2>3. LookupReportedOnce' BY <2>1 DEF LookupInv, LookupReportedOnce
  <2> QED BY <1>1, <2>2, <2>3 DEF LookupInv
<1>3. CASE Next
  <2>1. StepKind BY <1>3, StepKinds DEF LookupInv, CacheInv
  <2>2. CASE Adopts
    <3>1. asked' = {} /\ answer' = {} BY <2>2 DEF Adopts
    <3>2. AskedInv' BY <3>1 DEF AskedInv
    <3> QED BY <1>1, <1>a, <3>1, <3>2 DEF LookupInv
  <2>3. CASE Idles
    <3>1. asked' = asked /\ answer' = {} /\ view' = view /\ Held(clean') = Held(clean)
          /\ cleanAt' = cleanAt
      BY <2>3 DEF Idles, Rests
    <3>2. AskedInv' BY <1>0, <3>1 DEF AskedInv, Hit, Own, Infos
    <3> QED BY <1>1, <1>a, <3>1, <3>2 DEF LookupInv
  <2>4. ASSUME NEW q \in Names, NEW b, ChecksName(b, q) PROVE LookupInv'
    <3>1. ChecksFrom(b, q) /\ asked' = asked /\ answer' = {} BY <2>4 DEF ChecksName
    <3>2. AskedInv' BY <1>0, <3>1, AskedKept
    <3> QED BY <1>1, <1>a, <3>1, <3>2 DEF LookupInv
  <2>5. ASSUME NEW q \in Names, NEW b, Asks(b, q) PROVE LookupInv'
    <3>1. AskedInv' BY <1>0, <2>5, AskedMore
    <3>2. answer' = {} BY <2>5 DEF Asks
    <3> QED BY <1>1, <1>a, <3>1, <3>2 DEF LookupInv
  <2>6. ASSUME NEW q \in Names, NEW b, Answers(b, q) PROVE LookupInv'
    <3>1. ChecksFrom(b, q) /\ asked' = asked BY <2>6 DEF Answers
    <3>2. AskedInv' BY <1>0, <3>1, AskedKept
    <3>3. LookupReportedOnce' BY <1>0, <2>6, AnswerOnce
    <3> QED BY <1>1, <3>2, <3>3 DEF LookupInv
  <2> QED BY <2>1, <2>2, <2>3, <2>4, <2>5, <2>6 DEF StepKind
<1> QED BY <1>2, <1>3

(* In every behaviour a lookup whose chain of aliases meets a listed name  *)
(* is reported once, by the request or by the response, however the cache  *)
(* of clean names fills and empties between the two.                       *)
THEOREM SpecLookupReportedOnce == Spec => []LookupReportedOnce
<1>1. Init => VerdictInv /\ LookupInv
  BY CacheInit, CleanInit, LookupInit DEF VerdictInv, LookupInv
<1>2. LookupInv => LookupReportedOnce BY DEF LookupInv
<1> QED BY <1>1, <1>2, VerdictStep, LookupStep, PTL DEF Spec

=============================================================================
