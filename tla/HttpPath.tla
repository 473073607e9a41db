------------------------------ MODULE HttpPath ------------------------------
(***************************************************************************)
(* The HTTP side of the verdicts (sensor/src/process.rs http_request and   *)
(* http_response), beside the DNS side: both feed the same check of domain *)
(* names and the same cache of clean ones.                                 *)
(*                                                                         *)
(* A request is what the code reads from it: the host its Host: header     *)
(* names, the form of its path ("/" or "/...://", an absolute URL, an      *)
(* address for CONNECT, or other), the name a proxy is asked for, the      *)
(* candidates build_checks() derives from path and body, and which of the  *)
(* expression tables match.  The check of the Host: header and the check   *)
(* of a proxy's target are one step each, as each may insert a name into   *)
(* the cache.  The web_scanning tracker is in module ScanPath.             *)
(***************************************************************************)
EXTENDS DnsPath

CONSTANTS
  CheckHostDomains, \* CHECK_HOST_DOMAINS
  CheckMissingHost, \* CHECK_MISSING_HOST
  Ours              \* addresses that start with the learned local prefix

\* A packet names what it names by the labels of a name.
ASSUME TrafficAssumption ==
  \A o \in Offers : \A p \in o.traffic :
    /\ p.kind \in {"dns", "sni"} => p.name \in Names
    /\ p.kind = "dns" => p.targets \in Seq(Names)
    /\ p.kind = "http" =>
         /\ {p.host, p.target} \subseteq Seq(Label) /\ p.checks \in Seq(Label)
         /\ p.hasHost => p.host \in Names
         /\ p.form \in {"absolute", "embedded", "connect"} => p.target \in Names

VARIABLE req        \* the request between its two steps

vars == <<pathVars, req>>

NoRequest == [state |-> "none"]

Idle == req = NoRequest

HttpInit == req = NoRequest

IsAddress(host) == host # <<>> /\ \A i \in DOMAIN host : host[i] \in Digits

UrlEvent(k) == [kind |-> "url", trail |-> k, info |-> Trails.urls[k]]

HttpHeuristic(kind) == [kind |-> kind, trail |-> "http", info |-> "heuristic"]

-----------------------------------------------------------------------------
(* Only a host of ours that fetches from outside is an infection.          *)
IotDownload(p) ==
  /\ IsAddress(p.host) /\ p.iot
  /\ p.src \in Private \cup Ours /\ p.dst \notin Ours

ListedDestination(p) == p.host # <<>> /\ ~IsAddress(p.host) /\ <<p.dst>> \in DOMAIN Trails.ips

ChecksHost(p) ==
  /\ p.hasHost /\ ~ListedDestination(p) /\ ~(IsAddress(p.host) /\ p.iot)
  /\ CheckHostDomains

HostEvents(p) ==
  IF ~p.hasHost
  THEN IF UseHeuristics /\ CheckMissingHost THEN {HttpHeuristic("missingHost")} ELSE {}
  ELSE IF ListedDestination(p)
  THEN {[kind |-> "ip", trail |-> <<p.dst>>, info |-> Trails.ips[<<p.dst>>]]}
  ELSE IF IotDownload(p) THEN {HttpHeuristic("iot")} ELSE {}

(* The first half of http_request(): the Host: header.                     *)
RequestHost(p) ==
  /\ p.kind = "http" /\ Idle /\ Arrives(p)
  /\ IF ChecksHost(p)
     THEN \E c \in {Checked(clean, p.host, FALSE)} :
            CheckDomain(p.host, c) /\ out' = DomainEvents(c.hit)
     ELSE NoCheck /\ out' = HostEvents(p)
  /\ req' = IF p.hasHost /\ ~ListedDestination(p) /\ IotDownload(p) THEN NoRequest
            ELSE [state |-> "host", packet |-> p]
  /\ answer' = {}
  /\ UNCHANGED <<view, offer, sec, last, exh, tun, nx, told, asked>>

-----------------------------------------------------------------------------
ProxyProbe(p) ==
  /\ UseHeuristics /\ p.form = "absolute" /\ p.probe /\ ~Whitelisted(p.target)

(* The path names the host that is really asked for: an absolute URL, one  *)
(* inside a path when heuristics are off, or the address of a CONNECT.     *)
AsksProxy(p) ==
  \/ p.form = "absolute" /\ ~ProxyProbe(p) /\ ~p.codeExecution
  \/ p.form = "embedded" /\ ~UseHeuristics /\ ~p.codeExecution
  \/ p.form = "connect"

HostOf(p) == IF AsksProxy(p) THEN p.target ELSE p.host

(* build_checks() tried in order, each without and with the host, then the *)
(* host alone: the first that is listed.                                   *)
UrlHit(p) ==
  LET n == Len(p.checks)
      Key(i) == IF i > 2 * n THEN HostOf(p) \o <<"/">>
                ELSE (IF i % 2 = 1 THEN <<>> ELSE HostOf(p)) \o <<p.checks[(i + 1) \div 2]>>
      found == {i \in 1..(2 * n + 1) : Key(i) \in DOMAIN Trails.urls}
  IN  IF found = {} THEN {} ELSE {UrlEvent(Key(Min(found)))}

(* The suspicious request tables, in the order they are asked.             *)
RequestFindings(p) ==
  LET path == /\ ~p.whitelistedPath /\ p.pathFinding # "none"
              /\ ~(p.pathFinding = "leakage" /\ p.dst \in Private)
      body == ~p.whitelistedPath /\ p.bodyFinding
      file == p.download /\ p.dst \notin Private
  IN  IF path THEN {HttpHeuristic("path")}
      ELSE IF body THEN {HttpHeuristic("body")}
      ELSE IF file THEN {HttpHeuristic("download")}
      ELSE IF p.oddFile THEN {HttpHeuristic("file")}
      ELSE {}

(* Mutant of RequestEvents: any whitelisted parent ends it, as it did once. *)
RequestEventsVetoed(p) ==
  IF Whitelisted(HostOf(p)) THEN {}
  ELSE IF UrlHit(p) # {} THEN UrlHit(p)
  ELSE IF UseHeuristics THEN RequestFindings(p) ELSE {}

(* Past the whitelist: an entry for the host itself ends it all, one for a *)
(* parent only the heuristics.  The first URL trail that matches is the    *)
(* only event of this part.                                                *)
RequestEvents(p) ==
  LET depth == WhitelistDepth(HostOf(p))
  IN  IF depth >= Len(HostOf(p)) /\ depth > 0 THEN {}
      ELSE IF UrlHit(p) # {} THEN UrlHit(p)
      ELSE IF ~UseHeuristics \/ depth > 0 THEN {}
      ELSE RequestFindings(p)

UserAgentEvents(p) ==
  IF UseHeuristics /\ p.oddAgent THEN {HttpHeuristic("userAgent")} ELSE {}

(* The second half: the path, the user agent, the URL trails and the rest. *)
RequestTarget ==
  /\ req.state = "host"
  /\ \E p \in {req.packet} :
       IF AsksProxy(p)
       THEN \E c \in {Checked(clean, p.target, FALSE)} :
              /\ CheckDomain(p.target, c)
              /\ out' = UserAgentEvents(p) \cup RequestEvents(p) \cup DomainEvents(c.hit)
       ELSE /\ NoCheck
            /\ out' = IF ProxyProbe(p) THEN {HttpHeuristic("proxyProbe")}
                      ELSE UserAgentEvents(p) \cup RequestEvents(p)
  /\ req' = NoRequest /\ answer' = {}
  /\ UNCHANGED <<view, offer, sec, packets, last, exh, tun, nx, told, asked>>

(* http_response(): a page that says it was seized or sinkholed, and an    *)
(* odd content type.                                                       *)
Response(p) ==
  /\ p.kind = "response" /\ Idle /\ Arrives(p)
  /\ NoCheck /\ answer' = {}
  /\ out' = (IF p.page \in {"sinkhole", "seized"} THEN {HttpHeuristic(p.page)} ELSE {})
            \cup (IF p.oddType THEN {HttpHeuristic("contentType")} ELSE {})
  /\ UNCHANGED <<view, offer, sec, last, exh, tun, nx, told, asked, req>>

-----------------------------------------------------------------------------
Init == DnsInit /\ HttpInit

(* The worker handles one packet after the other; it looks for a new trail *)
(* set, and time passes, between two of them.                              *)
Next ==
  \/ \E p \in offer.traffic : (DnsDatagram(p) \/ ServerName(p)) /\ Idle /\ UNCHANGED req
  \/ \E p \in offer.traffic : RequestHost(p) \/ Response(p)
  \/ RequestTarget
  \/ (Tick \/ Refresh) /\ Idle /\ UNCHANGED req

Spec == Init /\ [][Next]_vars

(* A host that is whitelisted only through a parent loses the heuristics,  *)
(* not its trails, and the host that counts is the one the proxy was asked *)
(* for.                                                                    *)
PlatformKeepsTrails ==
  [][req.state = "host" /\ req' = NoRequest =>
       LET p == req.packet
           host == HostOf(p)
           listed == \E c \in Range(p.checks) : {<<c>>, host \o <<c>>} \cap DOMAIN Trails.urls # {}
       IN  /\ listed /\ host \notin Whitelist /\ ~ProxyProbe(p)
                => \E e \in out' : e.kind = "url"
           /\ (\E i \in DOMAIN host : Parent(host, i) \in Whitelist)
                => \A e \in out' : e.kind \notin {"path", "body", "download", "file"}]_vars

=============================================================================
