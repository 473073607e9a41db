------------------------------ MODULE Delivery ------------------------------
(***************************************************************************)
(* Remote delivery (sensor/src/output.rs write_line, send_datagram,        *)
(* endpoint_addr, spawn_resolver, spawn_heartbeat): a worker sends every   *)
(* record as one datagram per endpoint.  The addresses are in a map shared *)
(* by the workers, which look up an endpoint that has no entry, the        *)
(* resolver thread, which looks all of them up every minute, and the       *)
(* heartbeat thread, which looks LOG_SERVER up for every beat.             *)
(*                                                                         *)
(* An address is its place in the history of its name: the server behind   *)
(* an endpoint moves from address 1 to 2 and so on.  A lookup is two or    *)
(* three steps, the call, the answer and the publication, because          *)
(* getaddrinfo blocks.  Whether a worker's socket exists already changes   *)
(* none of the outcomes of a send and is left out.  The two threads are    *)
(* followed until the sensor is told to stop.                              *)
(***************************************************************************)
EXTENDS Naturals, FiniteSets, Functions

CONSTANTS
  Workers,       \* capture workers, one sink each
  NumEndpoints,  \* LOG_SERVER (endpoint 1), SYSLOG_SERVER and LOGSTASH_SERVER
  RetryInterval, \* ENDPOINT_RETRY_INTERVAL
  LookupTime,    \* how long a getaddrinfo may take
  MaxAddr,       \* bound: addresses an endpoint goes through
  MaxRecords,    \* bound: records of all workers
  MaxFaults      \* bound: failures of binds and sends

ASSUME DeliveryAssumption ==
  /\ IsFiniteSet(Workers)
  /\ NumEndpoints \in Nat \ {0}
  /\ RetryInterval \in Nat \ {0} /\ LookupTime \in Nat
  /\ MaxAddr \in Nat \ {0} /\ MaxRecords \in Nat /\ MaxFaults \in Nat

VARIABLES
  pc,           \* per worker: "idle", or what it does for the endpoint next
  next,         \* per worker: endpoint of the send_datagram() in progress
  addr,         \* per worker: the address that call uses
  retry,        \* per worker and endpoint: time left to the endpoint_retry deadline
  elapsed,      \* per worker: time its lookup has taken so far
  remoteErrors, \* per worker: remote_log_errors
  written,      \* per worker: events_written
  resolved,     \* per endpoint: RESOLVED; 0 if it has no entry
  resolver,     \* the resolver thread
  beat,         \* the heartbeat thread
  dns,          \* per endpoint: the address its name stands for
  dnsUp,        \* whether lookups are answered
  sent,         \* history: datagrams each worker handed to the kernel
  faults        \* failures so far, bounded by MaxFaults

remoteVars == <<addr, retry, elapsed, remoteErrors, sent>>
beatVars   == <<beat>>
dnsVars    == <<dns, dnsUp>>
workerVars == <<pc, next, written>>
vars == <<workerVars, remoteVars, resolved, resolver, beatVars, dnsVars, faults>>

Endpoints == 1..NumEndpoints

LogServer == 1

Addrs == 1..MaxAddr

NoAddr == 0

-----------------------------------------------------------------------------
Init ==
  /\ pc = [w \in Workers |-> "idle"]
  /\ next = [w \in Workers |-> 1]
  /\ addr = [w \in Workers |-> NoAddr]
  /\ retry = [w \in Workers |-> [e \in Endpoints |-> 0]]
  /\ elapsed = [w \in Workers |-> 0]
  /\ remoteErrors = [w \in Workers |-> 0]
  /\ written = [w \in Workers |-> 0]
  /\ resolved = [e \in Endpoints |-> NoAddr]
  /\ resolver = [next |-> 1, pc |-> "ask", addr |-> NoAddr]
  /\ beat = [pc |-> "sleep", addr |-> NoAddr]
  /\ dns = [e \in Endpoints |-> 1]
  /\ dnsUp \in BOOLEAN
  /\ sent = [w \in Workers |-> 0]
  /\ faults = 0

(* A system call fails.                                                    *)
Fault == faults < MaxFaults /\ faults' = faults + 1

-----------------------------------------------------------------------------
Records == FoldFunction(+, 0, written) + Cardinality({w \in Workers : pc[w] # "idle"})

(* A record goes past the local log, to the first endpoint.                *)
WriteLine(w) ==
  /\ pc[w] = "idle" /\ Records < MaxRecords
  /\ pc' = [pc EXCEPT ![w] = "endpoint"]
  /\ UNCHANGED <<next, written, remoteVars, resolved, resolver, beatVars, dnsVars, faults>>

-----------------------------------------------------------------------------
(* send_datagram() to the endpoint next[w].                                *)

(* The call is over: the next endpoint, or the end of write_line().        *)
NextEndpoint(w) ==
  IF next[w] < NumEndpoints
  THEN /\ next' = [next EXCEPT ![w] = @ + 1]
       /\ pc' = [pc EXCEPT ![w] = "endpoint"]
       /\ UNCHANGED written
  ELSE /\ next' = [next EXCEPT ![w] = 1]
       /\ pc' = [pc EXCEPT ![w] = "idle"]
       /\ written' = [written EXCEPT ![w] = @ + 1]

(* Mutant: the early returns do not count.                                 *)
LostSilently(w) ==
  /\ NextEndpoint(w)
  /\ UNCHANGED <<remoteErrors, resolver, beatVars, dnsVars, sent>>

Lost(w) ==
  /\ remoteErrors' = [remoteErrors EXCEPT ![w] = @ + 1]
  /\ NextEndpoint(w)
  /\ UNCHANGED <<resolver, beatVars, dnsVars, sent>>

(* A step within the call.                                                 *)
Within == UNCHANGED <<next, written, remoteErrors, sent, resolver, beatVars, dnsVars, faults>>

EndpointKnown(w) ==
  /\ pc[w] = "endpoint" /\ resolved[next[w]] # NoAddr
  /\ addr' = [addr EXCEPT ![w] = resolved[next[w]]]
  /\ pc' = [pc EXCEPT ![w] = "send"]
  /\ Within
  /\ UNCHANGED <<retry, elapsed, resolved>>

(* A lookup failed a short while ago.                                      *)
EndpointWaiting(w) ==
  /\ pc[w] = "endpoint" /\ resolved[next[w]] = NoAddr /\ retry[w][next[w]] > 0
  /\ Lost(w)
  /\ UNCHANGED <<addr, retry, elapsed, resolved, faults>>

StartLookup(w) ==
  /\ pc[w] = "endpoint" /\ resolved[next[w]] = NoAddr /\ retry[w][next[w]] = 0
  /\ elapsed' = [elapsed EXCEPT ![w] = 0]
  /\ pc' = [pc EXCEPT ![w] = "lookup"]
  /\ Within
  /\ UNCHANGED <<addr, retry, resolved>>

LookupAnswer(w) ==
  /\ pc[w] = "lookup" /\ dnsUp
  /\ addr' = [addr EXCEPT ![w] = dns[next[w]]]
  /\ pc' = [pc EXCEPT ![w] = "publish"]
  /\ Within
  /\ UNCHANGED <<retry, elapsed, resolved>>

Remaining(t) == IF t < RetryInterval THEN RetryInterval - t ELSE 0

(* The deadline counts from before the lookup.                             *)
LookupFails(w) ==
  /\ pc[w] = "lookup" /\ ~dnsUp
  /\ retry' = [retry EXCEPT ![w][next[w]] = Remaining(elapsed[w])]
  /\ elapsed' = [elapsed EXCEPT ![w] = 0]
  /\ Lost(w)
  /\ UNCHANGED <<addr, resolved, faults>>

PublishLookup(w) ==
  /\ pc[w] = "publish"
  /\ resolved' = [resolved EXCEPT ![next[w]] = addr[w]]
  /\ retry' = [retry EXCEPT ![w][next[w]] = 0]
  /\ elapsed' = [elapsed EXCEPT ![w] = 0]
  /\ pc' = [pc EXCEPT ![w] = "send"]
  /\ Within
  /\ UNCHANGED addr

(* Sent by the socket bound now or earlier, or by the one that replaced it *)
(* after a failed send.                                                    *)
SendWorks(w) ==
  /\ pc[w] = "send"
  /\ sent' = [sent EXCEPT ![w] = @ + 1]
  /\ addr' = [addr EXCEPT ![w] = NoAddr]
  /\ NextEndpoint(w)
  /\ UNCHANGED <<retry, elapsed, remoteErrors, resolved, resolver, beatVars, dnsVars, faults>>

(* No socket to be had, or its one replacement could not be bound or could *)
(* not send.                                                               *)
SendFails(w) ==
  /\ pc[w] = "send"
  /\ Fault
  /\ addr' = [addr EXCEPT ![w] = NoAddr]
  /\ Lost(w)
  /\ UNCHANGED <<retry, elapsed, resolved>>

Worker(w) ==
  \/ EndpointKnown(w) \/ EndpointWaiting(w) \/ StartLookup(w)
  \/ LookupAnswer(w) \/ LookupFails(w) \/ PublishLookup(w)
  \/ SendWorks(w) \/ SendFails(w)

-----------------------------------------------------------------------------
(* The resolver and the heartbeat thread.                                  *)

Others == UNCHANGED <<workerVars, remoteVars, faults>>

After(e) == IF e < NumEndpoints THEN e + 1 ELSE 1

(* The resolver's lookup of its next endpoint; after the last one it waits *)
(* for RESOLVE_PERIOD.  No answer leaves the entry alone.                  *)
ResolverLookup ==
  /\ resolver.pc = "ask"
  /\ resolver' = IF dnsUp
                 THEN [resolver EXCEPT !.pc = "publish", !.addr = dns[resolver.next]]
                 ELSE [resolver EXCEPT !.next = After(@)]
  /\ Others /\ UNCHANGED <<resolved, beatVars, dnsVars>>

(* Mutant: the first answer is kept for good.                              *)
ResolverPublishOnce ==
  /\ resolver.pc = "publish"
  /\ resolved' = [resolved EXCEPT ![resolver.next] = IF @ = NoAddr THEN resolver.addr ELSE @]
  /\ resolver' = [next |-> After(resolver.next), pc |-> "ask", addr |-> NoAddr]
  /\ Others /\ UNCHANGED <<beatVars, dnsVars>>

ResolverPublish ==
  /\ resolver.pc = "publish"
  /\ resolved' = [resolved EXCEPT ![resolver.next] = resolver.addr]
  /\ resolver' = [next |-> After(resolver.next), pc |-> "ask", addr |-> NoAddr]
  /\ Others /\ UNCHANGED <<beatVars, dnsVars>>

BeatLookup ==
  /\ beat.pc = "sleep" /\ dnsUp
  /\ beat' = [pc |-> "publish", addr |-> dns[LogServer]]
  /\ Others /\ UNCHANGED <<resolved, resolver, dnsVars>>

BeatPublish ==
  /\ beat.pc = "publish"
  /\ resolved' = [resolved EXCEPT ![LogServer] = beat.addr]
  /\ beat' = [beat EXCEPT !.pc = "send"]
  /\ Others /\ UNCHANGED <<resolver, dnsVars>>

BeatSend ==
  /\ beat.pc = "send"
  /\ beat' = [pc |-> "sleep", addr |-> NoAddr]
  /\ Others /\ UNCHANGED <<resolved, resolver, dnsVars>>

-----------------------------------------------------------------------------
(* Time, and what the name service does.                                   *)

(* A second passes; a lookup that has used up its time answers first.      *)
Tick ==
  /\ \A w \in Workers : pc[w] = "lookup" => elapsed[w] < LookupTime
  /\ elapsed' = [w \in Workers |-> IF pc[w] = "lookup" THEN elapsed[w] + 1 ELSE elapsed[w]]
  /\ retry' = [w \in Workers |-> [e \in Endpoints |->
                 IF retry[w][e] > 0 THEN retry[w][e] - 1 ELSE 0]]
  /\ UNCHANGED <<workerVars, addr, remoteErrors, sent,
                 resolved, resolver, beatVars, dnsVars, faults>>

ServerMoves ==
  /\ \E e \in Endpoints : dns[e] < MaxAddr /\ dns' = [dns EXCEPT ![e] = @ + 1]
  /\ Others /\ UNCHANGED <<resolved, resolver, beatVars, dnsUp>>

DnsOutage ==
  /\ dnsUp' = ~dnsUp
  /\ Others /\ UNCHANGED <<resolved, resolver, beatVars, dns>>

Resolver == ResolverLookup \/ ResolverPublish

Heartbeat == BeatPublish \/ BeatSend

Next ==
  \/ \E w \in Workers : WriteLine(w) \/ Worker(w)
  \/ Resolver \/ BeatLookup \/ Heartbeat
  \/ Tick \/ ServerMoves \/ DnsOutage

Fairness ==
  /\ \A w \in Workers : WF_vars(Worker(w))
  /\ WF_vars(Resolver)
  /\ WF_vars(Heartbeat)

Spec == Init /\ [][Next]_vars

FairSpec == Spec /\ Fairness

-----------------------------------------------------------------------------
(* Properties.                                                             *)

SinkTypes ==
  /\ pc \in [Workers -> {"idle", "endpoint", "lookup", "publish", "send"}]
  /\ next \in [Workers -> Endpoints]
  /\ addr \in [Workers -> Addrs \union {NoAddr}]
  /\ retry \in [Workers -> [Endpoints -> 0..RetryInterval]]
  /\ elapsed \in [Workers -> 0..LookupTime]
  /\ remoteErrors \in [Workers -> Nat]
  /\ written \in [Workers -> Nat]
  /\ sent \in [Workers -> Nat]
  /\ faults \in Nat
  /\ \A w \in Workers : addr[w] # NoAddr <=> pc[w] \in {"publish", "send"}

ThreadTypes ==
  /\ resolved \in [Endpoints -> Addrs \union {NoAddr}]
  /\ resolver \in [next : Endpoints, pc : {"ask", "publish"}, addr : Addrs \union {NoAddr}]
  /\ beat \in [pc : {"sleep", "publish", "send"}, addr : Addrs \union {NoAddr}]
  /\ dns \in [Endpoints -> Addrs] /\ dnsUp \in BOOLEAN

(* Types.  A retry deadline is never further away than                     *)
(* ENDPOINT_RETRY_INTERVAL, a lookup takes no longer than it may, and a    *)
(* worker has an address exactly while it is about to use one.             *)
TypeOK == SinkTypes /\ ThreadTypes

(* Every datagram due to an endpoint was handed to the kernel or is        *)
(* counted in remote_log_errors, through DNS outages, retry windows and    *)
(* failing sockets: events_written claims no delivery that was not made or *)
(* counted.                                                                *)
RemoteAccounted ==
  \A w \in Workers : sent[w] + remoteErrors[w] = NumEndpoints * written[w] + next[w] - 1

(* Whatever the workers, the resolver and the heartbeat publish in         *)
(* whatever order, if lookups are answered again for good, the map ends up *)
(* with the address each server has, and stays there.                      *)
AddressesConverge ==
  <>[]dnsUp => <>[](\A e \in Endpoints : resolved[e] = dns[e])

=============================================================================
