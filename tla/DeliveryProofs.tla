--------------------------- MODULE DeliveryProofs ---------------------------
(***************************************************************************)
(* Remote delivery for any number of workers, endpoints and addresses:     *)
(* types, and the account of every datagram.                               *)
(***************************************************************************)
EXTENDS Delivery, TLAPS

AccountInv == TypeOK /\ RemoteAccounted

LEMMA InitAccountInv == Init => AccountInv
<1> SUFFICES ASSUME Init PROVE AccountInv OBVIOUS
<1>1. 1 \in Endpoints /\ 1 \in Addrs /\ LogServer \in Endpoints
  BY DeliveryAssumption DEF Endpoints, Addrs, LogServer
<1>2. 0 \in 0..RetryInterval /\ 0 \in 0..LookupTime BY DeliveryAssumption
<1>3. TypeOK BY <1>1, <1>2 DEF Init, TypeOK, SinkTypes, ThreadTypes, NoAddr, Addrs
<1>4. RemoteAccounted BY DeliveryAssumption DEF Init, RemoteAccounted
<1> QED BY <1>3, <1>4 DEF AccountInv

(* The end of a send_datagram(): one more of the datagrams due.            *)
Due(w) == NumEndpoints * written[w] + next[w] - 1

LEMMA OneMoreDue ==
  ASSUME TypeOK, NEW w \in Workers, NextEndpoint(w)
  PROVE  /\ next' \in [Workers -> Endpoints]
         /\ pc' \in [Workers -> {"idle", "endpoint", "lookup", "publish", "send"}]
         /\ pc'[w] \in {"idle", "endpoint"}
         /\ \A v \in Workers \ {w} : pc'[v] = pc[v]
         /\ written' \in [Workers -> Nat]
         /\ \A v \in Workers : Due(v)' = Due(v) + (IF v = w THEN 1 ELSE 0)
<1> USE DeliveryAssumption
<1>1. /\ next[w] \in Endpoints /\ written[w] \in Nat
      /\ next \in [Workers -> Endpoints] /\ written \in [Workers -> Nat]
      /\ pc \in [Workers -> {"idle", "endpoint", "lookup", "publish", "send"}]
  BY DEF TypeOK, SinkTypes
<1>2. NumEndpoints * (written[w] + 1) = NumEndpoints * written[w] + NumEndpoints
  BY <1>1
<1>3. \A v \in Workers : NumEndpoints * written[v] \in Int /\ next[v] \in Int
  <2> SUFFICES ASSUME NEW v \in Workers
               PROVE  NumEndpoints * written[v] \in Int /\ next[v] \in Int
    OBVIOUS
  <2>1. written[v] \in Nat /\ next[v] \in Endpoints BY <1>1
  <2> QED BY <2>1 DEF Endpoints
<1>4. CASE next[w] < NumEndpoints
  <2>1. /\ next' = [next EXCEPT ![w] = next[w] + 1]
        /\ pc' = [pc EXCEPT ![w] = "endpoint"] /\ written' = written
    BY <1>4 DEF NextEndpoint
  <2>2. next[w] + 1 \in Endpoints BY <1>1, <1>4 DEF Endpoints
  <2>3. \A v \in Workers : Due(v)' = Due(v) + (IF v = w THEN 1 ELSE 0)
    BY <1>1, <1>3, <2>1 DEF Due
  <2> QED BY <1>1, <2>1, <2>2, <2>3
<1>5. CASE ~(next[w] < NumEndpoints)
  <2>1. /\ next' = [next EXCEPT ![w] = 1]
        /\ pc' = [pc EXCEPT ![w] = "idle"]
        /\ written' = [written EXCEPT ![w] = written[w] + 1]
    BY <1>5 DEF NextEndpoint
  <2>2. next[w] = NumEndpoints BY <1>1, <1>5 DEF Endpoints
  <2>3. 1 \in Endpoints BY DEF Endpoints
  <2>4. Due(w)' = NumEndpoints * (written[w] + 1) + 1 - 1 BY <1>1, <2>1 DEF Due
  <2>5. Due(w)' = Due(w) + 1 BY <1>2, <1>3, <2>2, <2>4 DEF Due
  <2>6. \A v \in Workers \ {w} : Due(v)' = Due(v) + 0 BY <1>1, <1>3, <2>1 DEF Due
  <2> QED BY <1>1, <2>1, <2>3, <2>5, <2>6
<1> QED BY <1>4, <1>5

(* A call that ends without a datagram counts one error.                   *)
LEMMA LostAccounted ==
  ASSUME AccountInv, NEW w \in Workers, Lost(w)
  PROVE  RemoteAccounted' /\ remoteErrors' \in [Workers -> Nat]
<1>1. TypeOK /\ RemoteAccounted BY DEF AccountInv
<1>2. /\ remoteErrors' = [remoteErrors EXCEPT ![w] = remoteErrors[w] + 1]
      /\ sent' = sent /\ NextEndpoint(w)
  BY DEF Lost
<1>3. remoteErrors \in [Workers -> Nat] /\ sent \in [Workers -> Nat] BY <1>1 DEF TypeOK, SinkTypes
<1>4. ASSUME NEW v \in Workers PROVE sent'[v] + remoteErrors'[v] = Due(v)'
  <2>1. Due(v)' = Due(v) + (IF v = w THEN 1 ELSE 0) BY <1>1, <1>2, OneMoreDue
  <2>2. sent[v] + remoteErrors[v] = Due(v) BY <1>1 DEF RemoteAccounted, Due
  <2>3. sent[v] \in Nat /\ remoteErrors[v] \in Nat BY <1>3
  <2> QED BY <1>2, <1>3, <2>1, <2>2, <2>3
<1>5. RemoteAccounted' BY <1>4 DEF RemoteAccounted, Due
<1> QED BY <1>2, <1>3, <1>5

(* A call that ends with a datagram sent.                                  *)
LEMMA SentAccounted ==
  ASSUME AccountInv, NEW w \in Workers, SendWorks(w)
  PROVE  RemoteAccounted' /\ sent' \in [Workers -> Nat]
<1>1. TypeOK /\ RemoteAccounted BY DEF AccountInv
<1>2. /\ sent' = [sent EXCEPT ![w] = sent[w] + 1]
      /\ remoteErrors' = remoteErrors /\ NextEndpoint(w)
  BY DEF SendWorks
<1>3. remoteErrors \in [Workers -> Nat] /\ sent \in [Workers -> Nat] BY <1>1 DEF TypeOK, SinkTypes
<1>4. ASSUME NEW v \in Workers PROVE sent'[v] + remoteErrors'[v] = Due(v)'
  <2>1. Due(v)' = Due(v) + (IF v = w THEN 1 ELSE 0) BY <1>1, <1>2, OneMoreDue
  <2>2. sent[v] + remoteErrors[v] = Due(v) BY <1>1 DEF RemoteAccounted, Due
  <2>3. sent[v] \in Nat /\ remoteErrors[v] \in Nat BY <1>3
  <2> QED BY <1>2, <1>3, <2>1, <2>2, <2>3
<1>5. RemoteAccounted' BY <1>4 DEF RemoteAccounted, Due
<1> QED BY <1>2, <1>3, <1>5

(* Steps that end no call leave the account as it is.                      *)
LEMMA SameAccount ==
  ASSUME RemoteAccounted, UNCHANGED <<sent, remoteErrors, written, next>>
  PROVE  RemoteAccounted'
BY DEF RemoteAccounted

(* The types of everything a worker's step may change.                     *)
LEMMA WorkerTypes ==
  ASSUME AccountInv, NEW w \in Workers, Worker(w)
  PROVE  TypeOK'
<1> USE DeliveryAssumption
<1>0. TypeOK BY DEF AccountInv
<1>1. next[w] \in Endpoints /\ NoAddr \notin Addrs BY <1>0 DEF TypeOK, SinkTypes, NoAddr, Addrs
<1>2. CASE EndpointKnown(w)
  BY <1>0, <1>1, <1>2 DEF EndpointKnown, Within, TypeOK, SinkTypes, ThreadTypes, beatVars, dnsVars
<1>3. CASE EndpointWaiting(w)
  <2>1. Lost(w) /\ NextEndpoint(w) /\ pc[w] = "endpoint" BY <1>3 DEF EndpointWaiting, Lost
  <2> QED BY <1>0, <1>3, <2>1, OneMoreDue, LostAccounted
          DEF EndpointWaiting, Lost, TypeOK, SinkTypes, ThreadTypes, beatVars, dnsVars
<1>4. CASE StartLookup(w)
  <2>1. 0 \in 0..LookupTime OBVIOUS
  <2> QED BY <1>0, <1>4, <2>1 DEF StartLookup, Within, TypeOK, SinkTypes, ThreadTypes, beatVars, dnsVars
<1>5. CASE LookupAnswer(w)
  <2>1. dns[next[w]] \in Addrs BY <1>0, <1>1 DEF TypeOK, ThreadTypes
  <2> QED BY <1>0, <1>1, <1>5, <2>1 DEF LookupAnswer, Within, TypeOK, SinkTypes, ThreadTypes, beatVars, dnsVars
<1>6. CASE LookupFails(w)
  <2>1. Lost(w) /\ NextEndpoint(w) /\ pc[w] = "lookup" BY <1>6 DEF LookupFails, Lost
  <2>2. elapsed[w] \in Nat BY <1>0 DEF TypeOK, SinkTypes
  <2>3. Remaining(elapsed[w]) \in 0..RetryInterval BY <2>2 DEF Remaining
  <2>4. retry' \in [Workers -> [Endpoints -> 0..RetryInterval]]
    BY <1>0, <1>1, <1>6, <2>3 DEF LookupFails, TypeOK, SinkTypes
  <2>5. elapsed' \in [Workers -> 0..LookupTime] BY <1>0, <1>6 DEF LookupFails, TypeOK, SinkTypes
  <2> QED BY <1>0, <1>6, <2>1, <2>4, <2>5, OneMoreDue, LostAccounted
          DEF LookupFails, Lost, TypeOK, SinkTypes, ThreadTypes, beatVars, dnsVars
<1>7. CASE PublishLookup(w)
  <2>1. 0 \in 0..RetryInterval /\ 0 \in 0..LookupTime OBVIOUS
  <2>2. retry' \in [Workers -> [Endpoints -> 0..RetryInterval]]
    BY <1>0, <1>1, <1>7, <2>1 DEF PublishLookup, TypeOK, SinkTypes
  <2> QED BY <1>0, <1>1, <1>7, <2>1, <2>2 DEF PublishLookup, Within, TypeOK, SinkTypes, ThreadTypes, beatVars, dnsVars
<1>8. CASE SendWorks(w)
  <2>1. NextEndpoint(w) BY <1>8 DEF SendWorks
  <2> QED BY <1>0, <1>8, <2>1, OneMoreDue, SentAccounted
          DEF SendWorks, TypeOK, SinkTypes, ThreadTypes, beatVars, dnsVars
<1>9. CASE SendFails(w)
  <2>1. Lost(w) /\ NextEndpoint(w) BY <1>9 DEF SendFails, Lost
  <2>2. faults' \in Nat BY <1>0, <1>9 DEF SendFails, Fault, TypeOK, SinkTypes
  <2> QED BY <1>0, <1>9, <2>1, <2>2, OneMoreDue, LostAccounted
          DEF SendFails, Lost, TypeOK, SinkTypes, ThreadTypes, beatVars, dnsVars
<1> QED BY <1>2, <1>3, <1>4, <1>5, <1>6, <1>7, <1>8, <1>9 DEF Worker

(* The account through everything a worker does.                           *)
LEMMA WorkerAccount ==
  ASSUME AccountInv, NEW w \in Workers, Worker(w)
  PROVE  RemoteAccounted'
<1>1. RemoteAccounted BY DEF AccountInv
<1>2. CASE EndpointKnown(w) \/ StartLookup(w) \/ LookupAnswer(w) \/ PublishLookup(w)
  BY <1>1, <1>2, SameAccount
     DEF EndpointKnown, StartLookup, LookupAnswer, PublishLookup, Within
<1>3. CASE EndpointWaiting(w) \/ LookupFails(w) \/ SendFails(w)
  BY <1>3, LostAccounted DEF EndpointWaiting, LookupFails, SendFails
<1>4. CASE SendWorks(w) BY <1>4, SentAccounted
<1> QED BY <1>2, <1>3, <1>4 DEF Worker

LEMMA StepAccountInv == AccountInv /\ [Next]_vars => AccountInv'
<1> SUFFICES ASSUME AccountInv, [Next]_vars PROVE AccountInv' OBVIOUS
<1> USE DeliveryAssumption
<1>0. TypeOK /\ RemoteAccounted /\ SinkTypes /\ ThreadTypes BY DEF AccountInv, TypeOK
<1>1. CASE UNCHANGED vars
  BY <1>0, <1>1, SameAccount
     DEF AccountInv, vars, workerVars, remoteVars, beatVars, dnsVars, TypeOK, SinkTypes, ThreadTypes
<1>2. ASSUME NEW w \in Workers, WriteLine(w) PROVE AccountInv'
  <2>1. UNCHANGED <<sent, remoteErrors, written, next>> BY <1>2 DEF WriteLine, remoteVars
  <2>2. TypeOK' BY <1>0, <1>2 DEF WriteLine, TypeOK, SinkTypes, ThreadTypes, remoteVars, beatVars, dnsVars
  <2> QED BY <1>0, <2>1, <2>2, SameAccount DEF AccountInv
<1>3. ASSUME NEW w \in Workers, Worker(w) PROVE AccountInv'
  BY <1>3, WorkerTypes, WorkerAccount DEF AccountInv
<1>4. CASE Resolver \/ BeatLookup \/ Heartbeat \/ ServerMoves \/ DnsOutage
  <2>1. Others
    BY <1>4 DEF Resolver, ResolverLookup, ResolverPublish, BeatLookup, Heartbeat, BeatPublish,
               BeatSend, ServerMoves, DnsOutage
  <2>2. RemoteAccounted' BY <1>0, <2>1, SameAccount DEF Others, workerVars, remoteVars
  <2>3. /\ resolver.next \in Endpoints /\ resolver.addr \in Addrs \union {NoAddr}
        /\ \A e \in Endpoints : dns[e] \in Addrs
        /\ LogServer \in Endpoints
        /\ After(resolver.next) \in Endpoints
    BY <1>0 DEF ThreadTypes, After, Endpoints, LogServer
  <2>4. SinkTypes' BY <1>0, <2>1 DEF Others, SinkTypes, workerVars, remoteVars
  <2>5. ThreadTypes'
    <3>1. CASE ResolverLookup
      BY <1>0, <2>3, <3>1 DEF ResolverLookup, ThreadTypes, beatVars, dnsVars
    <3>2. CASE ResolverPublish
      BY <1>0, <2>3, <3>2 DEF ResolverPublish, ThreadTypes, beatVars, dnsVars
    <3>3. CASE BeatLookup BY <1>0, <2>3, <3>3 DEF BeatLookup, ThreadTypes, dnsVars
    <3>4. CASE BeatPublish BY <1>0, <2>3, <3>4 DEF BeatPublish, ThreadTypes, dnsVars
    <3>5. CASE BeatSend BY <1>0, <2>3, <3>5 DEF BeatSend, ThreadTypes, dnsVars
    <3>6. CASE ServerMoves
      <4>1. PICK e \in Endpoints : dns[e] < MaxAddr /\ dns' = [dns EXCEPT ![e] = dns[e] + 1]
        BY <3>6 DEF ServerMoves
      <4>2. dns[e] + 1 \in Addrs BY <2>3, <4>1 DEF Addrs
      <4> QED BY <1>0, <3>6, <4>1, <4>2 DEF ServerMoves, ThreadTypes, beatVars
    <3>7. CASE DnsOutage BY <1>0, <3>7 DEF DnsOutage, ThreadTypes, beatVars
    <3> QED BY <1>4, <3>1, <3>2, <3>3, <3>4, <3>5, <3>6, <3>7 DEF Resolver, Heartbeat
  <2> QED BY <2>2, <2>4, <2>5 DEF AccountInv, TypeOK
<1>5. CASE Tick
  <2>1. UNCHANGED <<sent, remoteErrors, written, next>> BY <1>5 DEF Tick, workerVars
  <2>2. elapsed' \in [Workers -> 0..LookupTime]
    <3>1. \A w \in Workers : elapsed[w] \in 0..LookupTime BY <1>0 DEF SinkTypes
    <3> QED BY <1>5, <3>1 DEF Tick
  <2>3. retry' \in [Workers -> [Endpoints -> 0..RetryInterval]]
    <3>1. \A w \in Workers : \A e \in Endpoints : retry[w][e] \in 0..RetryInterval
      BY <1>0 DEF SinkTypes
    <3>2. \A w \in Workers : \A e \in Endpoints :
            (IF retry[w][e] > 0 THEN retry[w][e] - 1 ELSE 0) \in 0..RetryInterval
      BY <3>1
    <3> QED BY <1>5, <3>2 DEF Tick
  <2>4. TypeOK' BY <1>0, <1>5, <2>2, <2>3 DEF Tick, TypeOK, SinkTypes, ThreadTypes, workerVars, beatVars, dnsVars
  <2> QED BY <1>0, <2>1, <2>4, SameAccount DEF AccountInv
<1> QED BY <1>1, <1>2, <1>3, <1>4, <1>5 DEF Next

(* Types of remote delivery, with the bound on the retry deadline.         *)
THEOREM SpecDeliveryTypeOK == Spec => []TypeOK
<1>1. AccountInv => TypeOK BY DEF AccountInv
<1> QED BY <1>1, InitAccountInv, StepAccountInv, PTL DEF Spec

(* For any number of endpoints and workers every datagram due was sent or  *)
(* is in remote_log_errors: no return of send_datagram() forgets to count. *)
THEOREM SpecRemoteAccounted == Spec => []RemoteAccounted
<1>1. AccountInv => RemoteAccounted BY DEF AccountInv
<1> QED BY <1>1, InitAccountInv, StepAccountInv, PTL DEF Spec

=============================================================================
