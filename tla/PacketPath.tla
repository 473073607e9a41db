----------------------------- MODULE PacketPath -----------------------------
(***************************************************************************)
(* A frame from capture to handshake (sensor/src/process.rs:               *)
(* process_packet(), process_layer(), handshake_sni()): every IP header in *)
(* it is processed, and a TLS or QUIC ClientHello is read, reassembled     *)
(* first if it is spread over several packets.                             *)
(*                                                                         *)
(* One worker sees the packets of several flows, each cut into parts, in   *)
(* whatever order, with repeats and losses, all in frames of one shape.    *)
(* Scans, trails and names of a packet are the business of ScanPath,       *)
(* DnsPath and HttpPath.                                                   *)
(***************************************************************************)
EXTENDS FrameShapes, ClientHello

CONSTANTS
  Flows,          \* flows of packets with a ClientHello; servers' answers too
  KindOf(_),      \* "tcp", "quic" or "server"
  NeedOf(_),      \* the length of a flow's ClientHello
  PartsOf(_),     \* a flow's packets: sequences of [chunks]
  Scenarios,      \* [shape, cfg]: the frames of a behaviour and how many are sent;
                  \* settings [sni, fps, cert], the prints the trails have, want,
                  \* and whether the capture length cuts segments, snapped
  MaxClock, MaxArrivals

VARIABLES
  shape, cfg,     \* the frames and the settings of a behaviour
  clock,
  learner,        \* the worker's DltLearner
  asm,            \* the worker's Assembler
  layers,         \* the layers found in the last frame
  metrics,        \* of the worker: [processed, drops, decapsulated, reassembled]
  names,          \* history: per flow, server names checked
  prints,         \* history: per flow, the bytes fingerprinted
  certs,          \* history: per flow, certificates checked
  arrivals,       \* history: per flow, <<part, second>> of its packets
  others          \* history: per flow, flows that began in its slots since it did

frameVars == <<shape, cfg, clock, learner, asm, layers, metrics, names, prints, certs, arrivals, others>>

(* The counters packets_ignored, packets_fragment and packets_truncated.   *)
DropReasons == {"ignored", "fragment", "truncated"}

FrameInit ==
  /\ \E s \in Scenarios : shape = s.shape /\ cfg = s.cfg
  /\ clock = 1
  /\ learner = NewLearner /\ asm = NewAssembler /\ layers = <<>>
  /\ metrics = [processed |-> 0, drops |-> [why \in DropReasons |-> 0], decapsulated |-> 0,
                reassembled |-> 0]
  /\ names = [f \in Flows |-> 0]
  /\ prints = [f \in Flows |-> <<>>]
  /\ certs = [f \in Flows |-> 0]
  /\ arrivals = [f \in Flows |-> <<>>]
  /\ others = [f \in Flows |-> {}]

-----------------------------------------------------------------------------
(* What a handshake leaves: the assembler, names to check, bytes to print. *)
Nothing(a) == [asm |-> a, names |-> 0, prints |-> <<>>, certs |-> 0, done |-> 0]

(* wanted_fingerprints()                                                   *)
Wanted == IF cfg.fps THEN cfg.want ELSE {}

(* client_hello(), check_client_fingerprint(): the name unless it was      *)
(* checked before, and the fingerprints the trails could match.            *)
Read(a, hellos, checkSni, done) ==
  IF hellos = {} THEN [Nothing(a) EXCEPT !.done = done]
  ELSE LET ch == CHOOSE h \in hellos : TRUE
       IN  [Nothing(a) EXCEPT
              !.names = IF checkSni /\ cfg.sni THEN Cardinality(ch.sni) ELSE 0,
              !.prints = IF Wanted # {} THEN <<ch.print>> ELSE <<>>,
              !.done = done]

(* After put(): a ClientHello that is complete is read.                    *)
Completed(put) ==
  IF put.done = <<>> THEN Nothing(put.asm)
  ELSE Read(put.asm, ParseHello(Bytes(put.done[1])), ~put.done[1].reported, 1)

(* The name a first segment shows, the rest of its hello still to come.    *)
EarlySni(bytes) == IF cfg.sni THEN SniIn(bytes) ELSE {}

BegunTcp(a, f, sni, chunk) ==
  [Nothing(PutChunk(Start(a, f, NeedOf(f), clock, sni # {}), f, clock, chunk).asm) EXCEPT
     !.names = Cardinality(sni)]

BegunQuic(a, f, sni, chunks) ==
  [Completed(PutAll(Start(a, f, NeedOf(f), clock, sni # {}), f, clock, chunks)) EXCEPT
     !.names = @ + Cardinality(sni)]

(* The TCP half of handshake_sni(), stale slots being dropped from a.      *)
TcpHandshake(a, f, chunk) ==
  LET first == KindOf(f) = "tcp" /\ chunk.off = 0
  IN  IF Pending(a, f) /\ ~first THEN Completed(PutChunk(a, f, clock, chunk))
      ELSE IF KindOf(f) = "server"
      THEN [Nothing(a) EXCEPT !.certs = IF cfg.fps /\ cfg.cert THEN 1 ELSE 0]
      ELSE IF ~first THEN Nothing(a)
      ELSE IF ~cfg.snapped /\ Len(chunk.data) < NeedOf(f)
      THEN BegunTcp(a, f, EarlySni(chunk.data), chunk)
      ELSE Read(a, ParseHello(chunk.data), TRUE, 0)

(* quic_client_hello(): the whole message, when a fingerprint is wanted.   *)
QuicPrinted(a, f, chunks, head) ==
  IF Pending(a, f) THEN Completed(PutAll(a, f, clock, chunks))
  ELSE IF head = <<>> THEN Nothing(a)
  ELSE IF Len(head) >= NeedOf(f) THEN Read(a, ParseHello(head), TRUE, 0)
  ELSE BegunQuic(a, f, EarlySni(head), chunks)

(* The server name alone: as soon as it is there, and no longer.           *)
NamedAfter(put, f) ==
  LET i == Min(SlotsOf(put.asm, f))
  IN  IF put.done # <<>>
      THEN [Nothing(put.asm) EXCEPT !.names = Cardinality(SniIn(Bytes(put.done[1]))), !.done = 1]
      ELSE IF SniIn(Bytes(put.asm.slots[i])) # {}
      THEN [Nothing(Free(put.asm, i)) EXCEPT !.names = 1]
      ELSE Nothing(put.asm)

QuicNamed(a, f, chunks, head) ==
  IF SniIn(head) # {} THEN [Nothing(asm) EXCEPT !.names = 1]
  ELSE IF ~Pending(a, f) /\ (chunks[1].off # 0 \/ Len(head) >= NeedOf(f)) THEN Nothing(a)
  ELSE NamedAfter(PutAll(IF Pending(a, f) THEN a ELSE Start(a, f, NeedOf(f), clock, FALSE),
                         f, clock, chunks), f)

(* handshake_sni(); fresh is the assembler once find() has looked.         *)
Handshake(f, chunks, fresh) ==
  CASE ~cfg.sni /\ ~cfg.fps -> Nothing(asm)
    [] KindOf(f) # "quic" -> TcpHandshake(fresh, f, chunks[1])
    [] Wanted # {} -> QuicPrinted(fresh, f, chunks, Contiguous(chunks))
    [] cfg.sni -> QuicNamed(fresh, f, chunks, Contiguous(chunks))
    [] OTHER -> Nothing(asm)

(* Only the payload of a layer that was found, and whose transport header  *)
(* was, is looked at.                                                      *)
LeafOf(packet, found) ==
  {packet[h.payload] : h \in {g \in Range(found) :
     g.proto = "tcp" /\ g.payload \in DOMAIN packet /\ packet[g.payload].k = "leaf"}}

-----------------------------------------------------------------------------
Arrived == FoldFunction(+, 0, [f \in Flows |-> Len(arrivals[f])])

(* Layers not taken: a walk ends at the first header that is dropped.      *)
DroppedIn(walk) == IF walk.dropped = "none" THEN 0 ELSE 1

(* A frame without an IP header to begin with is ignored by worker::run(), *)
(* before the walk.                                                        *)
DropReason(walk) ==
  IF walk.found = <<>> /\ walk.dropped = "none" THEN "ignored" ELSE walk.dropped

(* What the walk through a frame and the handshake in it, hs, leave.  An   *)
(* inner packet counts as decapsulated even if its header is dropped then. *)
Recorded(f, walk, hs) ==
  /\ layers' = [i \in DOMAIN walk.found |-> walk.found[i].addr]
  /\ metrics' = [processed |-> metrics.processed + Len(walk.found),
                 drops |-> [why \in DropReasons |->
                              metrics.drops[why] + IF why = DropReason(walk) THEN 1 ELSE 0],
                 decapsulated |-> metrics.decapsulated
                                    + Max({Len(walk.found) + DroppedIn(walk) - 1, 0}),
                 reassembled |-> metrics.reassembled + hs.done]
  /\ asm' = hs.asm
  /\ names' = [names EXCEPT ![f] = @ + hs.names]
  /\ prints' = [prints EXCEPT ![f] = @ \o hs.prints]
  /\ certs' = [certs EXCEPT ![f] = @ + hs.certs]
  /\ others' = [g \in Flows |->
       IF /\ g # f /\ hs.asm.ticks > asm.ticks
          /\ HomeOf(g) = HomeOf(f) /\ arrivals[g] # <<>>
       THEN others[g] \cup {f} ELSE others[g]]

(* process_packet(): one frame, all its layers.                            *)
ProcessPacket(f, j) ==
  /\ Arrived < Min({MaxArrivals, shape.packets})
  /\ \E packet \in {Frame(shape, <<[k |-> "leaf", type |-> "none"]>>)} :
     \E walk \in {Layers(packet, Resolve(learner, Datalink(shape.link), packet))} :
     \E hs \in {IF LeafOf(packet, walk.found) = {} THEN Nothing(asm)
                ELSE Handshake(f, PartsOf(f)[j].chunks, Refreshed(asm, f, clock))} :
       /\ learner' = IF Datalink(shape.link) = "unknown" THEN Learned(learner, packet) ELSE learner
       /\ Recorded(f, walk, hs)
  /\ arrivals' = [arrivals EXCEPT ![f] = Append(@, <<j, clock>>)]
  /\ UNCHANGED <<shape, cfg, clock>>

FrameTick ==
  /\ clock < MaxClock
  /\ clock' = clock + 1
  /\ UNCHANGED <<shape, cfg, learner, asm, layers, metrics, names, prints, certs, arrivals, others>>

FrameNext ==
  \/ \E f \in Flows : \E j \in DOMAIN PartsOf(f) : ProcessPacket(f, j)
  \/ FrameTick

FrameSpec == FrameInit /\ [][FrameNext]_frameVars

-----------------------------------------------------------------------------
(* Whatever link header, VLAN tags, extension headers and tunnels it is    *)
(* sent in, every IP header of a frame down to the third tunnel is found,  *)
(* and nothing that is not one is taken for one; a frame that holds none   *)
(* to be found is in one of the counters, so that a link the sensor cannot *)
(* read is told from a quiet one.                                          *)
LayersFound ==
  /\ Arrived > 0 => layers = Expected(shape)
  /\ Expected(shape) = <<>> => FoldFunction(+, 0, metrics.drops) = Arrived

Whole(f) == [i \in 1 .. NeedOf(f) |-> <<f, i - 1>>]

(* A flow whose ClientHello came whole: its first packet once and first,   *)
(* the others in any order within the TTL, while at most one other flow    *)
(* began in the same pair of slots.                                        *)
CameWhole(f) ==
  LET a == arrivals[f]
  IN  /\ a # <<>> /\ a[1][1] = 1
      /\ \A i \in DOMAIN a : a[i][1] = 1 => i = 1
      /\ \A j \in DOMAIN PartsOf(f) : \E i \in DOMAIN a : a[i][1] = j /\ a[i][2] <= a[1][2] + Ttl
      /\ ~cfg.snapped
      /\ NeedOf(f) <= Cap
      /\ Cardinality(others[f]) <= 1
      /\ LeafReached(shape)

(* A ClientHello in several packets is read as if it were in one: its      *)
(* server name is checked once and its fingerprint is that of all of its   *)
(* bytes and of no other flow's, although flows compete for a pair of slots*)
(* that are reused and never cleared.                                      *)
HelloRead ==
  \A f \in Flows :
    KindOf(f) # "server" /\ CameWhole(f) =>
      /\ cfg.sni => names[f] = 1
      /\ Wanted # {} => prints[f] = <<Whole(f)>>
      /\ asm.live = Cardinality({i \in DOMAIN asm.slots : asm.slots[i].key # NoFlow})

=============================================================================
