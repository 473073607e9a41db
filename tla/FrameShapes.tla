----------------------------- MODULE FrameShapes -----------------------------
(***************************************************************************)
(* Frames as they are put on the wire, for the parsers of Frames: an IP    *)
(* packet inside tunnels inside a link-layer header, written from the RFCs *)
(* and not from the parsers, and the layers a sensor should find in it.    *)
(*                                                                         *)
(* A level is one IP packet: [addr, v, exts, later, cut, via, flags, type, *)
(* n, tags]; via is what it carries, "leaf" for the innermost.             *)
(***************************************************************************)
EXTENDS Frames

Cell(k, type) == [k |-> k, type |-> type]

Ethernet(tags, type) ==
  LET types == [i \in 1 .. tags |-> IF i % 2 = 1 THEN "88a8" ELSE "8100"] \o <<type>>
  IN  [i \in 1 .. tags + 1 |-> Cell("eth", types[i])]

VersionType(level) == IF level.v = 4 THEN "ip4" ELSE "ip6"

\* RFC 8200 and RFC 4302: an AH counts words less two, the others pairs less one.
RfcWords(kind, len) == IF kind = "ah" THEN len + 2 ELSE IF kind = "fragment" THEN 2 ELSE 2 * len + 2

ExtCells(exts, proto) ==
  FlattenSeq([i \in DOMAIN exts |->
    <<[k |-> "ext", type |-> "none", kind |-> exts[i].kind, len |-> exts[i].len,
       later |-> exts[i].later,
       next |-> IF i < Len(exts) THEN exts[i + 1].kind ELSE proto]>>
    \o Pad(RfcWords(exts[i].kind, exts[i].len) - 1)])

ProtoOf(via) ==
  CASE via \in {"ipip", "ipv6", "gre"} -> via
    [] via \in {"vxlan", "geneve", "scan"} -> "udp"
    [] OTHER -> "tcp"

IpCells(level) ==
  LET proto == ProtoOf(level.via)
      first == IF level.exts = <<>> THEN proto ELSE level.exts[1].kind
  IN  <<[k |-> "ip", type |-> "none", v |-> level.v, addr |-> level.addr, proto |-> first,
         words |-> 1 + level.n, later |-> level.later, cut |-> level.cut, fits |-> TRUE]>>
      \o IF level.v = 4 THEN Pad(level.n) ELSE ExtCells(level.exts, proto)

UdpCells(dport) == <<[k |-> "udp", type |-> "none", dport |-> dport]>> \o Pad(1)

\* What a tunnel header says it carries, and the frame around an inner packet.
Carried(level, inner, type) ==
  CASE level.type = "ip" -> inner
    [] level.type = "erspan2" -> Pad(2) \o Ethernet(level.tags, type) \o inner
    [] level.type = "erspan3" -> Pad(3) \o Ethernet(level.tags, type) \o inner
    [] OTHER -> Ethernet(level.tags, type) \o inner

Wrapped(level, inner, type) ==
  LET named == IF level.type = "ip" THEN type ELSE level.type
  IN  IpCells(level) \o
      CASE level.via \in {"ipip", "ipv6"} -> inner
        [] level.via = "gre" ->
             <<[k |-> "gre", type |-> named, flags |-> level.flags, version |-> 0]>>
             \o Pad(Cardinality(level.flags)) \o Carried(level, inner, type)
        [] level.via = "vxlan" ->
             UdpCells(4789) \o Pad(2) \o Ethernet(level.tags, type) \o inner
        [] level.via = "geneve" ->
             UdpCells(6081) \o <<[k |-> "geneve", type |-> named, n |-> level.n, version |-> 0]>>
             \o Pad(1 + level.n) \o Carried(level, inner, type)
        [] level.via = "scan" -> UdpCells(8472) \o Pad(3)
        [] OTHER -> inner

\* The cells of levels[i] and everything inside it; leaf is the innermost payload.
IpPacket(levels, leaf) ==
  LET from[i \in 1 .. Len(levels) + 1] ==
        IF i > Len(levels) THEN [cells |-> leaf, type |-> "none"]
        ELSE [cells |-> Wrapped(levels[i], from[i + 1].cells, from[i + 1].type),
              type |-> VersionType(levels[i])]
  IN  from[1].cells

Mac(four, qos, order) ==
  <<[k |-> "mac", type |-> "none", data |-> TRUE, protected |-> FALSE, null |-> FALSE,
     four |-> four, qos |-> qos, order |-> order]>>
  \o Pad((IF four THEN 1 ELSE 0) + (IF qos THEN 1 + (IF order THEN 1 ELSE 0) ELSE 0))

Measured(n) == <<[k |-> "len", type |-> "none", n |-> n]>> \o Pad(n - 1)

Family == [k |-> "af", type |-> "none", family |-> TRUE]

Tlv(n, payload) == <<[k |-> "tlv", type |-> "none", n |-> n, payload |-> payload]>> \o Pad(n - 1)

\* The link header in front of an IP packet of the given type.
LinkCells(link, tags, type) ==
  CASE link = "ether" -> Ethernet(tags, type)
    [] link = "pppoe" -> Ethernet(tags, "pppoe") \o <<Cell("ppp", type)>>
    [] link \in {"sll", "ppp", "sll2", "ppp_ether", "c_hdlc", "ppp_serial"} -> <<Cell("eth", type)>>
    [] link = "null" -> <<Family>>
    [] link = "enc" -> <<Family>> \o Pad(2)
    [] link = "raw" -> <<>>
    [] link = "pflog" -> Measured(3)
    [] link = "nflog" -> Pad(1) \o Tlv(2, FALSE) \o Tlv(3, FALSE) \o Tlv(1, TRUE)
    [] link = "netanalyzer" -> Pad(1) \o Ethernet(tags, type)
    [] link = "wifi" -> Mac(TRUE, TRUE, TRUE) \o <<Cell("llc", type)>>
    [] link = "prism" -> Measured(PrismHeader) \o Mac(FALSE, FALSE, FALSE) \o <<Cell("llc", type)>>
    [] link = "radiotap" -> Measured(2) \o Mac(FALSE, TRUE, FALSE) \o <<Cell("llc", type)>>
    [] link = "ppi_wifi" -> Measured(2) \o Mac(TRUE, FALSE, TRUE) \o <<Cell("llc", type)>>
    [] link = "ppi_ether" -> Measured(2) \o Ethernet(tags, type)
    [] link = "far" -> Pad(MaxGuess + 1)
    [] OTHER -> Pad(MaxGuess)

\* pppoe is an Ethernet link; the sensor is told the datalink, not what it carries.
\* Of a datalink it does not know, the header may be longer than any guess, far.
Datalink(link) ==
  CASE link = "pppoe" -> "ether" [] link = "far" -> "unknown" [] OTHER -> link

Frame(shape, leaf) ==
  LinkCells(shape.link, shape.tags, VersionType(shape.levels[1])) \o IpPacket(shape.levels, leaf)

-----------------------------------------------------------------------------
\* Is the packet inside a level to be found once the level is?
Opened(level) ==
  /\ Len(level.exts) <= MaxExt
  /\ \A i \in DOMAIN level.exts : ~level.exts[i].later
  /\ level.via \notin {"scan", "leaf"}
  /\ level.type = "ip" \/ level.via = "ipip" \/ level.tags <= MaxVlanTags

HeaderKept(level) == ~level.cut /\ ~(level.v = 4 /\ level.later)

\* The addresses a sensor should see in a frame of this shape.
Expected(shape) ==
  LET levels == shape.levels
      found(i) == /\ i <= MaxTunnelDepth + 1
                  /\ shape.tags <= MaxVlanTags /\ shape.link # "far"
                  /\ \A j \in 1 .. i : HeaderKept(levels[j])
                  /\ \A j \in 1 .. i - 1 : Opened(levels[j])
  IN  [i \in 1 .. Cardinality({j \in DOMAIN levels : found(j)}) |-> levels[i].addr]

\* Does the payload of the innermost packet reach the protocol parsers?
LeafReached(shape) ==
  LET last == shape.levels[Len(shape.levels)]
  IN  /\ Len(Expected(shape)) = Len(shape.levels)
      /\ Len(last.exts) <= MaxExt /\ \A i \in DOMAIN last.exts : ~last.exts[i].later

=============================================================================
