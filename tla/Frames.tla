------------------------------- MODULE Frames -------------------------------
(***************************************************************************)
(* Finding the IP headers of a captured frame (sensor/src/packet/dlt.rs,   *)
(* mod.rs and tunnel.rs).                                                  *)
(*                                                                         *)
(* A frame is a sequence of cells: one per link header, VLAN tag or PPPoE  *)
(* header, one per IP header and one per 4-byte word behind it.  k says    *)
(* what was written there; a parser may only use it where the code reads a *)
(* field of that place.  Positions count cells from 1.                     *)
(***************************************************************************)
EXTENDS Integers, Sequences, FiniteSets, FiniteSetsExt, SequencesExt

CONSTANTS
  MaxVlanTags,     \* MAX_VLAN_TAGS
  MaxExt,          \* MAX_IPV6_EXT_HEADERS
  MaxTunnelDepth,  \* MAX_TUNNEL_DEPTH
  MinPflog,        \* the shortest PFLOG header, in cells
  PrismHeader,     \* the Prism monitor header, in cells
  MaxGuess         \* the longest header guess_ip_offset() tries, in cells

Nowhere == 0

IpTypes == {"ip4", "ip6"}

VlanTypes == {"8100", "88a8", "9100"}

Pad(n) == [i \in 1 .. n |-> [k |-> "pad", type |-> "none"]]

(* The first byte of a cell as a version: 4, 6, or neither.                *)
Nibble(cell) == IF cell.k = "ip" THEN cell.v ELSE 0

(* ip_at() and at_ip_header()                                              *)
IpAt(packet, p) ==
  IF p \in DOMAIN packet /\ Nibble(packet[p]) \in {4, 6} THEN p ELSE Nowhere

TypeAt(packet, p) == IF p \in DOMAIN packet THEN packet[p].type ELSE "none"

-----------------------------------------------------------------------------
(* Mutant of IpOffset: only one VLAN tag is skipped.                       *)
IpOffsetOneTag(packet, base) ==
  LET offset == IF TypeAt(packet, base - 1) \in VlanTypes THEN base + 1 ELSE base
      type == TypeAt(packet, offset - 1)
  IN  CASE type \in IpTypes -> offset
        [] type = "pppoe" /\ TypeAt(packet, offset) \in IpTypes -> offset + 1
        [] OTHER -> Nowhere

(* ip_offset(): stacked VLAN tags, then IP or a PPPoE session.  base is    *)
(* the cell behind the one that holds the ethertype.                       *)
IpOffset(packet, base) ==
  LET Tags(n) == \A i \in 0 .. n - 1 : TypeAt(packet, base - 1 + i) \in VlanTypes
      offset == base + Max({n \in 0 .. MaxVlanTags : Tags(n)})
      type == TypeAt(packet, offset - 1)
  IN  CASE type \in IpTypes -> offset
        [] type = "pppoe" /\ TypeAt(packet, offset) \in IpTypes -> offset + 1
        [] OTHER -> Nowhere

(* ieee80211_offset(): a MAC header of four lengths, then LLC/SNAP.        *)
WifiOffset(packet, p) ==
  LET mac == packet[p]
      llc == p + 1 + (IF mac.four THEN 1 ELSE 0)
               + (IF mac.qos THEN 1 + (IF mac.order THEN 1 ELSE 0) ELSE 0)
  IN  IF p \in DOMAIN packet /\ mac.k = "mac" /\ mac.data /\ ~mac.protected /\ ~mac.null
         /\ TypeAt(packet, llc) \in IpTypes
      THEN IpAt(packet, llc + 1) ELSE Nowhere

(* nflog_offset(): the TLV that carries the packet.                        *)
NflogOffset(packet) ==
  LET step(s, i) ==
        CASE s.found # Nowhere \/ s.at \notin DOMAIN packet -> s
          [] packet[s.at].k # "tlv" -> [s EXCEPT !.at = Len(packet) + 1]
          [] packet[s.at].payload -> [s EXCEPT !.found = s.at + 1]
          [] OTHER -> [s EXCEPT !.at = s.at + packet[s.at].n]
  IN  IpAt(packet, FoldLeft(step, [at |-> 2, found |-> Nowhere], packet).found)

(* special_offset(): link types whose header has no fixed length.          *)
Special == {"null", "enc", "raw", "pflog", "nflog", "sll2", "c_hdlc", "ppp_serial", "ppp_ether",
            "netanalyzer", "wifi", "radiotap", "ppi_wifi", "ppi_ether", "prism", "pfsync"}

SpecialOffset(link, packet) ==
  CASE link = "null" -> IF packet[1].family THEN IpAt(packet, 2) ELSE Nowhere
    [] link = "enc" -> IF packet[1].family THEN IpAt(packet, 4) ELSE Nowhere
    [] link = "raw" -> IpAt(packet, 1)
    [] link = "pflog" -> IF packet[1].n >= MinPflog THEN IpAt(packet, packet[1].n + 1) ELSE Nowhere
    [] link = "nflog" -> NflogOffset(packet)
    [] link \in {"sll2", "c_hdlc", "ppp_serial", "ppp_ether"} ->
         IF TypeAt(packet, 1) \in IpTypes THEN IpAt(packet, 2) ELSE Nowhere
    [] link = "netanalyzer" -> IpOffset(packet, 3)
    [] link = "wifi" -> WifiOffset(packet, 1)
    [] link \in {"radiotap", "ppi_wifi"} -> WifiOffset(packet, packet[1].n + 1)
    [] link = "ppi_ether" -> IpOffset(packet, packet[1].n + 2)
    [] link = "prism" -> WifiOffset(packet, PrismHeader + 1)
    [] OTHER -> Nowhere

(* ip_header_score(), guess_ip_offset(): the first offset whose lengths    *)
(* agree, else the first plausible one.                                    *)
Score(cell) == IF cell.k # "ip" THEN 0 ELSE IF cell.fits THEN 2 ELSE 1

GuessIpOffset(packet) ==
  LET Of(s) == {p \in DOMAIN packet : p <= MaxGuess + 1 /\ Score(packet[p]) = s}
  IN  IF Of(2) # {} THEN Min(Of(2)) ELSE IF Of(1) # {} THEN Min(Of(1)) ELSE Nowhere

(* DltLearner::guess() on [locked, provisional]: two frames that agree     *)
(* lock an offset.                                                         *)
NewLearner == [locked |-> Nowhere, provisional |-> Nowhere]

Learned(learner, packet) ==
  LET guess == GuessIpOffset(packet)
  IN  CASE learner.locked # Nowhere \/ guess = Nowhere -> learner
        [] learner.provisional = guess -> [learner EXCEPT !.locked = guess]
        [] OTHER -> [learner EXCEPT !.provisional = guess]

(* DltLearner::resolve()                                                   *)
Resolve(learner, link, packet) ==
  CASE link \in {"ether", "sll", "ppp"} -> IpOffset(packet, 2)
    [] link \in Special -> SpecialOffset(link, packet)
    [] OTHER -> IF learner.locked # Nowhere THEN learner.locked ELSE GuessIpOffset(packet)

-----------------------------------------------------------------------------
ExtHeaders == {"hopopt", "routing", "fragment", "ah", "dstopts", "mobility", "hip", "shim6"}

(* Mutant of ExtWords: an AH is measured in eights like the others.        *)
ExtWordsInEights(kind, len) == IF kind = "fragment" THEN 2 ELSE (len + 1) * 2

(* The length of an extension header, in words.                            *)
ExtWords(kind, len) ==
  CASE kind = "fragment" -> 2
    [] kind = "ah" -> len + 2
    [] OTHER -> (len + 1) * 2

(* The fields of an extension header at p, whatever is written there.      *)
ExtAt(packet, p) ==
  IF packet[p].k = "ext" THEN packet[p] ELSE [len |-> 0, later |-> FALSE, next |-> "none"]

(* walk_ipv6_ext_headers()                                                 *)
WalkExt(packet, p, first) ==
  LET step(s) ==
        LET ext == ExtAt(packet, s.at)
            past == s.at + ExtWords(s.proto, ext.len)
        IN  CASE s.stop \/ s.proto \notin ExtHeaders -> [s EXCEPT !.stop = TRUE]
              [] s.at \notin DOMAIN packet -> [s EXCEPT !.stop = TRUE, !.cut = TRUE]
              [] s.proto = "fragment" /\ ext.later -> [s EXCEPT !.stop = TRUE]
              [] past > Len(packet) + 1 -> [s EXCEPT !.stop = TRUE, !.cut = TRUE]
              [] OTHER -> [s EXCEPT !.proto = ext.next, !.at = past]
      after[i \in 0 .. MaxExt] ==
        IF i = 0 THEN [proto |-> first, at |-> p, stop |-> FALSE, cut |-> FALSE]
        ELSE step(after[i - 1])
  IN  after[MaxExt]

(* parse_ip(): what the header at p says, or why it is dropped.            *)
Dropped(why) == [ok |-> FALSE, why |-> why]

Header(addr, proto, payload) == [ok |-> TRUE, addr |-> addr, proto |-> proto, payload |-> payload]

ParseIp(packet, p) ==
  LET ip == packet[p]
      walk == WalkExt(packet, p + 1, ip.proto)
  IN  IF p \notin DOMAIN packet \/ Nibble(packet[p]) \notin {4, 6} THEN Dropped("ignored")
      ELSE IF ip.cut THEN Dropped("truncated")
      ELSE IF ip.v = 4
      THEN IF ip.later THEN Dropped("fragment") ELSE Header(ip.addr, ip.proto, p + ip.words)
      ELSE IF walk.cut THEN Dropped("truncated") ELSE Header(ip.addr, walk.proto, walk.at)

-----------------------------------------------------------------------------
(* at_ethernet(): an inner frame whose MAC header is at p.                 *)
AtEthernet(packet, p) == IpAt(packet, IpOffset(packet, p + 1))

(* gre_inner(): checksum, key and sequence words are optional; ERSPAN has  *)
(* a header of its own.                                                    *)
GreInner(packet, p) ==
  LET gre == packet[p]
      body == p + 1 + Cardinality(gre.flags)
  IN  IF p \notin DOMAIN packet \/ gre.k # "gre" \/ gre.version # 0 THEN Nowhere
      ELSE CASE gre.type \in IpTypes -> IpAt(packet, body)
             [] gre.type = "teb" -> AtEthernet(packet, body)
             [] gre.type = "erspan2" -> AtEthernet(packet, body + 2)
             [] gre.type = "erspan3" -> AtEthernet(packet, body + 3)
             [] OTHER -> Nowhere

(* geneve_inner()                                                          *)
GeneveInner(packet, p) ==
  LET body == p + 2 + packet[p].n
  IN  IF p \notin DOMAIN packet \/ packet[p].k # "geneve" \/ packet[p].version # 0 THEN Nowhere
      ELSE CASE packet[p].type \in IpTypes -> IpAt(packet, body)
             [] packet[p].type = "teb" -> AtEthernet(packet, body)
             [] OTHER -> Nowhere

(* inner_ip_offset(), may_encapsulate()                                    *)
InnerIpOffset(packet, header) ==
  LET p == header.payload
  IN  CASE header.proto \in {"ipip", "ipv6"} -> IpAt(packet, p)
        [] header.proto = "gre" -> GreInner(packet, p)
        [] header.proto = "udp" /\ p \in DOMAIN packet /\ packet[p].k = "udp" ->
             CASE packet[p].dport \in {4789, 8472} -> AtEthernet(packet, p + 4)
               [] packet[p].dport = 6081 -> GeneveInner(packet, p + 2)
               [] OTHER -> Nowhere
        [] OTHER -> Nowhere

(* process_packet(): the layers of a packet, the outermost first, and why  *)
(* the last one was dropped, if it was.                                    *)
Layers(packet, offset) ==
  LET step(s, depth) ==
        LET header == ParseIp(packet, s.at)
            inner == IF depth < MaxTunnelDepth THEN InnerIpOffset(packet, header) ELSE Nowhere
        IN  IF s.at = Nowhere THEN s
            ELSE IF ~header.ok THEN [s EXCEPT !.at = Nowhere, !.dropped = header.why]
            ELSE [s EXCEPT !.at = inner, !.found = Append(@, header)]
      before[depth \in 0 .. MaxTunnelDepth + 1] ==
        IF depth = 0 THEN [at |-> offset, found |-> <<>>, dropped |-> "none"]
        ELSE step(before[depth - 1], depth - 1)
  IN  before[MaxTunnelDepth + 1]

=============================================================================
