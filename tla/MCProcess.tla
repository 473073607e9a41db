----------------------------- MODULE MCProcess -----------------------------
(***************************************************************************)
(* Two parts of process.rs for the model checker, see README.md: the       *)
(* connection heuristics, which take packets that are decoded already, and *)
(* the decoding of frames and handshakes.  They share no state, so a       *)
(* behaviour runs one of them from its start and leaves the other one      *)
(* where it began.                                                         *)
(***************************************************************************)
EXTENDS ScanPath, PacketPath

CONSTANT Parts \* the parts to run, of "scan" and "frames"

VARIABLE part

MCInit ==
  /\ part \in Parts
  /\ Init /\ FrameInit
  /\ part = "scan" => [shape |-> shape, cfg |-> cfg] = CHOOSE s \in Scenarios : TRUE
  /\ part = "frames" => offer = CHOOSE o \in Offers : TRUE

MCNext ==
  \/ part = "scan" /\ Next /\ UNCHANGED <<part, frameVars>>
  \/ part = "frames" /\ FrameNext /\ UNCHANGED <<part, vars>>

MCSpec == MCInit /\ [][MCNext]_<<part, vars, frameVars>>

-----------------------------------------------------------------------------
(* Small traffics for the connection heuristics.  The hosts "a" and "b"    *)
(* are ours, "x" is a scanner outside, "c2" and "bad" are listed.          *)

MCPrefixOf == [ip \in {"a", "b", "x", "y", "c2", "bad", "me"} |->
                 IF ip \in {"a", "b"} THEN 10 ELSE IF ip \in {"x", "y"} THEN 20 ELSE 30]

MCThresholdOf == [kind \in Kinds |-> 1]

MCListed == [t \in {<<"c2">>, <<"c2", 443>>, <<"bad">>} |->
               IF t = <<"bad">> THEN "attacker" ELSE "malware"]

\* A sender's fingerprint goes to one of two slots.
MCUdpSlotOf(f) == IF f[1] = "a" THEN 0 ELSE 1

Sent(kind, src, sport, dst, port, item) ==
  [kind |-> kind, src |-> src, sport |-> sport, dst |-> dst, port |-> port, item |-> item]

SynTo(src, dst, port) == Sent("syn", src, 1000, dst, port, 0)

Traffic(traffic, maxPackets, maxTime, back) ==
  [traffic |-> traffic, maxPackets |-> maxPackets, maxTime |-> maxTime, back |-> back]

\* Port scans and an infection compete for three keys; the prefix is learned on the way.
Scans == Traffic({SynTo("a", "x", 23), SynTo("a", "x", 445), SynTo("a", "y", 445),
                  SynTo("x", "a", 445), Sent("stealth", "x", 1, "a", 7, 0),
                  SynTo("a", "me", 1)}, 5, 4, FALSE)

\* The same with a clock that steps back.
Reordered == Traffic({SynTo("a", "x", 23), SynTo("a", "x", 445)}, 4, 4, TRUE)

\* UDP probes and a reply, paths, echo payloads, another protocol.
Others == Traffic({Sent("udp", "x", 5, "a", 7, 1), Sent("udp", "x", 5, "a", 8, 1),
                   Sent("udp", "a", 7, "x", 5, 1),
                   Sent("path", "x", 1, "a", 80, 1), Sent("path", "x", 1, "a", 80, 2),
                   Sent("echo", "a", 0, "x", 0, 1), Sent("echo", "a", 0, "x", 0, 2),
                   Sent("ip", "a", 0, "c2", 0, 0)}, 4, 3, FALSE)

\* Listed hosts at either end, repeated packets of two flows, two payloads, with a
\* clock that steps back.
Contacts == Traffic({SynTo("a", "c2", 443), SynTo("a", "c2", 80), SynTo("c2", "a", 22),
                     SynTo("a", "bad", 80), SynTo("bad", "a", 80),
                     Sent("udp", "a", 9, "c2", 9, 1), Sent("udp", "a", 9, "c2", 9, 2),
                     Sent("udp", "bad", 9, "a", 9, 1), SynTo("bad", "me", 80)}, 4, 2, TRUE)

\* Timers to two peers.
Timers == Traffic({SynTo("a", "x", 80), SynTo("a", "y", 80)}, 7, 9, FALSE)

MCOffers == {Scans, Reordered, Others, Contacts, Timers}

-----------------------------------------------------------------------------
(* Frames of every link type and of every tunnel, nested up to four deep,  *)
(* and three flows that compete for one pair of slots: two over TCP with   *)
(* the server name in the first and in the second segment, one over QUIC   *)
(* whose first Initial has a gap.                                          *)

Level(addr, v, via) ==
  [addr |-> addr, v |-> v, exts |-> <<>>, later |-> FALSE, cut |-> FALSE, via |-> via,
   flags |-> {}, type |-> "ip", n |-> 0, tags |-> 0]

Ext(kind, len) == [kind |-> kind, len |-> len, later |-> FALSE]

Shape(link, tags, levels) ==
  [link |-> link, tags |-> tags, levels |-> levels, packets |-> IF Datalink(link) = "unknown" THEN 3 ELSE 1]

Leaf4 == Level("d", 4, "leaf")

Leaf6 == [Level("d", 6, "leaf") EXCEPT !.exts = <<Ext("hopopt", 1), Ext("ah", 2), Ext("fragment", 0)>>]

\* Every link type, IPv4 with options and IPv6 with extension headers behind it.
Links ==
  {Shape(l, 0, <<level>>) :
     l \in {"sll", "ppp", "sll2", "c_hdlc", "ppp_serial", "ppp_ether", "null", "enc", "raw", "pflog",
            "nflog", "netanalyzer", "wifi", "radiotap", "ppi_wifi", "ppi_ether", "prism", "unknown",
            "far"},
     level \in {[Leaf4 EXCEPT !.n = 2], Leaf6}}
  \cup {Shape(l, t, <<Leaf4>>) : l \in {"ether", "pppoe"}, t \in {0, 2, 4, 5}}

\* What a layer can carry another one in.
Carriers ==
  {Level("a", 4, "ipip"), [Level("a", 6, "vxlan") EXCEPT !.tags = 1],
   [Level("a", 4, "geneve") EXCEPT !.type = "teb", !.n = 3], Level("a", 6, "geneve"),
   [Level("a", 6, "gre") EXCEPT !.exts = <<Ext("ah", 1)>>],
   Level("a", 4, "scan")}
  \cup {[Level("a", 4, "gre") EXCEPT !.flags = f, !.type = t] :
          f \in {{"key"}, {"checksum", "key", "seq"}}, t \in {"ip", "teb", "erspan2", "erspan3"}}

Tunnels ==
  {Shape("ether", 0, <<c, leaf>>) : c \in Carriers, leaf \in {Leaf4, Leaf6}}
  \cup {Shape("ether", 0, <<c, [Level("b", 4, "ipip") EXCEPT !.n = 1], d, Leaf4>>) : c, d \in Carriers}

\* Five levels; fragments; too many extension headers; a cut header.
Limits ==
  {Shape("raw", 0, [i \in 1 .. 4 |-> Level(<<"a", i>>, 4, "ipip")] \o <<Leaf4>>),
   Shape("raw", 0, <<[Level("a", 4, "ipip") EXCEPT !.later = TRUE], Leaf4>>),
   Shape("raw", 0, <<[Level("a", 6, "ipv6") EXCEPT !.exts = <<[Ext("fragment", 0) EXCEPT !.later = TRUE]>>], Leaf6>>),
   Shape("raw", 0, <<[Level("a", 6, "ipv6") EXCEPT !.exts = [i \in 1 .. 3 |-> Ext("dstopts", 0)]], Leaf6>>),
   Shape("raw", 0, <<[Level("a", 6, "ipv6") EXCEPT !.exts = [i \in 1 .. 4 |-> Ext("dstopts", 0)]], Leaf6>>),
   Shape("raw", 0, <<Level("a", 4, "ipip"), [Leaf4 EXCEPT !.cut = TRUE]>>)}

\* Handshakes are played in tagged Ethernet frames.
Plain == [Shape("ether", 1, <<Leaf4>>) EXCEPT !.packets = 9]

MCKindOf(f) == IF f = "quic" THEN "quic" ELSE IF f = "server" THEN "server" ELSE "tcp"

MCNeedOf(f) == IF f = "quic" THEN 3 ELSE 2

MCSniAt(f) == IF f = "early" THEN 0 ELSE 1

Chunk(f, off, len) == [off |-> off, data |-> [i \in 1 .. len |-> <<f, off + i - 1>>]]

Part(chunks) == [chunks |-> chunks]

MCPartsOf(f) ==
  CASE f = "quic" -> <<Part(<<Chunk(f, 0, 1), Chunk(f, 2, 1)>>), Part(<<Chunk(f, 1, 1)>>)>>
    [] f = "server" -> <<Part(<<Chunk(f, 1, 1)>>)>>
    [] OTHER -> <<Part(<<Chunk(f, 0, 1)>>), Part(<<Chunk(f, 1, 1)>>)>>

MCHomeOf(f) == 0

Configs ==
  {[sni |-> TRUE, fps |-> FALSE, want |-> {"ja3"}, cert |-> TRUE, snapped |-> FALSE],
   [sni |-> TRUE, fps |-> TRUE, want |-> {"ja3"}, cert |-> TRUE, snapped |-> FALSE],
   [sni |-> FALSE, fps |-> TRUE, want |-> {"ja4"}, cert |-> FALSE, snapped |-> FALSE]}

MCScenarios ==
  [shape : {Plain}, cfg : Configs]
  \cup [shape : {[Plain EXCEPT !.packets = 3]},
        cfg : {[sni |-> TRUE, fps |-> TRUE, want |-> {}, cert |-> TRUE, snapped |-> TRUE]}]
  \cup [shape : Links \cup Tunnels \cup Limits, cfg : {CHOOSE c \in Configs : TRUE}]

=============================================================================
