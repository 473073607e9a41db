---------------------------- MODULE MCSupervisor ----------------------------
(* Instances of Supervisor for TLC: capture sets of at most two files, each *)
(* of at most MaxFilePackets packets.                                       *)
EXTENDS Supervisor

CONSTANT MaxFilePackets

SmallFiles == [packets : 0..MaxFilePackets, end : {"eof", "error"}]

SmallSets == {<<f>> : f \in SmallFiles} \union {<<f, g>> : f, g \in SmallFiles}
=============================================================================
