---------------------------- MODULE MCEventSink ----------------------------
(* Instances of EventSink for TLC.                                         *)
EXTENDS EventSink, TLC

(* Addresses are interchangeable, the joined list is not one of them.      *)
SinkSymmetry == Permutations(Addrs \ {Joined})
=============================================================================
