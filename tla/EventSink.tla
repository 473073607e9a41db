------------------------------ MODULE EventSink ------------------------------
(***************************************************************************)
(* The event sink of one capture worker (sensor/src/output.rs EventSink)   *)
(* on top of its throttle: log_event() with the condense buffer in front   *)
(* of Throttle::admit(), the flush of that buffer, which re-enters         *)
(* log_event() with one merged event per group, and the order in which     *)
(* housekeeping and the tail of the worker flush the two.                  *)
(*                                                                         *)
(* A condense group is the source and the subject of its events, the       *)
(* (src_ip, trail, info) of the code.  A merged event keeps the first      *)
(* event's timestamp; its destination is the one of all of them, or a      *)
(* joined list, which is the value Joined and no address at all.  The      *)
(* events are the ones IGNORE_EVENTS and the whitelist let pass: those     *)
(* filters keep no state, and what the parts of a merged event passed it   *)
(* passes too.                                                             *)
(***************************************************************************)
EXTENDS Throttle

CONSTANTS
  Joined,           \* the dst_ip field of a merged event with several
  Condensable,      \* subjects whose info matches CONDENSE_ON_INFO_KEYWORDS
  MaxCondensedKeys, \* MAX_CONDENSED_KEYS
  FlushPeriod,      \* CONDENSED_EVENTS_FLUSH_PERIOD
  PacketLag         \* how far behind the clock a packet's timestamp may be

(* Lag is how old an event may be when the throttle gets it: what is sent  *)
(* on from the condense buffer has waited there on top of its packet's lag. *)
ASSUME SinkAssumption ==
  /\ Joined \in Addrs
  /\ Condensable \subseteq Subjects
  /\ MaxCondensedKeys \in Nat \ {0}
  /\ FlushPeriod \in Nat \ {0}
  /\ PacketLag \in Nat
  /\ PacketLag + FlushPeriod <= Lag

VARIABLES
  condensed,   \* the condense buffer: per group its events and the first's time
  snapshot,    \* the groups a flush has drained and not yet re-entered
  lastFlush,   \* last_condense_flush
  phase,       \* "packets", or the flush in progress: "housekeeping", "exit"
  accepted,    \* history: events handed to log_event()
  carried,     \* history: of those, handed to the throttle, alone or merged
  overflowed,  \* history: of those, counted by a full bucket and not kept
  since        \* history: when a group's first event was condensed

buffer   == <<condensed, snapshot, lastFlush, phase>>
tally    == <<accepted, carried, overflowed, since>>
sinkVars == <<vars, buffer, tally>>

Groups == (Addrs \ {Joined}) \X Condensable

(* A bucket: how many events it keeps, their destinations, the first's sec. *)
Bucket == [n : Nat, dsts : SUBSET Addrs, sec : Nat]

NoBucket == [n |-> 0, dsts |-> {}, sec |-> 0]

Occupied(b) == {g \in Groups : b[g].n > 0}

Drained == [g \in Groups |-> NoBucket]

SinkInit ==
  /\ Init
  /\ condensed = Drained
  /\ snapshot = Drained
  /\ lastFlush = 0
  /\ phase = "packets"
  /\ accepted = 0
  /\ carried = 0
  /\ overflowed = 0
  /\ since = [g \in Groups |-> 0]

-----------------------------------------------------------------------------
(* log_event(), one action per return.                                     *)

(* The events a packet may give, and the bound on how many are accepted.   *)
Detections == [src : Addrs \ {Joined}, dst : Addrs \ {Joined}, subject : Subjects]

Receiving == running /\ phase = "packets" /\ accepted < MaxEvents

(* A group already there, or room for one more.                            *)
HasRoom(g) ==
  condensed[g].n > 0 \/ Cardinality(Occupied(condensed)) < MaxCondensedKeys

(* Mutant of Push: a bucket without a cap.                                 *)
PushUncapped(b, e, sec) ==
  [n |-> b.n + 1, dsts |-> b.dsts \union {e.dst}, sec |-> IF b.n = 0 THEN sec ELSE b.sec]

(* A bucket after one more event; a full one keeps what it has.            *)
Push(b, e, sec) ==
  IF b.n < MaxCondensed
    THEN [n |-> b.n + 1, dsts |-> b.dsts \union {e.dst},
          sec |-> IF b.n = 0 THEN sec ELSE b.sec]
    ELSE b

(* The info is one to condense: the event waits in its group's bucket.     *)
Condense(e, sec) ==
  /\ Receiving
  /\ SrcKey(e) \in Groups /\ HasRoom(SrcKey(e))
  /\ condensed' = [condensed EXCEPT ![SrcKey(e)] = Push(@, e, sec)]
  /\ accepted' = accepted + 1
  /\ overflowed' = IF condensed[SrcKey(e)].n >= MaxCondensed THEN overflowed + 1 ELSE overflowed
  /\ since' = IF condensed[SrcKey(e)].n = 0 THEN [since EXCEPT ![SrcKey(e)] = clock] ELSE since
  /\ UNCHANGED <<vars, snapshot, lastFlush, phase, carried>>

(* Any other event, and one whose new group the full buffer refuses: it    *)
(* goes to the throttle as it is.                                          *)
Direct(e, sec) ==
  /\ Receiving
  /\ ~(SrcKey(e) \in Groups /\ HasRoom(SrcKey(e)))
  /\ Admit(e, sec)
  /\ fed' = fed + 1
  /\ accepted' = accepted + 1
  /\ carried' = carried + 1
  /\ UNCHANGED <<mode, clock, swept, running, buffer, overflowed, since>>

-----------------------------------------------------------------------------
(* flush_condensed(): drain the buffer, then re-enter log_event() with one *)
(* merged event per group, in the order the hash map gives.                *)

StartFlush(why) ==
  /\ phase' = why
  /\ snapshot' = condensed
  /\ condensed' = Drained
  /\ lastFlush' = clock

(* merge_events()                                                          *)
Merged(g) ==
  [src |-> g[1],
   dst |-> IF Cardinality(snapshot[g].dsts) = 1
             THEN CHOOSE a \in snapshot[g].dsts : TRUE
             ELSE Joined,
   subject |-> g[2]]

(* One merged event; skip_condensing keeps it out of the buffer.           *)
FlushGroup(g) ==
  /\ phase # "packets"
  /\ snapshot[g].n > 0
  /\ Admit(Merged(g), snapshot[g].sec)
  /\ fed' = fed + 1
  /\ carried' = carried + snapshot[g].n
  /\ snapshot' = [snapshot EXCEPT ![g] = NoBucket]
  /\ UNCHANGED <<mode, clock, swept, running, condensed, lastFlush, phase, accepted,
                 overflowed, since>>

FlushOver(why) == phase = why /\ Occupied(snapshot) = {}

-----------------------------------------------------------------------------
(* The worker's housekeeping pass and its tail.                            *)

(* Mutant of CondenseDue: a second late.                                   *)
CondenseDueLate == Occupied(condensed) # {} /\ clock - lastFlush > FlushPeriod

(* maybe_flush_condensed(): an empty buffer does not restart the period.   *)
CondenseDue == Occupied(condensed) # {} /\ clock - lastFlush >= FlushPeriod

SinkHousekeeping ==
  /\ running /\ phase = "packets"
  /\ IF CondenseDue
       THEN StartFlush("housekeeping") /\ UNCHANGED <<vars, tally>>
       ELSE Housekeeping /\ UNCHANGED <<buffer, tally>>

(* Mutant of FinishHousekeeping: no throttle flush in a pass that condensed. *)
FinishHousekeepingEarly ==
  /\ FlushOver("housekeeping")
  /\ swept' = TRUE
  /\ phase' = "packets"
  /\ UNCHANGED <<mode, table, legacy, suppressed, clock, fed, running, history, condensed,
                 snapshot, lastFlush, tally>>

(* flush_throttled() once the merged events are in.                        *)
FinishHousekeeping ==
  /\ FlushOver("housekeeping")
  /\ Housekeeping
  /\ phase' = "packets"
  /\ UNCHANGED <<condensed, snapshot, lastFlush, tally>>

SinkTick ==
  /\ phase = "packets"
  /\ Tick
  /\ UNCHANGED <<buffer, tally>>

StartExit ==
  /\ running /\ phase = "packets"
  /\ StartFlush("exit")
  /\ UNCHANGED <<vars, tally>>

(* Mutant of FinishExit: the throttle is flushed before the merged events  *)
(* have gone through it.                                                   *)
FinishExitEarly ==
  /\ running /\ phase = "exit"
  /\ Exit
  /\ UNCHANGED <<buffer, tally>>

(* flush_throttled_all() once the merged events are in.                    *)
FinishExit ==
  /\ running /\ FlushOver("exit")
  /\ Exit
  /\ UNCHANGED <<buffer, tally>>

SinkNext ==
  \/ \E e \in Detections, sec \in SaturatingSub(clock, PacketLag) .. clock :
       Condense(e, sec) \/ Direct(e, sec)
  \/ \E g \in Groups : FlushGroup(g)
  \/ SinkHousekeeping \/ FinishHousekeeping
  \/ SinkTick
  \/ StartExit \/ FinishExit

SinkSpec == SinkInit /\ [][SinkNext]_sinkVars

-----------------------------------------------------------------------------
(* The events a buffer keeps, one pair for each, and how many they are.    *)
Slots(b) == UNION {{g} \X (1..b[g].n) : g \in Groups}

Weight(b) == Cardinality(Slots(b))

(* The sink's own state keeps its type: no bucket outgrows                 *)
(* MAX_CONDENSED_EVENTS, and the buffer has no more than MAX_CONDENSED_KEYS *)
(* of them, whatever the traffic.                                          *)
SinkTypeOK ==
  /\ TypeOK
  /\ condensed \in [Groups -> Bucket] /\ snapshot \in [Groups -> Bucket]
  /\ \A g \in Groups : condensed[g].n <= MaxCondensed
  /\ Cardinality(Occupied(condensed)) <= MaxCondensedKeys
  /\ lastFlush \in Nat
  /\ phase \in {"packets", "housekeeping", "exit"}

(* A detection that passed the filters is in the throttle's account, alone *)
(* or in a merged event, or waits in the buffer; what a full bucket did    *)
(* not keep is the only exception.  A worker that has exited holds nothing *)
(* back any more, neither condensed nor throttled.                         *)
AllReported ==
  /\ accepted = carried + Weight(condensed) + Weight(snapshot) + overflowed
  /\ ~running => /\ Occupied(condensed) \union Occupied(snapshot) = {}
                 /\ \A k \in Keys : state[k].heldTotal = 0

(* A condensed detection is handed on within CONDENSED_EVENTS_FLUSH_PERIOD. *)
CondensedWaitBounded ==
  \A g \in Occupied(condensed) : clock - since[g] <= FlushPeriod

(* The sink drives its throttle the way Throttle says it is driven, merged *)
(* and therefore old events included.                                      *)
DrivesThrottle == Spec
===============================================================================
