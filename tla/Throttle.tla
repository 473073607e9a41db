------------------------------ MODULE Throttle ------------------------------
(***************************************************************************)
(* Event-log throttling of one capture worker (sensor/src/throttle.rs).    *)
(*                                                                         *)
(* In "summarize" mode an event is charged to ONE key, an (address,        *)
(* subject) pair: its source key, or its destination key when only that    *)
(* one is tracked.  Per window a key writes its first Burst events         *)
(* verbatim and holds the rest; the held ones come out as one summary line *)
(* when the window closes.  "legacy" is the discarding filter of the       *)
(* Python sensor, "off" writes everything.                                 *)
(*                                                                         *)
(* Abstracted: an event is its two addresses and its subject, which stands *)
(* for what throttle_subject() and the info field leave of the trail; the  *)
(* 64-bit digests are the pairs themselves (no collisions); the buffer of  *)
(* held events is its length.  Time is in seconds; a packet's timestamp is *)
(* at most Lag behind the worker's wall clock.                             *)
(***************************************************************************)
EXTENDS Integers, FiniteSets

CONSTANTS
  Addrs,        \* addresses an event may carry
  Subjects,     \* what an event throttles under
  Modes,        \* the values of EVENT_THROTTLE_MODE to start with
  Window,       \* EVENT_THROTTLE_WINDOW
  Burst,        \* EVENT_THROTTLE_BURST
  MaxKeys,      \* EVENT_THROTTLE_MAX_KEYS
  EvictShare,   \* the 100 of "max_keys / 100" in evict_batch
  MaxSpan,      \* MAX_SPAN
  MaxCondensed, \* MAX_CONDENSED_EVENTS
  LegacyDivisor,\* legacy_divisor
  Lag,          \* how far behind the clock a packet's timestamp may be
  MaxTime,      \* bound: last second of the model's clock
  MaxEvents     \* bound: events admitted in a behaviour

ASSUME ThrottleAssumption ==
  /\ Modes \subseteq {"summarize", "legacy", "off"}
  /\ Window \in Nat \ {0}
  /\ Burst \in Nat \ {0}
  /\ MaxKeys \in Nat \ {0}
  /\ EvictShare \in Nat \ {0}
  /\ MaxSpan \in Nat \ {0}
  /\ MaxCondensed \in Nat \ {0}
  /\ LegacyDivisor \in Nat \ {0}
  /\ Lag \in Nat
  /\ MaxTime \in Nat
  /\ MaxEvents \in Nat

Keys == Addrs \X Subjects

Events == [src : Addrs, dst : Addrs, subject : Subjects]

SrcKey(e) == <<e.src, e.subject>>

DstKey(e) == <<e.dst, e.subject>>

Maximum(a, b) == IF a >= b THEN a ELSE b

Minimum(a, b) == IF a <= b THEN a ELSE b

(* u64::saturating_sub *)
SaturatingSub(a, b) == IF a >= b THEN a - b ELSE 0

(* MAX_SPAN.max(window): the longest a window grows to, and how long a key *)
(* may be silent before it is forgotten.                                   *)
Longest == Maximum(MaxSpan, Window)

(* struct KeyState; `held` is the length of the buffer.                    *)
KeyState == [windowStart : Nat, written : Nat, held : Nat, heldTotal : Nat,
             lastSeen : Nat, seen : Nat, span : Nat]

Blank == [windowStart |-> 0, written |-> 0, held |-> 0, heldTotal |-> 0,
          lastSeen |-> 0, seen |-> 0, span |-> 0]

VARIABLES
  mode,          \* cfg.mode
  tracked,       \* the keys of the `keys` table
  state,         \* KeyState of every tracked key (Blank for the others)
  legacyBucket,  \* legacy_bucket; -1 is None
  legacyTrails,  \* legacy_trails
  evicted,       \* keys dropped because max_keys was reached
  suppressed,    \* events held back or discarded
  summaries,     \* summary lines emitted
  clock,         \* wall clock of the worker, in seconds
  swept,         \* housekeeping has run in this second
  fed,           \* events handed to the throttle so far
  running,       \* FALSE once the shutdown flush has run
  admitted,      \* history: events charged to each key
  verbatim,      \* history: of those, written at once
  summarized,    \* history: of those, reported by a summary line
  discarded,     \* history: of those, discarded (legacy mode)
  episode,       \* history: verbatim lines since the key was new or silent
  waitingSince   \* history: when the oldest event a key holds was held

table    == <<tracked, state, evicted, summaries>>
legacy   == <<legacyBucket, legacyTrails>>
history  == <<admitted, verbatim, summarized, discarded, episode, waitingSince>>
vars     == <<mode, table, legacy, suppressed, clock, swept, fed, running, history>>

-----------------------------------------------------------------------------
(* Pure parts of the table's operations.                                   *)

(* The test both admit_summarizing() and flush_due() make: the window is   *)
(* over, or time ran backwards past its start.                             *)
Expired(st, now) ==
  \/ SaturatingSub(now, st.windowStart) >= st.span
  \/ now < st.windowStart

(* The key was seen recently enough to count as still busy.                *)
Active(st, now) == SaturatingSub(now, st.lastSeen) < Longest

(* Mutant of CloseWindow: every window starts with a burst of its own.     *)
CloseWindowFreshBurst(st, now) ==
  [st EXCEPT !.windowStart = now,
             !.span = IF ~Active(st, now) THEN Window
                      ELSE IF st.seen > 0
                           THEN Maximum(Window, Minimum(2 * st.span, Longest))
                           ELSE st.span,
             !.seen = 0,
             !.written = 0]

(* close_window(): a busy key's next window is longer and opens with the   *)
(* burst spent, a silent key starts over.                                  *)
CloseWindow(st, now) ==
  [st EXCEPT !.windowStart = now,
             !.span = IF ~Active(st, now) THEN Window
                      ELSE IF st.seen > 0
                           THEN Maximum(Window, Minimum(2 * st.span, Longest))
                           ELSE st.span,
             !.seen = 0,
             !.written = IF Active(st, now) THEN Burst ELSE 0]

(* Mutant of Reported: the line counts the buffer, not the total.          *)
ReportedOfBuffer(st) == st.held

(* summarize(): what a summary line reports of a key.  The "(+N more)"     *)
(* suffix makes it the total and not the length of the buffer.             *)
Reported(st) == IF st.held = 0 THEN 0 ELSE st.heldTotal

Summarized(st) == [st EXCEPT !.held = 0, !.heldTotal = 0]

NotEmpty(keys) == {k \in keys : state[k].held > 0}

(* evict_batch(): how many keys a batch aims at, and the last_seen at or   *)
(* below which a key goes: the target-th smallest.                         *)
EvictTarget ==
  Minimum(Maximum(MaxKeys \div EvictShare, 1),
          Maximum(Cardinality(tracked) - 1, 1))

IsCutoff(c) ==
  /\ Cardinality({k \in tracked : state[k].lastSeen <= c}) >= EvictTarget
  /\ Cardinality({k \in tracked : state[k].lastSeen < c}) < EvictTarget

EvictedKeys == {k \in tracked :
                  \E c \in {state[j].lastSeen : j \in tracked} :
                    IsCutoff(c) /\ state[k].lastSeen <= c}

(* Mutant of MakeRoom: room is made one key too late.                      *)
EvictedOffByOne ==
  IF Cardinality(tracked) > MaxKeys THEN EvictedKeys ELSE {}

(* The keys an insertion first removes.                                    *)
MakeRoom == IF Cardinality(tracked) >= MaxKeys THEN EvictedKeys ELSE {}

(* The key an event is charged to.                                         *)
KeyFor(e) ==
  IF SrcKey(e) \in tracked \/ DstKey(e) \notin tracked THEN SrcKey(e) ELSE DstKey(e)

-----------------------------------------------------------------------------
(* History bookkeeping.                                                    *)

Bump(f, k) == [f EXCEPT ![k] = @ + 1]

(* The lines summarize() returns for `keys`.                               *)
ReportKeys(keys) ==
  /\ summarized' = [k \in Keys |-> IF k \in keys
                                   THEN summarized[k] + Reported(state[k])
                                   ELSE summarized[k]]
  /\ summaries' = summaries + Cardinality(NotEmpty(keys))

(* A verbatim line of k; `fresh` if the key was new or silent for Longest. *)
WriteVerbatim(k, fresh) ==
  /\ verbatim' = Bump(verbatim, k)
  /\ episode' = [episode EXCEPT ![k] = IF fresh THEN 1 ELSE @ + 1]

-----------------------------------------------------------------------------
(* admit_summarizing(), one action per return.                             *)

SilentFor(k, sec) == SaturatingSub(sec, state[k].lastSeen) >= Longest

(* The window is over and the key was silent: written as a new detection.  *)
AdmitIdle(k, sec) ==
  /\ k \in tracked
  /\ Expired(state[k], sec)
  /\ ~Active(state[k], sec)
  /\ state' = [state EXCEPT ![k] =
                 [CloseWindow(Summarized(@), sec) EXCEPT !.lastSeen = sec,
                                                         !.seen = 1,
                                                         !.written = 1]]
  /\ ReportKeys({k})
  /\ WriteVerbatim(k, TRUE)
  /\ UNCHANGED <<tracked, evicted, suppressed, discarded, waitingSince>>

(* The window is over and the key is still busy: into the next summary.    *)
AdmitBusy(k, sec) ==
  /\ k \in tracked
  /\ Expired(state[k], sec)
  /\ Active(state[k], sec)
  /\ state' = [state EXCEPT ![k] =
                 [CloseWindow(Summarized(@), sec) EXCEPT !.lastSeen = sec,
                                                         !.seen = 1,
                                                         !.heldTotal = 1,
                                                         !.held = 1]]
  /\ ReportKeys({k})
  /\ suppressed' = suppressed + 1
  /\ waitingSince' = [waitingSince EXCEPT ![k] = clock]
  /\ episode' = [episode EXCEPT ![k] = IF SilentFor(k, sec) THEN 0 ELSE @]
  /\ UNCHANGED <<tracked, evicted, verbatim, discarded>>

(* Inside the window, burst left.                                          *)
AdmitBurst(k, sec) ==
  /\ k \in tracked
  /\ ~Expired(state[k], sec)
  /\ state[k].written < Burst
  /\ state' = [state EXCEPT ![k].lastSeen = sec, ![k].seen = @ + 1,
                            ![k].written = @ + 1]
  /\ WriteVerbatim(k, SilentFor(k, sec))
  /\ UNCHANGED <<tracked, evicted, summaries, suppressed, summarized,
                 discarded, waitingSince>>

(* Inside the window, burst spent: held, in the buffer while it has room.  *)
AdmitHeld(k, sec) ==
  /\ k \in tracked
  /\ ~Expired(state[k], sec)
  /\ state[k].written >= Burst
  /\ state' = [state EXCEPT ![k].lastSeen = sec, ![k].seen = @ + 1,
                            ![k].heldTotal = @ + 1,
                            ![k].held = IF @ < MaxCondensed THEN @ + 1 ELSE @]
  /\ suppressed' = suppressed + 1
  /\ waitingSince' = [waitingSince EXCEPT ![k] =
                        IF state[k].held = 0 THEN clock ELSE @]
  /\ episode' = [episode EXCEPT ![k] = IF SilentFor(k, sec) THEN 0 ELSE @]
  /\ UNCHANGED <<tracked, evicted, summaries, verbatim, summarized, discarded>>

(* A key the table does not have: room is made for it first.               *)
AdmitNew(k, sec) ==
  /\ k \notin tracked
  /\ tracked' = (tracked \ MakeRoom) \union {k}
  /\ state' = [j \in Keys |->
                 IF j = k
                 THEN [windowStart |-> sec, written |-> 1, held |-> 0,
                       heldTotal |-> 0, lastSeen |-> sec, seen |-> 1,
                       span |-> Window]
                 ELSE IF j \in MakeRoom THEN Blank ELSE state[j]]
  /\ evicted' = evicted + Cardinality(MakeRoom)
  /\ ReportKeys(MakeRoom)
  /\ WriteVerbatim(k, TRUE)
  /\ UNCHANGED <<suppressed, discarded, waitingSince>>

AdmitSummarizing(e, sec) ==
  /\ mode = "summarize"
  /\ \/ AdmitIdle(KeyFor(e), sec)
     \/ AdmitBusy(KeyFor(e), sec)
     \/ AdmitBurst(KeyFor(e), sec)
     \/ AdmitHeld(KeyFor(e), sec)
     \/ AdmitNew(KeyFor(e), sec)
  /\ admitted' = Bump(admitted, KeyFor(e))
  /\ UNCHANGED legacy

(* admit_legacy(): the first event of a bucket is written and NOT recorded *)
(* then each pair once, the rest is discarded.                             *)
AdmitLegacy(e, sec) ==
  LET bucket == sec \div LegacyDivisor
      keys   == {SrcKey(e), DstKey(e)}
  IN
  /\ mode = "legacy"
  /\ \/ /\ bucket # legacyBucket
        /\ legacyBucket' = bucket
        /\ legacyTrails' = {}
        /\ verbatim' = Bump(verbatim, SrcKey(e))
        /\ UNCHANGED <<suppressed, discarded>>
     \/ /\ bucket = legacyBucket
        /\ keys \intersect legacyTrails = {}
        /\ legacyTrails' = legacyTrails \union keys
        /\ verbatim' = Bump(verbatim, SrcKey(e))
        /\ UNCHANGED <<legacyBucket, suppressed, discarded>>
     \/ /\ bucket = legacyBucket
        /\ keys \intersect legacyTrails # {}
        /\ suppressed' = suppressed + 1
        /\ discarded' = Bump(discarded, SrcKey(e))
        /\ UNCHANGED <<legacy, verbatim>>
  /\ admitted' = Bump(admitted, SrcKey(e))
  /\ UNCHANGED <<table, summarized, episode, waitingSince>>

AdmitOff(e) ==
  /\ mode = "off"
  /\ verbatim' = Bump(verbatim, SrcKey(e))
  /\ admitted' = Bump(admitted, SrcKey(e))
  /\ UNCHANGED <<table, legacy, suppressed, summarized, discarded, episode,
                 waitingSince>>

(* Throttle::admit() *)
Admit(e, sec) ==
  \/ AdmitSummarizing(e, sec)
  \/ AdmitLegacy(e, sec)
  \/ AdmitOff(e)

-----------------------------------------------------------------------------
(* Mutant of DueKeys: housekeeping only looks for keys that fell silent.   *)
DueKeysIdle(now) == {k \in tracked : Expired(state[k], now) /\ ~Active(state[k], now)}

(* flush_due(now): every window that is over is reported and reopened; a   *)
(* key silent for Longest is forgotten.                                    *)
DueKeys(now) == {k \in tracked : Expired(state[k], now)}

FlushDue(now) ==
  LET due  == IF mode = "summarize" THEN DueKeys(now) ELSE {}
      idle == {k \in due : ~Active(state[k], now)}
  IN
  /\ ReportKeys(due)
  /\ tracked' = tracked \ idle
  /\ state' = [k \in Keys |->
                 IF k \in idle THEN Blank
                 ELSE IF k \in due THEN CloseWindow(Summarized(state[k]), now)
                 ELSE state[k]]
  /\ UNCHANGED <<legacy, evicted, suppressed, admitted, verbatim, discarded,
                 episode, waitingSince>>

(* flush_all(), at shutdown.                                               *)
FlushAll ==
  /\ ReportKeys(tracked)
  /\ tracked' = {}
  /\ state' = [k \in Keys |-> Blank]
  /\ UNCHANGED <<legacy, evicted, suppressed, admitted, verbatim, discarded,
                 episode, waitingSince>>

-----------------------------------------------------------------------------
(* The worker that drives the throttle (worker.rs): packets, a housekeeping*)
(* pass at least once a second, and the flush at exit.                     *)

Init ==
  /\ mode \in Modes
  /\ tracked = {}
  /\ state = [k \in Keys |-> Blank]
  /\ legacyBucket = -1
  /\ legacyTrails = {}
  /\ evicted = 0
  /\ suppressed = 0
  /\ summaries = 0
  /\ clock = 0
  /\ swept = FALSE
  /\ fed = 0
  /\ running = TRUE
  /\ admitted = [k \in Keys |-> 0]
  /\ verbatim = [k \in Keys |-> 0]
  /\ summarized = [k \in Keys |-> 0]
  /\ discarded = [k \in Keys |-> 0]
  /\ episode = [k \in Keys |-> 0]
  /\ waitingSince = [k \in Keys |-> 0]

(* The timestamps a packet read now may carry.                             *)
PacketTimes == SaturatingSub(clock, Lag) .. clock

Packet(e, sec) ==
  /\ running
  /\ fed < MaxEvents
  /\ fed' = fed + 1
  /\ Admit(e, sec)
  /\ UNCHANGED <<mode, clock, swept, running>>

Housekeeping ==
  /\ running
  /\ FlushDue(clock)
  /\ swept' = TRUE
  /\ UNCHANGED <<mode, clock, fed, running>>

(* HOUSEKEEPING_MAX_IDLE: no second passes without a housekeeping pass.    *)
Tick ==
  /\ running
  /\ swept
  /\ clock < MaxTime
  /\ clock' = clock + 1
  /\ swept' = FALSE
  /\ UNCHANGED <<mode, table, legacy, suppressed, fed, running, history>>

Exit ==
  /\ running
  /\ running' = FALSE
  /\ FlushAll
  /\ UNCHANGED <<mode, clock, swept, fed>>

Next ==
  \/ \E e \in Events, sec \in PacketTimes : Packet(e, sec)
  \/ Housekeeping
  \/ Tick
  \/ Exit

Spec == Init /\ [][Next]_vars

-----------------------------------------------------------------------------
TableTypes ==
  /\ tracked \subseteq Keys
  /\ state \in [Keys -> KeyState]
  /\ \A k \in Keys : state[k].held <= MaxCondensed /\ state[k].span <= Longest
  /\ \A k \in Keys \ tracked : state[k] = Blank

CounterTypes ==
  /\ evicted \in Nat /\ suppressed \in Nat /\ summaries \in Nat
  /\ clock \in Nat /\ fed \in Nat
  /\ admitted \in [Keys -> Nat] /\ verbatim \in [Keys -> Nat]
  /\ summarized \in [Keys -> Nat] /\ discarded \in [Keys -> Nat]
  /\ episode \in [Keys -> Nat] /\ waitingSince \in [Keys -> Nat]

OtherTypes ==
  /\ mode \in Modes
  /\ legacyBucket \in Nat \union {-1}
  /\ legacyTrails \subseteq Keys
  /\ swept \in BOOLEAN /\ running \in BOOLEAN

(* Types: the buffer of a key never outgrows MAX_CONDENSED_EVENTS, a window*)
(* never outgrows Longest, and only tracked keys have state.               *)
TypeOK == TableTypes /\ CounterTypes /\ OtherTypes

(* "Nothing is dropped silently" (throttle.rs, evict_batch and the module  *)
(* comment): for every key, an admitted event was written, is reported by  *)
(* a summary line, is still held for one or, in legacy mode only, was      *)
(* discarded; after the shutdown flush nothing is held any more.           *)
Conservation ==
  /\ \A k \in Keys : admitted[k] = verbatim[k] + summarized[k]
                                   + state[k].heldTotal + discarded[k]
  /\ mode = "summarize" => \A k \in Keys : discarded[k] = 0
  /\ ~running => \A k \in Keys : state[k].heldTotal = 0

(* What makes Conservation inductive: summarize() reports nothing for an   *)
(* empty buffer but resets the total all the same, so a total may only be  *)
(* positive while the buffer is not empty.                                 *)
HeldHasBuffer ==
  /\ \A k \in Keys : state[k].heldTotal > 0 => state[k].held > 0
  /\ ~running => tracked = {}

(* EVENT_THROTTLE_MAX_KEYS bounds the table whatever the traffic.          *)
TableBounded == Cardinality(tracked) <= MaxKeys

(* A key that keeps being seen - no silence of Longest between two of its  *)
(* events, and not evicted - writes at most Burst lines verbatim, however  *)
(* many windows that takes: later windows open with the burst spent.       *)
BurstRespected == \A k \in tracked : episode[k] <= Burst

(* A burst that simply stops is still reported: no event is held for       *)
(* longer than the longest window.                                         *)
HeldWaitBounded ==
  \A k \in tracked : state[k].held > 0 => clock - waitingSince[k] <= Longest
=============================================================================
