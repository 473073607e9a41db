------------------------------ MODULE SinkProofs ------------------------------
(***************************************************************************)
(* Proofs about Throttle and about EventSink, which drives it.  Of the     *)
(* throttle: its type invariant, that nothing is dropped silently, that a  *)
(* busy key stays within its burst and that the table and the time an      *)
(* event is held are bounded, for every set of addresses and subjects and  *)
(* every value of the configuration.  Of the sink: it drives its throttle  *)
(* the way Throttle says it is driven, so what is shown of the throttle    *)
(* holds of it inside the sink; and for any number of groups and any flush *)
(* period, the condense buffer stays within its limits, loses no detection *)
(* and hands each one on in time.                                          *)
(***************************************************************************)
EXTENDS EventSink, TLAPS, FiniteSetTheorems, WellFoundedInduction

-----------------------------------------------------------------------------
(* The throttle.                                                           *)

(* The table is a finite map at any moment.                                *)
FiniteTable == IsFiniteSet(tracked)

TypeInv == TypeOK /\ FiniteTable

-----------------------------------------------------------------------------
(* Facts about the pure parts.                                             *)

(* The longest window is a number at least as large as the first.          *)
LEMMA LongestFacts ==
  /\ Longest \in Nat
  /\ Window <= Longest
  /\ Window \in Nat /\ Burst \in Nat /\ Burst >= 1
  /\ MaxCondensed \in Nat /\ MaxCondensed >= 1
BY ThrottleAssumption DEF Longest, Maximum

(* Closing a window (close_window) keeps what the key holds and its last   *)
(* event, and leaves a window no longer than Longest.                      *)
LEMMA CloseWindowFacts ==
  ASSUME NEW st \in KeyState, NEW now \in Nat, st.span <= Longest
  PROVE  /\ CloseWindow(st, now) \in KeyState
         /\ CloseWindow(st, now).span <= Longest
         /\ CloseWindow(st, now).held = st.held
         /\ CloseWindow(st, now).heldTotal = st.heldTotal
         /\ CloseWindow(st, now).lastSeen = st.lastSeen
         /\ CloseWindow(st, now).written = IF Active(st, now) THEN Burst ELSE 0
<1> DEFINE sp == IF ~Active(st, now) THEN Window
                 ELSE IF st.seen > 0
                      THEN Maximum(Window, Minimum(2 * st.span, Longest))
                      ELSE st.span
<1> DEFINE wr == IF Active(st, now) THEN Burst ELSE 0
<1>1. st.span \in Nat BY DEF KeyState
<1>2. sp \in Nat /\ sp <= Longest
  BY <1>1, LongestFacts DEF Maximum, Minimum
<1>3. wr \in Nat BY LongestFacts
<1>4. CloseWindow(st, now) = [st EXCEPT !.windowStart = now, !.span = sp,
                                        !.seen = 0, !.written = wr]
  BY DEF CloseWindow
<1> HIDE DEF sp, wr
<1>5. CloseWindow(st, now) =
        [windowStart |-> now, written |-> wr, held |-> st.held,
         heldTotal |-> st.heldTotal, lastSeen |-> st.lastSeen, seen |-> 0,
         span |-> sp]
  BY <1>4 DEF KeyState
<1>6. wr = IF Active(st, now) THEN Burst ELSE 0 BY DEF wr
<1> QED BY <1>2, <1>3, <1>5, <1>6 DEF KeyState

(* Summarizing (summarize) empties the buffer and the total.               *)
LEMMA SummarizedFacts ==
  ASSUME NEW st \in KeyState
  PROVE  /\ Summarized(st) \in KeyState
         /\ Summarized(st).held = 0 /\ Summarized(st).heldTotal = 0
         /\ Summarized(st).span = st.span
         /\ Summarized(st).lastSeen = st.lastSeen
         /\ Summarized(st).written = st.written
BY DEF Summarized, KeyState

LEMMA BlankFacts ==
  /\ Blank \in KeyState
  /\ Blank.held = 0 /\ Blank.heldTotal = 0 /\ Blank.span = 0
BY DEF Blank, KeyState

(* What a summary reports of a key is a number.                            *)
LEMMA ReportKeysFacts ==
  ASSUME TypeInv, NEW ks \in SUBSET tracked, ReportKeys(ks)
  PROVE  /\ summarized' \in [Keys -> Nat]
         /\ summaries' \in Nat
         /\ \A k \in ks : summarized'[k] = summarized[k] + Reported(state[k])
         /\ \A k \in Keys \ ks : summarized'[k] = summarized[k]
<1>1. ks \subseteq Keys BY DEF TypeInv, TypeOK, TableTypes
<1>2. \A k \in Keys : Reported(state[k]) \in Nat
  BY DEF Reported, TypeInv, TypeOK, TableTypes, KeyState
<1>3. IsFiniteSet(NotEmpty(ks))
  BY FS_Subset DEF NotEmpty, TypeInv, FiniteTable
<1>4. Cardinality(NotEmpty(ks)) \in Nat BY <1>3, FS_CardinalityType
<1> QED BY <1>1, <1>2, <1>4 DEF ReportKeys, TypeInv, TypeOK, CounterTypes

(* One more event on a counter of events per key.                          *)
LEMMA BumpFacts ==
  ASSUME NEW f \in [Keys -> Nat], NEW k \in Keys
  PROVE  /\ Bump(f, k) \in [Keys -> Nat]
         /\ Bump(f, k)[k] = f[k] + 1
         /\ \A j \in Keys \ {k} : Bump(f, k)[j] = f[j]
BY DEF Bump

LEMMA WriteVerbatimFacts ==
  ASSUME TypeInv, NEW k \in Keys, NEW fresh \in BOOLEAN,
         WriteVerbatim(k, fresh)
  PROVE  /\ verbatim' \in [Keys -> Nat]
         /\ episode' \in [Keys -> Nat]
         /\ verbatim'[k] = verbatim[k] + 1
         /\ \A j \in Keys \ {k} : verbatim'[j] = verbatim[j]
         /\ episode'[k] = IF fresh THEN 1 ELSE episode[k] + 1
         /\ \A j \in Keys \ {k} : episode'[j] = episode[j]
<1>1. verbatim \in [Keys -> Nat] /\ episode \in [Keys -> Nat]
  BY DEF TypeInv, TypeOK, CounterTypes
<1> QED BY <1>1, BumpFacts DEF WriteVerbatim

(* The key an event is charged to is a key.                                *)
LEMMA KeyForFacts ==
  ASSUME NEW e \in Events
  PROVE  KeyFor(e) \in Keys /\ SrcKey(e) \in Keys /\ DstKey(e) \in Keys
BY DEF KeyFor, SrcKey, DstKey, Events, Keys

(* A packet's timestamp is a second, and so is the clock.                  *)
LEMMA PacketTimesFacts ==
  ASSUME TypeInv, NEW sec \in PacketTimes
  PROVE  sec \in Nat /\ sec <= clock
BY ThrottleAssumption DEF TypeInv, TypeOK, CounterTypes, PacketTimes, SaturatingSub

-----------------------------------------------------------------------------
(* The invariant: what Conservation and BurstRespected need of the table is *)
(* that totals have a buffer, and that the verbatim lines of a tracked key  *)
(* since it was new are within what its window has written.                *)

WithinBurst ==
  \A k \in tracked : episode[k] <= state[k].written /\ state[k].written <= Burst

Inv == TypeInv /\ Conservation /\ HeldHasBuffer /\ WithinBurst

(* What a summary reports is everything the key holds.                     *)
LEMMA ReportedIsTotal ==
  ASSUME Inv, NEW k \in Keys
  PROVE  Reported(state[k]) = state[k].heldTotal
BY DEF Inv, TypeInv, TypeOK, TableTypes, HeldHasBuffer, Reported, KeyState

LEMMA InitInv == Init => Inv
<1> SUFFICES ASSUME Init PROVE Inv OBVIOUS
<1>1. TypeOK
  <2>1. TableTypes BY BlankFacts, LongestFacts DEF Init, TableTypes
  <2>2. CounterTypes BY DEF Init, CounterTypes
  <2>3. OtherTypes BY DEF Init, OtherTypes
  <2> QED BY <2>1, <2>2, <2>3 DEF TypeOK
<1>2. FiniteTable BY FS_EmptySet DEF Init, FiniteTable
<1>3. Conservation BY BlankFacts DEF Init, Conservation
<1>4. HeldHasBuffer /\ WithinBurst BY BlankFacts DEF Init, HeldHasBuffer, WithinBurst
<1> QED BY <1>1, <1>2, <1>3, <1>4 DEF Inv, TypeInv

-----------------------------------------------------------------------------
(* Steps.  What admit() leaves alone, and what it counts, is the same for  *)
(* every branch of admit_summarizing().                                    *)

Charged(k) ==
  /\ running
  /\ mode = "summarize"
  /\ fed' = fed + 1
  /\ admitted' = Bump(admitted, k)
  /\ UNCHANGED <<legacy, mode, clock, swept, running>>

LEMMA ChargedFacts ==
  ASSUME Inv, NEW k \in Keys, Charged(k)
  PROVE  /\ OtherTypes'
         /\ admitted' \in [Keys -> Nat] /\ fed' \in Nat /\ clock' \in Nat
         /\ admitted'[k] = admitted[k] + 1
         /\ \A j \in Keys \ {k} : admitted'[j] = admitted[j]
         /\ running' /\ mode' = "summarize"
         /\ \A j \in Keys : discarded[j] = 0
<1>1. OtherTypes' BY DEF Inv, TypeInv, TypeOK, OtherTypes, Charged, legacy
<1>2. admitted \in [Keys -> Nat] /\ fed \in Nat /\ clock \in Nat
  BY DEF Inv, TypeInv, TypeOK, CounterTypes
<1>3. running' /\ mode' = "summarize" BY DEF Charged
<1>4. \A j \in Keys : discarded[j] = 0 BY DEF Inv, Conservation, Charged
<1> QED BY <1>1, <1>2, <1>3, <1>4, BumpFacts DEF Charged

(* To preserve Inv a charged step has to account for one event of k.       *)
LEMMA ChargedStep ==
  ASSUME Inv, NEW k \in Keys, Charged(k),
         TableTypes', CounterTypes', FiniteTable', discarded' = discarded,
         \A j \in Keys : state'[j].heldTotal > 0 => state'[j].held > 0,
         verbatim'[k] + summarized'[k] + state'[k].heldTotal =
           verbatim[k] + summarized[k] + state[k].heldTotal + 1,
         \A j \in Keys \ {k} :
           verbatim'[j] + summarized'[j] + state'[j].heldTotal =
             verbatim[j] + summarized[j] + state[j].heldTotal,
         WithinBurst'
  PROVE  Inv'
<1>1. TypeInv' BY ChargedFacts DEF TypeInv, TypeOK
<1>2. HeldHasBuffer' BY ChargedFacts DEF HeldHasBuffer
<1>3. \A j \in Keys : state'[j] \in KeyState /\ state[j] \in KeyState
  BY DEF Inv, TypeInv, TypeOK, TableTypes
<1>4. \A j \in Keys : /\ verbatim[j] \in Nat /\ verbatim'[j] \in Nat
                      /\ summarized[j] \in Nat /\ summarized'[j] \in Nat
                      /\ admitted[j] \in Nat /\ admitted'[j] \in Nat
                      /\ discarded[j] \in Nat
                      /\ state[j].heldTotal \in Nat /\ state'[j].heldTotal \in Nat
  BY <1>3 DEF Inv, TypeInv, TypeOK, CounterTypes, KeyState
<1>5. \A j \in Keys : admitted[j] = verbatim[j] + summarized[j]
                                    + state[j].heldTotal + discarded[j]
  BY DEF Inv, Conservation
<1>6. \A j \in Keys : admitted'[j] = verbatim'[j] + summarized'[j]
                                     + state'[j].heldTotal + discarded'[j]
  BY <1>4, <1>5, ChargedFacts
<1>7. Conservation' BY <1>6, ChargedFacts DEF Conservation
<1> QED BY <1>1, <1>2, <1>7 DEF Inv

(* The two branches that close an expired window.                          *)
LEMMA ReopenedFacts ==
  ASSUME Inv, NEW k \in Keys, NEW sec \in Nat
  PROVE  LET st == CloseWindow(Summarized(state[k]), sec)
         IN  /\ st \in KeyState
             /\ st.span <= Longest /\ st.held = 0 /\ st.heldTotal = 0
             /\ st.written = IF Active(state[k], sec) THEN Burst ELSE 0
<1>1. state[k] \in KeyState /\ state[k].span <= Longest
  BY DEF Inv, TypeInv, TypeOK, TableTypes
<1>2. /\ Summarized(state[k]) \in KeyState
      /\ Summarized(state[k]).span <= Longest
      /\ Summarized(state[k]).held = 0 /\ Summarized(state[k]).heldTotal = 0
      /\ Summarized(state[k]).lastSeen = state[k].lastSeen
  BY <1>1, SummarizedFacts
<1>3. Active(Summarized(state[k]), sec) <=> Active(state[k], sec)
  BY <1>2 DEF Active
<1> QED BY <1>2, <1>3, CloseWindowFacts

LEMMA AdmitIdleInv ==
  ASSUME Inv, NEW k \in Keys, NEW sec \in Nat, Charged(k), AdmitIdle(k, sec)
  PROVE  Inv'
<1> DEFINE st == CloseWindow(Summarized(state[k]), sec)
<1> DEFINE new == [st EXCEPT !.lastSeen = sec, !.seen = 1, !.written = 1]
<1>1. st \in KeyState /\ st.span <= Longest /\ st.held = 0 /\ st.heldTotal = 0
  BY ReopenedFacts
<1>2. state' = [state EXCEPT ![k] = new] BY DEF AdmitIdle
<1> HIDE DEF st
<1>3. new \in KeyState /\ new.span <= Longest /\ new.held = 0
      /\ new.heldTotal = 0 /\ new.written = 1
  BY <1>1 DEF KeyState
<1>4. state \in [Keys -> KeyState] /\ tracked' = tracked /\ k \in tracked
  BY DEF Inv, TypeInv, TypeOK, TableTypes, AdmitIdle
<1> HIDE DEF new
<1>5. state'[k] = new /\ \A j \in Keys \ {k} : state'[j] = state[j]
  BY <1>2, <1>4
<1>6. TableTypes'
  BY <1>2, <1>3, <1>4, <1>5, LongestFacts DEF Inv, TypeInv, TypeOK, TableTypes
<1>7. /\ summarized' \in [Keys -> Nat] /\ summaries' \in Nat
      /\ summarized'[k] = summarized[k] + state[k].heldTotal
      /\ \A j \in Keys \ {k} : summarized'[j] = summarized[j]
  BY <1>4, ReportKeysFacts, ReportedIsTotal DEF AdmitIdle, Inv
<1>8. /\ verbatim' \in [Keys -> Nat] /\ episode' \in [Keys -> Nat]
      /\ verbatim'[k] = verbatim[k] + 1 /\ episode'[k] = 1
      /\ \A j \in Keys \ {k} : verbatim'[j] = verbatim[j] /\ episode'[j] = episode[j]
  BY WriteVerbatimFacts DEF AdmitIdle, Inv
<1>9. CounterTypes'
  BY <1>7, <1>8, ChargedFacts DEF AdmitIdle, Inv, TypeInv, TypeOK, CounterTypes
<1>10. FiniteTable' /\ discarded' = discarded
  BY <1>4 DEF FiniteTable, Inv, TypeInv, AdmitIdle
<1>11. \A j \in Keys : state'[j].heldTotal > 0 => state'[j].held > 0
  BY <1>3, <1>5 DEF Inv, HeldHasBuffer
<1>12. WithinBurst'
  BY <1>3, <1>4, <1>5, <1>8, LongestFacts
     DEF WithinBurst, Inv, TypeInv, TypeOK, TableTypes
<1>13. verbatim[k] \in Nat /\ summarized[k] \in Nat /\ state[k].heldTotal \in Nat
  BY <1>4 DEF Inv, TypeInv, TypeOK, CounterTypes, KeyState
<1>14. verbatim'[k] + summarized'[k] + state'[k].heldTotal =
           verbatim[k] + summarized[k] + state[k].heldTotal + 1
  BY <1>3, <1>5, <1>7, <1>8, <1>13
<1>15. \A j \in Keys \ {k} :
           verbatim'[j] + summarized'[j] + state'[j].heldTotal =
             verbatim[j] + summarized[j] + state[j].heldTotal
  BY <1>5, <1>7, <1>8
<1> QED BY <1>6, <1>9, <1>10, <1>11, <1>12, <1>14, <1>15, ChargedStep

LEMMA AdmitBusyInv ==
  ASSUME Inv, NEW k \in Keys, NEW sec \in Nat, Charged(k), AdmitBusy(k, sec)
  PROVE  Inv'
<1> DEFINE st == CloseWindow(Summarized(state[k]), sec)
<1> DEFINE new == [st EXCEPT !.lastSeen = sec, !.seen = 1, !.heldTotal = 1,
                             !.held = 1]
<1>1. st \in KeyState /\ st.span <= Longest /\ st.written = Burst
  BY ReopenedFacts DEF AdmitBusy
<1>2. state' = [state EXCEPT ![k] = new] BY DEF AdmitBusy
<1> HIDE DEF st
<1>3. new \in KeyState /\ new.span <= Longest /\ new.held = 1
      /\ new.heldTotal = 1 /\ new.written = Burst
  BY <1>1 DEF KeyState
<1>4. state \in [Keys -> KeyState] /\ tracked' = tracked /\ k \in tracked
  BY DEF Inv, TypeInv, TypeOK, TableTypes, AdmitBusy
<1> HIDE DEF new
<1>5. state'[k] = new /\ \A j \in Keys \ {k} : state'[j] = state[j]
  BY <1>2, <1>4
<1>6. TableTypes'
  BY <1>2, <1>3, <1>4, <1>5, LongestFacts DEF Inv, TypeInv, TypeOK, TableTypes
<1>7. /\ summarized' \in [Keys -> Nat] /\ summaries' \in Nat
      /\ summarized'[k] = summarized[k] + state[k].heldTotal
      /\ \A j \in Keys \ {k} : summarized'[j] = summarized[j]
  BY <1>4, ReportKeysFacts, ReportedIsTotal DEF AdmitBusy, Inv
<1>8. /\ verbatim' = verbatim /\ discarded' = discarded
      /\ suppressed' = suppressed + 1 /\ evicted' = evicted
      /\ waitingSince' = [waitingSince EXCEPT ![k] = clock]
      /\ episode' = [episode EXCEPT ![k] = IF SilentFor(k, sec) THEN 0 ELSE @]
  BY DEF AdmitBusy
<1>9. CounterTypes'
  BY <1>7, <1>8, ChargedFacts DEF Inv, TypeInv, TypeOK, CounterTypes
<1>10. FiniteTable' BY <1>4 DEF FiniteTable, Inv, TypeInv
<1>11. \A j \in Keys : state'[j].heldTotal > 0 => state'[j].held > 0
  BY <1>3, <1>5 DEF Inv, HeldHasBuffer
<1>12. WithinBurst'
  <2> SUFFICES ASSUME NEW j \in tracked
               PROVE episode'[j] <= state'[j].written /\ state'[j].written <= Burst
    BY <1>4 DEF WithinBurst
  <2>1. j \in Keys /\ episode[j] \in Nat /\ state[j].written \in Nat
    BY <1>4 DEF Inv, TypeInv, TypeOK, TableTypes, CounterTypes, KeyState
  <2>2. episode[j] <= state[j].written /\ state[j].written <= Burst
    BY DEF Inv, WithinBurst
  <2>3. episode'[j] <= episode[j]
    BY <1>8, <2>1 DEF Inv, TypeInv, TypeOK, CounterTypes
  <2>4. episode'[j] \in Nat BY <1>9, <2>1 DEF CounterTypes
  <2> QED BY <1>3, <1>5, <2>1, <2>2, <2>3, <2>4, LongestFacts
<1>13. verbatim[k] \in Nat /\ summarized[k] \in Nat /\ state[k].heldTotal \in Nat
  BY <1>4 DEF Inv, TypeInv, TypeOK, CounterTypes, KeyState
<1>14. verbatim'[k] + summarized'[k] + state'[k].heldTotal =
           verbatim[k] + summarized[k] + state[k].heldTotal + 1
  BY <1>3, <1>5, <1>7, <1>8, <1>13
<1>15. \A j \in Keys \ {k} :
           verbatim'[j] + summarized'[j] + state'[j].heldTotal =
             verbatim[j] + summarized[j] + state[j].heldTotal
  BY <1>5, <1>7, <1>8
<1> QED BY <1>6, <1>8, <1>9, <1>10, <1>11, <1>12, <1>14, <1>15, ChargedStep

LEMMA AdmitBurstInv ==
  ASSUME Inv, NEW k \in Keys, NEW sec \in Nat, Charged(k), AdmitBurst(k, sec)
  PROVE  Inv'
<1> DEFINE st == state[k]
<1> DEFINE new == [windowStart |-> st.windowStart, written |-> st.written + 1,
                   held |-> st.held, heldTotal |-> st.heldTotal,
                   lastSeen |-> sec, seen |-> st.seen + 1, span |-> st.span]
<1>1. st \in KeyState /\ st.span <= Longest /\ st.held <= MaxCondensed
  BY DEF Inv, TypeInv, TypeOK, TableTypes
<1>2. state \in [Keys -> KeyState] /\ tracked' = tracked /\ k \in tracked
  BY DEF Inv, TypeInv, TypeOK, TableTypes, AdmitBurst
<1>3. state'[k] = new /\ \A j \in Keys \ {k} : state'[j] = state[j]
  BY <1>1, <1>2 DEF AdmitBurst, KeyState
<1>4. state' \in [Keys -> KeyState] BY <1>1, <1>2, <1>3 DEF AdmitBurst, KeyState
<1>5. TableTypes'
  BY <1>1, <1>2, <1>3, <1>4 DEF Inv, TypeInv, TypeOK, TableTypes
<1>6. /\ verbatim' \in [Keys -> Nat] /\ episode' \in [Keys -> Nat]
      /\ verbatim'[k] = verbatim[k] + 1
      /\ episode'[k] = 1 \/ episode'[k] = episode[k] + 1
      /\ \A j \in Keys \ {k} : verbatim'[j] = verbatim[j] /\ episode'[j] = episode[j]
  <2>1. SilentFor(k, sec) \in BOOLEAN BY DEF SilentFor
  <2> QED BY <2>1, WriteVerbatimFacts DEF AdmitBurst, Inv
<1>7. /\ summarized' = summarized /\ discarded' = discarded
      /\ UNCHANGED <<evicted, summaries, suppressed, waitingSince>>
  BY DEF AdmitBurst
<1>8. CounterTypes'
  BY <1>6, <1>7, ChargedFacts DEF Inv, TypeInv, TypeOK, CounterTypes
<1>9. FiniteTable' BY <1>2 DEF FiniteTable, Inv, TypeInv
<1>10. \A j \in Keys : state'[j].heldTotal > 0 => state'[j].held > 0
  BY <1>3 DEF Inv, HeldHasBuffer
<1>11. WithinBurst'
  <2>1. st.written < Burst BY DEF AdmitBurst
  <2>2. episode[k] \in Nat /\ st.written \in Nat /\ episode[k] <= st.written
    BY <1>1, <1>2 DEF Inv, TypeInv, TypeOK, CounterTypes, KeyState, WithinBurst
  <2>3. \A j \in tracked \ {k} : episode'[j] <= state'[j].written
                                 /\ state'[j].written <= Burst
    BY <1>2, <1>3, <1>6 DEF Inv, TypeInv, TypeOK, TableTypes, WithinBurst
  <2>4. episode'[k] <= state'[k].written /\ state'[k].written <= Burst
    BY <1>3, <1>6, <2>1, <2>2, LongestFacts
  <2> QED BY <1>2, <2>3, <2>4 DEF WithinBurst
<1>12. verbatim[k] \in Nat /\ summarized[k] \in Nat /\ state[k].heldTotal \in Nat
  BY <1>1 DEF Inv, TypeInv, TypeOK, CounterTypes, KeyState
<1>13. verbatim'[k] + summarized'[k] + state'[k].heldTotal =
           verbatim[k] + summarized[k] + state[k].heldTotal + 1
  BY <1>3, <1>6, <1>7, <1>12
<1>14. \A j \in Keys \ {k} :
           verbatim'[j] + summarized'[j] + state'[j].heldTotal =
             verbatim[j] + summarized[j] + state[j].heldTotal
  BY <1>3, <1>6, <1>7
<1> QED BY <1>5, <1>7, <1>8, <1>9, <1>10, <1>11, <1>13, <1>14, ChargedStep

LEMMA AdmitHeldInv ==
  ASSUME Inv, NEW k \in Keys, NEW sec \in Nat, Charged(k), AdmitHeld(k, sec)
  PROVE  Inv'
<1> DEFINE st == state[k]
<1> DEFINE more == IF st.held < MaxCondensed THEN st.held + 1 ELSE st.held
<1> DEFINE new == [windowStart |-> st.windowStart, written |-> st.written,
                   held |-> more, heldTotal |-> st.heldTotal + 1,
                   lastSeen |-> sec, seen |-> st.seen + 1, span |-> st.span]
<1>1. st \in KeyState /\ st.span <= Longest /\ st.held <= MaxCondensed
  BY DEF Inv, TypeInv, TypeOK, TableTypes
<1>2. state \in [Keys -> KeyState] /\ tracked' = tracked /\ k \in tracked
  BY DEF Inv, TypeInv, TypeOK, TableTypes, AdmitHeld
<1>3. more \in Nat /\ more <= MaxCondensed /\ more > 0
  BY <1>1, LongestFacts DEF KeyState
<1>4. state'[k] = new /\ \A j \in Keys \ {k} : state'[j] = state[j]
  BY <1>1, <1>2 DEF AdmitHeld, KeyState
<1>5. state' \in [Keys -> KeyState]
  <2>1. new \in KeyState BY <1>1, <1>3 DEF KeyState
  <2>2. state' = [state EXCEPT ![k] = state'[k]] BY <1>2 DEF AdmitHeld
  <2> QED BY <1>2, <1>4, <2>1, <2>2
<1> HIDE DEF more
<1>6. TableTypes'
  BY <1>1, <1>2, <1>3, <1>4, <1>5 DEF Inv, TypeInv, TypeOK, TableTypes
<1>7. /\ summarized' = summarized /\ discarded' = discarded
      /\ verbatim' = verbatim /\ suppressed' = suppressed + 1
      /\ UNCHANGED <<evicted, summaries>>
      /\ waitingSince' = [waitingSince EXCEPT ![k] =
                            IF state[k].held = 0 THEN clock ELSE @]
      /\ episode' = [episode EXCEPT ![k] = IF SilentFor(k, sec) THEN 0 ELSE @]
  BY DEF AdmitHeld
<1>8. CounterTypes'
  BY <1>7, ChargedFacts DEF Inv, TypeInv, TypeOK, CounterTypes
<1>9. FiniteTable' BY <1>2 DEF FiniteTable, Inv, TypeInv
<1>10. \A j \in Keys : state'[j].heldTotal > 0 => state'[j].held > 0
  BY <1>3, <1>4 DEF Inv, HeldHasBuffer
<1>11. WithinBurst'
  <2> SUFFICES ASSUME NEW j \in tracked
               PROVE episode'[j] <= state'[j].written /\ state'[j].written <= Burst
    BY <1>2 DEF WithinBurst
  <2>1. j \in Keys /\ episode[j] \in Nat /\ state[j].written \in Nat
    BY <1>2 DEF Inv, TypeInv, TypeOK, TableTypes, CounterTypes, KeyState
  <2>2. episode[j] <= state[j].written /\ state[j].written <= Burst
    BY DEF Inv, WithinBurst
  <2>3. episode'[j] <= episode[j]
    BY <1>7, <2>1 DEF Inv, TypeInv, TypeOK, CounterTypes
  <2>4. episode'[j] \in Nat BY <1>8, <2>1 DEF CounterTypes
  <2>5. state'[j].written = state[j].written BY <1>4, <2>1
  <2> QED BY <2>1, <2>2, <2>3, <2>4, <2>5, LongestFacts
<1>12. verbatim[k] \in Nat /\ summarized[k] \in Nat /\ state[k].heldTotal \in Nat
  BY <1>1 DEF Inv, TypeInv, TypeOK, CounterTypes, KeyState
<1>13. verbatim'[k] + summarized'[k] + state'[k].heldTotal =
           verbatim[k] + summarized[k] + state[k].heldTotal + 1
  BY <1>4, <1>7, <1>12
<1>14. \A j \in Keys \ {k} :
           verbatim'[j] + summarized'[j] + state'[j].heldTotal =
             verbatim[j] + summarized[j] + state[j].heldTotal
  BY <1>4, <1>7
<1> QED BY <1>6, <1>7, <1>8, <1>9, <1>10, <1>11, <1>13, <1>14, ChargedStep

LEMMA AdmitNewInv ==
  ASSUME Inv, NEW k \in Keys, NEW sec \in Nat, Charged(k), AdmitNew(k, sec)
  PROVE  Inv'
<1> DEFINE new == [windowStart |-> sec, written |-> 1, held |-> 0,
                   heldTotal |-> 0, lastSeen |-> sec, seen |-> 1,
                   span |-> Window]
<1>1. MakeRoom \subseteq tracked BY DEF MakeRoom, EvictedKeys
<1>2. new \in KeyState BY LongestFacts DEF KeyState
<1>3. /\ k \notin tracked /\ tracked \subseteq Keys
      /\ state \in [Keys -> KeyState]
      /\ tracked' = (tracked \ MakeRoom) \union {k}
      /\ state' = [j \in Keys |-> IF j = k THEN new
                                  ELSE IF j \in MakeRoom THEN Blank ELSE state[j]]
  BY DEF Inv, TypeInv, TypeOK, TableTypes, AdmitNew
<1> HIDE DEF new
<1>4. /\ state'[k] = new
      /\ \A j \in MakeRoom : state'[j] = Blank
      /\ \A j \in Keys \ (MakeRoom \union {k}) : state'[j] = state[j]
  BY <1>1, <1>3
<1>5. new.held = 0 /\ new.heldTotal = 0 /\ new.span = Window /\ new.written = 1
  BY DEF new
<1>6. TableTypes'
  <2>1. tracked' \subseteq Keys BY <1>3
  <2>2. state' \in [Keys -> KeyState] BY <1>2, <1>3, BlankFacts
  <2>3. \A j \in Keys : state'[j].held <= MaxCondensed /\ state'[j].span <= Longest
    BY <1>3, <1>4, <1>5, BlankFacts, LongestFacts
       DEF Inv, TypeInv, TypeOK, TableTypes
  <2>4. \A j \in Keys \ tracked' : state'[j] = Blank
    BY <1>3, <1>4 DEF Inv, TypeInv, TypeOK, TableTypes
  <2> QED BY <2>1, <2>2, <2>3, <2>4 DEF TableTypes
<1>7. /\ summarized' \in [Keys -> Nat] /\ summaries' \in Nat
      /\ \A j \in MakeRoom : summarized'[j] = summarized[j] + state[j].heldTotal
      /\ \A j \in Keys \ MakeRoom : summarized'[j] = summarized[j]
  BY <1>1, <1>3, ReportKeysFacts, ReportedIsTotal DEF AdmitNew, Inv
<1>8. /\ verbatim' \in [Keys -> Nat] /\ episode' \in [Keys -> Nat]
      /\ verbatim'[k] = verbatim[k] + 1 /\ episode'[k] = 1
      /\ \A j \in Keys \ {k} : verbatim'[j] = verbatim[j] /\ episode'[j] = episode[j]
  BY WriteVerbatimFacts DEF AdmitNew, Inv
<1>9. IsFiniteSet(MakeRoom) /\ Cardinality(MakeRoom) \in Nat
  BY <1>1, FS_Subset, FS_CardinalityType DEF Inv, TypeInv, FiniteTable
<1>10. evicted' \in Nat
  BY <1>9 DEF AdmitNew, Inv, TypeInv, TypeOK, CounterTypes
<1>11. CounterTypes'
  BY <1>7, <1>8, <1>10, ChargedFacts
     DEF AdmitNew, Inv, TypeInv, TypeOK, CounterTypes
<1>12. FiniteTable'
  <2>1. IsFiniteSet(tracked \ MakeRoom)
    BY FS_Subset DEF Inv, TypeInv, FiniteTable
  <2> QED BY <1>3, <2>1, FS_AddElement DEF FiniteTable
<1>13. discarded' = discarded BY DEF AdmitNew
<1>14. \A j \in Keys : state'[j].heldTotal > 0 => state'[j].held > 0
  BY <1>4, <1>5, BlankFacts DEF Inv, HeldHasBuffer
<1>15. WithinBurst'
  BY <1>3, <1>4, <1>5, <1>8, LongestFacts DEF WithinBurst, Inv
<1>16. \A j \in Keys : /\ verbatim[j] \in Nat /\ summarized[j] \in Nat
                       /\ state[j].heldTotal \in Nat
  BY <1>3 DEF Inv, TypeInv, TypeOK, CounterTypes, KeyState
<1>17. state[k].heldTotal = 0
  BY <1>3, BlankFacts DEF Inv, TypeInv, TypeOK, TableTypes
<1>18. verbatim'[k] + summarized'[k] + state'[k].heldTotal =
           verbatim[k] + summarized[k] + state[k].heldTotal + 1
  BY <1>1, <1>3, <1>4, <1>5, <1>7, <1>8, <1>16, <1>17
<1>19. \A j \in Keys \ {k} :
           verbatim'[j] + summarized'[j] + state'[j].heldTotal =
             verbatim[j] + summarized[j] + state[j].heldTotal
  BY <1>1, <1>4, <1>7, <1>8, <1>16, BlankFacts
<1> QED BY <1>6, <1>11, <1>12, <1>13, <1>14, <1>15, <1>18, <1>19, ChargedStep

(* The modes without a table only count.                                   *)
LEMMA UntabledInv ==
  ASSUME Inv, NEW e \in Events, NEW sec \in Nat, running, fed' = fed + 1,
         UNCHANGED <<mode, clock, swept, running>>,
         AdmitLegacy(e, sec) \/ AdmitOff(e)
  PROVE  Inv'
<1> DEFINE k == SrcKey(e)
<1>1. k \in Keys /\ DstKey(e) \in Keys BY KeyForFacts
<1>2. mode' = mode /\ mode # "summarize" /\ running' = running
  BY DEF AdmitLegacy, AdmitOff
<1>3. UNCHANGED <<tracked, state, evicted, summaries, summarized, episode, waitingSince>>
  BY DEF AdmitLegacy, AdmitOff, table
<1>4. /\ admitted' = Bump(admitted, k)
      /\ \/ verbatim' = Bump(verbatim, k) /\ UNCHANGED <<suppressed, discarded>>
         \/ /\ discarded' = Bump(discarded, k) /\ verbatim' = verbatim
            /\ suppressed' = suppressed + 1
  BY DEF AdmitLegacy, AdmitOff
<1>5. CounterTypes /\ TableTypes /\ OtherTypes
  BY DEF Inv, TypeInv, TypeOK
<1>6. admitted \in [Keys -> Nat] /\ verbatim \in [Keys -> Nat] /\ discarded \in [Keys -> Nat]
  BY <1>5 DEF CounterTypes
<1>7. CounterTypes'
  <2>1. /\ admitted' \in [Keys -> Nat] /\ verbatim' \in [Keys -> Nat]
        /\ discarded' \in [Keys -> Nat]
    BY <1>1, <1>4, <1>6, BumpFacts
  <2>2. suppressed' \in Nat BY <1>4, <1>5 DEF CounterTypes
  <2> QED BY <1>3, <1>5, <2>1, <2>2 DEF CounterTypes
<1>8. TableTypes' BY <1>3, <1>5 DEF TableTypes
<1>9. OtherTypes'
  <2>1. sec \div LegacyDivisor \in Nat BY ThrottleAssumption
  <2>2. legacyBucket' \in Nat \union {-1} /\ legacyTrails' \subseteq Keys
    BY <1>1, <1>5, <2>1 DEF AdmitLegacy, AdmitOff, legacy, OtherTypes
  <2> QED BY <1>5, <2>2 DEF OtherTypes
<1>10. FiniteTable' /\ HeldHasBuffer' /\ WithinBurst'
  BY <1>2, <1>3 DEF Inv, TypeInv, FiniteTable, HeldHasBuffer, WithinBurst
<1>11. Conservation'
  <2>1. \A j \in Keys : admitted[j] = verbatim[j] + summarized[j]
                                      + state[j].heldTotal + discarded[j]
    BY DEF Inv, Conservation
  <2>2. \A j \in Keys : /\ verbatim[j] \in Nat /\ summarized[j] \in Nat
                        /\ state[j].heldTotal \in Nat /\ discarded[j] \in Nat
    BY <1>5 DEF CounterTypes, TableTypes, KeyState
  <2>3. admitted'[k] = admitted[k] + 1 /\ \A j \in Keys \ {k} : admitted'[j] = admitted[j]
    BY <1>1, <1>4, <1>6, BumpFacts
  <2>4. \/ /\ discarded' = discarded /\ verbatim'[k] = verbatim[k] + 1
           /\ \A j \in Keys \ {k} : verbatim'[j] = verbatim[j]
        \/ /\ verbatim' = verbatim /\ discarded'[k] = discarded[k] + 1
           /\ \A j \in Keys \ {k} : discarded'[j] = discarded[j]
    BY <1>1, <1>4, <1>6, BumpFacts
  <2> HIDE DEF k
  <2>5. \A j \in Keys : admitted'[j] = verbatim'[j] + summarized'[j]
                                       + state'[j].heldTotal + discarded'[j]
    <3> SUFFICES ASSUME NEW j \in Keys
                 PROVE admitted'[j] = verbatim'[j] + summarized'[j]
                                      + state'[j].heldTotal + discarded'[j]
      OBVIOUS
    <3>1. CASE j = k
      <4>1. /\ admitted'[j] = admitted[j] + 1 /\ summarized'[j] = summarized[j]
            /\ state'[j].heldTotal = state[j].heldTotal
        BY <1>3, <2>3, <3>1
      <4>2. \/ discarded'[j] = discarded[j] /\ verbatim'[j] = verbatim[j] + 1
            \/ verbatim'[j] = verbatim[j] /\ discarded'[j] = discarded[j] + 1
        BY <2>4, <3>1
      <4> QED BY <2>1, <2>2, <4>1, <4>2
    <3>2. CASE j # k BY <1>3, <2>1, <2>2, <2>3, <2>4, <3>2
    <3> QED BY <3>1, <3>2
  <2>6. mode' # "summarize" /\ running' BY <1>2
  <2> QED BY <2>5, <2>6 DEF Conservation
<1> QED BY <1>7, <1>8, <1>9, <1>10, <1>11 DEF Inv, TypeInv, TypeOK

LEMMA PacketInv ==
  ASSUME Inv, NEW e \in Events, NEW sec \in PacketTimes, Packet(e, sec)
  PROVE  Inv'
<1>1. sec \in Nat BY PacketTimesFacts DEF Inv
<1>2. KeyFor(e) \in Keys BY KeyForFacts
<1>3. CASE AdmitSummarizing(e, sec)
  <2>1. Charged(KeyFor(e)) BY <1>3 DEF Charged, AdmitSummarizing, Packet
  <2> QED BY <1>1, <1>2, <1>3, <2>1, AdmitIdleInv, AdmitBusyInv, AdmitBurstInv,
             AdmitHeldInv, AdmitNewInv DEF AdmitSummarizing
<1>4. CASE AdmitLegacy(e, sec) \/ AdmitOff(e)
  BY <1>1, <1>4, UntabledInv DEF Packet
<1> QED BY <1>3, <1>4 DEF Packet, Admit

(* The two flushes report `due` and forget `idle`, a part of it.           *)
LEMMA FlushInv ==
  ASSUME Inv, NEW due \in SUBSET tracked, NEW idle \in SUBSET due, NEW now \in Nat,
         ReportKeys(due), tracked' = tracked \ idle,
         \A k \in due \ idle : Active(state[k], now),
         state' = [k \in Keys |->
                     IF k \in idle THEN Blank
                     ELSE IF k \in due THEN CloseWindow(Summarized(state[k]), now)
                     ELSE state[k]],
         UNCHANGED <<legacy, mode, clock, fed, evicted, suppressed, admitted,
                     verbatim, discarded, episode, waitingSince>>,
         running' \in BOOLEAN, swept' \in BOOLEAN,
         ~running' => tracked' = {}
  PROVE  Inv'
<1>1. CounterTypes /\ TableTypes /\ OtherTypes BY DEF Inv, TypeInv, TypeOK
<1>2. due \subseteq Keys /\ state \in [Keys -> KeyState] BY <1>1 DEF TableTypes
<1>3. /\ \A k \in idle : state'[k] = Blank
      /\ \A k \in due \ idle : state'[k] = CloseWindow(Summarized(state[k]), now)
      /\ \A k \in Keys \ due : state'[k] = state[k]
  BY <1>2
<1>4. \A k \in due \ idle : /\ state'[k] \in KeyState /\ state'[k].span <= Longest
                            /\ state'[k].held = 0 /\ state'[k].heldTotal = 0
                            /\ state'[k].written = Burst
  BY <1>2, <1>3, ReopenedFacts
<1>5. \A k \in Keys : state'[k] \in KeyState
  BY <1>2, <1>3, <1>4, BlankFacts
<1>6. state' \in [Keys -> KeyState]
  <2>1. state' = [k \in Keys |-> state'[k]] OBVIOUS
  <2> QED BY <1>5, <2>1
<1>7. \A k \in Keys : state'[k].held <= MaxCondensed /\ state'[k].span <= Longest
  BY <1>1, <1>3, <1>4, BlankFacts, LongestFacts DEF TableTypes
<1>8. \A k \in Keys \ tracked' : state'[k] = Blank
  BY <1>1, <1>3 DEF TableTypes
<1>9. TableTypes' BY <1>1, <1>6, <1>7, <1>8 DEF TableTypes
<1>10. /\ summarized' \in [Keys -> Nat] /\ summaries' \in Nat
       /\ \A k \in due : summarized'[k] = summarized[k] + state[k].heldTotal
       /\ \A k \in Keys \ due : summarized'[k] = summarized[k]
  BY <1>2, ReportKeysFacts, ReportedIsTotal DEF Inv
<1>11. CounterTypes' BY <1>1, <1>10 DEF CounterTypes
<1>12. OtherTypes'
  <2>1. mode' \in Modes /\ legacyBucket' \in Nat \union {-1} /\ legacyTrails' \subseteq Keys
    BY <1>1 DEF OtherTypes, legacy
  <2> QED BY <2>1 DEF OtherTypes
<1>13. FiniteTable'
  <2>1. IsFiniteSet(tracked \ idle) BY FS_Subset DEF Inv, TypeInv, FiniteTable
  <2> QED BY <2>1 DEF FiniteTable
<1>14. \A k \in Keys : state'[k].heldTotal > 0 => state'[k].held > 0
  BY <1>3, <1>4, BlankFacts DEF Inv, HeldHasBuffer
<1>15. HeldHasBuffer' BY <1>14 DEF HeldHasBuffer
<1>16. WithinBurst'
  <2> SUFFICES ASSUME NEW k \in tracked'
               PROVE episode[k] <= state'[k].written /\ state'[k].written <= Burst
    BY DEF WithinBurst
  <2>1. k \in tracked /\ k \in Keys /\ k \notin idle BY <1>1 DEF TableTypes
  <2>2. episode[k] <= state[k].written /\ state[k].written <= Burst
    BY <2>1 DEF Inv, WithinBurst
  <2>3. episode[k] \in Nat /\ state[k].written \in Nat
    BY <1>1, <1>2, <2>1 DEF CounterTypes, KeyState
  <2> QED BY <1>3, <1>4, <2>1, <2>2, <2>3, LongestFacts
<1>17. Conservation'
  <2>1. \A k \in Keys : admitted[k] = verbatim[k] + summarized[k]
                                      + state[k].heldTotal + discarded[k]
    BY DEF Inv, Conservation
  <2>2. \A k \in Keys : /\ verbatim[k] \in Nat /\ summarized[k] \in Nat
                        /\ state[k].heldTotal \in Nat /\ discarded[k] \in Nat
    BY <1>1, <1>2 DEF CounterTypes, KeyState
  <2>3. \A k \in due : state'[k].heldTotal = 0 BY <1>3, <1>4, BlankFacts
  <2>4. \A k \in Keys : admitted[k] = verbatim[k] + summarized'[k]
                                      + state'[k].heldTotal + discarded[k]
    <3> SUFFICES ASSUME NEW k \in Keys
                 PROVE admitted[k] = verbatim[k] + summarized'[k]
                                     + state'[k].heldTotal + discarded[k]
      OBVIOUS
    <3>1. CASE k \in due
      <4>1. summarized'[k] = summarized[k] + state[k].heldTotal
            /\ state'[k].heldTotal = 0
        BY <1>10, <2>3, <3>1
      <4> QED BY <2>1, <2>2, <4>1
    <3>2. CASE k \notin due
      <4>1. summarized'[k] = summarized[k] /\ state'[k] = state[k]
        BY <1>3, <1>10, <3>2
      <4> QED BY <2>1, <4>1
    <3> QED BY <3>1, <3>2
  <2>5. ~running' => \A k \in Keys : state'[k].heldTotal = 0
    BY <1>8, BlankFacts
  <2> QED BY <2>4, <2>5 DEF Inv, Conservation
<1> QED BY <1>9, <1>11, <1>12, <1>13, <1>15, <1>16, <1>17 DEF Inv, TypeInv, TypeOK

LEMMA HousekeepingInv ==
  ASSUME Inv, Housekeeping
  PROVE  Inv'
<1> DEFINE due == IF mode = "summarize" THEN DueKeys(clock) ELSE {}
<1> DEFINE idle == {k \in due : ~Active(state[k], clock)}
<1>1. due \in SUBSET tracked BY DEF DueKeys
<1>2. clock \in Nat BY DEF Inv, TypeInv, TypeOK, CounterTypes
<1>3. running /\ running' = running /\ swept' \in BOOLEAN /\ running' \in BOOLEAN
  BY DEF Housekeeping, Inv, TypeInv, TypeOK, OtherTypes
<1>4. /\ ReportKeys(due) /\ tracked' = tracked \ idle
      /\ state' = [k \in Keys |->
                     IF k \in idle THEN Blank
                     ELSE IF k \in due THEN CloseWindow(Summarized(state[k]), clock)
                     ELSE state[k]]
      /\ UNCHANGED <<legacy, mode, clock, fed, evicted, suppressed, admitted,
                     verbatim, discarded, episode, waitingSince>>
  BY DEF Housekeeping, FlushDue
<1>5. idle \in SUBSET due /\ \A k \in due \ idle : Active(state[k], clock)
  OBVIOUS
<1> HIDE DEF due, idle
<1> QED BY <1>1, <1>2, <1>3, <1>4, <1>5, FlushInv

LEMMA ExitInv ==
  ASSUME Inv, Exit
  PROVE  Inv'
<1>1. TableTypes /\ OtherTypes BY DEF Inv, TypeInv, TypeOK
<1>2. /\ ReportKeys(tracked) /\ tracked' = tracked \ tracked /\ tracked' = {}
      /\ UNCHANGED <<legacy, mode, clock, fed, evicted, suppressed, admitted,
                     verbatim, discarded, episode, waitingSince>>
      /\ running' = FALSE /\ swept' = swept
  BY DEF Exit, FlushAll
<1>3. state' = [k \in Keys |->
                  IF k \in tracked THEN Blank
                  ELSE IF k \in tracked THEN CloseWindow(Summarized(state[k]), 0)
                  ELSE state[k]]
  BY <1>1 DEF Exit, FlushAll, TableTypes
<1>4. running' \in BOOLEAN /\ swept' \in BOOLEAN BY <1>1, <1>2 DEF OtherTypes
<1>5. tracked \in SUBSET tracked /\ 0 \in Nat
      /\ \A k \in tracked \ tracked : Active(state[k], 0)
  OBVIOUS
<1> QED BY <1>2, <1>3, <1>4, <1>5, FlushInv

LEMMA StepInv == Inv /\ [Next]_vars => Inv'
<1> SUFFICES ASSUME Inv, [Next]_vars PROVE Inv' OBVIOUS
<1>1. CASE \E e \in Events, sec \in PacketTimes : Packet(e, sec)
  BY <1>1, PacketInv
<1>2. CASE Housekeeping BY <1>2, HousekeepingInv
<1>3. CASE Exit BY <1>3, ExitInv
<1>4. CASE Tick
  <2>1. UNCHANGED <<mode, table, legacy, suppressed, fed, running, history>>
        /\ clock' = clock + 1 /\ swept' = FALSE
    BY <1>4 DEF Tick
  <2>2. TableTypes' /\ FiniteTable' /\ HeldHasBuffer' /\ WithinBurst' /\ Conservation'
    BY <2>1 DEF Inv, TypeInv, TypeOK, TableTypes, FiniteTable, HeldHasBuffer,
                WithinBurst, Conservation, table, history
  <2>3. CounterTypes'
    BY <2>1 DEF Inv, TypeInv, TypeOK, CounterTypes, table, history
  <2>4. OtherTypes' BY <2>1 DEF Inv, TypeInv, TypeOK, OtherTypes, legacy
  <2> QED BY <2>2, <2>3, <2>4 DEF Inv, TypeInv, TypeOK
<1>5. CASE UNCHANGED vars
  <2>1. TypeInv' BY <1>5 DEF Inv, TypeInv, TypeOK, TableTypes, CounterTypes,
              OtherTypes, FiniteTable, vars, table, legacy, history
  <2>2. HeldHasBuffer' /\ WithinBurst' /\ Conservation'
    BY <1>5 DEF Inv, HeldHasBuffer, WithinBurst, Conservation, vars, table, history
  <2> QED BY <2>1, <2>2 DEF Inv
<1> QED BY <1>1, <1>2, <1>3, <1>4, <1>5 DEF Next

-----------------------------------------------------------------------------
(* The inductive invariant holds of every state of the throttle.           *)
THEOREM SpecInv == Spec => []Inv
BY InitInv, StepInv, PTL DEF Spec

(* Type correctness: the buffer of a key never outgrows MAX_CONDENSED_EVENTS*)
(* and a window never outgrows Longest.                                    *)
THEOREM SpecTypeOK == Spec => []TypeOK
<1>1. Inv => TypeOK BY DEF Inv, TypeInv
<1> QED BY <1>1, SpecInv, PTL

(* Nothing is dropped silently: whatever the traffic, the configuration and*)
(* the order of admissions, evictions and flushes, every admitted event was*)
(* written, summarized, is held or (legacy mode) was discarded; after the  *)
(* shutdown flush nothing is held.                                         *)
THEOREM SpecConservation == Spec => []Conservation
<1>1. Inv => Conservation BY DEF Inv
<1> QED BY <1>1, SpecInv, PTL

(* A total is never held without a buffer, so summarize() - which reports  *)
(* nothing for an empty buffer but resets the total - loses nothing.       *)
THEOREM SpecHeldHasBuffer == Spec => []HeldHasBuffer
<1>1. Inv => HeldHasBuffer BY DEF Inv
<1> QED BY <1>1, SpecInv, PTL

(* A key that keeps being seen writes at most EVENT_THROTTLE_BURST lines   *)
(* verbatim, over any number of windows.                                   *)
THEOREM SpecBurstRespected == Spec => []BurstRespected
<1>1. Inv => BurstRespected
  <2> SUFFICES ASSUME Inv, NEW k \in tracked PROVE episode[k] <= Burst
    BY DEF BurstRespected
  <2>1. k \in Keys /\ episode[k] \in Nat /\ state[k].written \in Nat
    BY DEF Inv, TypeInv, TypeOK, TableTypes, CounterTypes, KeyState
  <2>2. episode[k] <= state[k].written /\ state[k].written <= Burst
    BY DEF Inv, WithinBurst
  <2> QED BY <2>1, <2>2, LongestFacts
<1> QED BY <1>1, SpecInv, PTL

-----------------------------------------------------------------------------
(* The bounds: the table never exceeds EVENT_THROTTLE_MAX_KEYS, and no     *)
(* event is held for longer than the longest window.                       *)

(* A non-empty set of numbers has a smallest one.                          *)
LEMMA Smallest ==
  ASSUME NEW T \in SUBSET Nat, T # {}
  PROVE  \E x \in T : \A y \in T : x <= y
<1> DEFINE R == {ss \in Nat \X Nat : ss[1] < ss[2]}
<1>1. IsWellFoundedOn(R, Nat) BY NatLessThanWellFounded, Zenon DEF OpToRel
<1>2. PICK x \in T : \A y \in T : <<y, x>> \notin R BY <1>1, WFMin
<1>3. \A y \in T : x <= y
  <2> SUFFICES ASSUME NEW y \in T, ~(x <= y) PROVE FALSE OBVIOUS
  <2>1. y < x /\ y \in Nat /\ x \in Nat OBVIOUS
  <2>2. <<y, x>> \in R BY <2>1
  <2> QED BY <1>2, <2>2
<1> QED BY <1>3

(* No key was seen, and no window opened, after the clock.                 *)
NotAhead ==
  \A k \in tracked : state[k].lastSeen <= clock /\ state[k].windowStart <= clock

UpTo(c) == {k \in tracked : state[k].lastSeen <= c}

Before(c) == {k \in tracked : state[k].lastSeen < c}

(* evict_batch() on a non-empty table finds a cutoff and drops a key.      *)
LEMMA EvictsSome ==
  ASSUME Inv, NotAhead, tracked # {}
  PROVE  EvictedKeys # {}
<1>1. IsFiniteSet(tracked) /\ tracked \subseteq Keys BY DEF Inv, TypeInv, FiniteTable, TypeOK, TableTypes
<1>2. Cardinality(tracked) \in Nat /\ Cardinality(tracked) >= 1
  BY <1>1, FS_CardinalityType, FS_EmptySet
<1>3. /\ EvictTarget \in Nat /\ EvictTarget >= 1
      /\ EvictTarget <= Cardinality(tracked)
  <2>1. MaxKeys \div EvictShare \in Int BY ThrottleAssumption
  <2> QED BY <1>2, <2>1 DEF EvictTarget, Minimum, Maximum
<1>4. \A k \in tracked : state[k].lastSeen \in Nat
  BY <1>1 DEF Inv, TypeInv, TypeOK, TableTypes, KeyState
<1>5. \A c \in Nat : /\ IsFiniteSet(UpTo(c)) /\ IsFiniteSet(Before(c))
                     /\ Cardinality(UpTo(c)) \in Nat /\ Cardinality(Before(c)) \in Nat
  BY <1>1, FS_Subset, FS_CardinalityType DEF UpTo, Before
<1> DEFINE Enough == {c \in Nat : Cardinality(UpTo(c)) >= EvictTarget}
<1>6. Enough # {}
  <2>1. clock \in Nat BY DEF Inv, TypeInv, TypeOK, CounterTypes
  <2>2. UpTo(clock) = tracked BY DEF UpTo, NotAhead
  <2>3. clock \in Enough BY <1>3, <2>1, <2>2
  <2> QED BY <2>3
<1>7. PICK c \in Enough : \A d \in Enough : c <= d
  BY <1>6, Smallest
<1> HIDE DEF Enough
<1>8. c \in Nat /\ Cardinality(UpTo(c)) >= EvictTarget BY DEF Enough
<1>9. Cardinality(Before(c)) < EvictTarget
  <2>1. CASE c = 0
    <3>1. Before(c) = {} BY <1>4, <2>1 DEF Before
    <3> QED BY <1>3, <3>1, FS_EmptySet
  <2>2. CASE c # 0
    <3>1. c - 1 \in Nat /\ ~(c <= c - 1) BY <1>8, <2>2
    <3>2. Before(c) = UpTo(c - 1) BY <1>4, <1>8, <3>1 DEF Before, UpTo
    <3>3. c - 1 \notin Enough BY <1>7, <3>1
    <3>4. ~(Cardinality(UpTo(c - 1)) >= EvictTarget) BY <3>1, <3>3 DEF Enough
    <3>5. Cardinality(UpTo(c - 1)) \in Nat BY <1>5, <3>1
    <3> QED BY <1>3, <3>2, <3>4, <3>5
  <2> QED BY <2>1, <2>2
<1>10. PICK k \in tracked : state[k].lastSeen = c
  <2>1. UpTo(c) # Before(c) BY <1>3, <1>5, <1>8, <1>9
  <2>2. Before(c) \subseteq UpTo(c) BY <1>4, <1>8 DEF UpTo, Before
  <2>3. PICK k \in UpTo(c) : k \notin Before(c) BY <2>1, <2>2
  <2> QED BY <1>4, <1>8, <2>3 DEF UpTo, Before
<1>11. IsCutoff(c) BY <1>8, <1>9 DEF IsCutoff, UpTo, Before
<1>12. k \in EvictedKeys BY <1>8, <1>10, <1>11 DEF EvictedKeys
<1> QED BY <1>12

(* Room for one more key, whichever and however many go.                   *)
LEMMA RoomForOne ==
  ASSUME Inv, NotAhead, TableBounded, NEW k
  PROVE  Cardinality((tracked \ MakeRoom) \union {k}) <= MaxKeys
<1>1. IsFiniteSet(tracked) BY DEF Inv, TypeInv, FiniteTable
<1>2. MaxKeys \in Nat /\ MaxKeys >= 1 BY ThrottleAssumption
<1>3. Cardinality(tracked) \in Nat /\ Cardinality(tracked) <= MaxKeys
  BY <1>1, FS_CardinalityType DEF TableBounded
<1> DEFINE rest == tracked \ MakeRoom
<1>4. IsFiniteSet(rest) /\ Cardinality(rest) \in Nat
  BY <1>1, FS_Subset, FS_CardinalityType
<1>5. Cardinality(rest) < MaxKeys
  <2>1. CASE Cardinality(tracked) >= MaxKeys
    <3>1. tracked # {} BY <1>2, <1>3, <2>1, FS_EmptySet
    <3>2. EvictedKeys # {} BY <3>1, EvictsSome
    <3>3. MakeRoom = EvictedKeys /\ EvictedKeys \subseteq tracked
      BY <2>1 DEF MakeRoom, EvictedKeys
    <3>4. rest \subseteq tracked /\ rest # tracked BY <3>2, <3>3
    <3>5. Cardinality(rest) <= Cardinality(tracked) /\ Cardinality(rest) # Cardinality(tracked)
      BY <1>1, <3>4, FS_Subset
    <3> QED BY <1>2, <1>3, <1>4, <3>5
  <2>2. CASE ~(Cardinality(tracked) >= MaxKeys)
    <3>1. Cardinality(rest) <= Cardinality(tracked) BY <1>1, FS_Subset
    <3> QED BY <1>2, <1>3, <1>4, <2>2, <3>1
  <2> QED BY <2>1, <2>2
<1>6. Cardinality(rest \union {k}) <= Cardinality(rest) + 1
  BY <1>4, FS_AddElement
<1>7. IsFiniteSet(rest \union {k}) /\ Cardinality(rest \union {k}) \in Nat
  BY <1>4, FS_AddElement, FS_CardinalityType
<1> QED BY <1>2, <1>4, <1>5, <1>6, <1>7
-----------------------------------------------------------------------------
(* The inductive invariant.  A key is timely if nothing it holds waits     *)
(* since before its window opened, and less than Longest once housekeeping *)
(* has run in this second: the clock may then move on.                     *)

Timely(k) ==
  /\ state[k].lastSeen <= clock /\ state[k].windowStart <= clock
  /\ state[k].held > 0 =>
       /\ state[k].windowStart <= waitingSince[k] /\ waitingSince[k] <= clock
       /\ clock - waitingSince[k] <= Longest
       /\ swept => clock - waitingSince[k] < Longest

OnlySummarizing == mode # "summarize" => tracked = {}

BoundInv == TableBounded /\ (\A k \in tracked : Timely(k)) /\ OnlySummarizing

LEMMA BoundNotAhead == BoundInv => NotAhead
BY DEF BoundInv, Timely, NotAhead

(* The numbers behind a key.                                               *)
LEMMA Numbers ==
  ASSUME Inv, NEW k \in Keys
  PROVE  /\ clock \in Nat /\ waitingSince[k] \in Nat
         /\ state[k] \in KeyState
         /\ state[k].lastSeen \in Nat /\ state[k].windowStart \in Nat
         /\ state[k].held \in Nat /\ state[k].span \in Nat /\ state[k].span <= Longest
         /\ Longest \in Nat /\ Longest >= 1
BY LongestFacts, ThrottleAssumption
   DEF Inv, TypeInv, TypeOK, TableTypes, CounterTypes, KeyState

(* A reopened window starts now and holds nothing.                         *)
LEMMA ReopenedAt ==
  ASSUME Inv, NEW k \in Keys, NEW now \in Nat
  PROVE  LET st == CloseWindow(Summarized(state[k]), now)
         IN  st.windowStart = now /\ st.lastSeen = state[k].lastSeen /\ st.held = 0
<1>1. state[k] \in KeyState /\ Summarized(state[k]) \in KeyState
  BY Numbers, SummarizedFacts
<1>2. Summarized(state[k]).held = 0 /\ Summarized(state[k]).lastSeen = state[k].lastSeen
  BY <1>1, SummarizedFacts
<1> DEFINE s == Summarized(state[k])
<1> HIDE DEF s
<1>3. s \in KeyState /\ s.held = 0 /\ s.lastSeen = state[k].lastSeen BY <1>1, <1>2 DEF s
<1>4. /\ CloseWindow(s, now).windowStart = now
      /\ CloseWindow(s, now).lastSeen = s.lastSeen /\ CloseWindow(s, now).held = s.held
  BY <1>3 DEF CloseWindow, KeyState
<1> QED BY <1>3, <1>4 DEF s

(* An admission that leaves the other keys alone has to look after its own. *)
LEMMA OneKeyStep ==
  ASSUME BoundInv, NEW k \in Keys, Charged(k), Cardinality(tracked') <= MaxKeys,
         \A j \in tracked' \ {k} : /\ j \in tracked /\ state'[j] = state[j]
                                   /\ waitingSince'[j] = waitingSince[j],
         Timely(k)'
  PROVE  BoundInv'
<1>1. clock' = clock /\ swept' = swept /\ mode' = "summarize" BY DEF Charged
<1>2. \A j \in tracked' \ {k} : Timely(j)' BY <1>1 DEF BoundInv, Timely
<1>3. \A j \in tracked' : Timely(j)' BY <1>2
<1> QED BY <1>1, <1>3 DEF BoundInv, TableBounded, OnlySummarizing

LEMMA AdmitBound ==
  ASSUME Inv, BoundInv, NEW k \in Keys, NEW sec \in Nat, sec <= clock, Charged(k),
         \/ AdmitIdle(k, sec) \/ AdmitBusy(k, sec) \/ AdmitBurst(k, sec)
         \/ AdmitHeld(k, sec) \/ AdmitNew(k, sec)
  PROVE  BoundInv'
<1>1. clock' = clock /\ swept' = swept BY DEF Charged
<1>2. state \in [Keys -> KeyState] /\ waitingSince \in [Keys -> Nat] /\ tracked \subseteq Keys
  BY DEF Inv, TypeInv, TypeOK, TableTypes, CounterTypes
<1>3. Cardinality(tracked) <= MaxKeys BY DEF BoundInv, TableBounded
<1> DEFINE st == CloseWindow(Summarized(state[k]), sec)
<1>4. st \in KeyState /\ st.windowStart = sec /\ st.held = 0 BY ReopenedFacts, ReopenedAt
<1>5. CASE AdmitIdle(k, sec)
  <2>1. /\ state' = [state EXCEPT ![k] = [st EXCEPT !.lastSeen = sec, !.seen = 1, !.written = 1]]
        /\ tracked' = tracked /\ waitingSince' = waitingSince
    BY <1>5 DEF AdmitIdle
  <2> HIDE DEF st
  <2>2. /\ state'[k].lastSeen = sec /\ state'[k].windowStart = sec /\ state'[k].held = 0
        /\ \A j \in Keys \ {k} : state'[j] = state[j]
    BY <1>2, <1>4, <2>1 DEF KeyState
  <2>3. Timely(k)' BY <1>1, <2>2 DEF Timely
  <2> QED BY <1>2, <1>3, <2>1, <2>2, <2>3, OneKeyStep
<1>6. CASE AdmitBusy(k, sec)
  <2>1. /\ state' = [state EXCEPT ![k] = [st EXCEPT !.lastSeen = sec, !.seen = 1,
                                                    !.heldTotal = 1, !.held = 1]]
        /\ tracked' = tracked /\ waitingSince' = [waitingSince EXCEPT ![k] = clock]
    BY <1>6 DEF AdmitBusy
  <2> HIDE DEF st
  <2>2. /\ state'[k].lastSeen = sec /\ state'[k].windowStart = sec /\ waitingSince'[k] = clock
        /\ \A j \in Keys \ {k} : state'[j] = state[j] /\ waitingSince'[j] = waitingSince[j]
    BY <1>2, <1>4, <2>1 DEF KeyState
  <2>3. Timely(k)' BY <1>1, <2>2, Numbers DEF Timely
  <2> QED BY <1>2, <1>3, <2>1, <2>2, <2>3, OneKeyStep
<1>7. CASE AdmitBurst(k, sec)
  <2>1. /\ k \in tracked /\ tracked' = tracked /\ waitingSince' = waitingSince
        /\ state'[k].lastSeen = sec /\ state'[k].windowStart = state[k].windowStart
        /\ state'[k].held = state[k].held
        /\ \A j \in Keys \ {k} : state'[j] = state[j]
    BY <1>2, <1>7 DEF AdmitBurst, KeyState
  <2>2. Timely(k)' BY <1>1, <2>1 DEF Timely, BoundInv
  <2> QED BY <1>2, <1>3, <2>1, <2>2, OneKeyStep
<1>8. CASE AdmitHeld(k, sec)
  <2>1. /\ k \in tracked /\ tracked' = tracked
        /\ waitingSince'[k] = IF state[k].held = 0 THEN clock ELSE waitingSince[k]
        /\ state'[k].lastSeen = sec /\ state'[k].windowStart = state[k].windowStart
        /\ \A j \in Keys \ {k} : state'[j] = state[j] /\ waitingSince'[j] = waitingSince[j]
    BY <1>2, <1>8 DEF AdmitHeld, KeyState
  <2>2. Timely(k)' BY <1>1, <2>1, Numbers DEF Timely, BoundInv
  <2> QED BY <1>2, <1>3, <2>1, <2>2, OneKeyStep
<1>9. CASE AdmitNew(k, sec)
  <2>1. /\ tracked' = (tracked \ MakeRoom) \union {k} /\ waitingSince' = waitingSince
        /\ state'[k].lastSeen = sec /\ state'[k].windowStart = sec /\ state'[k].held = 0
        /\ \A j \in tracked' \ {k} : state'[j] = state[j]
    BY <1>2, <1>9 DEF AdmitNew
  <2>2. Timely(k)' BY <1>1, <2>1 DEF Timely
  <2>3. Cardinality(tracked') <= MaxKeys
    BY <2>1, BoundNotAhead, RoomForOne DEF BoundInv
  <2> QED BY <2>1, <2>2, <2>3, OneKeyStep
<1> QED BY <1>5, <1>6, <1>7, <1>8, <1>9

(* After a housekeeping pass whatever is still held has a window that is   *)
(* not over.                                                               *)
LEMMA HousekeepingBound ==
  ASSUME Inv, BoundInv, Housekeeping
  PROVE  BoundInv'
<1> DEFINE due == IF mode = "summarize" THEN DueKeys(clock) ELSE {}
<1> DEFINE idle == {k \in due : ~Active(state[k], clock)}
<1>1. /\ tracked' = tracked \ idle /\ clock' = clock /\ mode' = mode
      /\ waitingSince' = waitingSince
      /\ state' = [k \in Keys |->
                     IF k \in idle THEN Blank
                     ELSE IF k \in due THEN CloseWindow(Summarized(state[k]), clock)
                     ELSE state[k]]
  BY DEF Housekeeping, FlushDue
<1>2. tracked \subseteq Keys /\ IsFiniteSet(tracked)
  BY DEF Inv, TypeInv, FiniteTable, TypeOK, TableTypes
<1>3. ASSUME NEW k \in tracked' PROVE Timely(k)'
  <2>1. k \in tracked /\ k \in Keys /\ k \notin idle /\ Timely(k)
    BY <1>1, <1>2 DEF BoundInv
  <2>2. CASE k \in due
    <3>1. state'[k] = CloseWindow(Summarized(state[k]), clock)
      BY <1>1, <2>1, <2>2
    <3>2. /\ state'[k].windowStart = clock /\ state'[k].lastSeen = state[k].lastSeen
          /\ state'[k].held = 0
      BY <2>1, <3>1, Numbers, ReopenedAt
    <3> QED BY <1>1, <2>1, <3>2, Numbers DEF Timely
  <2>3. CASE k \notin due
    <3>1. state'[k] = state[k] BY <1>1, <2>1, <2>3
    <3>2. mode = "summarize" BY <2>1 DEF BoundInv, OnlySummarizing
    <3>3. ~Expired(state[k], clock) BY <2>1, <2>3, <3>2 DEF DueKeys
    <3>4. clock - state[k].windowStart < Longest
      BY <2>1, <3>3, Numbers DEF Expired, SaturatingSub
    <3> QED BY <1>1, <2>1, <3>1, <3>4, Numbers DEF Timely
  <2> QED BY <2>2, <2>3
<1>4. Cardinality(tracked') <= MaxKeys
  <2>1. Cardinality(tracked \ idle) <= Cardinality(tracked) BY <1>2, FS_Subset
  <2>2. Cardinality(tracked \ idle) \in Nat /\ Cardinality(tracked) \in Nat
    BY <1>2, FS_Subset, FS_CardinalityType
  <2>3. Cardinality(tracked) <= MaxKeys BY DEF BoundInv, TableBounded
  <2> QED BY <1>1, <2>1, <2>2, <2>3, ThrottleAssumption
<1>5. OnlySummarizing' BY <1>1 DEF BoundInv, OnlySummarizing
<1> QED BY <1>3, <1>4, <1>5 DEF BoundInv, TableBounded

LEMMA StepBound == Inv /\ BoundInv /\ [Next]_vars => BoundInv'
<1> SUFFICES ASSUME Inv, BoundInv, [Next]_vars PROVE BoundInv' OBVIOUS
<1>1. ASSUME NEW e \in Events, NEW sec \in PacketTimes, Packet(e, sec) PROVE BoundInv'
  <2>1. sec \in Nat /\ sec <= clock BY PacketTimesFacts DEF Inv
  <2>2. KeyFor(e) \in Keys BY KeyForFacts
  <2>3. CASE AdmitSummarizing(e, sec)
    <3>1. Charged(KeyFor(e)) BY <1>1, <2>3 DEF Charged, AdmitSummarizing, Packet
    <3> QED BY <2>1, <2>2, <2>3, <3>1, AdmitBound DEF AdmitSummarizing
  <2>4. CASE AdmitLegacy(e, sec) \/ AdmitOff(e)
    <3>1. UNCHANGED <<mode, clock, swept, tracked, state, waitingSince>>
      BY <1>1, <2>4 DEF Packet, AdmitLegacy, AdmitOff, table
    <3> QED BY <3>1 DEF BoundInv, TableBounded, Timely, OnlySummarizing
  <2> QED BY <1>1, <2>3, <2>4 DEF Packet, Admit
<1>2. CASE Housekeeping BY <1>2, HousekeepingBound
<1>3. CASE Tick
  <2>1. /\ UNCHANGED <<mode, tracked, state, waitingSince>>
        /\ clock' = clock + 1 /\ swept /\ swept' = FALSE
    BY <1>3 DEF Tick, table, history
  <2>2. ASSUME NEW k \in tracked PROVE Timely(k)'
    <3>1. k \in Keys /\ Timely(k) BY DEF BoundInv, Inv, TypeInv, TypeOK, TableTypes
    <3> QED BY <2>1, <3>1, Numbers DEF Timely
  <2> QED BY <2>1, <2>2 DEF BoundInv, TableBounded, OnlySummarizing
<1>4. CASE Exit
  <2>1. tracked' = {} BY <1>4 DEF Exit, FlushAll
  <2> QED BY <2>1, FS_EmptySet, ThrottleAssumption DEF BoundInv, TableBounded, OnlySummarizing
<1>5. CASE UNCHANGED vars
  BY <1>5 DEF BoundInv, TableBounded, Timely, OnlySummarizing, vars, table, history
<1> QED BY <1>1, <1>2, <1>3, <1>4, <1>5 DEF Next

LEMMA InitBound == Init => BoundInv
BY FS_EmptySet, ThrottleAssumption DEF Init, BoundInv, TableBounded, OnlySummarizing

LEMMA SpecBound == Spec => []BoundInv
BY InitBound, StepBound, SpecInv, PTL DEF Spec

-----------------------------------------------------------------------------
(* EVENT_THROTTLE_MAX_KEYS bounds the table for every traffic: the batch   *)
(* evict_batch() drops is never empty, whatever the ties among last_seen.  *)
THEOREM SpecTableBounded == Spec => []TableBounded
<1>1. BoundInv => TableBounded BY DEF BoundInv
<1> QED BY <1>1, SpecBound, PTL

(* A burst that stops is reported: no event is held for longer than the    *)
(* longest window, whatever the lag of the packets' timestamps.            *)
THEOREM SpecHeldWaitBounded == Spec => []HeldWaitBounded
<1>1. BoundInv => HeldWaitBounded BY DEF BoundInv, Timely, HeldWaitBounded
<1> QED BY <1>1, SpecBound, PTL

-----------------------------------------------------------------------------
(* The sink.                                                               *)

(* The buffer and the drained groups: a bucket with an event has a         *)
(* destination, and only finitely many events are kept.                    *)
BufferTypes ==
  /\ condensed \in [Groups -> Bucket] /\ snapshot \in [Groups -> Bucket]
  /\ lastFlush \in Nat /\ since \in [Groups -> Nat]
  /\ phase \in {"packets", "housekeeping", "exit"}
  /\ accepted \in Nat /\ carried \in Nat /\ overflowed \in Nat
  /\ IsFiniteSet(Slots(condensed)) /\ IsFiniteSet(Slots(snapshot))
  /\ \A g \in Occupied(condensed) : condensed[g].dsts # {}
  /\ \A g \in Occupied(snapshot) : snapshot[g].dsts # {}

(* The limits of the condense buffer.                                      *)
BufferBounded ==
  /\ \A g \in Groups : condensed[g].n <= MaxCondensed
  /\ IsFiniteSet(Occupied(condensed))
  /\ Cardinality(Occupied(condensed)) <= MaxCondensedKeys

(* Outside a flush nothing is drained, during one the buffer is empty, and *)
(* after the exit both are.                                                *)
FlushPhases ==
  /\ phase = "packets" => Occupied(snapshot) = {}
  /\ phase # "packets" => Occupied(condensed) = {}
  /\ ~running => phase = "exit" /\ Occupied(snapshot) = {}

(* Every detection is accounted for, and each event the throttle was fed   *)
(* carried at least one.                                                   *)
Accounts ==
  /\ accepted = carried + Weight(condensed) + Weight(snapshot) + overflowed
  /\ accepted <= MaxEvents
  /\ fed <= carried

(* A group's first event came after the last flush and carries a packet's  *)
(* timestamp; a group that has waited the period is flushed before the     *)
(* next second, and its merged event is no older than Lag allows.          *)
Ages ==
  /\ lastFlush <= clock
  /\ \A g \in Occupied(condensed) :
       /\ lastFlush <= since[g] /\ since[g] <= clock
       /\ clock - since[g] <= FlushPeriod
       /\ swept => clock - since[g] < FlushPeriod
       /\ condensed[g].sec <= clock /\ since[g] <= condensed[g].sec + PacketLag
  /\ \A g \in Occupied(snapshot) :
       snapshot[g].sec <= clock /\ clock <= snapshot[g].sec + Lag

SinkInv == Inv /\ BufferTypes /\ BufferBounded /\ FlushPhases /\ Accounts /\ Ages

-------------------------------------------------------------------------------
(* Buffers.                                                                *)

(* What the assumptions say of the numbers.                                *)
LEMMA SinkNumbers ==
  /\ MaxCondensedKeys \in Nat /\ MaxCondensedKeys >= 1
  /\ FlushPeriod \in Nat /\ FlushPeriod >= 1
  /\ PacketLag \in Nat /\ Lag \in Nat /\ PacketLag + FlushPeriod <= Lag
  /\ MaxCondensed \in Nat /\ MaxCondensed >= 1 /\ MaxEvents \in Nat
BY SinkAssumption, ThrottleAssumption

(* Membership in the set of events kept.                                   *)
LEMMA SlotOf ==
  ASSUME NEW b, NEW p
  PROVE  p \in Slots(b) <=> \E g \in Groups : p \in {g} \X (1..b[g].n)
BY DEF Slots

(* An empty buffer keeps no event.                                         *)
LEMMA EmptySlots ==
  ASSUME NEW b \in [Groups -> Bucket], Occupied(b) = {}
  PROVE  IsFiniteSet(Slots(b)) /\ Weight(b) = 0
<1>1. ASSUME NEW g \in Groups PROVE 1..b[g].n = {}
  BY DEF Occupied, Bucket
<1>2. Slots(b) = {} BY <1>1, SlotOf
<1> QED BY <1>2, FS_EmptySet DEF Weight

(* The drained buffer.                                                     *)
LEMMA DrainedFacts ==
  /\ NoBucket \in Bucket /\ NoBucket.n = 0
  /\ Drained \in [Groups -> Bucket]
  /\ Occupied(Drained) = {}
  /\ \A g \in Groups : Drained[g].n = 0
BY DEF NoBucket, Drained, Bucket, Occupied

(* One more event in a bucket is one more event kept.                      *)
LEMMA PushedSlots ==
  ASSUME NEW b \in [Groups -> Bucket], IsFiniteSet(Slots(b)),
         NEW g \in Groups, NEW x \in Bucket, x.n = b[g].n + 1
  PROVE  /\ IsFiniteSet(Slots([b EXCEPT ![g] = x]))
         /\ Weight([b EXCEPT ![g] = x]) = Weight(b) + 1
<1> DEFINE c == [b EXCEPT ![g] = x]
           p == <<g, b[g].n + 1>>
<1>1. b[g].n \in Nat BY DEF Bucket
<1>2. 1..(b[g].n + 1) = 1..b[g].n \union {b[g].n + 1} BY <1>1
<1>3. \A h \in Groups : c[h].n = IF h = g THEN b[g].n + 1 ELSE b[h].n OBVIOUS
<1> HIDE DEF c
<1>4. Slots(c) \subseteq Slots(b) \union {p} BY <1>2, <1>3, SlotOf
<1>5. Slots(b) \subseteq Slots(c) BY <1>2, <1>3, SlotOf
<1>6. p \in Slots(c)
  <2>1. p \in {g} \X (1..c[g].n) BY <1>1, <1>3
  <2> QED BY <2>1, SlotOf
<1>7. p \notin Slots(b)
  <2> SUFFICES ASSUME NEW h \in Groups, p \in {h} \X (1..b[h].n) PROVE FALSE BY SlotOf
  <2>1. h = g /\ b[g].n + 1 \in 1..b[g].n OBVIOUS
  <2> QED BY <1>1, <2>1
<1>8. Slots(c) = Slots(b) \union {p} BY <1>4, <1>5, <1>6
<1> HIDE DEF p
<1>9. IsFiniteSet(Slots(c)) /\ Cardinality(Slots(c)) = Cardinality(Slots(b)) + 1
  BY <1>7, <1>8, FS_AddElement
<1> QED BY <1>9 DEF Weight, c

(* A bucket taken out of a buffer takes its events along.                  *)
LEMMA TakenSlots ==
  ASSUME NEW b \in [Groups -> Bucket], IsFiniteSet(Slots(b)), NEW g \in Groups
  PROVE  /\ IsFiniteSet(Slots([b EXCEPT ![g] = NoBucket]))
         /\ Weight(b) = Weight([b EXCEPT ![g] = NoBucket]) + b[g].n
         /\ Weight([b EXCEPT ![g] = NoBucket]) \in Nat
<1> DEFINE c == [b EXCEPT ![g] = NoBucket]
           t == {g} \X (1..b[g].n)
<1>1. b[g].n \in Nat BY DEF Bucket
<1>2. \A h \in Groups : c[h].n = IF h = g THEN 0 ELSE b[h].n BY DrainedFacts
<1> HIDE DEF c
<1>3. t \subseteq Slots(b) BY SlotOf
<1>4. Slots(c) = Slots(b) \ t
  <2>1. ASSUME NEW p \in Slots(c) PROVE p \in Slots(b) \ t
    <3>1. PICK h \in Groups : p \in {h} \X (1..c[h].n) BY SlotOf
    <3>2. h # g BY <1>2, <3>1
    <3>3. p[1] = h BY <3>1
    <3> QED BY <1>2, <3>1, <3>2, <3>3, SlotOf
  <2>2. ASSUME NEW p \in Slots(b) \ t PROVE p \in Slots(c)
    <3>1. PICK h \in Groups : p \in {h} \X (1..b[h].n) BY SlotOf
    <3>2. h # g BY <2>2, <3>1
    <3> QED BY <1>2, <3>1, <3>2, SlotOf
  <2> QED BY <2>1, <2>2
<1>5. IsFiniteSet(t) /\ Cardinality(t) = b[g].n
  <2>1. IsFiniteSet({g}) /\ Cardinality({g}) = 1 BY FS_Singleton
  <2>2. IsFiniteSet(1..b[g].n) /\ Cardinality(1..b[g].n) = b[g].n
    <3>1. \A m \in Nat : IsFiniteSet(1..m) /\ Cardinality(1..m) = m BY FS_Interval
    <3> QED BY <1>1, <3>1
  <2>3. Cardinality(t) = Cardinality({g}) * Cardinality(1..b[g].n) /\ IsFiniteSet(t)
    BY <2>1, <2>2, FS_Product
  <2> HIDE DEF t
  <2> QED BY <1>1, <2>1, <2>2, <2>3
<1>6. Slots(b) \intersect t = t BY <1>3
<1> HIDE DEF t
<1>7. IsFiniteSet(Slots(c)) /\ Cardinality(Slots(c)) = Cardinality(Slots(b)) - Cardinality(t)
  BY <1>4, <1>6, FS_Difference
<1>8. Cardinality(Slots(b)) \in Nat /\ Cardinality(Slots(c)) \in Nat
  BY <1>7, FS_CardinalityType
<1> QED BY <1>1, <1>5, <1>7, <1>8 DEF Weight, c

-------------------------------------------------------------------------------
(* The sink drives the throttle.                                           *)

(* What a merged event is, and when: an event of the throttle's, no older  *)
(* than its packets may be.                                                *)
LEMMA MergedFacts ==
  ASSUME SinkInv, NEW g \in Occupied(snapshot)
  PROVE  Merged(g) \in Events /\ snapshot[g].sec \in PacketTimes
<1>1. /\ snapshot[g] \in Bucket /\ snapshot[g].dsts # {}
      /\ snapshot[g].sec <= clock /\ clock <= snapshot[g].sec + Lag
  BY DEF SinkInv, BufferTypes, Ages, Occupied
<1>2. snapshot[g].dsts \subseteq Addrs /\ snapshot[g].sec \in Nat BY <1>1 DEF Bucket
<1>3. (CHOOSE a \in snapshot[g].dsts : TRUE) \in Addrs BY <1>1, <1>2
<1>4. g[1] \in Addrs /\ g[2] \in Subjects /\ Joined \in Addrs
  BY SinkAssumption DEF Occupied, Groups
<1>5. Merged(g) \in Events BY <1>3, <1>4 DEF Merged, Events
<1>6. clock \in Nat BY DEF SinkInv, Inv, TypeInv, TypeOK, CounterTypes
<1>7. snapshot[g].sec \in PacketTimes
  BY <1>1, <1>2, <1>6, SinkNumbers DEF PacketTimes, SaturatingSub
<1> QED BY <1>5, <1>7

(* What a packet gives is an event of the throttle's, at a time of a packet's. *)
LEMMA DetectionFacts ==
  ASSUME SinkInv, NEW e \in Detections, NEW sec \in SaturatingSub(clock, PacketLag) .. clock
  PROVE  /\ e \in Events /\ sec \in PacketTimes /\ sec \in Nat
         /\ sec <= clock /\ clock <= sec + PacketLag
         /\ e.dst \in Addrs
<1>1. e \in Events /\ e.dst \in Addrs BY DEF Detections, Events
<1>2. clock \in Nat BY DEF SinkInv, Inv, TypeInv, TypeOK, CounterTypes
<1> QED BY <1>1, <1>2, SinkNumbers DEF PacketTimes, SaturatingSub

(* Weights are numbers, and a bucket is part of its buffer's.              *)
LEMMA WeightTypes ==
  ASSUME SinkInv
  PROVE  /\ Weight(condensed) \in Nat /\ Weight(snapshot) \in Nat
         /\ \A g \in Groups : snapshot[g].n \in Nat /\ snapshot[g].n <= Weight(snapshot)
<1>1. Weight(condensed) \in Nat /\ Weight(snapshot) \in Nat
  BY FS_CardinalityType DEF SinkInv, BufferTypes, Weight
<1>2. ASSUME NEW g \in Groups PROVE snapshot[g].n \in Nat /\ snapshot[g].n <= Weight(snapshot)
  <2>1. snapshot \in [Groups -> Bucket] /\ IsFiniteSet(Slots(snapshot))
    BY DEF SinkInv, BufferTypes
  <2>2. snapshot[g].n \in Nat BY <2>1 DEF Bucket
  <2>3. /\ Weight(snapshot) = Weight([snapshot EXCEPT ![g] = NoBucket]) + snapshot[g].n
        /\ Weight([snapshot EXCEPT ![g] = NoBucket]) \in Nat
    BY <2>1, TakenSlots
  <2> QED BY <2>2, <2>3
<1> QED BY <1>1, <1>2

(* Every step of the sink is one of the throttle's, or leaves it alone.    *)
LEMMA SinkStepsThrottle == SinkInv /\ [SinkNext]_sinkVars => [Next]_vars
<1> SUFFICES ASSUME SinkInv, [SinkNext]_sinkVars PROVE [Next]_vars OBVIOUS
<1>0. /\ fed \in Nat /\ carried \in Nat /\ accepted \in Nat /\ overflowed \in Nat
      /\ fed <= carried /\ accepted <= MaxEvents /\ MaxEvents \in Nat
      /\ accepted = carried + Weight(condensed) + Weight(snapshot) + overflowed
  BY SinkNumbers
     DEF SinkInv, BufferTypes, Accounts, Inv, TypeInv, TypeOK, CounterTypes
<1>1. ASSUME NEW e \in Detections, NEW sec \in SaturatingSub(clock, PacketLag) .. clock,
             Condense(e, sec)
      PROVE  [Next]_vars
  BY <1>1 DEF Condense
<1>2. ASSUME NEW e \in Detections, NEW sec \in SaturatingSub(clock, PacketLag) .. clock,
             Direct(e, sec)
      PROVE  [Next]_vars
  <2>1. fed < MaxEvents BY <1>0, <1>2, WeightTypes DEF Direct, Receiving
  <2>2. Packet(e, sec) BY <1>2, <2>1 DEF Direct, Receiving, Packet
  <2> QED BY <2>2, DetectionFacts DEF Next
<1>3. ASSUME NEW g \in Groups, FlushGroup(g) PROVE [Next]_vars
  <2>1. g \in Occupied(snapshot) /\ snapshot[g].n > 0 BY <1>3 DEF FlushGroup, Occupied
  <2>2. running BY <2>1 DEF SinkInv, FlushPhases
  <2>3. fed < MaxEvents BY <1>0, <2>1, WeightTypes
  <2>4. Packet(Merged(g), snapshot[g].sec) BY <1>3, <2>2, <2>3 DEF FlushGroup, Packet
  <2> QED BY <2>1, <2>4, MergedFacts DEF Next
<1>4. CASE SinkHousekeeping BY <1>4 DEF SinkHousekeeping, Next
<1>5. CASE FinishHousekeeping BY <1>5 DEF FinishHousekeeping, Next
<1>6. CASE SinkTick BY <1>6 DEF SinkTick, Next
<1>7. CASE StartExit BY <1>7 DEF StartExit
<1>8. CASE FinishExit BY <1>8 DEF FinishExit, Next
<1>9. CASE UNCHANGED sinkVars BY <1>9 DEF sinkVars
<1> QED BY <1>1, <1>2, <1>3, <1>4, <1>5, <1>6, <1>7, <1>8, <1>9 DEF SinkNext

-------------------------------------------------------------------------------
(* Steps of the sink.                                                      *)

(* The throttle's types, as far as the sink's steps need them.             *)
LEMMA ThrottleNumbers ==
  ASSUME SinkInv
  PROVE  clock \in Nat /\ fed \in Nat /\ swept \in BOOLEAN /\ running \in BOOLEAN
BY DEF SinkInv, Inv, TypeInv, TypeOK, CounterTypes, OtherTypes

(* What holds of the buffers alone is kept by a step that leaves them alone. *)
LEMMA BuffersKept ==
  ASSUME SinkInv, UNCHANGED <<condensed, snapshot, lastFlush, overflowed, since>>,
         phase' \in {"packets", "housekeeping", "exit"}, accepted' \in Nat, carried' \in Nat
  PROVE  /\ BufferTypes' /\ BufferBounded'
         /\ Occupied(condensed)' = Occupied(condensed)
         /\ Occupied(snapshot)' = Occupied(snapshot)
         /\ Weight(condensed)' = Weight(condensed) /\ Weight(snapshot)' = Weight(snapshot)
<1>1. /\ Occupied(condensed)' = Occupied(condensed)
      /\ Occupied(snapshot)' = Occupied(snapshot)
      /\ Slots(condensed)' = Slots(condensed) /\ Slots(snapshot)' = Slots(snapshot)
  BY DEF Occupied, Slots
<1>2. Weight(condensed)' = Weight(condensed) /\ Weight(snapshot)' = Weight(snapshot)
  BY DEF Weight, Slots
<1>3. BufferTypes' /\ BufferBounded'
  BY <1>1 DEF SinkInv, BufferTypes, BufferBounded
<1> QED BY <1>1, <1>2, <1>3

(* An event that goes to the throttle as it is.                            *)
LEMMA DirectInv ==
  ASSUME SinkInv, NEW e, NEW sec, Direct(e, sec)
  PROVE  BufferTypes' /\ BufferBounded' /\ FlushPhases' /\ Accounts' /\ Ages'
<1>1. /\ UNCHANGED <<condensed, snapshot, lastFlush, phase, overflowed, since>>
      /\ UNCHANGED <<clock, swept, running>>
      /\ accepted' = accepted + 1 /\ carried' = carried + 1 /\ fed' = fed + 1
      /\ accepted < MaxEvents
  BY DEF Direct, Receiving, buffer
<1>2. /\ accepted \in Nat /\ carried \in Nat /\ overflowed \in Nat
      /\ phase \in {"packets", "housekeeping", "exit"}
  BY DEF SinkInv, BufferTypes
<1>3. /\ BufferTypes' /\ BufferBounded'
      /\ Occupied(condensed)' = Occupied(condensed)
      /\ Occupied(snapshot)' = Occupied(snapshot)
      /\ Weight(condensed)' = Weight(condensed) /\ Weight(snapshot)' = Weight(snapshot)
  BY <1>1, <1>2, BuffersKept
<1>4. FlushPhases' BY <1>1, <1>3 DEF SinkInv, FlushPhases
<1>5. Accounts'
  BY <1>1, <1>2, <1>3, WeightTypes, ThrottleNumbers, SinkNumbers DEF SinkInv, Accounts
<1>6. Ages' BY <1>1, <1>3 DEF SinkInv, Ages
<1> QED BY <1>3, <1>4, <1>5, <1>6

(* An event that waits in its group's bucket.                              *)
LEMMA CondenseInv ==
  ASSUME SinkInv, NEW e \in Detections,
         NEW sec \in SaturatingSub(clock, PacketLag) .. clock, Condense(e, sec)
  PROVE  BufferTypes' /\ BufferBounded' /\ FlushPhases' /\ Accounts' /\ Ages'
<1> DEFINE g == SrcKey(e)
           b == condensed[g]
           x == Push(b, e, sec)
<1>1. /\ phase = "packets" /\ running /\ accepted < MaxEvents
      /\ g \in Groups /\ HasRoom(g)
      /\ condensed' = [condensed EXCEPT ![g] = x]
      /\ accepted' = accepted + 1
      /\ overflowed' = IF b.n >= MaxCondensed THEN overflowed + 1 ELSE overflowed
      /\ since' = IF b.n = 0 THEN [since EXCEPT ![g] = clock] ELSE since
      /\ UNCHANGED <<snapshot, lastFlush, phase, carried>>
      /\ UNCHANGED <<clock, swept, running, fed>>
  BY DEF Condense, Receiving, vars
<1>2. /\ condensed \in [Groups -> Bucket] /\ IsFiniteSet(Slots(condensed))
      /\ b \in Bucket /\ b.n \in Nat /\ b.n <= MaxCondensed
      /\ b.n > 0 => b.dsts # {}
      /\ since \in [Groups -> Nat]
  BY <1>1 DEF SinkInv, BufferTypes, BufferBounded, Bucket, Occupied
<1>3. sec \in Nat /\ sec <= clock /\ clock <= sec + PacketLag /\ e.dst \in Addrs
  BY DetectionFacts
<1>4. CASE b.n < MaxCondensed
  <2>1. /\ x \in Bucket /\ x.n = b.n + 1 /\ x.n <= MaxCondensed /\ x.dsts # {}
        /\ x.sec = IF b.n = 0 THEN sec ELSE b.sec
    BY <1>2, <1>3, <1>4, SinkNumbers DEF Push, Bucket
  <2> HIDE DEF x
  <2>2. overflowed' = overflowed BY <1>1, <1>2, <1>4, SinkNumbers
  <2>3. /\ IsFiniteSet(Slots(condensed')) /\ Weight(condensed') = Weight(condensed) + 1
    BY <1>1, <1>2, <2>1, PushedSlots
  <2>4. /\ condensed' \in [Groups -> Bucket] /\ condensed'[g] = x
        /\ \A h \in Groups \ {g} : condensed'[h] = condensed[h]
    BY <1>1, <1>2, <2>1
  <2>5. Occupied(condensed') = Occupied(condensed) \union {g}
    BY <1>1, <1>2, <2>1, <2>4 DEF Occupied
  <2>6. /\ since' \in [Groups -> Nat]
        /\ since'[g] = IF b.n = 0 THEN clock ELSE since[g]
        /\ \A h \in Groups \ {g} : since'[h] = since[h]
    BY <1>1, <1>2, ThrottleNumbers
  <2>7. /\ Occupied(snapshot)' = Occupied(snapshot)
        /\ Slots(snapshot)' = Slots(snapshot) /\ Weight(snapshot)' = Weight(snapshot)
    BY <1>1 DEF Occupied, Slots, Weight
  <2>8. BufferTypes'
    <3>1. \A h \in Occupied(condensed)' : condensed'[h].dsts # {}
      BY <2>1, <2>4, <2>5 DEF SinkInv, BufferTypes, Occupied
    <3>2. IsFiniteSet(Slots(condensed)') BY <2>3 DEF Slots
    <3>3. \A h \in Occupied(snapshot)' : snapshot'[h].dsts # {}
      BY <1>1, <2>7 DEF SinkInv, BufferTypes
    <3>4. accepted' \in Nat BY <1>1 DEF SinkInv, BufferTypes
    <3> QED BY <1>1, <2>2, <2>4, <2>6, <2>7, <3>1, <3>2, <3>3, <3>4 DEF SinkInv, BufferTypes
  <2>9. BufferBounded'
    <3>1. IsFiniteSet(Occupied(condensed)) /\ Cardinality(Occupied(condensed)) \in Nat
      BY FS_CardinalityType DEF SinkInv, BufferBounded
    <3>2. /\ IsFiniteSet(Occupied(condensed'))
          /\ Cardinality(Occupied(condensed')) =
               IF g \in Occupied(condensed) THEN Cardinality(Occupied(condensed))
               ELSE Cardinality(Occupied(condensed)) + 1
      BY <2>5, <3>1, FS_AddElement
    <3>3. g \in Occupied(condensed) \/ Cardinality(Occupied(condensed)) < MaxCondensedKeys
      BY <1>1 DEF HasRoom, Occupied
    <3>4. Cardinality(Occupied(condensed')) <= MaxCondensedKeys
      BY <3>1, <3>2, <3>3, SinkNumbers DEF SinkInv, BufferBounded
    <3>5. \A h \in Groups : condensed'[h].n <= MaxCondensed
      BY <2>1, <2>4 DEF SinkInv, BufferBounded
    <3> QED BY <3>2, <3>4, <3>5 DEF BufferBounded
  <2>10. FlushPhases' BY <1>1, <2>7 DEF SinkInv, FlushPhases
  <2>11. Accounts'
    <3>1. accepted \in Nat /\ carried \in Nat /\ overflowed \in Nat BY DEF SinkInv, BufferTypes
    <3>2. Weight(condensed)' = Weight(condensed) + 1 BY <2>3 DEF Weight, Slots
    <3> QED BY <1>1, <2>2, <2>7, <3>1, <3>2, WeightTypes, ThrottleNumbers, SinkNumbers
            DEF SinkInv, Accounts
  <2>12. Ages'
    <3>1. ASSUME NEW h \in Occupied(condensed)'
          PROVE  /\ lastFlush' <= since'[h] /\ since'[h] <= clock'
                 /\ clock' - since'[h] <= FlushPeriod
                 /\ swept' => clock' - since'[h] < FlushPeriod
                 /\ condensed'[h].sec <= clock'
                 /\ since'[h] <= condensed'[h].sec + PacketLag
      <4>1. CASE h = g /\ b.n = 0
        BY <1>1, <1>3, <2>1, <2>4, <2>6, <4>1, ThrottleNumbers, SinkNumbers DEF SinkInv, Ages
      <4>2. CASE h # g \/ b.n # 0
        <5>1. /\ h \in Occupied(condensed) /\ since'[h] = since[h]
              /\ condensed'[h].sec = condensed[h].sec
          BY <1>1, <1>2, <2>1, <2>4, <2>6, <3>1, <4>2 DEF Occupied
        <5> QED BY <1>1, <5>1 DEF SinkInv, Ages
      <4> QED BY <4>1, <4>2
    <3> QED BY <1>1, <2>7, <3>1 DEF SinkInv, Ages
  <2> QED BY <2>8, <2>9, <2>10, <2>11, <2>12
<1>5. CASE ~(b.n < MaxCondensed)
  <2>1. b.n = MaxCondensed /\ b.n > 0 BY <1>2, <1>5, SinkNumbers
  <2>2. condensed' = condensed /\ since' = since /\ overflowed' = overflowed + 1
    BY <1>1, <1>2, <1>5, <2>1, SinkNumbers DEF Push
  <2>3. /\ Occupied(condensed)' = Occupied(condensed) /\ Occupied(snapshot)' = Occupied(snapshot)
        /\ Slots(condensed)' = Slots(condensed) /\ Slots(snapshot)' = Slots(snapshot)
        /\ Weight(condensed)' = Weight(condensed) /\ Weight(snapshot)' = Weight(snapshot)
    BY <1>1, <2>2 DEF Occupied, Slots, Weight
  <2>4. BufferTypes' BY <1>1, <2>2, <2>3 DEF SinkInv, BufferTypes
  <2>5. BufferBounded' BY <2>2, <2>3 DEF SinkInv, BufferBounded
  <2>6. FlushPhases' BY <1>1, <2>3 DEF SinkInv, FlushPhases
  <2>7. Accounts'
    <3>1. accepted \in Nat /\ carried \in Nat /\ overflowed \in Nat BY DEF SinkInv, BufferTypes
    <3> QED BY <1>1, <2>2, <2>3, <3>1, WeightTypes, ThrottleNumbers, SinkNumbers
            DEF SinkInv, Accounts
  <2>8. Ages' BY <1>1, <2>2, <2>3 DEF SinkInv, Ages
  <2> QED BY <2>4, <2>5, <2>6, <2>7, <2>8
<1> QED BY <1>4, <1>5

(* A merged event leaves the drained groups for the throttle.              *)
LEMMA FlushGroupInv ==
  ASSUME SinkInv, NEW g \in Groups, FlushGroup(g)
  PROVE  BufferTypes' /\ BufferBounded' /\ FlushPhases' /\ Accounts' /\ Ages'
<1>1. /\ phase # "packets" /\ snapshot[g].n > 0
      /\ snapshot' = [snapshot EXCEPT ![g] = NoBucket]
      /\ carried' = carried + snapshot[g].n /\ fed' = fed + 1
      /\ UNCHANGED <<condensed, lastFlush, phase, accepted, overflowed, since>>
      /\ UNCHANGED <<clock, swept, running>>
  BY DEF FlushGroup
<1>2. snapshot \in [Groups -> Bucket] /\ IsFiniteSet(Slots(snapshot)) /\ carried \in Nat
  BY DEF SinkInv, BufferTypes
<1>3. /\ IsFiniteSet(Slots(snapshot')) /\ Weight(snapshot') \in Nat
      /\ Weight(snapshot) = Weight(snapshot') + snapshot[g].n
  BY <1>1, <1>2, TakenSlots
<1>4. /\ snapshot' \in [Groups -> Bucket] /\ snapshot'[g].n = 0
      /\ \A h \in Groups \ {g} : snapshot'[h] = snapshot[h]
  BY <1>1, <1>2, DrainedFacts
<1>5. Occupied(snapshot') = Occupied(snapshot) \ {g} BY <1>4 DEF Occupied
<1>6. \A h \in Occupied(snapshot') : h \in Occupied(snapshot) /\ snapshot'[h] = snapshot[h]
  BY <1>4, <1>5 DEF Occupied
<1>7. /\ Occupied(condensed)' = Occupied(condensed)
      /\ Slots(condensed)' = Slots(condensed) /\ Weight(condensed)' = Weight(condensed)
  BY <1>1 DEF Occupied, Slots, Weight
<1>8. snapshot[g].n \in Nat BY WeightTypes
<1>9. BufferTypes'
  <2>1. \A h \in Occupied(snapshot)' : snapshot'[h].dsts # {}
    BY <1>6 DEF SinkInv, BufferTypes, Occupied
  <2>2. IsFiniteSet(Slots(snapshot)') BY <1>3 DEF Slots
  <2>3. carried' \in Nat BY <1>1, <1>2, <1>8
  <2>4. \A h \in Occupied(condensed)' : condensed'[h].dsts # {}
    BY <1>1, <1>7 DEF SinkInv, BufferTypes
  <2> QED BY <1>1, <1>4, <1>7, <2>1, <2>2, <2>3, <2>4 DEF SinkInv, BufferTypes
<1>10. BufferBounded' BY <1>1, <1>7 DEF SinkInv, BufferBounded
<1>11. FlushPhases' BY <1>1, <1>5, <1>7 DEF SinkInv, FlushPhases
<1>12. Accounts'
  <2>1. accepted \in Nat /\ overflowed \in Nat BY DEF SinkInv, BufferTypes
  <2>2. Weight(snapshot)' = Weight(snapshot') BY DEF Weight, Slots
  <2> QED BY <1>1, <1>2, <1>3, <1>7, <1>8, <2>1, <2>2, WeightTypes, ThrottleNumbers
          DEF SinkInv, Accounts
<1>13. Ages' BY <1>1, <1>6, <1>7 DEF SinkInv, Ages
<1> QED BY <1>9, <1>10, <1>11, <1>12, <1>13

(* A flush starts: the buffer is drained, what it held is at most Lag old. *)
LEMMA StartFlushInv ==
  ASSUME SinkInv, NEW why \in {"housekeeping", "exit"},
         running, phase = "packets", StartFlush(why), UNCHANGED <<vars, tally>>
  PROVE  BufferTypes' /\ BufferBounded' /\ FlushPhases' /\ Accounts' /\ Ages'
<1>1. /\ phase' = why /\ snapshot' = condensed /\ condensed' = Drained /\ lastFlush' = clock
      /\ UNCHANGED <<accepted, carried, overflowed, since>>
      /\ UNCHANGED <<clock, swept, running, fed>>
  BY DEF StartFlush, vars, tally
<1>2. /\ Occupied(snapshot) = {} /\ snapshot \in [Groups -> Bucket]
      /\ condensed \in [Groups -> Bucket]
  BY DEF SinkInv, FlushPhases, BufferTypes
<1>3. Weight(snapshot) = 0 BY <1>2, EmptySlots
<1>4. /\ Occupied(condensed)' = {} /\ Weight(condensed)' = 0 /\ IsFiniteSet(Slots(condensed)')
      /\ condensed' \in [Groups -> Bucket]
      /\ \A g \in Groups : condensed'[g].n = 0
  <2>1. Occupied(condensed)' = {} /\ condensed' \in [Groups -> Bucket]
        /\ \A g \in Groups : condensed'[g].n = 0
    BY <1>1, DrainedFacts DEF Occupied
  <2>2. Weight(Drained) = 0 /\ IsFiniteSet(Slots(Drained)) BY EmptySlots, DrainedFacts
  <2>3. Weight(condensed)' = Weight(Drained) /\ Slots(condensed)' = Slots(Drained)
    BY <1>1 DEF Weight, Slots
  <2> QED BY <2>1, <2>2, <2>3
<1>5. /\ Occupied(snapshot)' = Occupied(condensed) /\ Slots(snapshot)' = Slots(condensed)
      /\ Weight(snapshot)' = Weight(condensed)
  BY <1>1 DEF Occupied, Slots, Weight
<1>6. BufferTypes'
  BY <1>1, <1>2, <1>4, <1>5, ThrottleNumbers DEF SinkInv, BufferTypes
<1>7. BufferBounded'
  BY <1>4, FS_EmptySet, SinkNumbers DEF BufferBounded
<1>8. FlushPhases' BY <1>1, <1>4 DEF FlushPhases
<1>9. Accounts'
  BY <1>1, <1>3, <1>4, <1>5, WeightTypes DEF SinkInv, Accounts, BufferTypes
<1>10. Ages'
  <2>1. ASSUME NEW g \in Occupied(condensed)
        PROVE  condensed[g].sec <= clock /\ clock <= condensed[g].sec + Lag
    <3>1. /\ condensed[g].sec \in Nat /\ since[g] \in Nat
          /\ clock - since[g] <= FlushPeriod /\ since[g] <= condensed[g].sec + PacketLag
          /\ condensed[g].sec <= clock
      BY <1>2 DEF SinkInv, Ages, BufferTypes, Bucket, Occupied
    <3> QED BY <3>1, ThrottleNumbers, SinkNumbers
  <2> QED BY <1>1, <1>4, <1>5, <2>1, ThrottleNumbers DEF Ages
<1> QED BY <1>6, <1>7, <1>8, <1>9, <1>10

(* The throttle's own flushes and the clock leave the buffers alone: what  *)
(* is to show is the age of what waits there.                              *)
LEMMA ThrottleStepInv ==
  ASSUME SinkInv, UNCHANGED <<condensed, snapshot, lastFlush, tally>>,
         phase' \in {"packets", "housekeeping", "exit"}, fed' = fed,
         FlushPhases', Ages'
  PROVE  BufferTypes' /\ BufferBounded' /\ FlushPhases' /\ Accounts' /\ Ages'
<1>1. UNCHANGED <<accepted, carried, overflowed, since>> BY DEF tally
<1>2. accepted \in Nat /\ carried \in Nat BY DEF SinkInv, BufferTypes
<1>3. /\ BufferTypes' /\ BufferBounded'
      /\ Weight(condensed)' = Weight(condensed) /\ Weight(snapshot)' = Weight(snapshot)
  BY <1>1, <1>2, BuffersKept
<1>4. Accounts' BY <1>1, <1>3 DEF SinkInv, Accounts
<1> QED BY <1>3, <1>4

(* flush_throttled(), with or without a flush of the buffer before it: what *)
(* still waits is younger than the period.                                 *)
LEMMA SweepInv ==
  ASSUME SinkInv, Housekeeping, UNCHANGED <<condensed, snapshot, lastFlush, tally>>,
         \/ phase = "packets" /\ phase' = phase /\ ~CondenseDue
         \/ FlushOver("housekeeping") /\ phase' = "packets"
  PROVE  BufferTypes' /\ BufferBounded' /\ FlushPhases' /\ Accounts' /\ Ages'
<1>1. running /\ UNCHANGED <<clock, fed, running>> BY DEF Housekeeping
<1>2. /\ Occupied(condensed)' = Occupied(condensed)
      /\ Occupied(snapshot)' = Occupied(snapshot)
  BY DEF Occupied
<1>3. since' = since BY DEF tally
<1>4. FlushPhases' BY <1>1, <1>2 DEF SinkInv, FlushPhases, FlushOver
<1>5. ASSUME NEW g \in Occupied(condensed) PROVE clock - since[g] < FlushPeriod
  <2>1. phase = "packets" /\ clock - lastFlush < FlushPeriod
    <3>1. phase = "packets" /\ ~CondenseDue BY DEF SinkInv, FlushPhases, FlushOver
    <3> QED BY <3>1, ThrottleNumbers, SinkNumbers DEF CondenseDue, SinkInv, BufferTypes
  <2>2. since[g] \in Nat /\ lastFlush \in Nat /\ lastFlush <= since[g]
    BY DEF SinkInv, BufferTypes, Ages, Occupied
  <2> QED BY <2>1, <2>2, ThrottleNumbers, SinkNumbers
<1>6. Ages' BY <1>1, <1>2, <1>3, <1>5 DEF SinkInv, Ages
<1> QED BY <1>1, <1>4, <1>6, ThrottleStepInv DEF SinkInv, BufferTypes

(* The clock moves on only after a sweep.                                  *)
LEMMA TickInv ==
  ASSUME SinkInv, SinkTick
  PROVE  BufferTypes' /\ BufferBounded' /\ FlushPhases' /\ Accounts' /\ Ages'
<1>1. /\ phase = "packets" /\ running /\ swept /\ clock' = clock + 1 /\ swept' = FALSE
      /\ UNCHANGED <<fed, running>> /\ UNCHANGED <<buffer, tally>>
  BY DEF SinkTick, Tick
<1>2. /\ UNCHANGED <<condensed, snapshot, lastFlush, phase, since>>
      /\ Occupied(condensed)' = Occupied(condensed)
      /\ Occupied(snapshot)' = Occupied(snapshot) /\ Occupied(snapshot) = {}
  BY <1>1 DEF buffer, tally, Occupied, SinkInv, FlushPhases
<1>3. FlushPhases' BY <1>1, <1>2 DEF SinkInv, FlushPhases
<1>4. ASSUME NEW g \in Occupied(condensed)
      PROVE  /\ lastFlush <= since[g] /\ since[g] <= clock + 1
             /\ (clock + 1) - since[g] <= FlushPeriod
             /\ condensed[g].sec <= clock + 1 /\ since[g] <= condensed[g].sec + PacketLag
  <2>1. /\ lastFlush <= since[g] /\ since[g] <= clock /\ clock - since[g] < FlushPeriod
        /\ condensed[g].sec <= clock /\ since[g] <= condensed[g].sec + PacketLag
    BY <1>1 DEF SinkInv, Ages
  <2>2. since[g] \in Nat /\ condensed[g].sec \in Nat
    BY DEF SinkInv, BufferTypes, Bucket, Occupied
  <2> QED BY <2>1, <2>2, ThrottleNumbers, SinkNumbers
<1>5. lastFlush <= clock + 1 BY ThrottleNumbers DEF SinkInv, Ages, BufferTypes
<1>6. Ages' BY <1>1, <1>2, <1>4, <1>5 DEF Ages
<1> QED BY <1>1, <1>2, <1>3, <1>6, ThrottleStepInv DEF SinkInv, BufferTypes

(* The worker's last flush.                                                *)
LEMMA FinishExitInv ==
  ASSUME SinkInv, FinishExit
  PROVE  BufferTypes' /\ BufferBounded' /\ FlushPhases' /\ Accounts' /\ Ages'
<1>1. /\ phase = "exit" /\ Occupied(snapshot) = {} /\ UNCHANGED <<clock, swept, fed>>
      /\ UNCHANGED <<buffer, tally>>
  BY DEF FinishExit, FlushOver, Exit
<1>2. /\ UNCHANGED <<condensed, snapshot, lastFlush, phase, since>>
      /\ Occupied(condensed)' = Occupied(condensed)
      /\ Occupied(snapshot)' = Occupied(snapshot)
  BY <1>1 DEF buffer, tally, Occupied
<1>3. FlushPhases' BY <1>1, <1>2 DEF SinkInv, FlushPhases
<1>4. Ages' BY <1>1, <1>2 DEF SinkInv, Ages
<1> QED BY <1>1, <1>2, <1>3, <1>4, ThrottleStepInv DEF SinkInv, BufferTypes

(* The invariant holds at every step, at the start, and so throughout.     *)
LEMMA NextSinkInv == SinkInv /\ [SinkNext]_sinkVars => SinkInv'
<1> SUFFICES ASSUME SinkInv, [SinkNext]_sinkVars PROVE SinkInv' OBVIOUS
<1>1. Inv'
  <2>1. [Next]_vars BY SinkStepsThrottle
  <2> QED BY <2>1, StepInv DEF SinkInv
<1> SUFFICES BufferTypes' /\ BufferBounded' /\ FlushPhases' /\ Accounts' /\ Ages'
  BY <1>1 DEF SinkInv
<1>2. ASSUME NEW e \in Detections, NEW sec \in SaturatingSub(clock, PacketLag) .. clock,
             Condense(e, sec) \/ Direct(e, sec)
      PROVE  BufferTypes' /\ BufferBounded' /\ FlushPhases' /\ Accounts' /\ Ages'
  BY <1>2, CondenseInv, DirectInv
<1>3. ASSUME NEW g \in Groups, FlushGroup(g)
      PROVE  BufferTypes' /\ BufferBounded' /\ FlushPhases' /\ Accounts' /\ Ages'
  BY <1>3, FlushGroupInv
<1>4. CASE SinkHousekeeping
  <2>1. CASE CondenseDue BY <1>4, <2>1, StartFlushInv DEF SinkHousekeeping
  <2>2. CASE ~CondenseDue BY <1>4, <2>2, SweepInv DEF SinkHousekeeping, buffer
  <2> QED BY <2>1, <2>2
<1>5. CASE FinishHousekeeping BY <1>5, SweepInv DEF FinishHousekeeping
<1>6. CASE SinkTick BY <1>6, TickInv
<1>7. CASE StartExit BY <1>7, StartFlushInv DEF StartExit
<1>8. CASE FinishExit BY <1>8, FinishExitInv
<1>9. CASE UNCHANGED sinkVars
  <2>1. /\ UNCHANGED <<condensed, snapshot, lastFlush, phase, tally>>
        /\ UNCHANGED <<clock, swept, running, fed>>
    BY <1>9 DEF sinkVars, vars, buffer
  <2>2. /\ Occupied(condensed)' = Occupied(condensed)
        /\ Occupied(snapshot)' = Occupied(snapshot) /\ since' = since
    BY <2>1 DEF Occupied, tally
  <2>3. FlushPhases' /\ Ages' BY <2>1, <2>2 DEF SinkInv, FlushPhases, Ages
  <2> QED BY <2>1, <2>3, ThrottleStepInv DEF SinkInv, BufferTypes
<1> QED BY <1>2, <1>3, <1>4, <1>5, <1>6, <1>7, <1>8, <1>9 DEF SinkNext

LEMMA InitSinkInv == SinkInit => SinkInv
<1> SUFFICES ASSUME SinkInit PROVE SinkInv OBVIOUS
<1>1. Inv BY InitInv DEF SinkInit
<1>2. /\ condensed = Drained /\ snapshot = Drained /\ lastFlush = 0 /\ phase = "packets"
      /\ accepted = 0 /\ carried = 0 /\ overflowed = 0 /\ since = [g \in Groups |-> 0]
      /\ clock = 0 /\ fed = 0 /\ running = TRUE
  BY DEF SinkInit, Init
<1>3. IsFiniteSet(Slots(Drained)) /\ Weight(Drained) = 0 BY EmptySlots, DrainedFacts
<1>4. BufferTypes BY <1>2, <1>3, DrainedFacts DEF BufferTypes
<1>5. BufferBounded BY <1>2, DrainedFacts, FS_EmptySet, SinkNumbers DEF BufferBounded
<1>6. FlushPhases BY <1>2, DrainedFacts DEF FlushPhases
<1>7. Accounts BY <1>2, <1>3, SinkNumbers DEF Accounts
<1>8. Ages BY <1>2, DrainedFacts DEF Ages
<1> QED BY <1>1, <1>4, <1>5, <1>6, <1>7, <1>8 DEF SinkInv

LEMMA SpecSinkInv == SinkSpec => []SinkInv
BY InitSinkInv, NextSinkInv, PTL DEF SinkSpec

-------------------------------------------------------------------------------
(* The sink implements the throttle's specification: packets go to the     *)
(* throttle one by one and no older than Lag, merged events included, and  *)
(* its flushes come when housekeeping and the exit call them.              *)
THEOREM SinkDrivesThrottle == SinkSpec => DrivesThrottle
<1>1. SinkInit => Init BY DEF SinkInit
<1>2. SinkInv /\ [SinkNext]_sinkVars => [Next]_vars BY SinkStepsThrottle
<1> QED BY <1>1, <1>2, SpecSinkInv, PTL DEF SinkSpec, DrivesThrottle, Spec

(* So the throttle keeps its promises inside the sink.                     *)
THEOREM SinkThrottlePromises ==
  SinkSpec => [](Conservation /\ TableBounded /\ BurstRespected /\ HeldWaitBounded)
BY SinkDrivesThrottle, SpecConservation, SpecTableBounded, SpecBurstRespected,
   SpecHeldWaitBounded, PTL DEF DrivesThrottle

(* Types, and the limits of the condense buffer: MAX_CONDENSED_EVENTS in a *)
(* bucket, MAX_CONDENSED_KEYS buckets.                                     *)
THEOREM SpecSinkTypeOK == SinkSpec => []SinkTypeOK
<1>1. SinkInv => SinkTypeOK
  BY DEF SinkInv, SinkTypeOK, Inv, TypeInv, BufferTypes, BufferBounded
<1> QED BY <1>1, SpecSinkInv, PTL

(* No detection is lost between log_event() and the throttle, and a worker *)
(* that has exited holds nothing back.                                     *)
THEOREM SpecAllReported == SinkSpec => []AllReported
<1>1. ASSUME SinkInv PROVE AllReported
  <2>1. ~running => Occupied(condensed) \union Occupied(snapshot) = {}
    BY <1>1 DEF SinkInv, FlushPhases
  <2> QED BY <1>1, <2>1 DEF SinkInv, AllReported, Accounts, Inv, Conservation
<1> QED BY <1>1, SpecSinkInv, PTL

(* maybe_flush_condensed() is never late: no detection waits in the buffer *)
(* for longer than CONDENSED_EVENTS_FLUSH_PERIOD.                          *)
THEOREM SpecCondensedWaitBounded == SinkSpec => []CondensedWaitBounded
<1>1. SinkInv => CondensedWaitBounded BY DEF SinkInv, CondensedWaitBounded, Ages
<1> QED BY <1>1, SpecSinkInv, PTL

===============================================================================
