----------------------------- MODULE ClientHello -----------------------------
(***************************************************************************)
(* Reassembly of a ClientHello that does not fit in one packet             *)
(* (sensor/src/protocols/hello.rs), and what is read from its bytes        *)
(* (tls.rs, quic.rs).                                                      *)
(*                                                                         *)
(* A byte is <<flow, i>>: byte i of the flow's ClientHello, so that bytes  *)
(* of two flows never look alike.  The flow stands for its key; a chunk is *)
(* [off, data] with data a sequence of bytes.                              *)
(***************************************************************************)
EXTENDS Integers, Sequences, FiniteSets, FiniteSetsExt, SequencesExt

CONSTANTS
  SlotCount,    \* SLOTS, even
  HomeOf(_),    \* of a flow: the even slot of its pair
  Cap,          \* CAP
  Ttl,          \* TTL
  SniAt(_)      \* the last byte of the server name in a flow's ClientHello

NoFlow == "none"

EmptySlot ==
  [key |-> NoFlow, need |-> 0, sec |-> 0, tick |-> 0, reported |-> FALSE,
   filled |-> {}, buf |-> [i \in 0 .. Cap - 1 |-> <<NoFlow, 0>>]]

NewAssembler ==
  [slots |-> [i \in 0 .. SlotCount - 1 |-> EmptySlot], newest |-> 0, live |-> 0, ticks |-> 0]

Pair(key) == {HomeOf(key), HomeOf(key) + 1}

(* Slot::prefix(): bytes present without a gap from offset 0.              *)
PrefixLen(slot) == Max({n \in 0 .. slot.need : 0 .. n - 1 \subseteq slot.filled})

Bytes(slot) == [i \in 1 .. PrefixLen(slot) |-> slot.buf[i - 1]]

-----------------------------------------------------------------------------
(* start(): a flow's own slot, else a free one, else the older.            *)
ChosenSlot(slots, key) ==
  LET a == HomeOf(key)
      b == a + 1
  IN  IF slots[a].key = key THEN a
      ELSE IF slots[b].key = key THEN b
      ELSE IF slots[a].key # NoFlow /\ (slots[b].key = NoFlow \/ slots[b].tick < slots[a].tick)
      THEN b ELSE a

(* Mutant of Start: the slot keeps the marks of the hello it held before.  *)
StartOnMarks(asm, key, need, sec, reported) ==
  LET i == ChosenSlot(asm.slots, key)
  IN  [asm EXCEPT !.slots[i] = [@ EXCEPT !.key = key, !.tick = asm.ticks + 1, !.sec = sec,
                                         !.need = Min({need, Cap}), !.reported = reported],
                  !.live = IF asm.slots[i].key = NoFlow THEN @ + 1 ELSE @,
                  !.ticks = @ + 1, !.newest = sec]

Start(asm, key, need, sec, reported) ==
  LET i == ChosenSlot(asm.slots, key)
  IN  [asm EXCEPT !.slots[i] = [@ EXCEPT !.key = key, !.tick = asm.ticks + 1, !.sec = sec,
                                         !.need = Min({need, Cap}), !.reported = reported,
                                         !.filled = {}],
                  !.live = IF asm.slots[i].key = NoFlow THEN @ + 1 ELSE @,
                  !.ticks = @ + 1, !.newest = sec]

(* idle(): once every slot is stale, all of them are dropped.              *)
Idled(asm, sec) ==
  IF asm.live > 0 /\ sec > asm.newest + Ttl
  THEN [asm EXCEPT !.slots = [i \in DOMAIN @ |-> [@[i] EXCEPT !.key = NoFlow]], !.live = 0]
  ELSE asm

Idle(asm) == asm.live = 0

Free(asm, i) == [asm EXCEPT !.slots[i].key = NoFlow, !.live = @ - 1]

SlotsOf(asm, key) == {i \in Pair(key) : asm.slots[i].key = key}

WithoutStale(asm, key, sec) ==
  LET stale == {i \in SlotsOf(asm, key) : sec > asm.slots[i].sec + Ttl}
  IN  IF stale = {} THEN asm ELSE Free(asm, Min(stale))

(* find(): the assembler without a stale slot of the flow.                 *)
Refreshed(asm, key, sec) == WithoutStale(Idled(asm, sec), key, sec)

Pending(asm, key) == SlotsOf(asm, key) # {}

(* The slot with the data copied in at its offset, up to its need.         *)
Filled(slot, chunk) ==
  LET span == chunk.off .. Min({chunk.off + Len(chunk.data), slot.need}) - 1
  IN  [slot EXCEPT
         !.filled = @ \cup span,
         !.buf = [o \in DOMAIN @ |-> IF o \in span THEN chunk.data[o - chunk.off + 1] ELSE @[o]]]

(* done holds the slot once all of its bytes are there; it is free then.   *)
Stored(asm, i, slot) ==
  IF PrefixLen(slot) < slot.need
  THEN [asm |-> [asm EXCEPT !.slots[i] = slot], done |-> <<>>]
  ELSE [asm |-> Free([asm EXCEPT !.slots[i] = slot], i), done |-> <<slot>>]

PutFresh(asm, key, chunk) ==
  IF ~Pending(asm, key) THEN [asm |-> asm, done |-> <<>>]
  ELSE LET i == Min(SlotsOf(asm, key)) IN Stored(asm, i, Filled(asm.slots[i], chunk))

(* put()                                                                   *)
PutChunk(asm, key, sec, chunk) == PutFresh(Refreshed(asm, key, sec), key, chunk)

(* The chunks of one packet, in order, until one of them completes it.     *)
PutAll(asm, key, sec, chunks) ==
  FoldLeft(LAMBDA s, c : IF s.done # <<>> THEN s ELSE PutChunk(s.asm, key, sec, c),
           [asm |-> asm, done |-> <<>>], chunks)

-----------------------------------------------------------------------------
(* contiguous(): the bytes from offset 0 up to the first gap.              *)
Contiguous(chunks) ==
  FoldLeft(LAMBDA out, c :
             IF c.off > Len(out) \/ Len(out) - c.off >= Len(c.data) THEN out
             ELSE out \o SubSeq(c.data, Len(out) - c.off + 1, Len(c.data)),
           <<>>, chunks)

(* client_hello_sni() of tls.rs and of quic.rs, and the server name of     *)
(* parse_client_hello_into(): read as far as the bytes reach.              *)
SniIn(bytes) ==
  IF bytes # <<>> /\ bytes[1][2] = 0 /\ Len(bytes) > SniAt(bytes[1][1])
  THEN {bytes[SniAt(bytes[1][1]) + 1][1]} ELSE {}

(* parse_client_hello_over(): the extensions are taken as far as the bytes *)
(* reach, so the fingerprints are those of the bytes.                      *)
ParseHello(bytes) ==
  IF bytes # <<>> /\ bytes[1][2] = 0 THEN {[sni |-> SniIn(bytes), print |-> bytes]} ELSE {}

=============================================================================
