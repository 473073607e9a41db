------------------------------ MODULE MetaProofs ------------------------------
(***************************************************************************)
(* Proofs about MetaStore: for any number of workers, any backlog of the   *)
(* channel and any limit of the windows, the answer to a worker's barrier  *)
(* means that nothing of the worker is on its way any more, and every      *)
(* sighting is counted in exactly one row of its own observable.           *)
(***************************************************************************)
EXTENDS MetaStore, FiniteSetTheorems, TLAPS

Fields == {"ips", "index", "recent", "names", "lastFlush", "saturations"}

(* A window keeps its fields, and that of a worker which has sent its tail *)
(* is empty.                                                               *)
Windows ==
  /\ DOMAIN win = Workers
  /\ \A w \in Workers : DOMAIN win[w] = Fields
  /\ \A w \in Workers : pc[w] # "run" => Pending(win[w]) = 0

(* A sequence, whatever its elements: the rows of a job are not looked at. *)
IsSeq(s) == \E S : s \in Seq(S)

(* The channel, and the job of the writer, if it is at one.                *)
Channel ==
  /\ pc \in [Workers -> {"run", "sent", "waiting", "done"}]
  /\ IsSeq(queue)
  /\ hand = <<>> \/ \E j : hand = <<j>>

Is(j, kind, w) == j.kind = kind /\ j.owner = w

InHand(kind, w) == hand # <<>> /\ Is(hand[1], kind, w)

(* A worker sends its barrier last: it has none on its way before, and no  *)
(* window of its own is behind it.  Once it is answered there is none left. *)
BarrierLast(w) ==
  /\ pc[w] \in {"run", "sent"} =>
       ~InHand("barrier", w) /\ \A i \in 1..Len(queue) : ~Is(queue[i], "barrier", w)
  /\ InHand("barrier", w) => \A i \in 1..Len(queue) : ~Is(queue[i], "write", w)
  /\ \A i, j \in 1..Len(queue) :
       i < j /\ Is(queue[i], "barrier", w) => ~Is(queue[j], "write", w)
  /\ pc[w] = "done" =>
       ~InHand("write", w) /\ \A i \in 1..Len(queue) : ~Is(queue[i], "write", w)

TailInv == Windows /\ Channel /\ \A w \in Workers : BarrierLast(w)

-----------------------------------------------------------------------------
(* Sequences of whatever elements.                                         *)

(* Append adds one at the end ...                                          *)
LEMMA AppendSeq ==
  ASSUME NEW s, IsSeq(s), NEW j
  PROVE  /\ IsSeq(Append(s, j)) /\ Len(s) \in Nat
         /\ Len(Append(s, j)) = Len(s) + 1
         /\ Append(s, j)[Len(s) + 1] = j
         /\ \A i \in 1..Len(s) : Append(s, j)[i] = s[i]
<1>1. PICK S : s \in Seq(S) BY DEF IsSeq
<1>2. s \in Seq(S \union {j}) BY <1>1
<1>3. Append(s, j) \in Seq(S \union {j}) BY <1>2
<1> QED BY <1>2, <1>3 DEF IsSeq

(* ... and Tail moves the others up.                                       *)
LEMMA TailSeq ==
  ASSUME NEW s, IsSeq(s), s # <<>>
  PROVE  /\ IsSeq(Tail(s)) /\ Len(s) \in Nat /\ Len(s) >= 1
         /\ Head(s) = s[1]
         /\ Len(Tail(s)) = Len(s) - 1
         /\ \A i \in 1..(Len(s) - 1) : Tail(s)[i] = s[i + 1]
<1>1. PICK S : s \in Seq(S) BY DEF IsSeq
<1>2. Tail(s) \in Seq(S) BY <1>1
<1> QED BY <1>1, <1>2 DEF IsSeq

(* The jobs on their way, one by one.                                      *)
LEMMA JobsOnTheirWay ==
  ASSUME Channel, NEW i \in DOMAIN (hand \o queue)
  PROVE  \/ hand # <<>> /\ (hand \o queue)[i] = hand[1]
         \/ \E k \in 1..Len(queue) : (hand \o queue)[i] = queue[k]
<1>1. PICK S : queue \in Seq(S) BY DEF Channel, IsSeq
<1>2. CASE hand = <<>>
  <2>1. hand \o queue = queue /\ DOMAIN queue = 1..Len(queue) BY <1>1, <1>2
  <2> QED BY <2>1
<1>3. CASE hand # <<>>
  <2>1. PICK j : hand = <<j>> BY <1>3 DEF Channel
  <2>2. hand \in Seq(S \union {j}) /\ queue \in Seq(S \union {j}) /\ Len(hand) = 1
    BY <1>1, <2>1
  <2>3. /\ DOMAIN (hand \o queue) = 1..(1 + Len(queue)) /\ Len(queue) \in Nat
        /\ (hand \o queue)[1] = hand[1]
        /\ \A k \in 2..(1 + Len(queue)) : (hand \o queue)[k] = queue[k - 1]
    <3> DEFINE T == S \union {j}
    <3>1. ASSUME NEW s \in Seq(T), NEW t \in Seq(T)
          PROVE  /\ DOMAIN (s \o t) = 1..(Len(s) + Len(t)) /\ Len(t) \in Nat
                 /\ \A k \in 1..(Len(s) + Len(t)) :
                      (s \o t)[k] = IF k <= Len(s) THEN s[k] ELSE t[k - Len(s)]
      OBVIOUS
    <3>2. /\ DOMAIN (hand \o queue) = 1..(1 + Len(queue)) /\ Len(queue) \in Nat
          /\ \A k \in 1..(1 + Len(queue)) :
               (hand \o queue)[k] = IF k <= 1 THEN hand[k] ELSE queue[k - 1]
      BY <2>2, <3>1
    <3>3. \A k \in 2..(1 + Len(queue)) : k \in 1..(1 + Len(queue)) /\ ~(k <= 1) BY <3>2
    <3>4. 1 \in 1..(1 + Len(queue)) BY <3>2
    <3> QED BY <3>2, <3>3, <3>4
  <2>4. CASE i = 1 BY <1>3, <2>3, <2>4
  <2>5. CASE i # 1
    <3>1. i \in 2..(1 + Len(queue)) /\ i - 1 \in 1..Len(queue) BY <2>3, <2>5
    <3> QED BY <2>3, <3>1
  <2> QED BY <2>4, <2>5
<1> QED BY <1>2, <1>3

-----------------------------------------------------------------------------
(* Windows.                                                                *)

(* observe_ip() and observe_name() keep the fields.                        *)
LEMMA ObservedFields ==
  ASSUME NEW x, DOMAIN x = Fields, NEW o, NEW sec, NEW n
  PROVE  DOMAIN ObserveIp(x, o, sec, n) = Fields /\ DOMAIN ObserveName(x, o, sec, n) = Fields
<1>1. DOMAIN ObserveName(x, o, sec, n) = Fields BY DEF ObserveName
<1>2. ASSUME NEW y, DOMAIN y = Fields, NEW at PROVE DOMAIN Remembered(y, o, at) = Fields
  BY <1>2 DEF Remembered
<1>3. DOMAIN ObserveIp(x, o, sec, n) = Fields BY <1>2 DEF ObserveIp, BumpAt, Pushed
<1> QED BY <1>1, <1>3

(* take_ips() leaves nothing pending.                                      *)
LEMMA DrainedWindow ==
  ASSUME NEW x, DOMAIN x = Fields
  PROVE  DOMAIN Drained(x) = Fields /\ Pending(Drained(x)) = 0
<1>1. DOMAIN Drained(x) = Fields BY DEF Drained
<1>2. Drained(x).ips = <<>> /\ Drained(x).names = None BY DEF Drained, Fields
<1>3. Len(<<>>) = 0 OBVIOUS
<1>4. DOMAIN None = {} BY DEF None
<1> QED BY <1>1, <1>2, <1>3, <1>4, FS_EmptySet DEF Pending

(* A worker that is still running may do with its window what keeps its    *)
(* fields.                                                                 *)
LEMMA RunningWindow ==
  ASSUME TailInv, NEW w \in Workers,
         DOMAIN win' = DOMAIN win, DOMAIN win'[w] = Fields,
         \A v \in Workers \ {w} : win'[v] = win[v],
         pc[w] = "run", pc' = pc
  PROVE  Windows'
<1> SUFFICES ASSUME NEW v \in Workers
             PROVE  DOMAIN win'[v] = Fields /\ (pc'[v] # "run" => Pending(win'[v]) = 0)
  BY DEF TailInv, Windows, Pending
<1>1. CASE v = w BY <1>1
<1>2. CASE v # w
  <2>1. win'[v] = win[v] BY <1>2
  <2> QED BY <2>1 DEF TailInv, Windows
<1> QED BY <1>1, <1>2

-----------------------------------------------------------------------------
(* The channel.                                                            *)

(* A window of a running worker, appended to the channel.                  *)
LEMMA AppendWrite ==
  ASSUME TailInv, NEW w \in Workers, pc[w] = "run", NEW job, Is(job, "write", w),
         queue' = Append(queue, job), hand' = hand,
         pc' \in [Workers -> {"run", "sent", "waiting", "done"}],
         pc'[w] \in {"run", "sent"}, \A v \in Workers \ {w} : pc'[v] = pc[v]
  PROVE  Channel' /\ \A v \in Workers : BarrierLast(v)'
<1>1. /\ IsSeq(queue') /\ Len(queue) \in Nat /\ Len(queue') = Len(queue) + 1
      /\ queue'[Len(queue) + 1] = job
      /\ \A i \in 1..Len(queue) : queue'[i] = queue[i]
  BY AppendSeq DEF TailInv, Channel
<1>2. Channel' BY <1>1 DEF TailInv, Channel, IsSeq
<1>3. \A i \in 1..Len(queue') : i \in 1..Len(queue) \/ i = Len(queue) + 1 BY <1>1
<1>4. ASSUME NEW v \in Workers PROVE BarrierLast(v)'
  <2>1. BarrierLast(v) BY DEF TailInv
  <2>2. InHand("barrier", v)' = InHand("barrier", v) /\ InHand("write", v)' = InHand("write", v)
    BY DEF InHand, Is
  <2>3. CASE v = w
    <3>1. ~InHand("barrier", w) /\ \A i \in 1..Len(queue) : ~Is(queue[i], "barrier", w)
      BY <2>1, <2>3 DEF BarrierLast
    <3>2. \A i \in 1..Len(queue') : ~Is(queue'[i], "barrier", w)
      BY <1>1, <1>3, <3>1 DEF Is
    <3> QED BY <2>2, <2>3, <3>1, <3>2 DEF BarrierLast, Is
  <2>4. CASE v # w
    <3>1. \A i \in 1..Len(queue') : \A kind \in {"write", "barrier"} :
            Is(queue'[i], kind, v) => i \in 1..Len(queue) /\ Is(queue[i], kind, v)
      BY <1>1, <1>3, <2>4 DEF Is
    <3>2. pc'[v] = pc[v] BY <2>4
    <3> QED BY <2>1, <2>2, <3>1, <3>2 DEF BarrierLast, Is
  <2> QED BY <2>3, <2>4
<1> QED BY <1>2, <1>4

(* The barrier of a worker that has sent its tail.                         *)
LEMMA AppendBarrier ==
  ASSUME TailInv, NEW w \in Workers, pc[w] = "sent", NEW job, Is(job, "barrier", w),
         queue' = Append(queue, job), hand' = hand,
         pc' = [pc EXCEPT ![w] = "waiting"]
  PROVE  Channel' /\ \A v \in Workers : BarrierLast(v)'
<1>1. /\ IsSeq(queue') /\ Len(queue) \in Nat /\ Len(queue') = Len(queue) + 1
      /\ queue'[Len(queue) + 1] = job
      /\ \A i \in 1..Len(queue) : queue'[i] = queue[i]
  BY AppendSeq DEF TailInv, Channel
<1>2. Channel' BY <1>1 DEF TailInv, Channel, IsSeq
<1>3. \A i \in 1..Len(queue') : i \in 1..Len(queue) \/ i = Len(queue) + 1 BY <1>1
<1>4. ASSUME NEW v \in Workers PROVE BarrierLast(v)'
  <2>1. BarrierLast(v) BY DEF TailInv
  <2>2. InHand("barrier", v)' = InHand("barrier", v) /\ InHand("write", v)' = InHand("write", v)
    BY DEF InHand, Is
  <2>3. \A i \in 1..Len(queue') :
          Is(queue'[i], "write", v) => i \in 1..Len(queue) /\ Is(queue[i], "write", v)
    BY <1>1, <1>3 DEF Is
  <2>4. pc'[v] = IF v = w THEN "waiting" ELSE pc[v] BY DEF TailInv, Channel
  <2>5. CASE v = w
    <3>1. ~InHand("barrier", w) /\ \A i \in 1..Len(queue) : ~Is(queue[i], "barrier", w)
      BY <2>1, <2>5 DEF BarrierLast
    <3>2. \A i, j \in 1..Len(queue') :
            i < j /\ Is(queue'[i], "barrier", v) => ~Is(queue'[j], "write", v)
      <4> SUFFICES ASSUME NEW i \in 1..Len(queue'), NEW j \in 1..Len(queue'), i < j,
                          Is(queue'[i], "barrier", v)
                   PROVE  FALSE
        OBVIOUS
      <4>1. i = Len(queue) + 1 BY <1>1, <1>3, <2>5, <3>1
      <4> QED BY <1>1, <1>3, <4>1
    <3> QED BY <2>2, <2>4, <2>5, <3>1, <3>2 DEF BarrierLast
  <2>6. CASE v # w
    <3>1. \A i \in 1..Len(queue') :
            Is(queue'[i], "barrier", v) => i \in 1..Len(queue) /\ Is(queue[i], "barrier", v)
      BY <1>1, <1>3, <2>6 DEF Is
    <3> QED BY <2>1, <2>2, <2>3, <2>4, <2>6, <3>1 DEF BarrierLast
  <2> QED BY <2>5, <2>6
<1> QED BY <1>2, <1>4

(* The writer takes the job at the head.                                   *)
LEMMA TakeJob ==
  ASSUME TailInv, WriterTakes
  PROVE  Channel' /\ \A v \in Workers : BarrierLast(v)'
<1>1. hand = <<>> /\ queue # <<>> /\ hand' = <<Head(queue)>> /\ queue' = Tail(queue) /\ pc' = pc
  BY DEF WriterTakes
<1>2. /\ IsSeq(queue') /\ Len(queue) \in Nat /\ Len(queue) >= 1
      /\ hand'[1] = queue[1] /\ hand' # <<>>
      /\ Len(queue') = Len(queue) - 1
      /\ \A i \in 1..(Len(queue) - 1) : queue'[i] = queue[i + 1]
  BY <1>1, TailSeq DEF TailInv, Channel
<1>3. Channel' BY <1>1, <1>2 DEF TailInv, Channel, IsSeq
<1>4. /\ 1 \in 1..Len(queue)
      /\ \A i \in 1..Len(queue') : i + 1 \in 1..Len(queue) /\ 1 < i + 1 /\ queue'[i] = queue[i + 1]
  BY <1>2
<1>5. ASSUME NEW v \in Workers PROVE BarrierLast(v)'
  <2>1. BarrierLast(v) BY DEF TailInv
  <2>2. \A kind : InHand(kind, v)' <=> Is(queue[1], kind, v) BY <1>2 DEF InHand, Is
  <2>3. InHand("barrier", v)' => \A i \in 1..Len(queue') : ~Is(queue'[i], "write", v)
    BY <1>4, <2>1, <2>2 DEF BarrierLast
  <2>4. \A i, j \in 1..Len(queue') :
          i < j /\ Is(queue'[i], "barrier", v) => ~Is(queue'[j], "write", v)
    <3> SUFFICES ASSUME NEW i \in 1..Len(queue'), NEW j \in 1..Len(queue'), i < j,
                        Is(queue'[i], "barrier", v)
                 PROVE  ~Is(queue'[j], "write", v)
      OBVIOUS
    <3>1. i + 1 < j + 1 BY <1>2
    <3> QED BY <1>4, <2>1, <3>1 DEF BarrierLast
  <2>5. pc[v] \in {"run", "sent"} =>
          ~InHand("barrier", v)' /\ \A i \in 1..Len(queue') : ~Is(queue'[i], "barrier", v)
    BY <1>4, <2>1, <2>2 DEF BarrierLast
  <2>6. pc[v] = "done" =>
          ~InHand("write", v)' /\ \A i \in 1..Len(queue') : ~Is(queue'[i], "write", v)
    BY <1>4, <2>1, <2>2 DEF BarrierLast
  <2> QED BY <1>1, <2>3, <2>4, <2>5, <2>6 DEF BarrierLast, InHand, Is
<1> QED BY <1>3, <1>5

(* The writer is done with a job; the owner of a barrier goes on.          *)
LEMMA FinishJob ==
  ASSUME TailInv, hand # <<>>, hand' = <<>>, queue' = queue,
         \/ pc' = pc
         \/ /\ hand[1].kind = "barrier"
            /\ pc' = [pc EXCEPT ![hand[1].owner] = IF @ = "waiting" THEN "done" ELSE @]
  PROVE  Channel' /\ \A v \in Workers : BarrierLast(v)'
<1>1. pc \in [Workers -> {"run", "sent", "waiting", "done"}] BY DEF TailInv, Channel
<1>2. ASSUME NEW v \in Workers
      PROVE  /\ pc'[v] \in {"run", "sent", "waiting", "done"}
             /\ pc'[v] = pc[v] \/ (pc'[v] = "done" /\ InHand("barrier", v))
  BY <1>1 DEF InHand, Is
<1>3. DOMAIN pc' = Workers /\ pc' = [v \in Workers |-> pc'[v]] BY <1>1
<1>4. Channel' BY <1>2, <1>3 DEF TailInv, Channel, IsSeq
<1>5. ASSUME NEW v \in Workers PROVE BarrierLast(v)'
  <2>1. BarrierLast(v) BY DEF TailInv
  <2>2. \A kind : ~InHand(kind, v)' BY DEF InHand
  <2>3. pc'[v] = "done" => \A i \in 1..Len(queue) : ~Is(queue[i], "write", v)
    BY <1>2, <2>1 DEF BarrierLast
  <2>4. pc'[v] \in {"run", "sent"} => pc'[v] = pc[v] BY <1>2
  <2> QED BY <2>1, <2>2, <2>3, <2>4 DEF BarrierLast, Is
<1> QED BY <1>4, <1>5

(* A step that leaves the channel, the writer and the workers' places.     *)
LEMMA ChannelKept ==
  ASSUME TailInv, UNCHANGED <<pc, queue, hand>>
  PROVE  Channel' /\ \A v \in Workers : BarrierLast(v)'
BY DEF TailInv, Channel, IsSeq, BarrierLast, InHand, Is

(* The invariant holds at every step, at the start, and so throughout.     *)
LEMMA NextTailInv == TailInv /\ [Next]_vars => TailInv'
<1> SUFFICES ASSUME TailInv, [Next]_vars PROVE TailInv' OBVIOUS
<1>0. \A w \in Workers : w \in DOMAIN win /\ DOMAIN win[w] = Fields BY DEF TailInv, Windows
<1>1. ASSUME NEW w \in Workers, ObserveConn(w) PROVE TailInv'
  <2> DEFINE One(c, sec) == ObserveIp(win[w], c[2], sec, Len(hist[c[2]]) + 1)
             Then(c, sec) == Taken(win[w], One(c, sec), c[2], hist, sec, w)
             Both(c, sec) == ObserveIp(One(c, sec), c[1], sec, Len(Then(c, sec)[c[1]]) + 1)
  <2>1. PICK c \in Conns, sec \in Seconds :
          pc[w] = "run" /\ UNCHANGED <<pc, queue, hand>> /\ win' = [win EXCEPT ![w] = Both(c, sec)]
    BY <1>1 DEF ObserveConn
  <2>2. DOMAIN Both(c, sec) = Fields
    <3>1. DOMAIN One(c, sec) = Fields BY <1>0, ObservedFields
    <3> QED BY <3>1, ObservedFields
  <2> HIDE DEF Both
  <2>3. /\ DOMAIN win' = DOMAIN win /\ DOMAIN win'[w] = Fields
        /\ \A v \in Workers \ {w} : win'[v] = win[v]
    BY <1>0, <2>1, <2>2
  <2> QED BY <2>1, <2>3, RunningWindow, ChannelKept DEF TailInv
<1>2. ASSUME NEW w \in Workers, ObserveDns(w) PROVE TailInv'
  <2>1. PICK name \in Names, sec \in Seconds :
          /\ pc[w] = "run" /\ UNCHANGED <<pc, queue, hand>>
          /\ win' = [win EXCEPT ![w] = ObserveName(win[w], name, sec, Len(hist[name]) + 1)]
    BY <1>2 DEF ObserveDns
  <2>2. DOMAIN ObserveName(win[w], name, sec, Len(hist[name]) + 1) = Fields
    BY <1>0, ObservedFields
  <2>3. /\ DOMAIN win' = DOMAIN win /\ DOMAIN win'[w] = Fields
        /\ \A v \in Workers \ {w} : win'[v] = win[v]
    BY <1>0, <2>1, <2>2
  <2> QED BY <2>1, <2>3, RunningWindow, ChannelKept DEF TailInv
<1>3. ASSUME NEW w \in Workers, MaybeFlush(w) PROVE TailInv'
  <2>1. pc[w] = "run" /\ UNCHANGED <<pc, hand>> BY <1>3 DEF MaybeFlush
  <2>2. /\ DOMAIN win' = DOMAIN win /\ DOMAIN win'[w] = Fields
        /\ \A v \in Workers \ {w} : win'[v] = win[v]
    <3>1. DOMAIN Drained(win[w]) = Fields BY <1>0, DrainedWindow
    <3>2. CASE win' = [win EXCEPT ![w].lastFlush = clock] BY <1>0, <3>2
    <3>3. CASE win' = [win EXCEPT ![w] = [Drained(@) EXCEPT !.lastFlush = clock]]
      BY <1>0, <3>1, <3>3
    <3>4. CASE win' = [win EXCEPT ![w] = [Dropped(@) EXCEPT !.lastFlush = clock]]
      BY <1>0, <3>1, <3>4 DEF Dropped
    <3> QED BY <1>3, <3>2, <3>3, <3>4 DEF MaybeFlush
  <2>3. Windows' BY <2>1, <2>2, RunningWindow
  <2>4. CASE UNCHANGED queue BY <2>1, <2>3, <2>4, ChannelKept DEF TailInv
  <2>5. CASE queue' = Append(queue, WriteJob(w))
    <3>1. Is(WriteJob(w), "write", w) BY DEF WriteJob, Is
    <3>2. pc' \in [Workers -> {"run", "sent", "waiting", "done"}]
      BY <2>1 DEF TailInv, Channel
    <3> QED BY <2>1, <2>3, <2>5, <3>1, <3>2, AppendWrite DEF TailInv
  <2> QED BY <1>3, <2>4, <2>5 DEF MaybeFlush
<1>4. ASSUME NEW w \in Workers, SendTail(w) PROVE TailInv'
  <2>1. /\ pc[w] = "run" /\ pc' = [pc EXCEPT ![w] = "sent"] /\ hand' = hand
        /\ win' = [win EXCEPT ![w] = Drained(win[w])]
    BY <1>0, <1>4 DEF SendTail
  <2>2. /\ pc' \in [Workers -> {"run", "sent", "waiting", "done"}] /\ pc'[w] = "sent"
        /\ \A v \in Workers \ {w} : pc'[v] = pc[v]
    BY <2>1 DEF TailInv, Channel
  <2>3. Windows'
    <3>1. /\ DOMAIN win' = Workers /\ win'[w] = Drained(win[w])
          /\ \A v \in Workers \ {w} : win'[v] = win[v]
      BY <1>0, <2>1 DEF TailInv, Windows
    <3>2. DOMAIN Drained(win[w]) = Fields /\ Pending(Drained(win[w])) = 0
      BY <1>0, DrainedWindow
    <3>3. ASSUME NEW v \in Workers
          PROVE  DOMAIN win'[v] = Fields /\ (pc'[v] # "run" => Pending(win'[v]) = 0)
      <4>1. CASE v = w BY <3>1, <3>2, <4>1
      <4>2. CASE v # w
        <5>1. win'[v] = win[v] /\ pc'[v] = pc[v] BY <2>2, <3>1, <4>2
        <5> QED BY <5>1 DEF TailInv, Windows
      <4> QED BY <4>1, <4>2
    <3> QED BY <3>1, <3>3 DEF Windows, Pending
  <2>4. CASE queue' = Append(queue, WriteJob(w))
    <3>1. Is(WriteJob(w), "write", w) BY DEF WriteJob, Is
    <3> QED BY <2>1, <2>2, <2>3, <2>4, <3>1, AppendWrite DEF TailInv
  <2>5. CASE UNCHANGED queue
    <3>1. Channel' BY <2>1, <2>2, <2>5 DEF TailInv, Channel, IsSeq
    <3>2. ASSUME NEW v \in Workers PROVE BarrierLast(v)'
      <4>1. BarrierLast(v) BY DEF TailInv
      <4>2. (pc'[v] = "sent" /\ pc[v] = "run") \/ pc'[v] = pc[v] BY <2>1, <2>2
      <4> QED BY <2>1, <2>5, <4>1, <4>2 DEF BarrierLast, InHand, Is
    <3> QED BY <2>3, <3>1, <3>2 DEF TailInv
  <2> QED BY <1>4, <2>4, <2>5 DEF SendTail
<1>5. ASSUME NEW w \in Workers, SendBarrier(w) PROVE TailInv'
  <2>1. /\ pc[w] = "sent" /\ pc' = [pc EXCEPT ![w] = "waiting"] /\ hand' = hand /\ win' = win
        /\ queue' = Append(queue, BarrierJob(w))
    BY <1>5 DEF SendBarrier
  <2>2. Is(BarrierJob(w), "barrier", w) BY DEF BarrierJob, Is
  <2>3. Windows' BY <2>1 DEF TailInv, Windows, Channel
  <2> QED BY <2>1, <2>2, <2>3, AppendBarrier DEF TailInv
<1>6. CASE WriterTakes
  <2>1. Windows' BY <1>6 DEF WriterTakes, TailInv, Windows
  <2> QED BY <1>6, <2>1, TakeJob DEF TailInv
<1>7. CASE WriterStores \/ WriterFails \/ WriterAnswers
  <2>1. /\ hand # <<>> /\ hand' = <<>> /\ queue' = queue /\ win' = win
        /\ \/ pc' = pc
           \/ /\ hand[1].kind = "barrier"
              /\ pc' = [pc EXCEPT ![hand[1].owner] = IF @ = "waiting" THEN "done" ELSE @]
    BY <1>7 DEF WriterStores, WriterFails, WriterAnswers
  <2>2. \A v \in Workers : pc'[v] # "run" => pc[v] # "run"
    BY <2>1 DEF TailInv, Channel
  <2>3. Windows' BY <2>1, <2>2 DEF TailInv, Windows
  <2>4. Channel' /\ \A v \in Workers : BarrierLast(v)' BY <2>1, FinishJob
  <2> QED BY <2>3, <2>4 DEF TailInv
<1>8. CASE PruneCount \/ PruneDelete \/ Tick \/ Finished \/ UNCHANGED vars
  <2>1. UNCHANGED <<win, pc, queue, hand>> BY <1>8 DEF PruneCount, PruneDelete, Tick, Finished, vars
  <2>2. Windows' BY <2>1 DEF TailInv, Windows
  <2> QED BY <2>1, <2>2, ChannelKept DEF TailInv
<1> QED BY <1>1, <1>2, <1>3, <1>4, <1>5, <1>6, <1>7, <1>8 DEF Next

LEMMA InitTailInv == Init => TailInv
<1> SUFFICES ASSUME Init PROVE TailInv OBVIOUS
<1>1. Windows
  <2>1. DOMAIN EmptyWindow = Fields BY DEF EmptyWindow, Fields
  <2> QED BY <2>1 DEF Init, Windows
<1>2. Channel
  <2>1. <<>> \in Seq({}) OBVIOUS
  <2> QED BY <2>1 DEF Init, Channel, IsSeq
<1>3. \A w \in Workers : BarrierLast(w) BY DEF Init, BarrierLast, InHand
<1> QED BY <1>1, <1>2, <1>3 DEF TailInv

(* flush() returns to a worker only when the writer has answered its       *)
(* barrier, and by then every window it ever sent is stored or counted as  *)
(* an error, whatever the other workers send in between.                   *)
THEOREM SpecTailStored == Spec => []TailStored
<1>1. TailInv => TailStored
  <2> SUFFICES ASSUME TailInv, NEW w \in Workers, pc[w] = "done"
               PROVE  /\ Pending(win[w]) = 0
                      /\ \A i \in DOMAIN Jobs :
                           Jobs[i].owner = w => Jobs[i].kind # "write"
    BY DEF TailStored, Jobs
  <2>1. Pending(win[w]) = 0 BY DEF TailInv, Windows
  <2>2. ~InHand("write", w) /\ \A i \in 1..Len(queue) : ~Is(queue[i], "write", w)
    BY DEF TailInv, BarrierLast
  <2>3. ASSUME NEW i \in DOMAIN Jobs, Jobs[i].owner = w
        PROVE  Jobs[i].kind # "write"
    <3>1. \/ hand # <<>> /\ Jobs[i] = hand[1]
          \/ \E k \in 1..Len(queue) : Jobs[i] = queue[k]
      BY JobsOnTheirWay DEF TailInv, Jobs
    <3> QED BY <2>2, <2>3, <3>1 DEF InHand, Is
  <2> QED BY <2>1, <2>3
<1> QED BY <1>1, InitTailInv, NextTailInv, PTL DEF Spec

-----------------------------------------------------------------------------
(* A window as a plain map from observables to rows.                       *)

(* The array, the map and the direct-mapped array agree: an address has    *)
(* one place in the array, the map knows it, and the direct-mapped array   *)
(* holds nothing but what the map would answer.                            *)
Coherent(x) ==
  /\ IsSeq(x.ips)
  /\ \A i \in 1..Len(x.ips) : x.ips[i][1] \in DOMAIN x.index /\ x.index[x.ips[i][1]] = i
  /\ \A ip \in DOMAIN x.index :
       /\ x.index[ip] \in 1..Len(x.ips) /\ x.ips[x.index[ip]][1] = ip
       /\ ip \in Addresses \ Junk
  /\ \A s \in DOMAIN x.recent :
       x.recent[s][1] \in DOMAIN x.index /\ x.recent[s][2] = x.index[x.recent[s][1]]
  /\ IsFiniteSet(DOMAIN x.names) /\ DOMAIN x.names \subseteq Names
  /\ x.saturations \in Nat

(* The rows are those of before, and with one sighting more.               *)
Same(r, s) == DOMAIN s = DOMAIN r /\ \A q \in DOMAIN r : s[q] = r[q]

Saw(r, s, o, sec, n) ==
  /\ DOMAIN s = DOMAIN r \cup {o}
  /\ s[o] = IF o \in DOMAIN r THEN Bump(r[o], sec, n) ELSE NewRow(o, sec, n)
  /\ \A q \in DOMAIN r \ {o} : s[q] = r[q]

(* The rows of a window, through the map.                                  *)
LEMMA RowsOfWindow ==
  ASSUME NEW x, Coherent(x)
  PROVE  /\ DOMAIN Rows(x) = DOMAIN x.names \cup DOMAIN x.index
         /\ DOMAIN x.names \cap DOMAIN x.index = {}
         /\ \A o \in DOMAIN x.names : Rows(x)[o] = x.names[o]
         /\ \A o \in DOMAIN x.index : Rows(x)[o] = x.ips[x.index[o]][2]
<1>1. Len(x.ips) \in Nat /\ DOMAIN x.ips = 1..Len(x.ips)
  <2>1. PICK S : x.ips \in Seq(S) BY DEF Coherent, IsSeq
  <2> QED BY <2>1
<1>2. \A o \in DOMAIN x.index : o \in Held(x) BY <1>1 DEF Coherent, Held
<1>3. \A o \in Held(x) : o \in DOMAIN x.index BY <1>1 DEF Coherent, Held
<1>4. ASSUME NEW o \in DOMAIN x.index PROVE PlaceOf(x, o) = x.index[o]
  <2>1. x.index[o] \in DOMAIN x.ips /\ x.ips[x.index[o]][1] = o BY <1>1 DEF Coherent
  <2>2. PlaceOf(x, o) \in DOMAIN x.ips /\ x.ips[PlaceOf(x, o)][1] = o BY <2>1 DEF PlaceOf
  <2> QED BY <1>1, <2>2 DEF Coherent
<1>5. DOMAIN x.names \cap DOMAIN x.index = {} BY MetaAssumption DEF Coherent
<1>6. DOMAIN Rows(x) = DOMAIN x.names \cup DOMAIN x.index BY <1>2, <1>3 DEF Rows
<1> QED BY <1>2, <1>4, <1>5, <1>6 DEF Rows

(* What is pending are the rows.                                           *)
LEMMA NothingPending ==
  ASSUME NEW x, Coherent(x)
  PROVE  Pending(x) \in Nat /\ (Pending(x) = 0 => DOMAIN Rows(x) = {})
<1>1. Len(x.ips) \in Nat
  <2>1. PICK S : x.ips \in Seq(S) BY DEF Coherent, IsSeq
  <2> QED BY <2>1
<1>2. Cardinality(DOMAIN x.names) \in Nat BY FS_CardinalityType DEF Coherent
<1>3. ASSUME Pending(x) = 0 PROVE DOMAIN Rows(x) = {}
  <2>1. Len(x.ips) = 0 /\ Cardinality(DOMAIN x.names) = 0 BY <1>1, <1>2, <1>3 DEF Pending
  <2>2. DOMAIN x.names = {} BY <2>1, FS_EmptySet DEF Coherent
  <2>3. DOMAIN x.index = {} BY <2>1 DEF Coherent
  <2> QED BY <2>2, <2>3, RowsOfWindow
<1> QED BY <1>1, <1>2, <1>3 DEF Pending

(* A window with the same rows, map and array, whatever it remembers.      *)
LEMMA SameRows ==
  ASSUME NEW x, Coherent(x), NEW y,
         y.ips = x.ips, y.index = x.index, y.names = x.names, y.saturations \in Nat,
         \A s \in DOMAIN y.recent :
           y.recent[s][1] \in DOMAIN y.index /\ y.recent[s][2] = y.index[y.recent[s][1]]
  PROVE  Coherent(y) /\ Same(Rows(x), Rows(y))
<1>1. Coherent(y) BY DEF Coherent
<1>2. /\ DOMAIN Rows(x) = DOMAIN x.names \cup DOMAIN x.index
      /\ \A o \in DOMAIN x.names : Rows(x)[o] = x.names[o]
      /\ \A o \in DOMAIN x.index : Rows(x)[o] = x.ips[x.index[o]][2]
  BY RowsOfWindow
<1>3. /\ DOMAIN Rows(y) = DOMAIN y.names \cup DOMAIN y.index
      /\ \A o \in DOMAIN y.names : Rows(y)[o] = y.names[o]
      /\ \A o \in DOMAIN y.index : Rows(y)[o] = y.ips[y.index[o]][2]
  BY <1>1, RowsOfWindow
<1> QED BY <1>1, <1>2, <1>3 DEF Same

(* Recent::set() with the place the map has.                               *)
LEMMA RememberedRows ==
  ASSUME NEW x, DOMAIN x = Fields, Coherent(x), NEW ip \in DOMAIN x.index, NEW y,
         y = Remembered(x, ip, x.index[ip])
  PROVE  DOMAIN y = Fields /\ Coherent(y) /\ Same(Rows(x), Rows(y))
         /\ y.saturations = x.saturations
<1>1. CASE ip \in V4
  <2>1. /\ DOMAIN y = Fields /\ y.recent = Put(x.recent, SlotOf(ip), <<ip, x.index[ip]>>)
        /\ y.ips = x.ips /\ y.index = x.index /\ y.names = x.names
        /\ y.saturations = x.saturations
    BY <1>1 DEF Remembered, Fields
  <2>2. \A s \in DOMAIN y.recent :
          y.recent[s][1] \in DOMAIN y.index /\ y.recent[s][2] = y.index[y.recent[s][1]]
    BY <2>1 DEF Put, Coherent
  <2>3. x.saturations \in Nat BY DEF Coherent
  <2> QED BY <2>1, <2>2, <2>3, SameRows
<1>2. CASE ip \notin V4 BY <1>2 DEF Remembered, Same
<1> QED BY <1>1, <1>2

(* bump() at the place of an address.                                      *)
LEMMA BumpedRows ==
  ASSUME NEW x, DOMAIN x = Fields, Coherent(x), NEW ip \in DOMAIN x.index, NEW sec, NEW n,
         NEW y, y = BumpAt(x, x.index[ip], sec, n)
  PROVE  DOMAIN y = Fields /\ Coherent(y) /\ Saw(Rows(x), Rows(y), ip, sec, n)
         /\ y.index = x.index /\ y.saturations = x.saturations
<1> DEFINE at == x.index[ip]
           e == <<x.ips[at][1], Bump(x.ips[at][2], sec, n)>>
<1>1. PICK S : x.ips \in Seq(S) BY DEF Coherent, IsSeq
<1>2. at \in 1..Len(x.ips) /\ x.ips[at][1] = ip /\ ip \notin Names
  BY MetaAssumption DEF Coherent
<1>3. /\ DOMAIN y = Fields /\ y.ips = [x.ips EXCEPT ![at] = e]
      /\ y.index = x.index /\ y.names = x.names
      /\ y.saturations = x.saturations /\ y.recent = x.recent
  <2>1. y = [x EXCEPT !.ips = [x.ips EXCEPT ![at] = e]] BY DEF BumpAt
  <2> HIDE DEF e, at
  <2> QED BY <2>1 DEF Fields
<1>4. /\ y.ips \in Seq(S \cup {e}) /\ Len(y.ips) = Len(x.ips) /\ y.ips[at] = e
      /\ \A i \in 1..Len(x.ips) : i # at => y.ips[i] = x.ips[i]
  <2> HIDE DEF at, e
  <2>1. x.ips \in Seq(S \cup {e}) BY <1>1
  <2>2. at \in 1..Len(x.ips) BY <1>2
  <2>3. y.ips = [x.ips EXCEPT ![at] = e] BY <1>3
  <2>4. y.ips \in Seq(S \cup {e}) /\ Len(y.ips) = Len(x.ips) BY <2>1, <2>2, <2>3
  <2> QED BY <1>1, <2>2, <2>3, <2>4
<1>5. e[1] = ip /\ e[2] = Bump(x.ips[at][2], sec, n) BY <1>2
<1>0. at = x.index[ip] OBVIOUS
<1> HIDE DEF at, e
<1>6. \A i \in 1..Len(y.ips) : y.ips[i][1] = x.ips[i][1] BY <1>2, <1>4, <1>5
<1>7. Coherent(y)
  <2>1. IsSeq(y.ips) BY <1>4 DEF IsSeq
  <2>2. \A i \in 1..Len(y.ips) : y.ips[i][1] \in DOMAIN y.index /\ y.index[y.ips[i][1]] = i
    BY <1>3, <1>4, <1>6 DEF Coherent
  <2>3. \A o \in DOMAIN y.index :
          /\ y.index[o] \in 1..Len(y.ips) /\ y.ips[y.index[o]][1] = o
          /\ o \in Addresses \ Junk
    BY <1>3, <1>4, <1>6 DEF Coherent
  <2>4. \A s \in DOMAIN y.recent :
          y.recent[s][1] \in DOMAIN y.index /\ y.recent[s][2] = y.index[y.recent[s][1]]
    BY <1>3 DEF Coherent
  <2>5. /\ IsFiniteSet(DOMAIN y.names) /\ DOMAIN y.names \subseteq Names
        /\ y.saturations \in Nat
    BY <1>3 DEF Coherent
  <2> QED BY <2>1, <2>2, <2>3, <2>4, <2>5 DEF Coherent
<1>8. /\ DOMAIN Rows(x) = DOMAIN x.names \cup DOMAIN x.index
      /\ \A o \in DOMAIN x.names : Rows(x)[o] = x.names[o]
      /\ \A o \in DOMAIN x.index : Rows(x)[o] = x.ips[x.index[o]][2]
  BY RowsOfWindow
<1>9. /\ DOMAIN Rows(y) = DOMAIN y.names \cup DOMAIN y.index
      /\ \A o \in DOMAIN y.names : Rows(y)[o] = y.names[o]
      /\ \A o \in DOMAIN y.index : Rows(y)[o] = y.ips[y.index[o]][2]
  BY <1>7, RowsOfWindow
<1>10. Rows(y)[ip] = Bump(Rows(x)[ip], sec, n)
  <2>1. Rows(y)[ip] = e[2] BY <1>0, <1>3, <1>4, <1>9
  <2>2. Rows(x)[ip] = x.ips[at][2] BY <1>0, <1>8
  <2> QED BY <1>5, <2>1, <2>2
<1>11. ASSUME NEW q \in DOMAIN Rows(x), q # ip PROVE Rows(y)[q] = Rows(x)[q]
  <2>1. CASE q \in DOMAIN x.names BY <1>3, <1>8, <1>9, <2>1
  <2>2. CASE q \in DOMAIN x.index
    <3>1. x.index[q] \in 1..Len(x.ips) /\ x.index[q] # at BY <1>2, <1>11, <2>2 DEF Coherent
    <3>2. y.ips[x.index[q]] = x.ips[x.index[q]] BY <1>4, <3>1
    <3> QED BY <1>3, <1>8, <1>9, <2>2, <3>2
  <2> QED BY <1>8, <2>1, <2>2
<1>12. DOMAIN Rows(y) = DOMAIN Rows(x) \cup {ip} /\ ip \in DOMAIN Rows(x) BY <1>3, <1>8, <1>9
<1> QED BY <1>3, <1>7, <1>10, <1>11, <1>12 DEF Saw

(* A new address at the end of the array, and in the map.                  *)
LEMMA AddedRows ==
  ASSUME NEW x, DOMAIN x = Fields, Coherent(x), NEW ip \in Addresses \ Junk,
         ip \notin DOMAIN x.index, NEW sec, NEW n, NEW y,
         y = Pushed(x, ip, sec, n)
  PROVE  /\ DOMAIN y = Fields /\ Coherent(y) /\ Saw(Rows(x), Rows(y), ip, sec, n)
         /\ y.saturations = x.saturations
         /\ ip \in DOMAIN y.index /\ y.index[ip] = Len(x.ips) + 1
<1> DEFINE e == <<ip, NewRow(ip, sec, n)>>
<1>1. IsSeq(x.ips) BY DEF Coherent
<1>2. /\ DOMAIN y = Fields /\ y.ips = Append(x.ips, e)
      /\ y.index = Put(x.index, ip, Len(x.ips) + 1) /\ y.names = x.names
      /\ y.saturations = x.saturations /\ y.recent = x.recent
  BY DEF Fields, Pushed
<1>3. e[1] = ip /\ e[2] = NewRow(ip, sec, n) OBVIOUS
<1> HIDE DEF e
<1>4. /\ IsSeq(y.ips) /\ Len(x.ips) \in Nat /\ Len(y.ips) = Len(x.ips) + 1
      /\ y.ips[Len(x.ips) + 1] = e /\ \A i \in 1..Len(x.ips) : y.ips[i] = x.ips[i]
  BY <1>1, <1>2, AppendSeq
<1>5. /\ DOMAIN y.index = DOMAIN x.index \cup {ip} /\ y.index[ip] = Len(x.ips) + 1
      /\ \A o \in DOMAIN x.index : y.index[o] = x.index[o]
  BY <1>2 DEF Put
<1>6. \A i \in 1..Len(y.ips) : i \in 1..Len(x.ips) \/ i = Len(x.ips) + 1 BY <1>4
<1>7. Coherent(y)
  <2>1. ASSUME NEW i \in 1..Len(y.ips)
        PROVE  y.ips[i][1] \in DOMAIN y.index /\ y.index[y.ips[i][1]] = i
    <3>1. CASE i = Len(x.ips) + 1 BY <1>3, <1>4, <1>5, <3>1
    <3>2. CASE i \in 1..Len(x.ips)
      <4>1. x.ips[i][1] \in DOMAIN x.index /\ x.index[x.ips[i][1]] = i BY <3>2 DEF Coherent
      <4> QED BY <1>4, <1>5, <3>2, <4>1
    <3> QED BY <1>6, <3>1, <3>2
  <2>2. ASSUME NEW o \in DOMAIN y.index
        PROVE  /\ y.index[o] \in 1..Len(y.ips) /\ y.ips[y.index[o]][1] = o
               /\ o \in Addresses \ Junk
    <3>1. CASE o = ip BY <1>3, <1>4, <1>5, <3>1
    <3>2. CASE o \in DOMAIN x.index
      <4>1. x.index[o] \in 1..Len(x.ips) /\ x.ips[x.index[o]][1] = o /\ o \in Addresses \ Junk
        BY <3>2 DEF Coherent
      <4> QED BY <1>4, <1>5, <3>2, <4>1
    <3> QED BY <1>5, <3>1, <3>2
  <2>3. \A s \in DOMAIN y.recent :
          y.recent[s][1] \in DOMAIN y.index /\ y.recent[s][2] = y.index[y.recent[s][1]]
    BY <1>2, <1>5 DEF Coherent
  <2> QED BY <1>2, <1>4, <2>1, <2>2, <2>3 DEF Coherent
<1>8. /\ DOMAIN Rows(x) = DOMAIN x.names \cup DOMAIN x.index
      /\ \A o \in DOMAIN x.names : Rows(x)[o] = x.names[o]
      /\ \A o \in DOMAIN x.index : Rows(x)[o] = x.ips[x.index[o]][2]
  BY RowsOfWindow
<1>9. /\ DOMAIN Rows(y) = DOMAIN y.names \cup DOMAIN y.index
      /\ \A o \in DOMAIN y.names : Rows(y)[o] = y.names[o]
      /\ \A o \in DOMAIN y.index : Rows(y)[o] = y.ips[y.index[o]][2]
  BY <1>7, RowsOfWindow
<1>10. ip \notin DOMAIN Rows(x) BY <1>8, MetaAssumption DEF Coherent
<1>11. Rows(y)[ip] = NewRow(ip, sec, n) BY <1>3, <1>4, <1>5, <1>9
<1>12. ASSUME NEW q \in DOMAIN Rows(x) PROVE Rows(y)[q] = Rows(x)[q]
  <2>1. CASE q \in DOMAIN x.names BY <1>2, <1>8, <1>9, <2>1
  <2>2. CASE q \in DOMAIN x.index
    <3>1. x.index[q] \in 1..Len(x.ips) BY <2>2 DEF Coherent
    <3> QED BY <1>4, <1>5, <1>8, <1>9, <2>2, <3>1
  <2> QED BY <1>8, <2>1, <2>2
<1>13. DOMAIN Rows(y) = DOMAIN Rows(x) \cup {ip} BY <1>2, <1>5, <1>8, <1>9
<1> QED BY <1>2, <1>5, <1>7, <1>10, <1>11, <1>12, <1>13 DEF Saw

(* What a sighting does to the rows of a window: nothing if it is junk or  *)
(* refused, else it is in the row of its observable.                       *)
Noted(x, y, o, sec, n) ==
  /\ DOMAIN y = Fields /\ Coherent(y)
  /\ o \in Junk \/ y.saturations > x.saturations => Same(Rows(x), Rows(y))
  /\ ~(o \in Junk \/ y.saturations > x.saturations) => Saw(Rows(x), Rows(y), o, sec, n)

(* A refused sighting is counted.                                          *)
LEMMA RefusedRows ==
  ASSUME NEW x, DOMAIN x = Fields, Coherent(x), NEW y,
         y = [x EXCEPT !.saturations = @ + 1], NEW o, NEW sec, NEW n
  PROVE  Noted(x, y, o, sec, n)
<1>1. /\ DOMAIN y = Fields /\ y.ips = x.ips /\ y.index = x.index /\ y.names = x.names
      /\ y.recent = x.recent /\ y.saturations = x.saturations + 1
  BY DEF Fields
<1>2. x.saturations \in Nat BY DEF Coherent
<1>3. y.saturations \in Nat /\ y.saturations > x.saturations BY <1>1, <1>2
<1>4. \A s \in DOMAIN y.recent :
        y.recent[s][1] \in DOMAIN y.index /\ y.recent[s][2] = y.index[y.recent[s][1]]
  BY <1>1 DEF Coherent
<1>5. Coherent(y) /\ Same(Rows(x), Rows(y)) BY <1>1, <1>3, <1>4, SameRows
<1> QED BY <1>1, <1>3, <1>5 DEF Noted

(* observe_ip(), by whichever of its paths.                                *)
LEMMA ObservedIp ==
  ASSUME NEW x, DOMAIN x = Fields, Coherent(x), NEW ip \in Addresses, NEW sec, NEW n,
         NEW y, y = ObserveIp(x, ip, sec, n)
  PROVE  Noted(x, y, ip, sec, n)
<1>0. x.saturations \in Nat /\ ~(x.saturations > x.saturations) BY DEF Coherent
<1>1. CASE ip \in DOMAIN x.index
  <2> DEFINE b == BumpAt(x, x.index[ip], sec, n)
  <2>1. /\ DOMAIN b = Fields /\ Coherent(b) /\ Saw(Rows(x), Rows(b), ip, sec, n)
        /\ b.index = x.index /\ b.saturations = x.saturations
    BY <1>1, BumpedRows
  <2>2. ip \notin Junk BY <1>1 DEF Coherent
  <2>3. CASE Recent(x, ip)
    <3>1. x.recent[SlotOf(ip)][2] = x.index[ip] BY <2>3 DEF Recent, Coherent
    <3>2. y = b BY <2>3, <3>1 DEF ObserveIp
    <3> HIDE DEF b
    <3> QED BY <1>0, <2>1, <2>2, <3>2 DEF Noted
  <2>4. CASE ~Recent(x, ip)
    <3>1. y = Remembered(b, ip, x.index[ip]) BY <1>1, <2>4 DEF ObserveIp
    <3> HIDE DEF b
    <3>2. y = Remembered(b, ip, b.index[ip]) /\ ip \in DOMAIN b.index BY <1>1, <2>1, <3>1
    <3>3. /\ DOMAIN y = Fields /\ Coherent(y) /\ Same(Rows(b), Rows(y))
          /\ y.saturations = b.saturations
      BY <2>1, <3>2, RememberedRows
    <3>4. Saw(Rows(x), Rows(y), ip, sec, n) BY <2>1, <3>3 DEF Saw, Same
    <3> QED BY <1>0, <2>1, <2>2, <3>3, <3>4 DEF Noted
  <2> QED BY <2>3, <2>4
<1>2. CASE ip \notin DOMAIN x.index
  <2>0. ~Recent(x, ip) BY <1>2 DEF Recent, Coherent
  <2>1. CASE ip \in Junk
    <3>1. y = x BY <1>2, <2>0, <2>1 DEF ObserveIp
    <3> QED BY <2>1, <3>1 DEF Noted, Same
  <2>2. CASE ip \notin Junk /\ Pending(x) >= MaxWindowKeys
    <3>1. y = [x EXCEPT !.saturations = @ + 1] BY <1>2, <2>0, <2>2 DEF ObserveIp
    <3> QED BY <3>1, RefusedRows
  <2>3. CASE ip \notin Junk /\ ~(Pending(x) >= MaxWindowKeys)
    <3> DEFINE b == Pushed(x, ip, sec, n)
    <3>1. /\ DOMAIN b = Fields /\ Coherent(b) /\ Saw(Rows(x), Rows(b), ip, sec, n)
          /\ b.saturations = x.saturations
          /\ ip \in DOMAIN b.index /\ b.index[ip] = Len(x.ips) + 1
      BY <1>2, <2>3, AddedRows
    <3>2. y = Remembered(b, ip, Len(x.ips) + 1) BY <1>2, <2>0, <2>3 DEF ObserveIp
    <3> HIDE DEF b
    <3>3. /\ DOMAIN y = Fields /\ Coherent(y) /\ Same(Rows(b), Rows(y))
          /\ y.saturations = b.saturations
      BY <3>1, <3>2, RememberedRows
    <3>4. Saw(Rows(x), Rows(y), ip, sec, n) BY <3>1, <3>3 DEF Saw, Same
    <3> QED BY <1>0, <2>3, <3>1, <3>3, <3>4 DEF Noted
  <2> QED BY <2>1, <2>2, <2>3
<1> QED BY <1>1, <1>2

(* observe_dns().                                                          *)
LEMMA ObservedName ==
  ASSUME NEW x, DOMAIN x = Fields, Coherent(x), NEW name \in Names, NEW sec, NEW n,
         NEW y, y = ObserveName(x, name, sec, n)
  PROVE  Noted(x, y, name, sec, n)
<1>0. x.saturations \in Nat /\ ~(x.saturations > x.saturations) /\ name \notin Junk
  BY MetaAssumption DEF Coherent
<1>1. ASSUME NEW row, y = [x EXCEPT !.names = Put(x.names, name, row)],
             row = IF name \in DOMAIN x.names THEN Bump(x.names[name], sec, n)
                   ELSE NewRow(name, sec, n)
      PROVE  Noted(x, y, name, sec, n)
  <2>1. /\ DOMAIN y = Fields /\ y.ips = x.ips /\ y.index = x.index
        /\ y.names = Put(x.names, name, row)
        /\ y.recent = x.recent /\ y.saturations = x.saturations
    BY <1>1 DEF Fields
  <2>2. /\ DOMAIN y.names = DOMAIN x.names \cup {name} /\ y.names[name] = row
        /\ \A q \in DOMAIN x.names : q # name => y.names[q] = x.names[q]
    BY <2>1 DEF Put
  <2>3. IsFiniteSet(DOMAIN y.names)
    <3>1. IsFiniteSet(DOMAIN x.names) BY DEF Coherent
    <3>2. IsFiniteSet(DOMAIN x.names \cup {name}) BY <3>1, FS_AddElement
    <3> QED BY <2>2, <3>2
  <2>4. Coherent(y) BY <2>1, <2>2, <2>3 DEF Coherent
  <2>5. /\ DOMAIN Rows(x) = DOMAIN x.names \cup DOMAIN x.index
        /\ DOMAIN x.names \cap DOMAIN x.index = {}
        /\ \A o \in DOMAIN x.names : Rows(x)[o] = x.names[o]
        /\ \A o \in DOMAIN x.index : Rows(x)[o] = x.ips[x.index[o]][2]
    BY RowsOfWindow
  <2>6. /\ DOMAIN Rows(y) = DOMAIN y.names \cup DOMAIN y.index
        /\ DOMAIN y.names \cap DOMAIN y.index = {}
        /\ \A o \in DOMAIN y.names : Rows(y)[o] = y.names[o]
        /\ \A o \in DOMAIN y.index : Rows(y)[o] = y.ips[y.index[o]][2]
    BY <2>4, RowsOfWindow
  <2>7. \A q \in DOMAIN Rows(x) \ {name} : Rows(y)[q] = Rows(x)[q]
    BY <2>1, <2>2, <2>5, <2>6
  <2>8. name \in DOMAIN Rows(x) <=> name \in DOMAIN x.names BY <2>1, <2>2, <2>5, <2>6
  <2>9. DOMAIN Rows(y) = DOMAIN Rows(x) \cup {name} BY <2>1, <2>2, <2>5, <2>6
  <2>10. Rows(y)[name] = row BY <2>2, <2>6
  <2>11. name \in DOMAIN x.names => Rows(x)[name] = x.names[name] BY <2>5
  <2>12. Saw(Rows(x), Rows(y), name, sec, n) BY <1>1, <2>7, <2>8, <2>9, <2>10, <2>11 DEF Saw
  <2> QED BY <1>0, <2>1, <2>4, <2>12 DEF Noted
<1>2. CASE name \in DOMAIN x.names
  <2>1. y = [x EXCEPT !.names = Put(x.names, name, Bump(x.names[name], sec, n))]
    BY <1>2 DEF ObserveName
  <2> QED BY <1>1, <1>2, <2>1
<1>3. CASE name \notin DOMAIN x.names /\ Pending(x) >= MaxWindowKeys
  <2>1. y = [x EXCEPT !.saturations = @ + 1] BY <1>3 DEF ObserveName
  <2> QED BY <2>1, RefusedRows
<1>4. CASE name \notin DOMAIN x.names /\ ~(Pending(x) >= MaxWindowKeys)
  <2>1. y = [x EXCEPT !.names = Put(x.names, name, NewRow(name, sec, n))]
    BY <1>4 DEF ObserveName
  <2> QED BY <1>1, <1>4, <2>1
<1> QED BY <1>2, <1>3, <1>4

(* take_ips(): nothing is left, and nothing that points into what is gone. *)
LEMMA DrainedRows ==
  ASSUME NEW x, DOMAIN x = Fields, NEW y,
         y.ips = <<>>, y.index = None, y.recent = None, y.names = None,
         y.saturations \in Nat
  PROVE  Coherent(y) /\ DOMAIN Rows(y) = {}
<1>1. DOMAIN None = {} BY DEF None
<1>2. Len(y.ips) = 0 /\ IsSeq(y.ips)
  <2>1. <<>> \in Seq({}) OBVIOUS
  <2> QED BY <2>1 DEF IsSeq
<1>3. Coherent(y) BY <1>1, <1>2, FS_EmptySet DEF Coherent
<1> QED BY <1>1, <1>3, RowsOfWindow

-----------------------------------------------------------------------------
(* The account: sightings h and places P with the rows at[p].              *)

Sighting == [sec : Nat, by : Workers]

Secs == [Observables -> Seq(Sighting)]

(* Rows that stand for sightings of one worker only: those of its window.  *)
Own(rows, h, w) == \A o \in DOMAIN rows : \A n \in rows[o].seen : h[o][n].by = w

HonestRows(rows, h) ==
  /\ DOMAIN rows \subseteq Observables
  /\ \A o \in DOMAIN rows : HonestRow(o, rows[o], h[o])

Once(P, at, o, n) ==
  \E p \in P : Counts(at[p], o, n) /\ \A q \in P \ {p} : ~Counts(at[q], o, n)

Account(P, at, h) ==
  /\ \A p \in P : HonestRows(at[p], h)
  /\ \A o \in Observables : \A n \in DOMAIN h[o] : Once(P, at, o, n)

(* The sightings of an observable and their places.                        *)
LEMMA SecsOf ==
  ASSUME NEW h \in Secs, NEW o \in Observables
  PROVE  /\ h[o] \in Seq(Sighting) /\ Len(h[o]) \in Nat /\ DOMAIN h[o] = 1..Len(h[o])
         /\ IsFiniteSet(DOMAIN h[o])
         /\ \A n \in DOMAIN h[o] : h[o][n] \in Sighting /\ h[o][n].sec \in Nat
<1>1. /\ h[o] \in Seq(Sighting) /\ Len(h[o]) \in Nat /\ DOMAIN h[o] = 1..Len(h[o])
      /\ \A n \in DOMAIN h[o] : h[o][n] \in Sighting
  BY DEF Secs
<1>2. IsFiniteSet(1..Len(h[o])) BY <1>1, FS_Interval
<1>3. \A e \in Sighting : e.sec \in Nat BY DEF Sighting
<1> QED BY <1>1, <1>2, <1>3

(* MIN and MAX of two.                                                     *)
LEMMA MinMax ==
  ASSUME NEW a \in Nat, NEW b \in Nat
  PROVE  /\ Min({a, b}) \in {a, b} /\ Min({a, b}) <= a /\ Min({a, b}) <= b
         /\ Max({a, b}) \in {a, b} /\ a <= Max({a, b}) /\ b <= Max({a, b})
<1>1. \E x \in {a, b} : \A y \in {a, b} : x <= y
  <2>1. CASE a <= b BY <2>1
  <2>2. CASE b <= a BY <2>2
  <2> QED BY <2>1, <2>2
<1>2. \E x \in {a, b} : \A y \in {a, b} : x >= y
  <2>1. CASE a <= b BY <2>1
  <2>2. CASE b <= a BY <2>2
  <2> QED BY <2>1, <2>2
<1>3. Min({a, b}) \in {a, b} /\ \A y \in {a, b} : Min({a, b}) <= y BY <1>1 DEF Min
<1>4. Max({a, b}) \in {a, b} /\ \A y \in {a, b} : Max({a, b}) >= y BY <1>2 DEF Max
<1> QED BY <1>3, <1>4

(* The upsert of two rows without a sighting in common.                    *)
LEMMA HonestMerge ==
  ASSUME NEW h \in Secs, NEW o \in Observables, NEW a, NEW b,
         HonestRow(o, a, h[o]), HonestRow(o, b, h[o]), a.seen \cap b.seen = {}
  PROVE  HonestRow(o, Merged(a, b), h[o])
<1> DEFINE m == Merged(a, b)
           s == h[o]
<1>1. IsFiniteSet(DOMAIN s) /\ \A n \in DOMAIN s : s[n].sec \in Nat BY SecsOf
<1>2. /\ m.flags = a.flags /\ m.first = Min({a.first, b.first}) /\ m.last = Max({a.last, b.last})
      /\ m.count = a.count + b.count /\ m.seen = a.seen \cup b.seen
  BY DEF Merged
<1> HIDE DEF m, s
<1>h. HonestRow(o, a, s) /\ HonestRow(o, b, s) BY DEF s
<1>3. a.first \in Nat /\ b.first \in Nat /\ a.last \in Nat /\ b.last \in Nat
  BY <1>1, <1>h DEF HonestRow
<1>4. /\ m.first \in {a.first, b.first} /\ m.first <= a.first /\ m.first <= b.first
      /\ m.last \in {a.last, b.last} /\ a.last <= m.last /\ b.last <= m.last
  BY <1>2, <1>3, MinMax
<1>5. m.seen # {} /\ m.seen \subseteq DOMAIN s /\ m.flags = FlagsOf(o) BY <1>2, <1>h DEF HonestRow
<1>6. m.count = Cardinality(m.seen)
  <2>1. IsFiniteSet(a.seen) /\ IsFiniteSet(b.seen) BY <1>1, <1>h, FS_Subset DEF HonestRow
  <2>2. Cardinality(a.seen \cup b.seen)
          = Cardinality(a.seen) + Cardinality(b.seen) - Cardinality(a.seen \cap b.seen)
    BY <2>1, FS_Union
  <2>3. Cardinality(a.seen \cap b.seen) = 0 BY FS_EmptySet
  <2>4. Cardinality(a.seen) \in Nat /\ Cardinality(b.seen) \in Nat BY <2>1, FS_CardinalityType
  <2>5. a.count = Cardinality(a.seen) /\ b.count = Cardinality(b.seen) BY <1>h DEF HonestRow
  <2> QED BY <1>2, <2>2, <2>3, <2>4, <2>5
<1>7. ASSUME InOrder(m.seen, s) PROVE Spans(m, s)
  <2>1. InOrder(a.seen, s) /\ InOrder(b.seen, s) BY <1>2, <1>7 DEF InOrder
  <2>2. Spans(a, s) /\ Spans(b, s) BY <1>h, <2>1 DEF HonestRow
  <2>3. ASSUME NEW n \in m.seen PROVE m.first <= s[n].sec /\ s[n].sec <= m.last
    <3>1. s[n].sec \in Nat BY <1>1, <1>5
    <3>2. CASE n \in a.seen
      <4>1. a.first <= s[n].sec /\ s[n].sec <= a.last BY <2>2, <3>2 DEF Spans
      <4> QED BY <1>3, <1>4, <3>1, <4>1
    <3>3. CASE n \in b.seen
      <4>1. b.first <= s[n].sec /\ s[n].sec <= b.last BY <2>2, <3>3 DEF Spans
      <4> QED BY <1>3, <1>4, <3>1, <4>1
    <3> QED BY <1>2, <3>2, <3>3
  <2> QED BY <2>3 DEF Spans
<1>8. \E n \in m.seen : m.first = s[n].sec BY <1>2, <1>4, <1>h DEF HonestRow
<1>9. \E n \in m.seen : m.last = s[n].sec BY <1>2, <1>4, <1>h DEF HonestRow
<1>10. HonestRow(o, m, s) BY <1>5, <1>6, <1>7, <1>8, <1>9 DEF HonestRow
<1> QED BY <1>10 DEF m, s

(* One sighting more leaves the other rows as they are; the row it is in   *)
(* takes its second for the last.  That is a maximum when the row's other  *)
(* sightings are the same worker's and its clock moves forward.            *)
LEMMA HonestBump ==
  ASSUME NEW h \in Secs, NEW o \in Observables, NEW e \in Sighting, NEW s,
         s = Append(h[o], e), NEW r, HonestRow(o, r, h[o])
  PROVE  /\ HonestRow(o, r, s)
         /\ (\A n \in r.seen : h[o][n].by = e.by) =>
              HonestRow(o, Bump(r, e.sec, Len(h[o]) + 1), s)
<1> DEFINE n == Len(h[o]) + 1
           m == Bump(r, e.sec, n)
           t == h[o]
<1>1. /\ t \in Seq(Sighting) /\ Len(t) \in Nat /\ DOMAIN t = 1..Len(t) /\ IsFiniteSet(DOMAIN t)
      /\ \A i \in DOMAIN t : t[i] \in Sighting /\ t[i].sec \in Nat
  BY SecsOf
<1>2. /\ m.flags = r.flags /\ m.first = r.first /\ m.last = e.sec
      /\ m.count = r.count + 1 /\ m.seen = r.seen \cup {n}
  BY DEF Bump
<1>h. HonestRow(o, r, t) /\ s = Append(t, e) /\ n = Len(t) + 1 /\ e.sec \in Nat
  BY DEF Sighting
<1> HIDE DEF m, t, n
<1>3. s \in Seq(Sighting) /\ Len(s) = n /\ DOMAIN s = 1..n /\ s[n] = e /\ \A i \in 1..Len(t) : s[i] = t[i]
  BY <1>1, <1>h
<1>4. /\ r.seen \subseteq DOMAIN t /\ DOMAIN t \subseteq DOMAIN s /\ n \in DOMAIN s /\ n \notin r.seen
      /\ \A i \in r.seen : i < n /\ i # n
  <2>1. n \notin 1..Len(t) /\ n \in 1..n /\ \A i \in 1..Len(t) : i \in 1..n /\ i < n /\ i # n
    BY <1>1, <1>h
  <2>2. r.seen \subseteq DOMAIN t BY <1>h DEF HonestRow
  <2> QED BY <1>1, <1>3, <2>1, <2>2
<1>s. \A i \in r.seen : s[i] = t[i] /\ s[i].sec \in Nat BY <1>1, <1>3, <1>4
<1>5. HonestRow(o, r, s)
  <2>1. InOrder(r.seen, s) => InOrder(r.seen, t) BY <1>s DEF InOrder
  <2>2. Spans(r, t) => Spans(r, s) BY <1>s DEF Spans
  <2>3. /\ \E i \in r.seen : r.first = s[i].sec
        /\ \E i \in r.seen : r.last = s[i].sec
    BY <1>h, <1>s DEF HonestRow
  <2>4. r.seen \subseteq DOMAIN s BY <1>4
  <2> QED BY <1>h, <2>1, <2>2, <2>3, <2>4 DEF HonestRow
<1>6. m.count = Cardinality(m.seen)
  <2>1. IsFiniteSet(r.seen) BY <1>1, <1>4, FS_Subset
  <2>2. Cardinality(r.seen \cup {n}) = Cardinality(r.seen) + 1 BY <1>4, <2>1, FS_AddElement
  <2>3. r.count = Cardinality(r.seen) BY <1>h DEF HonestRow
  <2> QED BY <1>2, <2>2, <2>3
<1>7. ASSUME \A i \in r.seen : t[i].by = e.by, InOrder(m.seen, s) PROVE Spans(m, s)
  <2>1. \A i \in r.seen : s[i].sec <= e.sec
    <3> SUFFICES ASSUME NEW i \in r.seen PROVE s[i].sec <= e.sec OBVIOUS
    <3>1. i \in m.seen /\ n \in m.seen /\ i < n BY <1>2, <1>4
    <3>2. s[i].by = s[n].by BY <1>3, <1>7, <1>s
    <3>3. s[i].sec <= s[n].sec BY <1>7, <3>1, <3>2 DEF InOrder
    <3> QED BY <1>3, <3>3
  <2>2. InOrder(r.seen, s) BY <1>2, <1>7 DEF InOrder
  <2>3. Spans(r, s) BY <1>5, <2>2 DEF HonestRow
  <2>4. r.first \in Nat /\ r.first <= e.sec
    <3>1. PICK i \in r.seen : r.first = s[i].sec BY <1>5 DEF HonestRow
    <3> QED BY <1>s, <2>1, <3>1
  <2>5. ASSUME NEW i \in m.seen PROVE m.first <= s[i].sec /\ s[i].sec <= m.last
    <3>1. CASE i = n
      <4>1. e.sec <= e.sec BY <1>h
      <4> QED BY <1>2, <1>3, <2>4, <3>1, <4>1
    <3>2. CASE i \in r.seen
      <4>1. r.first <= s[i].sec BY <2>3, <3>2 DEF Spans
      <4> QED BY <1>2, <2>1, <3>2, <4>1
    <3> QED BY <1>2, <3>1, <3>2
  <2> QED BY <2>5 DEF Spans
<1>9. \E i \in m.seen : m.first = s[i].sec BY <1>2, <1>5 DEF HonestRow
<1>10. \E i \in m.seen : m.last = s[i].sec BY <1>2, <1>3
<1>11. m.flags = FlagsOf(o) BY <1>2, <1>h DEF HonestRow
<1>12. m.seen # {} /\ m.seen \subseteq DOMAIN s BY <1>2, <1>4
<1>13. (\A i \in r.seen : t[i].by = e.by) => HonestRow(o, m, s)
  BY <1>6, <1>7, <1>9, <1>10, <1>11, <1>12 DEF HonestRow
<1> QED BY <1>5, <1>13 DEF m, n, t

LEMMA HonestNew ==
  ASSUME NEW h \in Secs, NEW o \in Observables, NEW e \in Sighting, NEW s,
         s = Append(h[o], e)
  PROVE  HonestRow(o, NewRow(o, e.sec, Len(h[o]) + 1), s)
<1> DEFINE n == Len(h[o]) + 1
           m == NewRow(o, e.sec, n)
<1>1. h[o] \in Seq(Sighting) /\ Len(h[o]) \in Nat /\ e.sec \in Nat BY SecsOf DEF Sighting
<1>2. n \in DOMAIN s /\ s[n] = e BY <1>1
<1>3. /\ m.flags = FlagsOf(o) /\ m.first = e.sec /\ m.last = e.sec /\ m.count = 1 /\ m.seen = {n}
  BY DEF NewRow
<1>4. Cardinality({n}) = 1 BY FS_Singleton
<1> HIDE DEF m, n
<1>5. Spans(m, s) BY <1>1, <1>2, <1>3 DEF Spans
<1>6. HonestRow(o, m, s) BY <1>2, <1>3, <1>4, <1>5 DEF HonestRow
<1> QED BY <1>6 DEF m, n

Grown(h, o, e) == [h EXCEPT ![o] = Append(@, e)]

(* A sighting is added to the rows of one place, all of the same worker.   *)
LEMMA Sighted ==
  ASSUME NEW h \in Secs, NEW P, NEW at, Account(P, at, h), NEW p \in P,
         NEW o \in Observables, NEW e \in Sighting, Own(at[p], h, e.by),
         NEW bt, Saw(at[p], bt[p], o, e.sec, Len(h[o]) + 1), \A q \in P \ {p} : bt[q] = at[q],
         NEW g, g = Grown(h, o, e)
  PROVE  g \in Secs /\ Account(P, bt, g)
<1> DEFINE new == Len(h[o]) + 1
<1>1. h[o] \in Seq(Sighting) /\ Len(h[o]) \in Nat /\ DOMAIN h[o] = 1..Len(h[o]) BY SecsOf
<1>2. /\ g \in Secs /\ g[o] = Append(h[o], e) /\ \A q \in Observables : q # o => g[q] = h[q]
  <2>1. Append(h[o], e) \in Seq(Sighting) BY <1>1
  <2> QED BY <2>1 DEF Secs, Grown
<1>3. DOMAIN g[o] = DOMAIN h[o] \cup {new} /\ new \notin DOMAIN h[o]
  <2>1. DOMAIN g[o] = 1..(Len(h[o]) + 1) BY <1>1, <1>2
  <2>2. 1..(Len(h[o]) + 1) = (1..Len(h[o])) \cup {Len(h[o]) + 1} BY <1>1
  <2>3. Len(h[o]) + 1 \notin 1..Len(h[o]) BY <1>1
  <2> QED BY <1>1, <2>1, <2>2, <2>3
<1>4. /\ DOMAIN bt[p] = DOMAIN at[p] \cup {o}
      /\ bt[p][o] = IF o \in DOMAIN at[p] THEN Bump(at[p][o], e.sec, new)
                    ELSE NewRow(o, e.sec, new)
      /\ \A q \in DOMAIN at[p] \ {o} : bt[p][q] = at[p][q]
  BY DEF Saw
<1>5. \A q \in P : HonestRows(at[q], h) BY DEF Account
<1>6. ASSUME NEW q \in P PROVE HonestRows(at[q], g)
  <2>1. HonestRows(at[q], h) BY <1>5
  <2>2. ASSUME NEW x \in DOMAIN at[q] PROVE HonestRow(x, at[q][x], g[x])
    <3>1. HonestRow(x, at[q][x], h[x]) /\ x \in Observables BY <2>1 DEF HonestRows
    <3>2. CASE x # o BY <1>2, <3>1, <3>2
    <3>3. CASE x = o BY <1>2, <3>1, <3>3, HonestBump
    <3> QED BY <3>2, <3>3
  <2> QED BY <2>1, <2>2 DEF HonestRows
<1>7. HonestRow(o, bt[p][o], g[o])
  <2>1. CASE o \in DOMAIN at[p]
    <3>1. HonestRow(o, at[p][o], h[o]) BY <1>5, <2>1 DEF HonestRows
    <3>o. \A n \in at[p][o].seen : h[o][n].by = e.by BY <2>1 DEF Own
    <3>2. HonestRow(o, Bump(at[p][o], e.sec, new), g[o]) BY <1>2, <3>1, <3>o, HonestBump
    <3> QED BY <1>4, <2>1, <3>2
  <2>2. CASE o \notin DOMAIN at[p]
    <3>1. HonestRow(o, NewRow(o, e.sec, new), g[o]) BY <1>2, HonestNew
    <3> QED BY <1>4, <2>2, <3>1
  <2> QED BY <2>1, <2>2
<1>8. HonestRows(bt[p], g)
  <2>1. HonestRows(at[p], g) BY <1>6
  <2>2. ASSUME NEW x \in DOMAIN bt[p] PROVE HonestRow(x, bt[p][x], g[x])
    <3>1. CASE x = o BY <1>7, <3>1
    <3>2. CASE x # o
      <4>1. x \in DOMAIN at[p] /\ bt[p][x] = at[p][x] BY <1>4, <3>2
      <4> QED BY <2>1, <4>1 DEF HonestRows
    <3> QED BY <3>1, <3>2
  <2>3. DOMAIN bt[p] \subseteq Observables BY <1>4, <2>1 DEF HonestRows
  <2> QED BY <2>2, <2>3 DEF HonestRows
<1>9. \A q \in P : HonestRows(bt[q], g)
  <2> SUFFICES ASSUME NEW q \in P PROVE HonestRows(bt[q], g) OBVIOUS
  <2>1. CASE q = p BY <1>8, <2>1
  <2>2. CASE q # p
    <3>1. bt[q] = at[q] BY <2>2
    <3> QED BY <1>6, <3>1
  <2> QED BY <2>1, <2>2
<1>10. ~Counts(at[p], o, new) /\ Counts(bt[p], o, new)
  <2>1. o \in DOMAIN at[p] => new \notin at[p][o].seen
    BY <1>3, <1>5 DEF HonestRows, HonestRow
  <2>2. bt[p][o].seen = (IF o \in DOMAIN at[p] THEN at[p][o].seen ELSE {}) \cup {new}
    BY <1>4 DEF Bump, NewRow
  <2>3. o \in DOMAIN bt[p] BY <1>4
  <2> QED BY <2>1, <2>2, <2>3 DEF Counts
<1>11. \A x, n : ~(x = o /\ n = new) => (Counts(bt[p], x, n) <=> Counts(at[p], x, n))
  <2> SUFFICES ASSUME NEW x, NEW n, ~(x = o /\ n = new)
               PROVE  Counts(bt[p], x, n) <=> Counts(at[p], x, n)
    OBVIOUS
  <2>1. CASE x = o
    <3>1. bt[p][o].seen = (IF o \in DOMAIN at[p] THEN at[p][o].seen ELSE {}) \cup {new}
      BY <1>4 DEF Bump, NewRow
    <3>2. o \in DOMAIN bt[p] BY <1>4
    <3> QED BY <2>1, <3>1, <3>2 DEF Counts
  <2>2. CASE x # o BY <1>4, <2>2 DEF Counts
  <2> QED BY <2>1, <2>2
<1>12. \A q \in P \ {p} : ~Counts(bt[q], o, new)
  <2> SUFFICES ASSUME NEW q \in P \ {p}, Counts(bt[q], o, new) PROVE FALSE OBVIOUS
  <2>1. o \in DOMAIN at[q] /\ new \in at[q][o].seen BY DEF Counts
  <2> QED BY <1>3, <1>5, <2>1 DEF HonestRows, HonestRow
<1>13. ASSUME NEW x \in Observables, NEW n \in DOMAIN g[x] PROVE Once(P, bt, x, n)
  <2>1. CASE x = o /\ n = new BY <1>10, <1>12, <2>1 DEF Once
  <2>2. CASE ~(x = o /\ n = new)
    <3>1. n \in DOMAIN h[x] BY <1>2, <1>3, <1>13, <2>2
    <3>2. Once(P, at, x, n) BY <3>1 DEF Account
    <3>3. PICK c \in P : Counts(at[c], x, n) /\ \A q \in P \ {c} : ~Counts(at[q], x, n)
      BY <3>2 DEF Once
    <3>4. \A q \in P : Counts(bt[q], x, n) <=> Counts(at[q], x, n)
      <4> SUFFICES ASSUME NEW q \in P PROVE Counts(bt[q], x, n) <=> Counts(at[q], x, n) OBVIOUS
      <4>1. CASE q = p BY <1>11, <2>2, <4>1
      <4>2. CASE q # p
        <5>1. bt[q] = at[q] BY <4>2
        <5> QED BY <5>1
      <4> QED BY <4>1, <4>2
    <3> QED BY <3>3, <3>4 DEF Once
  <2> QED BY <2>1, <2>2
<1> QED BY <1>2, <1>9, <1>13 DEF Account

(* Rows move between places: what was counted at p is counted at f[p], and *)
(* nothing else is.                                                        *)
Moves(P, at, Q, bt, o, f) ==
  /\ \A p \in P : f[p] \in Q
  /\ \A q \in Q : \A n :
       Counts(bt[q], o, n) <=> \E p \in P : f[p] = q /\ Counts(at[p], o, n)

LEMMA Moved ==
  ASSUME NEW h, NEW P, NEW at, Account(P, at, h), NEW Q, NEW bt,
         \A q \in Q : HonestRows(bt[q], h),
         \A o \in Observables : \E f : Moves(P, at, Q, bt, o, f)
  PROVE  Account(Q, bt, h)
<1> SUFFICES ASSUME NEW o \in Observables, NEW n \in DOMAIN h[o] PROVE Once(Q, bt, o, n)
  BY DEF Account
<1>1. PICK f : Moves(P, at, Q, bt, o, f) OBVIOUS
<1>2. Once(P, at, o, n) BY DEF Account
<1>3. PICK p \in P : Counts(at[p], o, n) /\ \A q \in P \ {p} : ~Counts(at[q], o, n)
  BY <1>2 DEF Once
<1>4. f[p] \in Q /\ Counts(bt[f[p]], o, n) BY <1>1, <1>3 DEF Moves
<1>5. \A q \in Q \ {f[p]} : ~Counts(bt[q], o, n) BY <1>1, <1>3 DEF Moves
<1> QED BY <1>4, <1>5 DEF Once

(* The upserts of one set of rows into another.                            *)
LEMMA MergedRows ==
  ASSUME NEW h \in Secs, NEW a, NEW b, HonestRows(a, h), HonestRows(b, h),
         \A o, n : ~(Counts(a, o, n) /\ Counts(b, o, n))
  PROVE  /\ HonestRows(MergeAll(a, b), h)
         /\ \A o, n : Counts(MergeAll(a, b), o, n) <=> Counts(a, o, n) \/ Counts(b, o, n)
<1> DEFINE m == MergeAll(a, b)
<1>1. /\ DOMAIN m = DOMAIN a \cup DOMAIN b
      /\ \A o \in DOMAIN m : m[o] = IF o \notin DOMAIN b THEN a[o]
                                    ELSE IF o \notin DOMAIN a THEN b[o]
                                    ELSE Merged(a[o], b[o])
  BY DEF MergeAll
<1> HIDE DEF m
<1>2. ASSUME NEW o \in DOMAIN m PROVE o \in Observables /\ HonestRow(o, m[o], h[o])
  <2>0. o \in Observables BY <1>1, <1>2 DEF HonestRows
  <2>1. CASE o \notin DOMAIN b BY <1>1, <2>0, <2>1 DEF HonestRows
  <2>2. CASE o \notin DOMAIN a BY <1>1, <2>0, <2>2 DEF HonestRows
  <2>3. CASE o \in DOMAIN a /\ o \in DOMAIN b
    <3>1. HonestRow(o, a[o], h[o]) /\ HonestRow(o, b[o], h[o]) BY <2>3 DEF HonestRows
    <3>2. a[o].seen \cap b[o].seen = {} BY <2>3 DEF Counts
    <3>3. HonestRow(o, Merged(a[o], b[o]), h[o]) BY <2>0, <3>1, <3>2, HonestMerge
    <3> QED BY <1>1, <2>0, <2>3, <3>3
  <2> QED BY <1>1, <2>1, <2>2, <2>3
<1>3. ASSUME NEW o, NEW n PROVE Counts(m, o, n) <=> Counts(a, o, n) \/ Counts(b, o, n)
  <2>1. \A r, s : Merged(r, s).seen = r.seen \cup s.seen BY DEF Merged
  <2> QED BY <1>1, <2>1 DEF Counts
<1>4. HonestRows(m, h) BY <1>2 DEF HonestRows
<1> QED BY <1>3, <1>4 DEF m

(* Two places count nothing in common.                                     *)
LEMMA Apart ==
  ASSUME NEW h, NEW P, NEW at, Account(P, at, h), NEW p \in P, NEW q \in P, p # q
  PROVE  \A o, n : ~(Counts(at[p], o, n) /\ Counts(at[q], o, n))
<1> SUFFICES ASSUME NEW o, NEW n, Counts(at[p], o, n), Counts(at[q], o, n) PROVE FALSE
  OBVIOUS
<1>1. HonestRows(at[p], h) /\ o \in DOMAIN at[p] /\ n \in at[p][o].seen BY DEF Account, Counts
<1>2. o \in Observables /\ n \in DOMAIN h[o] BY <1>1 DEF HonestRows, HonestRow
<1>3. Once(P, at, o, n) BY <1>2 DEF Account
<1> QED BY <1>3 DEF Once

-----------------------------------------------------------------------------
(* The places of the store.                                                *)

Db == <<"db", 0>>
Lost == <<"lost", 0>>
JobP(i) == <<"job", i>>
WinP(w) == <<"win", w>>

PlacesFor(js) == {Db, Lost} \cup ({"job"} \X DOMAIN js) \cup ({"win"} \X Workers)

RowsFor(d, l, js, x) ==
  [p \in PlacesFor(js) |->
     CASE p[1] = "db" -> d
       [] p[1] = "lost" -> l
       [] p[1] = "job" -> js[p[2]].rows
       [] p[1] = "win" -> Rows(x[p[2]])]

Accounted(d, l, js, x, h) == Account(PlacesFor(js), RowsFor(d, l, js, x), h)

LEMMA NothingMiscountedIs == NothingMiscounted <=> Accounted(db, lost, Jobs, win, hist)
<1> DEFINE P == PlacesFor(Jobs)
           at == RowsFor(db, lost, Jobs, win)
<1>1. Places = P BY DEF Places, PlacesFor, Db, Lost
<1>2. \A p \in P : at[p] = RowsAt(p) BY DEF RowsFor, RowsAt
<1> HIDE DEF P, at
<1>3. NothingMiscounted <=> Account(P, at, hist)
  <2>1. (\A p \in P : HonestRows(at[p], hist)) <=>
        (\A p \in Places : /\ DOMAIN RowsAt(p) \subseteq Observables
                           /\ \A o \in DOMAIN RowsAt(p) : HonestRow(o, RowsAt(p)[o], hist[o]))
    BY <1>1, <1>2 DEF HonestRows
  <2>2. \A o, n : Once(P, at, o, n) <=>
          \E p \in Places : /\ Counts(RowsAt(p), o, n)
                            /\ \A q \in Places \ {p} : ~Counts(RowsAt(q), o, n)
    BY <1>1, <1>2 DEF Once
  <2> QED BY <2>1, <2>2 DEF NothingMiscounted, Account
<1> QED BY <1>3 DEF P, at, Accounted

(* Which they are ...                                                      *)
LEMMA PlacesAre ==
  ASSUME NEW js
  PROVE  /\ Db \in PlacesFor(js) /\ Lost \in PlacesFor(js)
         /\ \A i \in DOMAIN js : JobP(i) \in PlacesFor(js)
         /\ \A w \in Workers : WinP(w) \in PlacesFor(js)
         /\ \A p \in PlacesFor(js) :
              \/ p = Db \/ p = Lost
              \/ \E i \in DOMAIN js : p = JobP(i)
              \/ \E w \in Workers : p = WinP(w)
BY DEF PlacesFor, Db, Lost, JobP, WinP

(* ... that they differ ...                                                *)
LEMMA PlacesDiffer ==
  /\ Db # Lost
  /\ \A i : Db # JobP(i) /\ Lost # JobP(i) /\ JobP(i)[2] = i
  /\ \A w : Db # WinP(w) /\ Lost # WinP(w) /\ WinP(w)[2] = w
  /\ \A i, w : JobP(i) # WinP(w)
  /\ \A i, j : JobP(i) = JobP(j) => i = j
  /\ \A v, w : WinP(v) = WinP(w) => v = w
BY DEF Db, Lost, JobP, WinP

(* ... and what is there.                                                  *)
LEMMA RowsThere ==
  ASSUME NEW d, NEW l, NEW js, NEW x, NEW at, at = RowsFor(d, l, js, x)
  PROVE  /\ at[Db] = d /\ at[Lost] = l
         /\ \A i \in DOMAIN js : at[JobP(i)] = js[i].rows
         /\ \A w \in Workers : at[WinP(w)] = Rows(x[w])
<1>1. ASSUME NEW p \in PlacesFor(js)
      PROVE  at[p] = CASE p[1] = "db" -> d
                       [] p[1] = "lost" -> l
                       [] p[1] = "job" -> js[p[2]].rows
                       [] p[1] = "win" -> Rows(x[p[2]])
  BY <1>1 DEF RowsFor
<1>2. at[Db] = d /\ at[Lost] = l
  <2>1. Db \in PlacesFor(js) /\ Lost \in PlacesFor(js) BY PlacesAre
  <2>2. Db[1] = "db" /\ Lost[1] = "lost" BY DEF Db, Lost
  <2> QED BY <1>1, <2>1, <2>2
<1>3. ASSUME NEW i \in DOMAIN js PROVE at[JobP(i)] = js[i].rows
  <2>1. JobP(i) \in PlacesFor(js) BY PlacesAre
  <2>2. JobP(i)[1] = "job" /\ JobP(i)[2] = i BY DEF JobP
  <2> QED BY <1>1, <2>1, <2>2
<1>4. ASSUME NEW w \in Workers PROVE at[WinP(w)] = Rows(x[w])
  <2>1. WinP(w) \in PlacesFor(js) BY PlacesAre
  <2>2. WinP(w)[1] = "win" /\ WinP(w)[2] = w BY DEF WinP
  <2> QED BY <1>1, <2>1, <2>2
<1> QED BY <1>2, <1>3, <1>4

(* Moves, the two ways.                                                    *)
LEMMA MovesWhen ==
  ASSUME NEW P, NEW at, NEW Q, NEW bt, NEW o, NEW f,
         \A p \in P : f[p] \in Q /\ \A n : Counts(at[p], o, n) => Counts(bt[f[p]], o, n),
         \A q \in Q : \A n : Counts(bt[q], o, n) => \E p \in P : f[p] = q /\ Counts(at[p], o, n)
  PROVE  Moves(P, at, Q, bt, o, f)
BY DEF Moves

LEMMA SameCounts ==
  ASSUME NEW r, NEW s, Same(r, s)
  PROVE  /\ \A o, n : Counts(s, o, n) <=> Counts(r, o, n)
         /\ \A h : HonestRows(r, h) => HonestRows(s, h)
BY DEF Same, Counts, HonestRows

LEMMA EmptyCounts ==
  ASSUME NEW r, DOMAIN r = {}
  PROVE  (\A o, n : ~Counts(r, o, n)) /\ \A h : HonestRows(r, h)
BY DEF Counts, HonestRows

(* The rows of the windows are as before.                                  *)
LEMMA AccountedSame ==
  ASSUME NEW d, NEW l, NEW js, NEW x, NEW h, Accounted(d, l, js, x, h), NEW y,
         \A w \in Workers : Same(Rows(x[w]), Rows(y[w]))
  PROVE  Accounted(d, l, js, y, h)
<1> DEFINE P == PlacesFor(js)
           at == RowsFor(d, l, js, x)
           bt == RowsFor(d, l, js, y)
<1>1. /\ at[Db] = d /\ at[Lost] = l /\ \A i \in DOMAIN js : at[JobP(i)] = js[i].rows
      /\ \A w \in Workers : at[WinP(w)] = Rows(x[w])
  BY RowsThere
<1>2. /\ bt[Db] = d /\ bt[Lost] = l /\ \A i \in DOMAIN js : bt[JobP(i)] = js[i].rows
      /\ \A w \in Workers : bt[WinP(w)] = Rows(y[w])
  BY RowsThere
<1>3. \A p \in P : \/ p = Db \/ p = Lost \/ \E i \in DOMAIN js : p = JobP(i)
                   \/ \E w \in Workers : p = WinP(w)
  BY PlacesAre
<1>4. Account(P, at, h) BY DEF Accounted
<1> HIDE DEF P, at, bt
<1>5. \A p \in P : Same(at[p], bt[p])
  <2>1. \A r : Same(r, r) BY DEF Same
  <2> QED BY <1>1, <1>2, <1>3, <2>1
<1>6. \A p \in P : HonestRows(bt[p], h) BY <1>4, <1>5, SameCounts DEF Account
<1>7. \A p \in P : \A o, n : Counts(bt[p], o, n) <=> Counts(at[p], o, n) BY <1>5, SameCounts
<1>8. ASSUME NEW o PROVE Moves(P, at, P, bt, o, [p \in P |-> p])
  BY <1>7 DEF Moves
<1>9. Account(P, bt, h) BY <1>4, <1>6, <1>8, Moved
<1> QED BY <1>9 DEF Accounted, P, bt

(* A worker sees something, and takes it or not.                           *)
TakenAt(before, after, o, h, e) ==
  IF o \in Junk \/ after.saturations > before.saturations THEN h ELSE Grown(h, o, e)

LEMMA AccountedSight ==
  ASSUME NEW d, NEW l, NEW js, NEW x, NEW h \in Secs, Accounted(d, l, js, x, h),
         NEW w \in Workers, NEW y, \A v \in Workers \ {w} : y[v] = x[v],
         NEW o \in Observables, NEW e \in Sighting, Own(Rows(x[w]), h, e.by),
         Noted(x[w], y[w], o, e.sec, Len(h[o]) + 1),
         NEW g, g = TakenAt(x[w], y[w], o, h, e)
  PROVE  g \in Secs /\ Accounted(d, l, js, y, g)
<1>1. CASE o \in Junk \/ y[w].saturations > x[w].saturations
  <2>1. Same(Rows(x[w]), Rows(y[w])) /\ g = h BY <1>1 DEF Noted, TakenAt
  <2>2. \A v \in Workers : Same(Rows(x[v]), Rows(y[v]))
    <3>1. \A r : Same(r, r) BY DEF Same
    <3> QED BY <2>1, <3>1
  <2>3. Accounted(d, l, js, y, h) BY <2>2, AccountedSame
  <2> QED BY <2>1, <2>3
<1>2. CASE ~(o \in Junk \/ y[w].saturations > x[w].saturations)
  <2> DEFINE P == PlacesFor(js)
             at == RowsFor(d, l, js, x)
             bt == RowsFor(d, l, js, y)
  <2>1. Saw(Rows(x[w]), Rows(y[w]), o, e.sec, Len(h[o]) + 1) /\ g = Grown(h, o, e)
    BY <1>2 DEF Noted, TakenAt
  <2>2. /\ at[Db] = d /\ at[Lost] = l /\ \A i \in DOMAIN js : at[JobP(i)] = js[i].rows
        /\ \A v \in Workers : at[WinP(v)] = Rows(x[v])
    BY RowsThere
  <2>3. /\ bt[Db] = d /\ bt[Lost] = l /\ \A i \in DOMAIN js : bt[JobP(i)] = js[i].rows
        /\ \A v \in Workers : bt[WinP(v)] = Rows(y[v])
    BY RowsThere
  <2>4. /\ WinP(w) \in P
        /\ \A p \in P : \/ p = Db \/ p = Lost \/ \E i \in DOMAIN js : p = JobP(i)
                        \/ \E v \in Workers : p = WinP(v)
    BY PlacesAre
  <2>5. Account(P, at, h) BY DEF Accounted
  <2> HIDE DEF P, at, bt
  <2>6. \A p \in P \ {WinP(w)} : bt[p] = at[p] BY <2>2, <2>3, <2>4
  <2>7. Saw(at[WinP(w)], bt[WinP(w)], o, e.sec, Len(h[o]) + 1) /\ Own(at[WinP(w)], h, e.by)
    BY <2>1, <2>2, <2>3
  <2>8. g \in Secs /\ Account(P, bt, g)
    <3>1. WinP(w) \in P /\ g = Grown(h, o, e) BY <2>1, <2>4
    <3> QED BY <2>5, <2>6, <2>7, <3>1, Sighted
  <2> QED BY <2>8 DEF Accounted, P, bt
<1> QED BY <1>1, <1>2

(* A job more at the end of the channel: the window of a worker, or the    *)
(* empty one of a barrier.                                                 *)
LEMMA AccountedSent ==
  ASSUME NEW d, NEW l, NEW js, NEW x, NEW h, Accounted(d, l, js, x, h),
         NEW L \in Nat, DOMAIN js = 1..L, NEW ks, DOMAIN ks = 1..(L + 1),
         \A i \in 1..L : ks[i] = js[i],
         NEW w \in Workers, NEW y, \A v \in Workers \ {w} : y[v] = x[v],
         \/ ks[L + 1].rows = Rows(x[w]) /\ DOMAIN Rows(y[w]) = {}
         \/ DOMAIN ks[L + 1].rows = {} /\ y[w] = x[w]
  PROVE  Accounted(d, l, ks, y, h)
<1> DEFINE P == PlacesFor(js)
           Q == PlacesFor(ks)
           at == RowsFor(d, l, js, x)
           bt == RowsFor(d, l, ks, y)
<1>1. /\ at[Db] = d /\ at[Lost] = l /\ \A i \in DOMAIN js : at[JobP(i)] = js[i].rows
      /\ \A v \in Workers : at[WinP(v)] = Rows(x[v])
  BY RowsThere
<1>2. /\ bt[Db] = d /\ bt[Lost] = l /\ \A i \in DOMAIN ks : bt[JobP(i)] = ks[i].rows
      /\ \A v \in Workers : bt[WinP(v)] = Rows(y[v])
  BY RowsThere
<1>3. /\ WinP(w) \in P
      /\ \A p \in P : \/ p = Db \/ p = Lost \/ \E i \in DOMAIN js : p = JobP(i)
                      \/ \E v \in Workers : p = WinP(v)
  BY PlacesAre
<1>4. /\ Db \in Q /\ Lost \in Q /\ (\A i \in DOMAIN ks : JobP(i) \in Q)
      /\ (\A v \in Workers : WinP(v) \in Q)
      /\ \A p \in Q : \/ p = Db \/ p = Lost \/ \E i \in DOMAIN ks : p = JobP(i)
                      \/ \E v \in Workers : p = WinP(v)
  BY PlacesAre
<1>5. Account(P, at, h) BY DEF Accounted
<1>6. \A i \in DOMAIN ks : i \in DOMAIN js \/ i = L + 1 OBVIOUS
<1>7. DOMAIN js \subseteq DOMAIN ks /\ L + 1 \in DOMAIN ks /\ L + 1 \notin DOMAIN js OBVIOUS
<1>8. P \subseteq Q /\ \A q \in Q : q \in P \/ q = JobP(L + 1)
  <2>1. /\ Db \in P /\ Lost \in P /\ (\A i \in DOMAIN js : JobP(i) \in P)
        /\ (\A v \in Workers : WinP(v) \in P)
    BY PlacesAre
  <2> HIDE DEF P, Q
  <2> QED BY <1>3, <1>4, <1>6, <1>7, <2>1
<1>9. JobP(L + 1) \in Q /\ JobP(L + 1) \notin P /\ JobP(L + 1) # WinP(w)
  <2>1. JobP(L + 1) \in Q BY <1>4, <1>7
  <2>2. JobP(L + 1) \notin P
    <3> HIDE DEF P, Q
    <3> QED BY <1>3, <1>7, PlacesDiffer
  <2> QED BY <2>1, <2>2, PlacesDiffer
<1>10. \A p \in P \ {WinP(w)} : bt[p] = at[p]
  <2> HIDE DEF P, Q, at, bt
  <2> QED BY <1>1, <1>2, <1>3, <1>7
<1>11. at[WinP(w)] = Rows(x[w]) /\ bt[WinP(w)] = Rows(y[w]) /\ bt[JobP(L + 1)] = ks[L + 1].rows
  <2> HIDE DEF P, Q, at, bt
  <2> QED BY <1>1, <1>2, <1>7
<1> HIDE DEF P, Q, at, bt
<1>12. \A p \in P : HonestRows(at[p], h) BY <1>5 DEF Account
<1>13. CASE ks[L + 1].rows = Rows(x[w]) /\ DOMAIN Rows(y[w]) = {}
  <2>1. bt[JobP(L + 1)] = at[WinP(w)] BY <1>11, <1>13
  <2>2. (\A o, n : ~Counts(bt[WinP(w)], o, n)) /\ HonestRows(bt[WinP(w)], h)
    BY <1>11, <1>13, EmptyCounts
  <2>3. \A q \in Q : HonestRows(bt[q], h)
    <3> SUFFICES ASSUME NEW q \in Q PROVE HonestRows(bt[q], h) OBVIOUS
    <3>1. CASE q = JobP(L + 1) BY <1>3, <1>12, <2>1, <3>1
    <3>2. CASE q = WinP(w) BY <2>2, <3>2
    <3>3. CASE q \in P \ {WinP(w)} BY <1>10, <1>12, <3>3
    <3> QED BY <1>8, <3>1, <3>2, <3>3
  <2> DEFINE f == [p \in P |-> IF p = WinP(w) THEN JobP(L + 1) ELSE p]
  <2>4. \A p \in P : f[p] = IF p = WinP(w) THEN JobP(L + 1) ELSE p OBVIOUS
  <2> HIDE DEF f
  <2>5. ASSUME NEW o PROVE Moves(P, at, Q, bt, o, f)
    <3>1. ASSUME NEW p \in P, NEW n
          PROVE  f[p] \in Q /\ (Counts(at[p], o, n) => Counts(bt[f[p]], o, n))
      <4>1. CASE p = WinP(w) BY <1>9, <2>1, <2>4, <4>1
      <4>2. CASE p # WinP(w)
        <5>1. f[p] = p /\ bt[p] = at[p] BY <1>10, <2>4, <4>2
        <5> QED BY <1>8, <5>1
      <4> QED BY <4>1, <4>2
    <3>2. ASSUME NEW q \in Q, NEW n, Counts(bt[q], o, n)
          PROVE  \E p \in P : f[p] = q /\ Counts(at[p], o, n)
      <4>1. CASE q = JobP(L + 1) BY <1>3, <2>1, <2>4, <3>2, <4>1
      <4>2. CASE q = WinP(w) BY <2>2, <3>2, <4>2
      <4>3. CASE q \in P \ {WinP(w)} BY <1>10, <2>4, <3>2, <4>3
      <4> QED BY <1>8, <4>1, <4>2, <4>3
    <3> QED BY <3>1, <3>2, MovesWhen
  <2>6. Account(Q, bt, h) BY <1>5, <2>3, <2>5, Moved
  <2> QED BY <2>6 DEF Accounted, Q, bt
<1>14. CASE DOMAIN ks[L + 1].rows = {} /\ y[w] = x[w]
  <2>1. \A p \in P : bt[p] = at[p] BY <1>10, <1>11, <1>14
  <2>2. (\A o, n : ~Counts(bt[JobP(L + 1)], o, n)) /\ HonestRows(bt[JobP(L + 1)], h)
    BY <1>11, <1>14, EmptyCounts
  <2>3. \A q \in Q : HonestRows(bt[q], h) BY <1>8, <1>12, <2>1, <2>2
  <2>4. ASSUME NEW o PROVE Moves(P, at, Q, bt, o, [p \in P |-> p])
    BY <1>8, <1>9, <2>1, <2>2 DEF Moves
  <2>5. Account(Q, bt, h) BY <1>5, <2>3, <2>4, Moved
  <2> QED BY <2>5 DEF Accounted, Q, bt
<1> QED BY <1>13, <1>14

(* Two places become one: what was at a is now merged at b, and a is empty.*)
LEMMA Poured ==
  ASSUME NEW h \in Secs, NEW P, NEW at, Account(P, at, h), NEW a \in P, NEW b \in P, a # b,
         NEW bt, bt[b] = MergeAll(at[b], at[a]), DOMAIN bt[a] = {},
         \A p \in P \ {a, b} : bt[p] = at[p]
  PROVE  Account(P, bt, h)
<1>1. \A p \in P : HonestRows(at[p], h) BY DEF Account
<1>2. \A o, n : ~(Counts(at[b], o, n) /\ Counts(at[a], o, n)) BY Apart
<1>3. /\ HonestRows(bt[b], h)
      /\ \A o, n : Counts(bt[b], o, n) <=> Counts(at[b], o, n) \/ Counts(at[a], o, n)
  BY <1>1, <1>2, MergedRows
<1>4. HonestRows(bt[a], h) /\ \A o, n : ~Counts(bt[a], o, n) BY EmptyCounts
<1>5. \A p \in P : HonestRows(bt[p], h)
  <2> SUFFICES ASSUME NEW p \in P PROVE HonestRows(bt[p], h) OBVIOUS
  <2>1. CASE p \in {a, b} BY <1>3, <1>4, <2>1
  <2>2. CASE p \notin {a, b} BY <1>1, <2>2
  <2> QED BY <2>1, <2>2
<1> DEFINE f == [p \in P |-> IF p = a THEN b ELSE p]
<1>6. \A p \in P : f[p] = IF p = a THEN b ELSE p OBVIOUS
<1> HIDE DEF f
<1>7. ASSUME NEW o PROVE Moves(P, at, P, bt, o, f)
  <2>1. ASSUME NEW p \in P, NEW n
        PROVE  f[p] \in P /\ (Counts(at[p], o, n) => Counts(bt[f[p]], o, n))
    <3>1. CASE p = a BY <1>3, <1>6, <3>1
    <3>2. CASE p = b BY <1>3, <1>6, <3>2
    <3>3. CASE p \notin {a, b}
      <4>1. f[p] = p /\ bt[p] = at[p] BY <1>6, <3>3
      <4> QED BY <4>1
    <3> QED BY <3>1, <3>2, <3>3
  <2>2. ASSUME NEW q \in P, NEW n, Counts(bt[q], o, n)
        PROVE  \E p \in P : f[p] = q /\ Counts(at[p], o, n)
    <3>1. CASE q = a BY <1>4, <2>2, <3>1
    <3>2. CASE q = b
      <4>1. Counts(at[b], o, n) \/ Counts(at[a], o, n) BY <1>3, <2>2, <3>2
      <4> QED BY <1>6, <3>2, <4>1
    <3>3. CASE q \notin {a, b}
      <4>1. f[q] = q /\ bt[q] = at[q] BY <1>6, <3>3
      <4> QED BY <2>2, <4>1
    <3> QED BY <3>1, <3>2, <3>3
  <2> QED BY <2>1, <2>2, MovesWhen
<1> QED BY <1>5, <1>7, Moved

(* A window the channel had no room for is among what is lost.             *)
LEMMA AccountedDropped ==
  ASSUME NEW d, NEW l, NEW js, NEW x, NEW h \in Secs, Accounted(d, l, js, x, h),
         NEW w \in Workers, NEW y, \A v \in Workers \ {w} : y[v] = x[v],
         DOMAIN Rows(y[w]) = {}
  PROVE  Accounted(d, MergeAll(l, Rows(x[w])), js, y, h)
<1> DEFINE P == PlacesFor(js)
           m == MergeAll(l, Rows(x[w]))
           at == RowsFor(d, l, js, x)
           bt == RowsFor(d, m, js, y)
<1>1. /\ at[Db] = d /\ at[Lost] = l /\ \A i \in DOMAIN js : at[JobP(i)] = js[i].rows
      /\ \A v \in Workers : at[WinP(v)] = Rows(x[v])
  BY RowsThere
<1>2. /\ bt[Db] = d /\ bt[Lost] = m /\ \A i \in DOMAIN js : bt[JobP(i)] = js[i].rows
      /\ \A v \in Workers : bt[WinP(v)] = Rows(y[v])
  BY RowsThere
<1>3. /\ WinP(w) \in P /\ Lost \in P /\ WinP(w) # Lost
      /\ \A p \in P : \/ p = Db \/ p = Lost \/ \E i \in DOMAIN js : p = JobP(i)
                      \/ \E v \in Workers : p = WinP(v)
  BY PlacesAre, PlacesDiffer
<1>4. Account(P, at, h) BY DEF Accounted
<1>5. bt[Lost] = MergeAll(at[Lost], at[WinP(w)]) /\ DOMAIN bt[WinP(w)] = {} BY <1>1, <1>2
<1> HIDE DEF P, at, bt, m
<1>6. \A p \in P \ {WinP(w), Lost} : bt[p] = at[p] BY <1>1, <1>2, <1>3
<1>7. Account(P, bt, h) BY <1>3, <1>4, <1>5, <1>6, Poured
<1> QED BY <1>7 DEF Accounted, P, bt, m

(* The same for the rows a job hands to the database or to what is lost;   *)
(* the job itself is then empty ...                                        *)
Emptied(js) == [i \in DOMAIN js |-> IF i = 1 THEN [rows |-> None] ELSE js[i]]

LEMMA AccountedStored ==
  ASSUME NEW d, NEW l, NEW js, NEW x, NEW h \in Secs, Accounted(d, l, js, x, h),
         1 \in DOMAIN js, NEW es, DOMAIN es = DOMAIN js, DOMAIN es[1].rows = {},
         \A i \in DOMAIN js \ {1} : es[i] = js[i]
  PROVE  /\ Accounted(MergeAll(d, js[1].rows), l, es, x, h)
         /\ Accounted(d, MergeAll(l, js[1].rows), es, x, h)
<1> DEFINE P == PlacesFor(js)
           Q == PlacesFor(es)
           r == js[1].rows
           at == RowsFor(d, l, js, x)
<1>0. Q = P BY DEF PlacesFor
<1>1. /\ at[Db] = d /\ at[Lost] = l /\ \A i \in DOMAIN js : at[JobP(i)] = js[i].rows
      /\ \A v \in Workers : at[WinP(v)] = Rows(x[v])
  BY RowsThere
<1>2. ASSUME NEW e, NEW m, NEW bt, bt = RowsFor(e, m, es, x)
      PROVE  /\ bt[Db] = e /\ bt[Lost] = m /\ \A i \in DOMAIN js : bt[JobP(i)] = es[i].rows
             /\ \A v \in Workers : bt[WinP(v)] = Rows(x[v])
  BY <1>2, RowsThere
<1>3. /\ JobP(1) \in P /\ Lost \in P /\ Db \in P
      /\ \A p \in P : \/ p = Db \/ p = Lost \/ \E i \in DOMAIN js : p = JobP(i)
                      \/ \E v \in Workers : p = WinP(v)
  BY PlacesAre
<1>4. JobP(1) # Lost /\ JobP(1) # Db /\ Db # Lost BY PlacesDiffer
<1>5. Account(P, at, h) BY DEF Accounted
<1>6. \A i \in DOMAIN js : JobP(i) # JobP(1) => es[i] = js[i] OBVIOUS
<1> HIDE DEF P, Q, at, r
<1>r. at[JobP(1)] = r BY <1>1 DEF r
<1>7. ASSUME NEW bt, bt = RowsFor(MergeAll(d, r), l, es, x) PROVE Account(P, bt, h)
  <2>1. /\ bt[Db] = MergeAll(d, r) /\ bt[Lost] = l
        /\ (\A i \in DOMAIN js : bt[JobP(i)] = es[i].rows)
        /\ \A v \in Workers : bt[WinP(v)] = Rows(x[v])
    BY <1>2, <1>7
  <2>2. bt[Db] = MergeAll(at[Db], at[JobP(1)]) /\ DOMAIN bt[JobP(1)] = {} BY <1>1, <1>r, <2>1
  <2>3. \A p \in P \ {JobP(1), Db} : bt[p] = at[p] BY <1>1, <1>3, <1>6, <2>1
  <2> QED BY <1>3, <1>4, <1>5, <2>2, <2>3, Poured
<1>8. ASSUME NEW bt, bt = RowsFor(d, MergeAll(l, r), es, x) PROVE Account(P, bt, h)
  <2>1. /\ bt[Db] = d /\ bt[Lost] = MergeAll(l, r)
        /\ (\A i \in DOMAIN js : bt[JobP(i)] = es[i].rows)
        /\ \A v \in Workers : bt[WinP(v)] = Rows(x[v])
    BY <1>2, <1>8
  <2>2. bt[Lost] = MergeAll(at[Lost], at[JobP(1)]) /\ DOMAIN bt[JobP(1)] = {} BY <1>1, <1>r, <2>1
  <2>3. \A p \in P \ {JobP(1), Lost} : bt[p] = at[p] BY <1>1, <1>3, <1>6, <2>1
  <2> QED BY <1>3, <1>4, <1>5, <2>2, <2>3, Poured
<1> QED BY <1>0, <1>7, <1>8 DEF Accounted, Q, r

(* ... and an empty job may leave the channel.                             *)
LEMMA AccountedPopped ==
  ASSUME NEW d, NEW l, NEW js, NEW x, NEW h, Accounted(d, l, js, x, h),
         NEW L \in Nat, DOMAIN js = 1..(L + 1), DOMAIN js[1].rows = {},
         NEW ks, DOMAIN ks = 1..L, \A i \in 1..L : ks[i] = js[i + 1]
  PROVE  Accounted(d, l, ks, x, h)
<1> DEFINE P == PlacesFor(js)
           Q == PlacesFor(ks)
           at == RowsFor(d, l, js, x)
           bt == RowsFor(d, l, ks, x)
<1>1. /\ at[Db] = d /\ at[Lost] = l /\ \A i \in DOMAIN js : at[JobP(i)] = js[i].rows
      /\ \A v \in Workers : at[WinP(v)] = Rows(x[v])
  BY RowsThere
<1>2. /\ bt[Db] = d /\ bt[Lost] = l /\ \A i \in DOMAIN ks : bt[JobP(i)] = ks[i].rows
      /\ \A v \in Workers : bt[WinP(v)] = Rows(x[v])
  BY RowsThere
<1>3. /\ Db \in P /\ Lost \in P /\ (\A i \in DOMAIN js : JobP(i) \in P)
      /\ (\A v \in Workers : WinP(v) \in P)
      /\ \A p \in P : \/ p = Db \/ p = Lost \/ \E i \in DOMAIN js : p = JobP(i)
                      \/ \E v \in Workers : p = WinP(v)
  BY PlacesAre
<1>4. /\ Db \in Q /\ Lost \in Q /\ (\A i \in DOMAIN ks : JobP(i) \in Q)
      /\ (\A v \in Workers : WinP(v) \in Q)
      /\ \A p \in Q : \/ p = Db \/ p = Lost \/ \E i \in DOMAIN ks : p = JobP(i)
                      \/ \E v \in Workers : p = WinP(v)
  BY PlacesAre
<1>5. Account(P, at, h) BY DEF Accounted
<1>6. \A i \in DOMAIN ks : i + 1 \in DOMAIN js /\ i + 1 # 1 /\ (i + 1) - 1 = i OBVIOUS
<1>7. \A i \in DOMAIN js : i # 1 => i - 1 \in DOMAIN ks /\ (i - 1) + 1 = i OBVIOUS
<1>8. 1 \in DOMAIN js OBVIOUS
<1> HIDE DEF P, Q, at, bt
<1>9. \A o, n : ~Counts(at[JobP(1)], o, n) BY <1>1, <1>8, EmptyCounts
<1>10. \A i \in DOMAIN ks : bt[JobP(i)] = at[JobP(i + 1)] BY <1>1, <1>2, <1>6
<1>11. \A p \in P : HonestRows(at[p], h) BY <1>5 DEF Account
<1>12. \A q \in Q : HonestRows(bt[q], h)
  <2> SUFFICES ASSUME NEW q \in Q PROVE HonestRows(bt[q], h) OBVIOUS
  <2>1. CASE \E i \in DOMAIN ks : q = JobP(i) BY <1>3, <1>6, <1>10, <1>11, <2>1
  <2>2. CASE q = Db \/ q = Lost BY <1>1, <1>2, <1>3, <1>11, <2>2
  <2>3. CASE \E v \in Workers : q = WinP(v) BY <1>1, <1>2, <1>3, <1>11, <2>3
  <2> QED BY <1>4, <2>1, <2>2, <2>3
<1> DEFINE f == [p \in P |-> IF p = JobP(1) THEN Db
                             ELSE IF p \in {JobP(i) : i \in DOMAIN js} THEN JobP(p[2] - 1)
                             ELSE p]
<1>13. f[JobP(1)] = Db BY <1>3, <1>8
<1>14. \A i \in DOMAIN js : i # 1 => f[JobP(i)] = JobP(i - 1) BY <1>3, PlacesDiffer
<1>15. f[Db] = Db /\ f[Lost] = Lost /\ \A v \in Workers : f[WinP(v)] = WinP(v)
  BY <1>3, PlacesDiffer
<1> HIDE DEF f
<1>16. ASSUME NEW o PROVE Moves(P, at, Q, bt, o, f)
  <2>1. ASSUME NEW p \in P, NEW n
        PROVE  f[p] \in Q /\ (Counts(at[p], o, n) => Counts(bt[f[p]], o, n))
    <3>1. CASE p = JobP(1) BY <1>4, <1>9, <1>13, <3>1
    <3>2. ASSUME NEW i \in DOMAIN js, p = JobP(i), i # 1
          PROVE  f[p] \in Q /\ (Counts(at[p], o, n) => Counts(bt[f[p]], o, n))
      <4>1. i - 1 \in DOMAIN ks /\ (i - 1) + 1 = i BY <1>7, <3>2
      <4>2. f[p] = JobP(i - 1) /\ bt[JobP(i - 1)] = at[p] BY <1>10, <1>14, <3>2, <4>1
      <4> QED BY <1>4, <4>1, <4>2
    <3>3. CASE p = Db \/ p = Lost BY <1>1, <1>2, <1>4, <1>15, <3>3
    <3>4. CASE \E v \in Workers : p = WinP(v) BY <1>1, <1>2, <1>4, <1>15, <3>4
    <3> QED BY <1>3, <3>1, <3>2, <3>3, <3>4
  <2>2. ASSUME NEW q \in Q, NEW n, Counts(bt[q], o, n)
        PROVE  \E p \in P : f[p] = q /\ Counts(at[p], o, n)
    <3>1. ASSUME NEW i \in DOMAIN ks, q = JobP(i)
          PROVE  \E p \in P : f[p] = q /\ Counts(at[p], o, n)
      <4>1. i + 1 \in DOMAIN js /\ i + 1 # 1 /\ (i + 1) - 1 = i BY <1>6
      <4>2. f[JobP(i + 1)] = JobP(i) BY <1>14, <4>1
      <4> QED BY <1>3, <1>10, <2>2, <3>1, <4>1, <4>2
    <3>2. CASE q = Db \/ q = Lost BY <1>1, <1>2, <1>3, <1>15, <2>2, <3>2
    <3>3. CASE \E v \in Workers : q = WinP(v) BY <1>1, <1>2, <1>3, <1>15, <2>2, <3>3
    <3> QED BY <1>4, <3>1, <3>2, <3>3
  <2> QED BY <2>1, <2>2, MovesWhen
<1>17. Account(Q, bt, h) BY <1>5, <1>12, <1>16, Moved
<1> QED BY <1>17 DEF Accounted, Q, bt

(* A job stored, or lost, leaves the channel.                              *)
LEMMA AccountedDone ==
  ASSUME NEW d, NEW l, NEW js, NEW x, NEW h \in Secs, Accounted(d, l, js, x, h),
         NEW L \in Nat, DOMAIN js = 1..(L + 1),
         NEW ks, DOMAIN ks = 1..L, \A i \in 1..L : ks[i] = js[i + 1]
  PROVE  /\ Accounted(MergeAll(d, js[1].rows), l, ks, x, h)
         /\ Accounted(d, MergeAll(l, js[1].rows), ks, x, h)
<1> DEFINE es == Emptied(js)
<1>1. 1 \in DOMAIN js /\ \A i \in 1..L : i + 1 \in DOMAIN js /\ i + 1 # 1 OBVIOUS
<1>2. /\ DOMAIN es = DOMAIN js /\ DOMAIN es[1].rows = {}
      /\ \A i \in DOMAIN js \ {1} : es[i] = js[i]
  BY <1>1 DEF Emptied, None
<1> HIDE DEF es
<1>3. /\ Accounted(MergeAll(d, js[1].rows), l, es, x, h)
      /\ Accounted(d, MergeAll(l, js[1].rows), es, x, h)
  BY <1>1, <1>2, AccountedStored
<1>4. DOMAIN es = 1..(L + 1) /\ \A i \in 1..L : ks[i] = es[i + 1] BY <1>1, <1>2
<1> QED BY <1>2, <1>3, <1>4, AccountedPopped

(* prune(): rows leave the database and are among what is lost.            *)
LEMMA AccountedPruned ==
  ASSUME NEW d, NEW l, NEW js, NEW x, NEW h \in Secs, Accounted(d, l, js, x, h),
         NEW out \in SUBSET DOMAIN d
  PROVE  Accounted(Restrict(d, DOMAIN d \ out), MergeAll(l, Restrict(d, out)), js, x, h)
<1> DEFINE P == PlacesFor(js)
           kept == Restrict(d, DOMAIN d \ out)
           gone == Restrict(d, out)
           m == MergeAll(l, gone)
           at == RowsFor(d, l, js, x)
           bt == RowsFor(kept, m, js, x)
<1>1. /\ at[Db] = d /\ at[Lost] = l /\ \A i \in DOMAIN js : at[JobP(i)] = js[i].rows
      /\ \A v \in Workers : at[WinP(v)] = Rows(x[v])
  BY RowsThere
<1>2. /\ bt[Db] = kept /\ bt[Lost] = m /\ \A i \in DOMAIN js : bt[JobP(i)] = js[i].rows
      /\ \A v \in Workers : bt[WinP(v)] = Rows(x[v])
  BY RowsThere
<1>3. /\ Lost \in P /\ Db \in P /\ Db # Lost
      /\ \A p \in P : \/ p = Db \/ p = Lost \/ \E i \in DOMAIN js : p = JobP(i)
                      \/ \E v \in Workers : p = WinP(v)
  BY PlacesAre, PlacesDiffer
<1>4. Account(P, at, h) BY DEF Accounted
<1>5. /\ DOMAIN kept = DOMAIN d \ out /\ (\A o \in DOMAIN d \ out : kept[o] = d[o])
      /\ DOMAIN gone = out /\ (\A o \in out : gone[o] = d[o])
  BY DEF Restrict
<1>m. m = MergeAll(l, gone) OBVIOUS
<1> HIDE DEF P, at, bt, m, kept, gone
<1>6. \A p \in P : HonestRows(at[p], h) BY <1>4 DEF Account
<1>7. HonestRows(kept, h) /\ HonestRows(gone, h)
  <2>1. HonestRows(d, h) BY <1>1, <1>3, <1>6
  <2> QED BY <1>5, <2>1 DEF HonestRows
<1>8. \A o, n : /\ Counts(kept, o, n) <=> o \notin out /\ Counts(d, o, n)
                /\ Counts(gone, o, n) <=> o \in out /\ Counts(d, o, n)
  BY <1>5 DEF Counts
<1>9. \A o, n : ~(Counts(l, o, n) /\ Counts(gone, o, n))
  <2>1. \A o, n : ~(Counts(at[Lost], o, n) /\ Counts(at[Db], o, n)) BY <1>3, <1>4, Apart
  <2> QED BY <1>1, <1>8, <2>1
<1>10. HonestRows(l, h) BY <1>1, <1>3, <1>6
<1>11. /\ HonestRows(m, h)
       /\ \A o, n : Counts(m, o, n) <=> Counts(l, o, n) \/ Counts(gone, o, n)
  BY <1>7, <1>9, <1>10, <1>m, MergedRows
<1>12. \A p \in P \ {Db, Lost} : bt[p] = at[p] BY <1>1, <1>2, <1>3
<1>13. \A p \in P : HonestRows(bt[p], h)
  <2> SUFFICES ASSUME NEW p \in P PROVE HonestRows(bt[p], h) OBVIOUS
  <2>1. CASE p \in {Db, Lost} BY <1>2, <1>7, <1>11, <2>1
  <2>2. CASE p \notin {Db, Lost} BY <1>6, <1>12, <2>2
  <2> QED BY <2>1, <2>2
<1>14. ASSUME NEW o PROVE \E f : Moves(P, at, P, bt, o, f)
  <2> DEFINE f == [p \in P |-> IF p = Db /\ o \in out THEN Lost ELSE p]
  <2>1. \A p \in P : f[p] = IF p = Db /\ o \in out THEN Lost ELSE p OBVIOUS
  <2> HIDE DEF f
  <2>2. ASSUME NEW p \in P, NEW n
        PROVE  f[p] \in P /\ (Counts(at[p], o, n) => Counts(bt[f[p]], o, n))
    <3>1. CASE p = Db BY <1>1, <1>2, <1>3, <1>8, <1>11, <2>1, <3>1
    <3>2. CASE p = Lost BY <1>1, <1>2, <1>3, <1>11, <2>1, <3>2
    <3>3. CASE p \notin {Db, Lost}
      <4>1. f[p] = p /\ bt[p] = at[p] BY <1>12, <2>1, <3>3
      <4> QED BY <4>1
    <3> QED BY <3>1, <3>2, <3>3
  <2>3. ASSUME NEW q \in P, NEW n, Counts(bt[q], o, n)
        PROVE  \E p \in P : f[p] = q /\ Counts(at[p], o, n)
    <3>1. CASE q = Db BY <1>1, <1>2, <1>3, <1>8, <2>1, <2>3, <3>1
    <3>2. CASE q = Lost
      <4>1. Counts(l, o, n) \/ (o \in out /\ Counts(d, o, n)) BY <1>2, <1>8, <1>11, <2>3, <3>2
      <4>2. f[Lost] = Lost /\ (o \in out => f[Db] = Lost) BY <1>3, <2>1
      <4> QED BY <1>1, <1>3, <3>2, <4>1, <4>2
    <3>3. CASE q \notin {Db, Lost}
      <4>1. f[q] = q /\ bt[q] = at[q] BY <1>12, <2>1, <3>3
      <4> QED BY <2>3, <4>1
    <3> QED BY <3>1, <3>2, <3>3
  <2>4. Moves(P, at, P, bt, o, f) BY <2>2, <2>3, MovesWhen
  <2> QED BY <2>4
<1>15. Account(P, bt, h) BY <1>4, <1>13, <1>14, Moved
<1> QED BY <1>15 DEF Accounted, P, bt, m, kept, gone

-----------------------------------------------------------------------------
(* The jobs: the one the writer is at, then the channel.                   *)

LEMMA JobsAre ==
  ASSUME NEW a, NEW q, IsSeq(q), a = <<>> \/ \E j : a = <<j>>
  PROVE  /\ Len(q) \in Nat
         /\ a = <<>> => a \o q = q /\ DOMAIN (a \o q) = 1..Len(q)
         /\ a # <<>> => /\ DOMAIN (a \o q) = 1..(Len(q) + 1) /\ (a \o q)[1] = a[1]
                        /\ \A i \in 1..Len(q) : (a \o q)[i + 1] = q[i]
<1>1. PICK S : q \in Seq(S) BY DEF IsSeq
<1>2. CASE a = <<>> BY <1>1, <1>2
<1>3. CASE a # <<>>
  <2>1. PICK j : a = <<j>> BY <1>3
  <2> DEFINE T == S \union {j}
  <2>2. a \in Seq(T) /\ q \in Seq(T) /\ Len(a) = 1 BY <1>1, <2>1
  <2> HIDE DEF T
  <2>3. ASSUME NEW s \in Seq(T), NEW t \in Seq(T)
        PROVE  /\ DOMAIN (s \o t) = 1..(Len(s) + Len(t)) /\ Len(t) \in Nat
               /\ \A k \in 1..(Len(s) + Len(t)) :
                    (s \o t)[k] = IF k <= Len(s) THEN s[k] ELSE t[k - Len(s)]
    OBVIOUS
  <2>4. /\ DOMAIN (a \o q) = 1..(1 + Len(q)) /\ Len(q) \in Nat
        /\ \A k \in 1..(1 + Len(q)) : (a \o q)[k] = IF k <= 1 THEN a[k] ELSE q[k - 1]
    BY <2>2, <2>3
  <2>5. 1 \in 1..(1 + Len(q)) /\ \A i \in 1..Len(q) :
          i + 1 \in 1..(1 + Len(q)) /\ ~(i + 1 <= 1) /\ (i + 1) - 1 = i
    BY <2>4
  <2>6. 1..(1 + Len(q)) = 1..(Len(q) + 1) BY <2>4
  <2> QED BY <1>3, <2>4, <2>5, <2>6
<1> QED BY <1>2, <1>3

(* A job at the end of the channel, taken by the writer, and done with.    *)
LEMMA JobsSent ==
  ASSUME NEW a, NEW q, IsSeq(q), a = <<>> \/ \E j : a = <<j>>, NEW job
  PROVE  \E L \in Nat : /\ DOMAIN (a \o q) = 1..L
                        /\ DOMAIN (a \o Append(q, job)) = 1..(L + 1)
                        /\ \A i \in 1..L : (a \o Append(q, job))[i] = (a \o q)[i]
                        /\ (a \o Append(q, job))[L + 1] = job
<1> DEFINE r == Append(q, job)
<1>1. /\ IsSeq(r) /\ Len(q) \in Nat /\ Len(r) = Len(q) + 1 /\ r[Len(q) + 1] = job
      /\ \A i \in 1..Len(q) : r[i] = q[i]
  BY AppendSeq
<1> HIDE DEF r
<1>2. CASE a = <<>>
  <2>1. /\ a \o q = q /\ DOMAIN (a \o q) = 1..Len(q) BY <1>2, JobsAre
  <2>2. /\ a \o r = r /\ DOMAIN (a \o r) = 1..Len(r) BY <1>1, <1>2, JobsAre
  <2> QED BY <1>1, <2>1, <2>2 DEF r
<1>3. CASE a # <<>>
  <2>1. /\ DOMAIN (a \o q) = 1..(Len(q) + 1) /\ (a \o q)[1] = a[1]
        /\ \A i \in 1..Len(q) : (a \o q)[i + 1] = q[i]
    BY <1>3, JobsAre
  <2>2. /\ DOMAIN (a \o r) = 1..(Len(r) + 1) /\ (a \o r)[1] = a[1]
        /\ \A i \in 1..Len(r) : (a \o r)[i + 1] = r[i]
    BY <1>1, <1>3, JobsAre
  <2>3. ASSUME NEW i \in 1..(Len(q) + 1) PROVE (a \o r)[i] = (a \o q)[i]
    <3>1. CASE i = 1 BY <2>1, <2>2, <3>1
    <3>2. CASE i # 1
      <4>1. i - 1 \in 1..Len(q) /\ i - 1 \in 1..Len(r) /\ (i - 1) + 1 = i BY <1>1, <3>2
      <4>2. (a \o q)[i] = q[i - 1] BY <2>1, <4>1
      <4>3. (a \o r)[i] = r[i - 1] BY <2>2, <4>1
      <4> QED BY <1>1, <4>1, <4>2, <4>3
    <3> QED BY <3>1, <3>2
  <2>4. (a \o r)[(Len(q) + 1) + 1] = job
    <3>1. Len(q) + 1 \in 1..Len(r) BY <1>1
    <3> QED BY <1>1, <2>2, <3>1
  <2>5. Len(q) + 1 \in Nat /\ DOMAIN (a \o r) = 1..((Len(q) + 1) + 1) BY <1>1, <2>2
  <2> QED BY <2>1, <2>3, <2>4, <2>5 DEF r
<1> QED BY <1>2, <1>3

LEMMA JobsTaken ==
  ASSUME NEW q, IsSeq(q), q # <<>>
  PROVE  <<Head(q)>> \o Tail(q) = <<>> \o q
<1>1. PICK S : q \in Seq(S) BY DEF IsSeq
<1> QED BY <1>1

LEMMA JobsDone ==
  ASSUME NEW a, NEW q, IsSeq(q), a # <<>>, \E j : a = <<j>>
  PROVE  \E L \in Nat : /\ DOMAIN (a \o q) = 1..(L + 1) /\ DOMAIN (<<>> \o q) = 1..L
                        /\ (a \o q)[1] = a[1]
                        /\ \A i \in 1..L : (<<>> \o q)[i] = (a \o q)[i + 1]
<1>1. /\ DOMAIN (a \o q) = 1..(Len(q) + 1) /\ (a \o q)[1] = a[1] /\ Len(q) \in Nat
      /\ \A i \in 1..Len(q) : (a \o q)[i + 1] = q[i]
  BY JobsAre
<1>2. <<>> \o q = q /\ DOMAIN (<<>> \o q) = 1..Len(q) BY JobsAre
<1> QED BY <1>1, <1>2

-----------------------------------------------------------------------------
(* The rows of a worker's window stand for sightings of that worker.       *)
OwnRows(x, h) == \A w \in Workers : Own(Rows(x[w]), h, w)

BarriersEmpty == \A i \in DOMAIN Jobs : Jobs[i].kind = "barrier" => DOMAIN Jobs[i].rows = {}

CountInv ==
  /\ TailInv
  /\ hist \in Secs /\ OwnRows(win, hist)
  /\ \A w \in Workers : Coherent(win[w])
  /\ BarriersEmpty
  /\ Accounted(db, lost, Jobs, win, hist)

(* One sighting more leaves a window its worker's.                         *)
LEMMA OwnGrown ==
  ASSUME NEW h \in Secs, NEW o \in Observables, NEW e \in Sighting, NEW r, HonestRows(r, h),
         NEW v, Own(r, h, v)
  PROVE  /\ Own(r, Grown(h, o, e), v)
         /\ \A s : Saw(r, s, o, e.sec, Len(h[o]) + 1) /\ v = e.by => Own(s, Grown(h, o, e), v)
<1> DEFINE g == Grown(h, o, e)
           new == Len(h[o]) + 1
<1>1. h[o] \in Seq(Sighting) /\ Len(h[o]) \in Nat /\ DOMAIN h[o] = 1..Len(h[o]) BY SecsOf
<1>2. g[o] = Append(h[o], e) /\ \A q \in Observables : q # o => g[q] = h[q]
  BY DEF Grown, Secs
<1>3. g[o][new] = e /\ \A i \in DOMAIN h[o] : g[o][i] = h[o][i] BY <1>1, <1>2
<1> HIDE DEF g, new
<1>4. ASSUME NEW q \in DOMAIN r, NEW n \in r[q].seen PROVE g[q][n].by = v
  <2>1. q \in Observables /\ n \in DOMAIN h[q] /\ h[q][n].by = v
    BY DEF HonestRows, HonestRow, Own
  <2>2. g[q][n] = h[q][n] BY <1>2, <1>3, <2>1
  <2> QED BY <2>1, <2>2
<1>5. Own(r, g, v) BY <1>4 DEF Own
<1>6. ASSUME NEW s, Saw(r, s, o, e.sec, new), v = e.by PROVE Own(s, g, v)
  <2> SUFFICES ASSUME NEW q \in DOMAIN s, NEW n \in s[q].seen PROVE g[q][n].by = v
    BY DEF Own
  <2>1. CASE q = o
    <3>1. s[o].seen = (IF o \in DOMAIN r THEN r[o].seen ELSE {}) \cup {new}
      BY <1>6 DEF Saw, Bump, NewRow
    <3>2. CASE n = new BY <1>3, <1>6, <2>1, <3>2
    <3>3. CASE n # new BY <1>4, <2>1, <3>1, <3>3
    <3> QED BY <3>2, <3>3
  <2>2. CASE q # o
    <3>1. q \in DOMAIN r /\ s[q] = r[q] BY <1>6, <2>2 DEF Saw
    <3> QED BY <1>4, <3>1
  <2> QED BY <2>1, <2>2
<1> QED BY <1>5, <1>6 DEF g, new

(* The rows of the windows are honest.                                     *)
LEMMA WindowHonest ==
  ASSUME NEW d, NEW l, NEW js, NEW x, NEW h, Accounted(d, l, js, x, h), NEW v \in Workers
  PROVE  HonestRows(Rows(x[v]), h)
<1> DEFINE P == PlacesFor(js)
           at == RowsFor(d, l, js, x)
<1>1. at[WinP(v)] = Rows(x[v]) BY RowsThere
<1>2. WinP(v) \in P BY PlacesAre
<1>3. \A p \in P : HonestRows(at[p], h) BY DEF Accounted, Account
<1> HIDE DEF P, at
<1> QED BY <1>1, <1>2, <1>3

(* One sighting by a worker, as observe_ip() or observe_dns() leaves it.   *)
LEMMA SightStep ==
  ASSUME NEW d, NEW l, NEW js, NEW x, NEW h \in Secs, OwnRows(x, h),
         Accounted(d, l, js, x, h), NEW w \in Workers, NEW e \in Sighting, e.by = w,
         NEW z, \A v \in Workers \ {w} : z[v] = x[v],
         NEW o \in Observables, Noted(x[w], z[w], o, e.sec, Len(h[o]) + 1),
         NEW g, g = TakenAt(x[w], z[w], o, h, e)
  PROVE  g \in Secs /\ OwnRows(z, g) /\ Accounted(d, l, js, z, g)
<1>1. Own(Rows(x[w]), h, e.by) BY DEF OwnRows
<1>2. g \in Secs /\ Accounted(d, l, js, z, g) BY <1>1, AccountedSight
<1>3. ASSUME NEW v \in Workers PROVE Own(Rows(z[v]), g, v)
  <2>1. Own(Rows(x[v]), h, v) /\ HonestRows(Rows(x[v]), h) BY WindowHonest DEF OwnRows
  <2>2. CASE o \in Junk \/ z[w].saturations > x[w].saturations
    <3>1. g = h /\ Same(Rows(x[w]), Rows(z[w])) BY <2>2 DEF TakenAt, Noted
    <3>2. CASE v = w BY <2>1, <3>1, <3>2 DEF Same, Own
    <3>3. CASE v # w
      <4>1. z[v] = x[v] BY <3>3
      <4> QED BY <2>1, <3>1, <4>1
    <3> QED BY <3>2, <3>3
  <2>3. CASE ~(o \in Junk \/ z[w].saturations > x[w].saturations)
    <3>1. g = Grown(h, o, e) /\ Saw(Rows(x[w]), Rows(z[w]), o, e.sec, Len(h[o]) + 1)
      BY <2>3 DEF TakenAt, Noted
    <3>2. /\ Own(Rows(x[v]), g, v)
          /\ \A s : Saw(Rows(x[v]), s, o, e.sec, Len(h[o]) + 1) /\ v = e.by => Own(s, g, v)
      BY <2>1, <3>1, OwnGrown
    <3>3. CASE v = w BY <3>1, <3>2, <3>3
    <3>4. CASE v # w
      <4>1. z[v] = x[v] BY <3>4
      <4> QED BY <3>2, <4>1
    <3> QED BY <3>3, <3>4
  <2> QED BY <2>2, <2>3
<1>4. OwnRows(z, g) BY <1>3 DEF OwnRows
<1> QED BY <1>2, <1>4

(* The sightings of a connection and of a name.                            *)
LEMMA CountObserve ==
  ASSUME CountInv, NEW w \in Workers, ObserveConn(w) \/ ObserveDns(w)
  PROVE  /\ hist' \in Secs /\ OwnRows(win', hist')
         /\ \A v \in Workers : Coherent(win'[v])
         /\ Accounted(db', lost', Jobs', win', hist') /\ BarriersEmpty'
<1>0. /\ hist \in Secs /\ OwnRows(win, hist)
      /\ \A v \in Workers : Coherent(win[v]) /\ v \in DOMAIN win /\ DOMAIN win[v] = Fields
      /\ Accounted(db, lost, Jobs, win, hist) /\ BarriersEmpty
  BY DEF CountInv, TailInv, Windows
<1>1. UNCHANGED <<queue, hand, db, lost>> BY DEF ObserveConn, ObserveDns
<1>2. Jobs' = Jobs /\ BarriersEmpty' BY <1>0, <1>1 DEF Jobs, BarriersEmpty
<1> DEFINE At(sec) == [sec |-> sec, by |-> w]
<1>3. \A b, a, o, h, sec : Taken(b, a, o, h, sec, w) = TakenAt(b, a, o, h, At(sec))
  BY DEF Taken, TakenAt, Grown
<1>e. \A sec \in Seconds : At(sec) \in Sighting /\ At(sec).sec = sec /\ At(sec).by = w
  BY MetaAssumption DEF Sighting
<1>4. CASE ObserveDns(w)
  <2>1. PICK name \in Names, sec \in Seconds :
          /\ win' = [win EXCEPT ![w] = ObserveName(win[w], name, sec, Len(hist[name]) + 1)]
          /\ hist' = Taken(win[w], ObserveName(win[w], name, sec, Len(hist[name]) + 1), name,
                           hist, sec, w)
    BY <1>4 DEF ObserveDns
  <2>2. name \in Observables BY DEF Observables
  <2> DEFINE y == ObserveName(win[w], name, sec, Len(hist[name]) + 1)
             e == At(sec)
  <2>3. Noted(win[w], y, name, sec, Len(hist[name]) + 1) BY <1>0, ObservedName
  <2>4. win'[w] = y /\ \A v \in Workers \ {w} : win'[v] = win[v] BY <1>0, <2>1
  <2>5. hist' = TakenAt(win[w], win'[w], name, hist, e) BY <1>3, <2>1, <2>4
  <2>e. e \in Sighting /\ e.sec = sec /\ e.by = w BY <1>e
  <2> HIDE DEF y, e
  <2>6. Noted(win[w], win'[w], name, e.sec, Len(hist[name]) + 1) BY <2>3, <2>4, <2>e
  <2>7. hist' \in Secs /\ OwnRows(win', hist') /\ Accounted(db, lost, Jobs, win', hist')
    BY <1>0, <2>2, <2>4, <2>5, <2>6, <2>e, SightStep
  <2>8. \A v \in Workers : Coherent(win'[v]) BY <1>0, <2>4, <2>6 DEF Noted
  <2> QED BY <1>1, <1>2, <2>7, <2>8
<1>5. CASE ObserveConn(w)
  <2> DEFINE One(c, sec) == ObserveIp(win[w], c[2], sec, Len(hist[c[2]]) + 1)
             Then(c, sec) == Taken(win[w], One(c, sec), c[2], hist, sec, w)
             Both(c, sec) == ObserveIp(One(c, sec), c[1], sec, Len(Then(c, sec)[c[1]]) + 1)
  <2>1. PICK c \in Conns, sec \in Seconds :
          /\ win' = [win EXCEPT ![w] = Both(c, sec)]
          /\ hist' = Taken(One(c, sec), Both(c, sec), c[1], Then(c, sec), sec, w)
    BY <1>5 DEF ObserveConn
  <2> DEFINE one == One(c, sec)
             h == Then(c, sec)
             both == Both(c, sec)
             e == At(sec)
             x == [win EXCEPT ![w] = one]
  <2>2. c[1] \in Addresses /\ c[2] \in Addresses /\ c[1] \in Observables /\ c[2] \in Observables
    BY MetaAssumption DEF Observables
  <2>3. Noted(win[w], one, c[2], sec, Len(hist[c[2]]) + 1) BY <1>0, <2>2, ObservedIp
  <2>4. DOMAIN one = Fields /\ Coherent(one) BY <2>3 DEF Noted
  <2>5. Noted(one, both, c[1], sec, Len(h[c[1]]) + 1) BY <2>2, <2>4, ObservedIp
  <2>6. h = TakenAt(win[w], one, c[2], hist, e) BY <1>3
  <2>7. hist' = TakenAt(one, both, c[1], h, e) BY <1>3, <2>1
  <2>8. win' = [win EXCEPT ![w] = both] BY <2>1
  <2>e. e \in Sighting /\ e.sec = sec /\ e.by = w BY <1>e
  <2> HIDE DEF one, h, both, One, Then, Both, e
  <2>9. x[w] = one /\ \A v \in Workers \ {w} : x[v] = win[v] BY <1>0
  <2>10. win'[w] = both /\ \A v \in Workers \ {w} : win'[v] = win[v] BY <1>0, <2>8
  <2>11. \A v \in Workers \ {w} : win'[v] = x[v] BY <2>9, <2>10
  <2> HIDE DEF x
  <2>12. Noted(win[w], x[w], c[2], e.sec, Len(hist[c[2]]) + 1)
         /\ h = TakenAt(win[w], x[w], c[2], hist, e)
    BY <2>3, <2>6, <2>9, <2>e
  <2>13. h \in Secs /\ OwnRows(x, h) /\ Accounted(db, lost, Jobs, x, h)
    BY <1>0, <2>2, <2>9, <2>12, <2>e, SightStep
  <2>14. Noted(x[w], win'[w], c[1], e.sec, Len(h[c[1]]) + 1)
         /\ hist' = TakenAt(x[w], win'[w], c[1], h, e)
    BY <2>5, <2>7, <2>9, <2>10, <2>e
  <2>15. hist' \in Secs /\ OwnRows(win', hist') /\ Accounted(db, lost, Jobs, win', hist')
    BY <2>2, <2>11, <2>13, <2>14, <2>e, SightStep
  <2>16. \A v \in Workers : Coherent(win'[v])
    <3>1. Coherent(both) BY <2>5 DEF Noted
    <3> QED BY <1>0, <2>10, <3>1
  <2> QED BY <1>1, <1>2, <2>15, <2>16
<1> QED BY <1>4, <1>5

(* A window that is emptied, or keeps its rows, is its worker's still.     *)
LEMMA OwnKept ==
  ASSUME NEW x, NEW y, NEW h, OwnRows(x, h), NEW w \in Workers,
         \A v \in Workers \ {w} : y[v] = x[v],
         DOMAIN Rows(y[w]) = {} \/ Same(Rows(x[w]), Rows(y[w]))
  PROVE  OwnRows(y, h)
<1> SUFFICES ASSUME NEW v \in Workers PROVE Own(Rows(y[v]), h, v) BY DEF OwnRows
<1>1. Own(Rows(x[v]), h, v) BY DEF OwnRows
<1>2. CASE v = w BY <1>1, <1>2 DEF Own, Same
<1>3. CASE v # w
  <2>1. y[v] = x[v] BY <1>3
  <2> QED BY <1>1, <2>1
<1> QED BY <1>2, <1>3

(* A drained window, its flush time and its counter set or not.            *)
LEMMA DrainedCoherent ==
  ASSUME NEW x, DOMAIN x = Fields, Coherent(x), NEW sec, NEW y,
         \/ y = Drained(x)
         \/ y = [Drained(x) EXCEPT !.lastFlush = sec]
         \/ y = [Dropped(x) EXCEPT !.lastFlush = sec]
  PROVE  Coherent(y) /\ DOMAIN Rows(y) = {}
<1> DEFINE z == Drained(x)
<1>1. /\ DOMAIN z = Fields /\ z.ips = <<>> /\ z.index = None /\ z.recent = None
      /\ z.names = None /\ z.saturations = x.saturations
  BY DEF Drained, Fields
<1>2. x.saturations \in Nat /\ Pending(x) \in Nat
  <2>1. x.saturations \in Nat BY DEF Coherent
  <2> QED BY <2>1, NothingPending
<1> DEFINE u == Dropped(x)
<1>u. /\ DOMAIN u = Fields /\ u.ips = <<>> /\ u.index = None /\ u.recent = None
      /\ u.names = None /\ u.saturations \in Nat
  <2>1. u = [z EXCEPT !.saturations = x.saturations + Pending(x)] BY DEF Dropped
  <2> HIDE DEF z, u
  <2> QED BY <1>1, <1>2, <2>1 DEF Fields
<1>z. \/ y = z \/ y = [z EXCEPT !.lastFlush = sec] \/ y = [u EXCEPT !.lastFlush = sec]
  OBVIOUS
<1> HIDE DEF z, u
<1>3. /\ y.ips = <<>> /\ y.index = None /\ y.recent = None
      /\ y.names = None /\ y.saturations \in Nat
  <2>1. CASE y = z BY <1>1, <1>2, <2>1
  <2>2. CASE y = [z EXCEPT !.lastFlush = sec] BY <1>1, <1>2, <2>2 DEF Fields
  <2>3. CASE y = [u EXCEPT !.lastFlush = sec] BY <1>u, <2>3 DEF Fields
  <2> QED BY <1>z, <2>1, <2>2, <2>3
<1> QED BY <1>3, DrainedRows

(* A job is appended to the channel, and the window of its owner with it   *)
(* emptied, or the job empty and the window left.                          *)
LEMMA CountSent ==
  ASSUME CountInv, NEW w \in Workers, NEW job,
         queue' = Append(queue, job), hand' = hand, UNCHANGED <<db, lost, hist>>,
         \A v \in Workers \ {w} : win'[v] = win[v],
         \/ job.kind = "write" /\ job.rows = Rows(win[w]) /\ DOMAIN Rows(win'[w]) = {}
         \/ DOMAIN job.rows = {} /\ win'[w] = win[w]
  PROVE  Accounted(db', lost', Jobs', win', hist') /\ BarriersEmpty'
<1>1. PICK L \in Nat : /\ DOMAIN Jobs = 1..L /\ DOMAIN Jobs' = 1..(L + 1)
                       /\ \A i \in 1..L : Jobs'[i] = Jobs[i]
                       /\ Jobs'[L + 1] = job
  BY JobsSent DEF Jobs, CountInv, TailInv, Channel
<1>2. Accounted(db, lost, Jobs, win, hist) BY DEF CountInv
<1>3. \/ Jobs'[L + 1].rows = Rows(win[w]) /\ DOMAIN Rows(win'[w]) = {}
      \/ DOMAIN Jobs'[L + 1].rows = {} /\ win'[w] = win[w]
  BY <1>1
<1>4. Accounted(db, lost, Jobs', win', hist) BY <1>1, <1>2, <1>3, AccountedSent
<1>5. BarriersEmpty'
  <2> SUFFICES ASSUME NEW i \in DOMAIN Jobs', Jobs'[i].kind = "barrier"
               PROVE  DOMAIN Jobs'[i].rows = {}
    BY DEF BarriersEmpty
  <2>1. CASE i = L + 1 BY <1>1, <2>1
  <2>2. CASE i # L + 1
    <3>1. i \in DOMAIN Jobs /\ Jobs'[i] = Jobs[i] BY <1>1, <2>2
    <3> QED BY <3>1 DEF CountInv, BarriersEmpty
  <2> QED BY <2>1, <2>2
<1> QED BY <1>4, <1>5

(* The job of the writer is done with.                                     *)
LEMMA CountDone ==
  ASSUME CountInv, hand # <<>>, hand' = <<>>, queue' = queue, UNCHANGED <<win, hist>>,
         \/ db' = MergeAll(db, hand[1].rows) /\ lost' = lost
         \/ db' = db /\ lost' = MergeAll(lost, hand[1].rows)
         \/ db' = db /\ lost' = lost /\ hand[1].kind = "barrier"
  PROVE  Accounted(db', lost', Jobs', win', hist') /\ BarriersEmpty'
<1>1. IsSeq(queue) /\ \E j : hand = <<j>> BY DEF CountInv, TailInv, Channel
<1>2. PICK L \in Nat : /\ DOMAIN Jobs = 1..(L + 1) /\ DOMAIN Jobs' = 1..L
                       /\ Jobs[1] = hand[1]
                       /\ \A i \in 1..L : Jobs'[i] = Jobs[i + 1]
  <2>1. Jobs = hand \o queue /\ Jobs' = <<>> \o queue BY DEF Jobs
  <2> QED BY <1>1, <2>1, JobsDone
<1>3. Accounted(db, lost, Jobs, win, hist) /\ hist \in Secs BY DEF CountInv
<1>4. Accounted(db', lost', Jobs', win, hist)
  <2>1. /\ Accounted(MergeAll(db, Jobs[1].rows), lost, Jobs', win, hist)
        /\ Accounted(db, MergeAll(lost, Jobs[1].rows), Jobs', win, hist)
    BY <1>2, <1>3, AccountedDone
  <2>2. CASE db' = db /\ lost' = lost /\ hand[1].kind = "barrier"
    <3>1. 1 \in DOMAIN Jobs BY <1>2
    <3>2. DOMAIN Jobs[1].rows = {} BY <1>2, <2>2, <3>1 DEF CountInv, BarriersEmpty
    <3>3. Accounted(db, lost, Jobs', win, hist) BY <1>2, <1>3, <3>2, AccountedPopped
    <3> QED BY <2>2, <3>3
  <2> QED BY <1>2, <2>1, <2>2
<1>5. BarriersEmpty'
  <2>1. \A i \in 1..L : i + 1 \in 1..(L + 1) BY <1>2
  <2> QED BY <1>2, <2>1 DEF CountInv, BarriersEmpty
<1> QED BY <1>4, <1>5

LEMMA CountFlush ==
  ASSUME CountInv, NEW w \in Workers, MaybeFlush(w) \/ SendTail(w)
  PROVE  /\ UNCHANGED hist /\ OwnRows(win', hist)
         /\ \A v \in Workers : Coherent(win'[v])
         /\ Accounted(db', lost', Jobs', win', hist') /\ BarriersEmpty'
<1>0. /\ hist \in Secs /\ OwnRows(win, hist) /\ BarriersEmpty
      /\ \A v \in Workers : Coherent(win[v]) /\ v \in DOMAIN win /\ DOMAIN win[v] = Fields
      /\ Accounted(db, lost, Jobs, win, hist)
  BY DEF CountInv, TailInv, Windows
<1>1. UNCHANGED <<clock, hist, hand, db>> BY DEF MaybeFlush, SendTail
<1>p. Pending(win[w]) \in Nat /\ (Pending(win[w]) = 0 => DOMAIN Rows(win[w]) = {})
  BY <1>0, NothingPending
<1>2. CASE win' = [win EXCEPT ![w].lastFlush = clock] /\ UNCHANGED <<queue, lost>>
  <2> DEFINE y == [win[w] EXCEPT !.lastFlush = clock]
  <2>1. win'[w] = y /\ \A v \in Workers \ {w} : win'[v] = win[v] BY <1>0, <1>2
  <2>2. /\ y.ips = win[w].ips /\ y.index = win[w].index /\ y.names = win[w].names
        /\ y.recent = win[w].recent /\ y.saturations = win[w].saturations
    BY <1>0 DEF Fields
  <2> HIDE DEF y
  <2>3. y.saturations \in Nat /\ \A s \in DOMAIN y.recent :
          y.recent[s][1] \in DOMAIN y.index /\ y.recent[s][2] = y.index[y.recent[s][1]]
    BY <1>0, <2>2 DEF Coherent
  <2>4. Coherent(y) /\ Same(Rows(win[w]), Rows(y)) BY <1>0, <2>2, <2>3, SameRows
  <2>5. \A v \in Workers : Same(Rows(win[v]), Rows(win'[v]))
    <3>1. \A r : Same(r, r) BY DEF Same
    <3> QED BY <2>1, <2>4, <3>1
  <2>6. Accounted(db, lost, Jobs, win', hist) BY <1>0, <2>5, AccountedSame
  <2>7. Jobs' = Jobs /\ BarriersEmpty' BY <1>0, <1>1, <1>2 DEF Jobs, BarriersEmpty
  <2>8. \A v \in Workers : Coherent(win'[v]) BY <1>0, <2>1, <2>4
  <2>9. OwnRows(win', hist)
    <3>1. Same(Rows(win[w]), Rows(win'[w])) BY <2>5
    <3> QED BY <1>0, <2>1, <3>1, OwnKept
  <2> QED BY <1>1, <1>2, <2>6, <2>7, <2>8, <2>9
<1>3. ASSUME NEW y, win' = [win EXCEPT ![w] = y],
             \/ y = Drained(win[w])
             \/ y = [Drained(win[w]) EXCEPT !.lastFlush = clock]
             \/ y = [Dropped(win[w]) EXCEPT !.lastFlush = clock],
             \/ queue' = Append(queue, WriteJob(w)) /\ UNCHANGED lost
             \/ UNCHANGED queue /\ lost' = MergeAll(lost, Rows(win[w]))
             \/ UNCHANGED <<queue, lost>> /\ Pending(win[w]) = 0
      PROVE  /\ OwnRows(win', hist) /\ \A v \in Workers : Coherent(win'[v])
             /\ Accounted(db', lost', Jobs', win', hist') /\ BarriersEmpty'
  <2>1. win'[w] = y /\ \A v \in Workers \ {w} : win'[v] = win[v] BY <1>0, <1>3
  <2>2. Coherent(y) /\ DOMAIN Rows(y) = {} BY <1>0, <1>3, DrainedCoherent
  <2>3. \A v \in Workers : Coherent(win'[v]) BY <1>0, <2>1, <2>2
  <2>4. DOMAIN Rows(win'[w]) = {} BY <2>1, <2>2
  <2>o. OwnRows(win', hist) BY <1>0, <2>1, <2>4, OwnKept
  <2>5. CASE queue' = Append(queue, WriteJob(w)) /\ UNCHANGED lost
    <3>1. WriteJob(w).kind = "write" /\ WriteJob(w).rows = Rows(win[w]) BY DEF WriteJob
    <3>2. Accounted(db', lost', Jobs', win', hist') /\ BarriersEmpty'
      BY <1>1, <2>1, <2>4, <2>5, <3>1, CountSent
    <3> QED BY <2>3, <2>o, <3>2
  <2>6. CASE UNCHANGED queue /\ lost' = MergeAll(lost, Rows(win[w]))
    <3>1. Jobs' = Jobs /\ BarriersEmpty' BY <1>0, <1>1, <2>6 DEF Jobs, BarriersEmpty
    <3>2. Accounted(db, MergeAll(lost, Rows(win[w])), Jobs, win', hist)
      BY <1>0, <2>1, <2>4, AccountedDropped
    <3> QED BY <1>1, <2>3, <2>6, <2>o, <3>1, <3>2
  <2>7. CASE UNCHANGED <<queue, lost>> /\ Pending(win[w]) = 0
    <3>1. Jobs' = Jobs /\ BarriersEmpty' BY <1>0, <1>1, <2>7 DEF Jobs, BarriersEmpty
    <3>2. Same(Rows(win[w]), Rows(win'[w])) BY <1>p, <2>4, <2>7 DEF Same
    <3>3. \A v \in Workers : Same(Rows(win[v]), Rows(win'[v]))
      <4>1. \A r : Same(r, r) BY DEF Same
      <4> QED BY <2>1, <3>2, <4>1
    <3>4. Accounted(db, lost, Jobs, win', hist) BY <1>0, <3>3, AccountedSame
    <3> QED BY <1>1, <2>3, <2>7, <2>o, <3>1, <3>4
  <2> QED BY <1>3, <2>5, <2>6, <2>7
<1>4. CASE SendTail(w)
  <2>1. win' = [win EXCEPT ![w] = Drained(win[w])] BY <1>0, <1>4 DEF SendTail
  <2>2. \/ queue' = Append(queue, WriteJob(w)) /\ UNCHANGED lost
        \/ UNCHANGED <<queue, lost>> /\ Pending(win[w]) = 0
    BY <1>4 DEF SendTail
  <2> QED BY <1>1, <1>3, <2>1, <2>2
<1>5. CASE MaybeFlush(w)
  <2>1. CASE /\ win' = [win EXCEPT ![w] = [Drained(@) EXCEPT !.lastFlush = clock]]
             /\ queue' = Append(queue, WriteJob(w)) /\ UNCHANGED lost
    <3>1. win' = [win EXCEPT ![w] = [Drained(win[w]) EXCEPT !.lastFlush = clock]]
      BY <1>0, <2>1
    <3> QED BY <1>1, <1>3, <2>1, <3>1
  <2>2. CASE /\ win' = [win EXCEPT ![w] = [Dropped(@) EXCEPT !.lastFlush = clock]]
             /\ UNCHANGED queue /\ lost' = MergeAll(lost, Rows(win[w]))
    <3>1. win' = [win EXCEPT ![w] = [Dropped(win[w]) EXCEPT !.lastFlush = clock]]
      BY <1>0, <2>2
    <3> QED BY <1>1, <1>3, <2>2, <3>1
  <2> QED BY <1>1, <1>2, <1>5, <2>1, <2>2 DEF MaybeFlush
<1> QED BY <1>4, <1>5

(* The invariant holds at every step, at the start, and so throughout.     *)
LEMMA NextCountInv == CountInv /\ [Next]_vars => CountInv'
<1> SUFFICES ASSUME CountInv, [Next]_vars PROVE CountInv' OBVIOUS
<1>0. /\ hist \in Secs /\ OwnRows(win, hist) /\ BarriersEmpty
      /\ (\A v \in Workers : Coherent(win[v])) /\ Accounted(db, lost, Jobs, win, hist)
      /\ IsSeq(queue)
  BY DEF CountInv, TailInv, Channel
<1>t. TailInv' BY NextTailInv DEF CountInv
<1>1. ASSUME NEW w \in Workers, ObserveConn(w) \/ ObserveDns(w) PROVE CountInv'
  <2>1. /\ hist' \in Secs /\ OwnRows(win', hist')
        /\ \A v \in Workers : Coherent(win'[v])
        /\ Accounted(db', lost', Jobs', win', hist') /\ BarriersEmpty'
    BY <1>1, CountObserve
  <2> QED BY <1>0, <1>t, <2>1 DEF CountInv, OwnRows, Own, Coherent, Accounted
<1>2. ASSUME NEW w \in Workers, MaybeFlush(w) \/ SendTail(w) PROVE CountInv'
  <2>1. /\ UNCHANGED hist /\ OwnRows(win', hist) /\ \A v \in Workers : Coherent(win'[v])
        /\ Accounted(db', lost', Jobs', win', hist') /\ BarriersEmpty'
    BY <1>2, CountFlush
  <2> QED BY <1>0, <1>t, <2>1 DEF CountInv, OwnRows, Own, Coherent, Accounted
<1>3. ASSUME NEW w \in Workers, SendBarrier(w) PROVE CountInv'
  <2>1. /\ queue' = Append(queue, BarrierJob(w)) /\ hand' = hand
        /\ UNCHANGED <<win, db, hist, lost>>
    BY <1>3 DEF SendBarrier
  <2>2. DOMAIN BarrierJob(w).rows = {} BY DEF BarrierJob, None
  <2>3. \A v \in Workers \ {w} : win'[v] = win[v] BY <2>1
  <2>4. Accounted(db', lost', Jobs', win', hist') /\ BarriersEmpty'
    BY <2>1, <2>2, <2>3, CountSent
  <2> QED BY <1>0, <1>t, <2>1, <2>4 DEF CountInv, OwnRows, Own, Coherent, Accounted
<1>4. CASE WriterTakes
  <2>1. /\ hand = <<>> /\ queue # <<>> /\ hand' = <<Head(queue)>> /\ queue' = Tail(queue)
        /\ UNCHANGED <<win, db, hist, lost>>
    BY <1>4 DEF WriterTakes
  <2>2. Jobs' = Jobs BY <1>0, <2>1, JobsTaken DEF Jobs
  <2>3. BarriersEmpty' BY <1>0, <2>2 DEF BarriersEmpty
  <2> QED BY <1>0, <1>t, <2>1, <2>2, <2>3 DEF CountInv, OwnRows, Own, Coherent, Accounted
<1>5. CASE WriterStores \/ WriterFails \/ WriterAnswers
  <2>1. /\ hand # <<>> /\ hand' = <<>> /\ queue' = queue /\ UNCHANGED <<win, hist>>
        /\ \/ db' = MergeAll(db, hand[1].rows) /\ lost' = lost
           \/ db' = db /\ lost' = MergeAll(lost, hand[1].rows)
           \/ db' = db /\ lost' = lost /\ hand[1].kind = "barrier"
    BY <1>5 DEF WriterStores, WriterFails, WriterAnswers
  <2>2. Accounted(db', lost', Jobs', win', hist') /\ BarriersEmpty' BY <2>1, CountDone
  <2> QED BY <1>0, <1>t, <2>1, <2>2 DEF CountInv, OwnRows, Own, Coherent, Accounted
<1>6. CASE PruneDelete
  <2>1. PICK out \in SUBSET DOMAIN db :
          /\ db' = Restrict(db, DOMAIN db \ out) /\ lost' = MergeAll(lost, Restrict(db, out))
          /\ UNCHANGED <<win, queue, hand, hist>>
    BY <1>6 DEF PruneDelete, kSubset
  <2>2. Accounted(Restrict(db, DOMAIN db \ out), MergeAll(lost, Restrict(db, out)), Jobs, win, hist)
    BY <1>0, AccountedPruned
  <2>3. Jobs' = Jobs /\ BarriersEmpty' BY <1>0, <2>1 DEF Jobs, BarriersEmpty
  <2> QED BY <1>0, <1>t, <2>1, <2>2, <2>3 DEF CountInv, OwnRows, Own, Coherent, Accounted
<1>7. CASE PruneCount \/ Tick \/ Finished \/ UNCHANGED vars
  <2>1. UNCHANGED <<win, queue, hand, db, hist, lost>>
    BY <1>7 DEF PruneCount, Tick, Finished, vars
  <2>2. Jobs' = Jobs /\ BarriersEmpty' BY <1>0, <2>1 DEF Jobs, BarriersEmpty
  <2> QED BY <1>0, <1>t, <2>1, <2>2 DEF CountInv, OwnRows, Own, Coherent, Accounted
<1> QED BY <1>1, <1>2, <1>3, <1>4, <1>5, <1>6, <1>7 DEF Next

LEMMA InitCountInv == Init => CountInv
<1> SUFFICES ASSUME Init PROVE CountInv OBVIOUS
<1>1. TailInv BY InitTailInv
<1>2. hist \in Secs
  <2>1. <<>> \in Seq(Sighting) OBVIOUS
  <2> QED BY <2>1 DEF Init, Secs
<1>3. ASSUME NEW w \in Workers PROVE Coherent(win[w]) /\ DOMAIN Rows(win[w]) = {}
  <2>1. win[w] = EmptyWindow /\ DOMAIN EmptyWindow = Fields BY DEF Init, EmptyWindow, Fields
  <2>2. /\ EmptyWindow.ips = <<>> /\ EmptyWindow.index = None /\ EmptyWindow.recent = None
        /\ EmptyWindow.names = None /\ EmptyWindow.saturations \in Nat
    BY DEF EmptyWindow
  <2> QED BY <2>1, <2>2, DrainedRows
<1>o. OwnRows(win, hist) BY <1>3 DEF OwnRows, Own
<1>4. DOMAIN Jobs = {} BY DEF Init, Jobs
<1>5. BarriersEmpty BY <1>4 DEF BarriersEmpty
<1>6. Accounted(db, lost, Jobs, win, hist)
  <2> DEFINE P == PlacesFor(Jobs)
             at == RowsFor(db, lost, Jobs, win)
  <2>1. /\ at[Db] = db /\ at[Lost] = lost /\ \A v \in Workers : at[WinP(v)] = Rows(win[v])
    BY RowsThere
  <2>2. \A p \in P : p = Db \/ p = Lost \/ \E v \in Workers : p = WinP(v)
    BY <1>4, PlacesAre
  <2> HIDE DEF P, at
  <2>3. DOMAIN db = {} /\ DOMAIN lost = {} BY DEF Init, None
  <2>4. \A p \in P : DOMAIN at[p] = {} BY <1>3, <2>1, <2>2, <2>3
  <2>5. \A p \in P : HonestRows(at[p], hist) BY <2>4, EmptyCounts
  <2>6. \A o \in Observables : DOMAIN hist[o] = {} BY DEF Init
  <2>7. Account(P, at, hist) BY <2>5, <2>6 DEF Account
  <2> QED BY <2>7 DEF Accounted, P, at
<1> QED BY <1>1, <1>2, <1>3, <1>o, <1>5, <1>6 DEF CountInv

(* Whatever the workers see, in which order and with which timestamps,     *)
(* whichever of the direct-mapped array, the map and a new row takes it,   *)
(* whatever the channel, the writer and the prune do with the rows         *)
(* afterwards: every sighting taken is in exactly one row, of its own      *)
(* observable, and a row tells the number of its sightings and two of      *)
(* their seconds; the first and the last of them, if no worker's clock     *)
(* went back between two of its sightings, however the windows of several  *)
(* workers are merged.                                                     *)
THEOREM SpecNothingMiscounted == Spec => []NothingMiscounted
<1>1. CountInv => NothingMiscounted BY NothingMiscountedIs DEF CountInv
<1> QED BY <1>1, InitCountInv, NextCountInv, PTL DEF Spec

=============================================================================
