------------------------------ MODULE LogProofs ------------------------------
(***************************************************************************)
(* The event log for any number of workers, days and records: no record is *)
(* misfiled, each is whole in a file or counted, and a short write damages *)
(* no more than the errors account for.                                    *)
(***************************************************************************)
EXTENDS EventLog, FiniteSetTheorems, TLAPS

(* What a worker has written whole is finite, so that it can be counted.   *)
Accounted ==
  \A w \in Sinks : /\ IsFiniteSet(WholeBy(w))
                     /\ Cardinality(WholeBy(w)) + logErrors[w] = lines[w]

LogInv == LogTypeOK /\ RightDay /\ Accounted

(* Only a record's place and its chunk matter to WholeBy.                  *)
LEMMA WholeByPlaces ==
  \A w, d, i : <<d, i>> \in WholeBy(w) <=>
    /\ d \in Days /\ i \in 1..Len(files[d])
    /\ files[d][i].by = w /\ files[d][i].whole
<1> SUFFICES ASSUME NEW w, NEW d, NEW i
             PROVE  <<d, i>> \in WholeBy(w) <=>
                      /\ d \in Days /\ i \in 1..Len(files[d])
                      /\ files[d][i].by = w /\ files[d][i].whole
  OBVIOUS
<1>1. <<d, i>> \in Entries <=> d \in Days /\ i \in 1..Len(files[d]) BY DEF Entries
<1> QED BY <1>1 DEF WholeBy

LEMMA WholeByPairs ==
  \A w : \A x \in WholeBy(w) : x = <<x[1], x[2]>>
BY DEF WholeBy, Entries

(* A write of a chunk c to the file of day d leaves the types alone, and   *)
(* c.day = d keeps the days right.                                         *)
LEMMA AppendTypes ==
  ASSUME LogTypeOK, RightDay, NEW d \in Days, NEW c \in Chunks, c.day = d, AppendTo(d, c)
  PROVE  /\ files' \in [Days -> Seq(Chunks)]
         /\ RightDay'
         /\ Len(files'[d]) = Len(files[d]) + 1
         /\ files'[d][Len(files[d]) + 1] = c
         /\ \A i \in 1..Len(files[d]) : files'[d][i] = files[d][i]
         /\ \A e \in Days \ {d} : files'[e] = files[e]
<1>1. files \in [Days -> Seq(Chunks)] BY DEF LogTypeOK
<1>2. files' = [files EXCEPT ![d] = Append(files[d], c)] BY <1>1 DEF AppendTo
<1>3. files[d] \in Seq(Chunks) BY <1>1
<1>4. files'[d] = Append(files[d], c) BY <1>1, <1>2
<1>5. \A e \in Days \ {d} : files'[e] = files[e] BY <1>1, <1>2
<1>6. /\ Append(files[d], c) \in Seq(Chunks)
      /\ Len(Append(files[d], c)) = Len(files[d]) + 1
      /\ Append(files[d], c)[Len(files[d]) + 1] = c
      /\ \A i \in 1..Len(files[d]) : Append(files[d], c)[i] = files[d][i]
  BY <1>3
<1>7. files' \in [Days -> Seq(Chunks)] BY <1>1, <1>2, <1>6
<1>8. RightDay'
  <2> SUFFICES ASSUME NEW e \in Days, NEW i \in 1..Len(files'[e])
               PROVE  files'[e][i].day = e
    BY DEF RightDay
  <2>1. CASE e # d BY <1>5, <2>1 DEF RightDay
  <2>2. CASE e = d
    <3>1. Len(files[d]) \in Nat BY <1>3
    <3>2. i \in 1..Len(files[d]) \/ i = Len(files[d]) + 1 BY <1>4, <1>6, <2>2, <3>1
    <3> QED BY <1>4, <1>6, <2>2, <3>2 DEF RightDay
  <2> QED BY <2>1, <2>2
<1> QED BY <1>4, <1>5, <1>6, <1>7, <1>8

(* A whole chunk of worker w is one more for w and nothing for the others. *)
LEMMA AppendCounts ==
  ASSUME LogTypeOK, RightDay, Accounted, NEW d \in Days, NEW c \in Chunks, c.day = d,
         AppendTo(d, c), NEW v \in Sinks
  PROVE  /\ IsFiniteSet(WholeBy(v)')
         /\ Cardinality(WholeBy(v)') =
              Cardinality(WholeBy(v)) + (IF c.by = v /\ c.whole THEN 1 ELSE 0)
<1> DEFINE n == Len(files[d]) + 1
<1>1. /\ Len(files'[d]) = n /\ files'[d][n] = c
      /\ \A i \in 1..Len(files[d]) : files'[d][i] = files[d][i]
      /\ \A e \in Days \ {d} : files'[e] = files[e]
      /\ Len(files[d]) \in Nat
  BY AppendTypes DEF LogTypeOK
<1>2. IsFiniteSet(WholeBy(v)) BY DEF Accounted
<1>3. \A e, i : <<e, i>> \in WholeBy(v)' <=>
        /\ e \in Days /\ i \in 1..Len(files'[e])
        /\ files'[e][i].by = v /\ files'[e][i].whole
  <2> SUFFICES ASSUME NEW e, NEW i
               PROVE  <<e, i>> \in WholeBy(v)' <=>
                        /\ e \in Days /\ i \in 1..Len(files'[e])
                        /\ files'[e][i].by = v /\ files'[e][i].whole
    OBVIOUS
  <2>1. <<e, i>> \in Entries' <=> e \in Days /\ i \in 1..Len(files'[e]) BY DEF Entries
  <2> QED BY <2>1 DEF WholeBy
<1>4. \A x \in WholeBy(v)' : x = <<x[1], x[2]>> BY DEF WholeBy, Entries
<1>5. <<d, n>> \notin WholeBy(v) BY <1>1, WholeByPlaces
<1>6. \A e, i : <<e, i>> \in WholeBy(v)' <=>
        \/ <<e, i>> \in WholeBy(v)
        \/ e = d /\ i = n /\ c.by = v /\ c.whole
  <2> SUFFICES ASSUME NEW e, NEW i
               PROVE  <<e, i>> \in WholeBy(v)' <=>
                        \/ <<e, i>> \in WholeBy(v)
                        \/ e = d /\ i = n /\ c.by = v /\ c.whole
    OBVIOUS
  <2>1. CASE e # d BY <1>1, <1>3, <2>1, WholeByPlaces
  <2>2. CASE e = d
    <3>1. i \in 1..n <=> i \in 1..Len(files[d]) \/ i = n BY <1>1
    <3>2. ~(n \in 1..Len(files[d])) BY <1>1
    <3> QED BY <1>1, <1>3, <2>2, <3>1, <3>2, WholeByPlaces
  <2> QED BY <2>1, <2>2
<1>7. \A x \in WholeBy(v) : x = <<x[1], x[2]>> BY WholeByPairs
<1>8. CASE c.by = v /\ c.whole
  <2>1. WholeBy(v)' = WholeBy(v) \union {<<d, n>>} BY <1>4, <1>6, <1>7, <1>8
  <2>2. /\ IsFiniteSet(WholeBy(v) \union {<<d, n>>})
        /\ Cardinality(WholeBy(v) \union {<<d, n>>}) = Cardinality(WholeBy(v)) + 1
    BY <1>2, <1>5, FS_AddElement
  <2> QED BY <1>8, <2>1, <2>2
<1>9. CASE ~(c.by = v /\ c.whole)
  <2>1. WholeBy(v)' = WholeBy(v) BY <1>4, <1>6, <1>7, <1>9
  <2>2. Cardinality(WholeBy(v)) \in Nat BY <1>2, FS_CardinalityType
  <2> QED BY <1>2, <1>9, <2>1, <2>2
<1> QED BY <1>8, <1>9

(* write_event_log() leaves the sink with the file of the day open.        *)
LEMMA Opened ==
  ASSUME LogTypeOK, NEW w \in Sinks, NEW d \in Days, OpenLog(w, d)
  PROVE  /\ logPath' \in [Sinks -> Days \union {None}]
         /\ logFile' = logPath'
         /\ logFile'[w] = d
BY DEF LogTypeOK, OpenLog

LEMMA InitLogInv == LogInit => LogInv
<1> SUFFICES ASSUME LogInit PROVE LogInv OBVIOUS
<1>1. LogTypeOK BY DEF LogInit, LogTypeOK
<1>2. RightDay BY DEF LogInit, RightDay
<1>3. Accounted
  <2> SUFFICES ASSUME NEW w \in Sinks
               PROVE  /\ IsFiniteSet(WholeBy(w))
                      /\ Cardinality(WholeBy(w)) + logErrors[w] = lines[w]
    BY DEF Accounted
  <2>1. WholeBy(w) = {} BY DEF LogInit, WholeBy, Entries
  <2> QED BY <2>1, FS_EmptySet DEF LogInit
<1> QED BY <1>1, <1>2, <1>3 DEF LogInv

(* The counters of a step that takes one record of worker w.               *)
LEMMA Counters ==
  ASSUME LogTypeOK, NEW w \in Sinks, LogLine(w), LogFault(w) \/ UNCHANGED logErrors
  PROVE  /\ lines' \in [Sinks -> Nat] /\ logErrors' \in [Sinks -> Nat]
         /\ \A v \in Sinks : lines'[v] = lines[v] + (IF v = w THEN 1 ELSE 0)
         /\ LogFault(w) => \A v \in Sinks : logErrors'[v] = logErrors[v] + (IF v = w THEN 1 ELSE 0)
BY DEF LogTypeOK, LogLine, LogFault

LEMMA StepLogInv == LogInv /\ [LogNext]_logVars => LogInv'
<1> SUFFICES ASSUME LogInv, [LogNext]_logVars PROVE LogInv' OBVIOUS
<1> USE DEF LogInv
<1>0. \A v \in Sinks : Cardinality(WholeBy(v)) \in Nat BY FS_CardinalityType DEF Accounted
<1>1. CASE UNCHANGED logVars
  <2>1. \A v \in Sinks : WholeBy(v)' = WholeBy(v) BY <1>1 DEF logVars, WholeBy, Entries
  <2>2. LogTypeOK' /\ RightDay' BY <1>1 DEF logVars, LogTypeOK, RightDay
  <2>3. Accounted' BY <1>1, <2>1 DEF logVars, Accounted
  <2> QED BY <2>2, <2>3
<1>2. ASSUME NEW w \in Sinks, NEW d \in Days,
             \/ OpenFails(w, d)
             \/ WriteFails(w, d)
      PROVE  LogInv'
  <2>1. LogLine(w) /\ LogFault(w) /\ files' = files BY <1>2 DEF OpenFails, WriteFails
  <2>2. logPath' \in [Sinks -> Days \union {None}] /\ logFile' = logPath'
    BY <1>2, Opened DEF OpenFails, WriteFails, LogTypeOK
  <2>3. LogTypeOK' BY <2>1, <2>2, Counters DEF LogTypeOK
  <2>4. RightDay' BY <2>1 DEF RightDay
  <2>5. \A v \in Sinks : WholeBy(v)' = WholeBy(v) BY <2>1 DEF WholeBy, Entries
  <2>6. \A v \in Sinks : lines[v] \in Nat /\ logErrors[v] \in Nat BY DEF LogTypeOK
  <2>7. Accounted' BY <1>0, <2>1, <2>5, <2>6, Counters DEF Accounted
  <2> QED BY <2>3, <2>4, <2>7
<1>3. ASSUME NEW w \in Sinks, NEW d \in Days, NEW whole \in BOOLEAN,
             OpenLog(w, d), AppendTo(logFile'[w], Chunk(w, d, whole)), LogLine(w),
             IF whole THEN UNCHANGED logErrors ELSE LogFault(w)
      PROVE  LogInv'
  <2> DEFINE c == Chunk(w, d, whole)
  <2>1. c \in Chunks /\ c.day = d /\ c.by = w /\ (c.whole <=> whole)
    BY LogAssumption DEF Chunk, Chunks
  <2> HIDE DEF c
  <2>2. /\ logPath' \in [Sinks -> Days \union {None}]
        /\ logFile' = logPath' /\ logFile'[w] = d
    BY <1>3, Opened
  <2>3. AppendTo(d, c) BY <1>3, <2>2 DEF c
  <2>4. files' \in [Days -> Seq(Chunks)] /\ RightDay' BY <2>1, <2>3, AppendTypes
  <2>5. lines' \in [Sinks -> Nat] /\ logErrors' \in [Sinks -> Nat]
    BY <1>3, Counters
  <2>6. LogTypeOK' BY <2>2, <2>4, <2>5 DEF LogTypeOK
  <2>7. ASSUME NEW v \in Sinks
        PROVE  /\ IsFiniteSet(WholeBy(v)')
               /\ Cardinality(WholeBy(v)') + logErrors'[v] = lines'[v]
    <3>1. /\ IsFiniteSet(WholeBy(v)')
          /\ Cardinality(WholeBy(v)') =
               Cardinality(WholeBy(v)) + (IF c.by = v /\ c.whole THEN 1 ELSE 0)
      BY <2>1, <2>3, AppendCounts
    <3>2. lines'[v] = lines[v] + (IF v = w THEN 1 ELSE 0) BY <1>3, Counters
    <3>3. Cardinality(WholeBy(v)) + logErrors[v] = lines[v] BY DEF Accounted
    <3>4. lines[v] \in Nat /\ logErrors[v] \in Nat /\ Cardinality(WholeBy(v)) \in Nat
      BY <1>0 DEF LogTypeOK
    <3>5. CASE whole
      <4>1. logErrors'[v] = logErrors[v] BY <1>3, <3>5
      <4>2. c.by = v /\ c.whole <=> v = w BY <2>1, <3>5
      <4> QED BY <3>1, <3>2, <3>3, <3>4, <4>1, <4>2
    <3>6. CASE ~whole
      <4>1. logErrors'[v] = logErrors[v] + (IF v = w THEN 1 ELSE 0) BY <1>3, <3>6, Counters
      <4>2. ~(c.by = v /\ c.whole) BY <2>1, <3>6
      <4> QED BY <3>1, <3>2, <3>3, <3>4, <4>1, <4>2
    <3> QED BY <3>5, <3>6
  <2>8. Accounted' BY <2>7 DEF Accounted
  <2> QED BY <2>4, <2>6, <2>8
<1>4. ASSUME NEW w \in Sinks, NEW d \in Days, WriteWhole(w, d) PROVE LogInv'
  BY <1>3, <1>4 DEF WriteWhole
<1>5. ASSUME NEW w \in Sinks, NEW d \in Days, WriteShort(w, d) PROVE LogInv'
  BY <1>3, <1>5 DEF WriteShort
<1> QED BY <1>1, <1>2, <1>4, <1>5 DEF LogNext

(* Whatever opens and writes fail, a record is in the file of its own day  *)
(* (write_event_log() compares the path before every write and keeps path  *)
(* and file in step).                                                      *)
THEOREM SpecRightDay == LogSpec => []RightDay
<1>1. LogInv => RightDay BY DEF LogInv
<1> QED BY <1>1, InitLogInv, StepLogInv, PTL DEF LogSpec

(* Each worker's records are whole in a file or in its log_write_errors,   *)
(* with any number of workers appending to the same files.                 *)
THEOREM SpecLogAccounted == LogSpec => []LogAccounted
<1>1. LogInv => LogAccounted BY DEF LogInv, Accounted, LogAccounted
<1> QED BY <1>1, InitLogInv, StepLogInv, PTL DEF LogSpec

-----------------------------------------------------------------------------
(* The damage of short writes to the text log.                             *)

(* A text record ends in its newline exactly when all of it was written.   *)
TextEnds ==
  \A d \in Days : \A i \in 1..Len(files[d]) : files[d][i].newline <=> files[d][i].whole

(* The files whose last line is torn: the next record will not have a line *)
(* of its own.                                                             *)
Torn == {d \in Days : Len(files[d]) > 0 /\ ~files[d][Len(files[d])].newline}

(* Damage yet to come is counted when the short write is.                  *)
DamageAhead ==
  /\ IsFiniteSet(Ticks(lines)) /\ IsFiniteSet(Ticks(logErrors))
  /\ IsFiniteSet(OwnLines) /\ IsFiniteSet(Torn)
  /\ Total(lines) + Cardinality(Torn) <= 2 * Total(logErrors) + Cardinality(OwnLines)

DamageInv == LogInv /\ TextEnds /\ DamageAhead

(* One tick more.                                                          *)
LEMMA OneTick ==
  ASSUME NEW f \in [Sinks -> Nat], IsFiniteSet(Ticks(f)), NEW w \in Sinks
  PROVE  /\ IsFiniteSet(Ticks([f EXCEPT ![w] = @ + 1]))
         /\ Total([f EXCEPT ![w] = @ + 1]) = Total(f) + 1
         /\ Total(f) \in Nat
<1> DEFINE g == [f EXCEPT ![w] = @ + 1]
           p == <<w, f[w] + 1>>
<1>1. f[w] \in Nat OBVIOUS
<1>2. 1..(f[w] + 1) = 1..f[w] \union {f[w] + 1} BY <1>1
<1>3. \A v \in Sinks : g[v] = IF v = w THEN f[w] + 1 ELSE f[v] OBVIOUS
<1>4. \A h, x : x \in Ticks(h) <=> \E v \in Sinks : x \in {v} \X (1..h[v]) BY DEF Ticks
<1> HIDE DEF g
<1>5. Ticks(g) \subseteq Ticks(f) \union {p} BY <1>2, <1>3, <1>4
<1>6. Ticks(f) \subseteq Ticks(g) BY <1>2, <1>3, <1>4
<1>7. p \in Ticks(g)
  <2>1. p \in {w} \X (1..g[w]) BY <1>1, <1>3
  <2> QED BY <1>4, <2>1
<1>8. p \notin Ticks(f)
  <2> SUFFICES ASSUME NEW v \in Sinks, p \in {v} \X (1..f[v]) PROVE FALSE BY <1>4
  <2>1. v = w /\ f[w] + 1 \in 1..f[w] OBVIOUS
  <2> QED BY <1>1, <2>1
<1>9. Ticks(g) = Ticks(f) \union {p} BY <1>5, <1>6, <1>7
<1> HIDE DEF p
<1>10. IsFiniteSet(Ticks(g)) /\ Cardinality(Ticks(g)) = Cardinality(Ticks(f)) + 1
  BY <1>8, <1>9, FS_AddElement
<1> QED BY <1>10, FS_CardinalityType DEF Total, g

(* The totals of a step that takes a record, and counts an error or not.   *)
LEMMA TotalCounters ==
  ASSUME DamageInv, NEW w \in Sinks, LogLine(w), LogFault(w) \/ UNCHANGED logErrors
  PROVE  /\ IsFiniteSet(Ticks(lines)') /\ IsFiniteSet(Ticks(logErrors)')
         /\ Total(lines) \in Nat /\ Total(logErrors) \in Nat
         /\ Total(lines)' = Total(lines) + 1
         /\ LogFault(w) => Total(logErrors)' = Total(logErrors) + 1
         /\ UNCHANGED logErrors => Total(logErrors)' = Total(logErrors)
<1>1. /\ lines \in [Sinks -> Nat] /\ logErrors \in [Sinks -> Nat]
      /\ IsFiniteSet(Ticks(lines)) /\ IsFiniteSet(Ticks(logErrors))
  BY DEF DamageInv, LogInv, LogTypeOK, DamageAhead
<1>2. /\ IsFiniteSet(Ticks(lines')) /\ Total(lines') = Total(lines) + 1
      /\ Total(lines) \in Nat
  BY <1>1, OneTick DEF LogLine
<1>3. Total(logErrors) \in Nat BY <1>1, OneTick
<1>4. CASE LogFault(w)
  <2>1. IsFiniteSet(Ticks(logErrors')) /\ Total(logErrors') = Total(logErrors) + 1
    BY <1>1, <1>4, OneTick DEF LogFault
  <2>2. Total(logErrors) + 1 # Total(logErrors) BY <1>3
  <2>3. ~ UNCHANGED logErrors BY <2>1, <2>2
  <2> QED BY <1>2, <1>3, <2>1, <2>3 DEF Ticks, Total
<1>5. CASE UNCHANGED logErrors /\ ~LogFault(w)
  BY <1>1, <1>2, <1>3, <1>5 DEF Ticks, Total
<1> QED BY <1>4, <1>5

(* Which places hold a line of its own.                                    *)
LEMMA OwnLinePlaces ==
  \A d, i : <<d, i>> \in OwnLines <=>
    /\ d \in Days /\ i \in 1..Len(files[d])
    /\ files[d][i].whole
    /\ i > 1 => files[d][i - 1].newline
    /\ i < Len(files[d]) => files[d][i].newline
<1> SUFFICES ASSUME NEW d, NEW i
             PROVE  <<d, i>> \in OwnLines <=>
                      /\ d \in Days /\ i \in 1..Len(files[d])
                      /\ files[d][i].whole
                      /\ i > 1 => files[d][i - 1].newline
                      /\ i < Len(files[d]) => files[d][i].newline
  OBVIOUS
<1>1. <<d, i>> \in Entries <=> d \in Days /\ i \in 1..Len(files[d]) BY DEF Entries
<1> QED BY <1>1 DEF OwnLines, OwnLine

(* A chunk appended to a file changes no line that was a record's own: it  *)
(* is one itself if it is whole and the file was not torn.                 *)
LEMMA AppendLines ==
  ASSUME DamageInv, NEW d \in Days, NEW c \in Chunks, c.day = d, c.newline <=> c.whole,
         AppendTo(d, c)
  PROVE  /\ TextEnds'
         /\ OwnLines' = IF c.whole /\ d \notin Torn
                          THEN OwnLines \union {<<d, Len(files[d]) + 1>>} ELSE OwnLines
         /\ <<d, Len(files[d]) + 1>> \notin OwnLines
         /\ Torn' = IF c.whole THEN Torn \ {d} ELSE Torn \union {d}
<1> DEFINE n == Len(files[d]) + 1
<1>1. /\ Len(files'[d]) = n /\ files'[d][n] = c
      /\ \A i \in 1..Len(files[d]) : files'[d][i] = files[d][i]
      /\ \A e \in Days \ {d} : files'[e] = files[e]
      /\ Len(files[d]) \in Nat
  BY AppendTypes DEF DamageInv, LogInv, LogTypeOK
<1>2. \A i : i \in 1..n <=> i \in 1..Len(files[d]) \/ i = n BY <1>1
<1>3. TextEnds' BY <1>1, <1>2 DEF DamageInv, TextEnds
<1>4. \A e, i : <<e, i>> \in OwnLines' <=>
        /\ e \in Days /\ i \in 1..Len(files'[e])
        /\ files'[e][i].whole
        /\ i > 1 => files'[e][i - 1].newline
        /\ i < Len(files'[e]) => files'[e][i].newline
  <2> SUFFICES ASSUME NEW e, NEW i
               PROVE  <<e, i>> \in OwnLines' <=>
                        /\ e \in Days /\ i \in 1..Len(files'[e])
                        /\ files'[e][i].whole
                        /\ i > 1 => files'[e][i - 1].newline
                        /\ i < Len(files'[e]) => files'[e][i].newline
    OBVIOUS
  <2>1. <<e, i>> \in Entries' <=> e \in Days /\ i \in 1..Len(files'[e]) BY DEF Entries
  <2> QED BY <2>1 DEF OwnLines, OwnLine
<1>5. /\ \A x \in OwnLines' : x = <<x[1], x[2]>>
      /\ \A x \in OwnLines : x = <<x[1], x[2]>>
  BY DEF OwnLines, Entries
<1>6. <<d, n>> \notin OwnLines BY <1>1, OwnLinePlaces
<1>7. \A e, i : e # d => (<<e, i>> \in OwnLines' <=> <<e, i>> \in OwnLines)
  BY <1>1, <1>4, OwnLinePlaces
<1>8. ASSUME NEW i \in 1..Len(files[d])
      PROVE  <<d, i>> \in OwnLines' <=> <<d, i>> \in OwnLines
  <2>1. /\ i \in 1..n /\ files'[d][i] = files[d][i] /\ i < n
        /\ i > 1 => i - 1 \in 1..Len(files[d])
    BY <1>1
  <2>2. files[d][i].whole => files[d][i].newline BY DEF DamageInv, TextEnds
  <2>3. i > 1 => files'[d][i - 1] = files[d][i - 1] BY <1>1, <2>1
  <2>4. <<d, i>> \in OwnLines' <=>
          files[d][i].whole /\ (i > 1 => files[d][i - 1].newline) /\ files[d][i].newline
    <3> HIDE DEF n
    <3> QED BY <1>1, <1>4, <2>1, <2>3
  <2>5. <<d, i>> \in OwnLines <=>
          /\ files[d][i].whole /\ (i > 1 => files[d][i - 1].newline)
          /\ (i < Len(files[d]) => files[d][i].newline)
    BY OwnLinePlaces
  <2> QED BY <2>2, <2>4, <2>5
<1>9. <<d, n>> \in OwnLines' <=> c.whole /\ d \notin Torn
  <2>1. n \in 1..n /\ ~(n < n) /\ n - 1 = Len(files[d]) /\ (n > 1 <=> Len(files[d]) > 0)
    BY <1>1
  <2>2. n > 1 => files'[d][n - 1] = files[d][Len(files[d])] BY <1>1, <2>1
  <2>3. <<d, n>> \in OwnLines' <=> c.whole /\ (n > 1 => files'[d][n - 1].newline)
    <3> HIDE DEF n
    <3> QED BY <1>1, <1>4, <2>1
  <2>4. d \in Torn <=> Len(files[d]) > 0 /\ ~files[d][Len(files[d])].newline BY DEF Torn
  <2> HIDE DEF n
  <2> QED BY <2>1, <2>2, <2>3, <2>4
<1>10. \A i : ~(i \in 1..n) => <<d, i>> \notin OwnLines' /\ <<d, i>> \notin OwnLines
  BY <1>1, <1>2, <1>4, OwnLinePlaces
<1>11. \A e, i : <<e, i>> \in OwnLines' <=>
         \/ <<e, i>> \in OwnLines
         \/ e = d /\ i = n /\ c.whole /\ d \notin Torn
  <2> HIDE DEF n
  <2> QED BY <1>2, <1>6, <1>7, <1>8, <1>9, <1>10
<1>12. OwnLines' = IF c.whole /\ d \notin Torn
                     THEN OwnLines \union {<<d, n>>} ELSE OwnLines
  <2> HIDE DEF n
  <2>1. CASE c.whole /\ d \notin Torn
    <3>1. \A x \in OwnLines' : x \in OwnLines \union {<<d, n>>} BY <1>5, <1>11
    <3>2. \A x \in OwnLines \union {<<d, n>>} : x \in OwnLines' BY <1>5, <1>11, <2>1
    <3> QED BY <2>1, <3>1, <3>2
  <2>2. CASE ~(c.whole /\ d \notin Torn)
    <3>1. \A x \in OwnLines' : x \in OwnLines BY <1>5, <1>11, <2>2
    <3>2. \A x \in OwnLines : x \in OwnLines' BY <1>5, <1>11
    <3> QED BY <2>2, <3>1, <3>2
  <2> QED BY <2>1, <2>2
<1>13. Torn' = IF c.whole THEN Torn \ {d} ELSE Torn \union {d}
  <2>1. \A e \in Days \ {d} : e \in Torn' <=> e \in Torn BY <1>1 DEF Torn
  <2>2. d \in Torn' <=> ~c.whole BY <1>1 DEF Torn
  <2>3. Torn \subseteq Days /\ Torn' \subseteq Days BY DEF Torn
  <2> QED BY <2>1, <2>2, <2>3
<1> QED BY <1>3, <1>6, <1>12, <1>13

(* Nothing is damaged at first.                                            *)
LEMMA InitDamageInv == LogInit => DamageInv
<1> SUFFICES ASSUME LogInit PROVE DamageInv OBVIOUS
<1>1. LogInv BY InitLogInv
<1>2. TextEnds BY DEF LogInit, TextEnds
<1>3. Ticks(lines) = {} /\ Ticks(logErrors) = {} BY DEF LogInit, Ticks
<1>4. OwnLines = {} /\ Torn = {} BY DEF LogInit, OwnLines, Entries, Torn
<1>5. DamageAhead BY <1>3, <1>4, FS_EmptySet DEF DamageAhead, Total
<1> QED BY <1>1, <1>2, <1>5 DEF DamageInv

(* Each step of a text log pays for its damage: an error pays for the      *)
(* record it costs and for the torn line it may leave.                     *)
LEMMA StepDamageInv ==
  ASSUME ~Json, DamageInv, [LogNext]_logVars
  PROVE  DamageInv'
<1>1. LogInv' BY StepLogInv DEF DamageInv
<1>2. /\ IsFiniteSet(OwnLines) /\ IsFiniteSet(Torn)
      /\ Cardinality(OwnLines) \in Nat /\ Cardinality(Torn) \in Nat
  BY FS_CardinalityType DEF DamageInv, DamageAhead
<1>3. CASE UNCHANGED logVars
  BY <1>1, <1>3 DEF logVars, DamageInv, TextEnds, DamageAhead, Ticks, Total, OwnLines, OwnLine,
     Entries, Torn
<1>4. ASSUME NEW w \in Sinks, NEW d \in Days, OpenFails(w, d) \/ WriteFails(w, d)
      PROVE  DamageInv'
  <2>1. LogLine(w) /\ LogFault(w) /\ files' = files BY <1>4 DEF OpenFails, WriteFails
  <2>2. TextEnds' BY <2>1 DEF DamageInv, TextEnds
  <2>3. OwnLines' = OwnLines /\ Torn' = Torn BY <2>1 DEF OwnLines, OwnLine, Entries, Torn
  <2>4. DamageAhead'
    BY <1>2, <2>1, <2>3, TotalCounters DEF DamageInv, DamageAhead
  <2> QED BY <1>1, <2>2, <2>4 DEF DamageInv
<1>5. ASSUME NEW w \in Sinks, NEW d \in Days, NEW whole \in BOOLEAN,
             OpenLog(w, d), AppendTo(logFile'[w], Chunk(w, d, whole)), LogLine(w),
             IF whole THEN UNCHANGED logErrors ELSE LogFault(w)
      PROVE  DamageInv'
  <2> DEFINE c == Chunk(w, d, whole)
             p == <<d, Len(files[d]) + 1>>
  <2>1. /\ c \in Chunks /\ c.day = d /\ (c.whole <=> whole) /\ (c.newline <=> c.whole)
    BY LogAssumption DEF Chunk, Chunks
  <2> HIDE DEF c
  <2>2. logFile'[w] = d BY <1>5, Opened DEF DamageInv, LogInv
  <2>3. AppendTo(d, c) BY <1>5, <2>2 DEF c
  <2>4. /\ TextEnds' /\ p \notin OwnLines
        /\ OwnLines' = IF whole /\ d \notin Torn THEN OwnLines \union {p} ELSE OwnLines
        /\ Torn' = IF whole THEN Torn \ {d} ELSE Torn \union {d}
    BY <2>1, <2>3, AppendLines
  <2> HIDE DEF p
  <2>5. LogFault(w) \/ UNCHANGED logErrors BY <1>5
  <2>6. DamageAhead'
    <3>1. CASE whole /\ d \notin Torn
      <4>1. Torn' = Torn BY <2>4, <3>1
      <4>2. IsFiniteSet(OwnLines') /\ Cardinality(OwnLines') = Cardinality(OwnLines) + 1
        BY <1>2, <2>4, <3>1, FS_AddElement
      <4> QED BY <1>2, <1>5, <2>5, <3>1, <4>1, <4>2, TotalCounters DEF DamageInv, DamageAhead
    <3>2. CASE whole /\ d \in Torn
      <4>1. OwnLines' = OwnLines BY <2>4, <3>2
      <4>2. IsFiniteSet(Torn') /\ Cardinality(Torn') = Cardinality(Torn) - 1
        BY <1>2, <2>4, <3>2, FS_RemoveElement
      <4> QED BY <1>2, <1>5, <2>5, <3>2, <4>1, <4>2, TotalCounters DEF DamageInv, DamageAhead
    <3>3. CASE ~whole
      <4>1. OwnLines' = OwnLines BY <2>4, <3>3
      <4>2. IsFiniteSet(Torn') /\ Cardinality(Torn') <= Cardinality(Torn) + 1
            /\ Cardinality(Torn') \in Nat
        <5>1. Torn' = Torn \union {d} BY <2>4, <3>3
        <5>2. /\ IsFiniteSet(Torn \union {d})
              /\ Cardinality(Torn \union {d}) =
                   IF d \in Torn THEN Cardinality(Torn) ELSE Cardinality(Torn) + 1
          BY <1>2, FS_AddElement
        <5> QED BY <1>2, <5>1, <5>2
      <4> QED BY <1>2, <1>5, <2>5, <3>3, <4>1, <4>2, TotalCounters DEF DamageInv, DamageAhead
    <3> QED BY <3>1, <3>2, <3>3
  <2> QED BY <1>1, <2>4, <2>6 DEF DamageInv
<1>6. ASSUME NEW w \in Sinks, NEW d \in Days, WriteWhole(w, d) PROVE DamageInv'
  BY <1>5, <1>6 DEF WriteWhole
<1>7. ASSUME NEW w \in Sinks, NEW d \in Days, WriteShort(w, d) PROVE DamageInv'
  BY <1>5, <1>7 DEF WriteShort
<1> QED BY <1>3, <1>4, <1>6, <1>7 DEF LogNext

(* In the text log, where render_line() ends each record with its newline, *)
(* a short write costs at most its own record and the next of that file:   *)
(* log_write_errors bounds what a reader cannot get at.                    *)
THEOREM SpecDamageCounted ==
  ASSUME ~Json
  PROVE  LogSpec => []DamageCounted
<1>1. DamageInv => DamageCounted
  <2> SUFFICES ASSUME DamageInv PROVE DamageCounted OBVIOUS
  <2>1. /\ Total(lines) \in Nat /\ Total(logErrors) \in Nat
        /\ Cardinality(OwnLines) \in Nat /\ Cardinality(Torn) \in Nat
    BY FS_CardinalityType DEF DamageInv, DamageAhead, Total
  <2> QED BY <2>1 DEF DamageInv, DamageAhead, DamageCounted
<1>2. DamageInv /\ [LogNext]_logVars => DamageInv' BY StepDamageInv
<1> QED BY <1>1, <1>2, InitDamageInv, PTL DEF LogSpec

=============================================================================
