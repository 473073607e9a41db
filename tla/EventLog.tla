------------------------------ MODULE EventLog ------------------------------
(***************************************************************************)
(* The dated event log (sensor/src/output.rs write_line and                *)
(* write_event_log): every worker has a sink of its own, opens the file of *)
(* the day of each record when it has another one open, and appends the    *)
(* record with a single write(2), which O_APPEND makes atomic.             *)
(*                                                                         *)
(* A record is the day of its event.  A file is the sequence of what these *)
(* writes left in it.  Nobody removes a file while a sink has it open.     *)
(***************************************************************************)
EXTENDS Integers, FiniteSets, Sequences

CONSTANTS
  Sinks,       \* capture workers, one sink each
  Days,        \* days a record may be of, as positive numbers
  Json,        \* LOCAL_LOG_FORMAT json
  MaxLines,    \* bound: records of all workers
  MaxLogFaults \* bound: failing opens and writes

ASSUME LogAssumption ==
  /\ IsFiniteSet(Sinks)
  /\ Days \subseteq Nat \ {0}
  /\ Json \in BOOLEAN
  /\ MaxLines \in Nat /\ MaxLogFaults \in Nat

VARIABLES
  logPath,   \* per worker: log_path, as its day; 0 is None
  logFile,   \* per worker: log_file, as the day of the file it is open on
  logErrors, \* per worker: log_write_errors
  lines,     \* per worker: events_written
  files      \* per day: what the log file of that day holds

logVars == <<logPath, logFile, logErrors, lines, files>>

None == 0

LogInit ==
  /\ logPath = [w \in Sinks |-> None]
  /\ logFile = [w \in Sinks |-> None]
  /\ logErrors = [w \in Sinks |-> 0]
  /\ lines = [w \in Sinks |-> 0]
  /\ files = [d \in Days |-> <<>>]

-----------------------------------------------------------------------------
(* The sum of a counter over the workers, as the number of its ticks.      *)
Ticks(f) == UNION {{w} \X (1..f[w]) : w \in Sinks}

Total(f) == Cardinality(Ticks(f))

(* The part of write_line() around the log.                                *)
LogLine(w) ==
  /\ Total(lines) < MaxLines
  /\ lines' = [lines EXCEPT ![w] = @ + 1]

(* A call fails and is counted.                                            *)
LogFault(w) ==
  /\ Total(logErrors) < MaxLogFaults
  /\ logErrors' = [logErrors EXCEPT ![w] = @ + 1]

(* Mutant: the path is taken over before the open, which then fails.       *)
OpenFailsNamed(w, d) ==
  /\ logPath[w] # d
  /\ LogFault(w)
  /\ LogLine(w)
  /\ logPath' = [logPath EXCEPT ![w] = d]
  /\ UNCHANGED <<logFile, files>>

(* The file of another day cannot be opened: the old one stays open, and   *)
(* the next record of that day tries again.                                *)
OpenFails(w, d) ==
  /\ logPath[w] # d
  /\ LogFault(w)
  /\ LogLine(w)
  /\ UNCHANGED <<logPath, logFile, files>>

(* The file the write goes to, opened first if the sink has another one.   *)
OpenLog(w, d) ==
  /\ logPath' = [logPath EXCEPT ![w] = d]
  /\ logFile' = [logFile EXCEPT ![w] = IF logPath[w] # d THEN d ELSE @]

(* Mutant: a text line without its newline.                                *)
ChunkUnended(w, d, whole) == [by |-> w, day |-> d, whole |-> whole, newline |-> FALSE]

(* What one write(2) leaves in the file: all of the record or its          *)
(* beginning, and whether that ends in a newline.  render_line() ends its  *)
(* line with one, local_json_line() does not.                              *)
Chunk(w, d, whole) == [by |-> w, day |-> d, whole |-> whole, newline |-> whole /\ ~Json]

AppendTo(f, c) == files' = [files EXCEPT ![f] = Append(@, c)]

WriteWhole(w, d) ==
  /\ OpenLog(w, d)
  /\ AppendTo(logFile'[w], Chunk(w, d, TRUE))
  /\ LogLine(w)
  /\ UNCHANGED logErrors

(* Mutant: the length that was written is not looked at.                   *)
WriteShortUnnoticed(w, d) ==
  /\ OpenLog(w, d)
  /\ AppendTo(logFile'[w], Chunk(w, d, FALSE))
  /\ LogLine(w)
  /\ UNCHANGED logErrors

(* Not continued: the rest could land after another worker's record.       *)
WriteShort(w, d) ==
  /\ OpenLog(w, d)
  /\ AppendTo(logFile'[w], Chunk(w, d, FALSE))
  /\ LogFault(w)
  /\ LogLine(w)

WriteFails(w, d) ==
  /\ OpenLog(w, d)
  /\ LogFault(w)
  /\ LogLine(w)
  /\ UNCHANGED files

(* Days come mixed around midnight: a merged event is as old as its first. *)
LogNext ==
  \E w \in Sinks, d \in Days :
    OpenFails(w, d) \/ WriteWhole(w, d) \/ WriteShort(w, d) \/ WriteFails(w, d)

LogSpec == LogInit /\ [][LogNext]_logVars

-----------------------------------------------------------------------------
(* Properties.                                                             *)

Chunks == [by : Sinks, day : Days, whole : BOOLEAN, newline : BOOLEAN]

(* Types; a sink's open file is the one its path names.                    *)
LogTypeOK ==
  /\ logPath \in [Sinks -> Days \union {None}]
  /\ logFile = logPath
  /\ logErrors \in [Sinks -> Nat]
  /\ lines \in [Sinks -> Nat]
  /\ files \in [Days -> Seq(Chunks)]

Entries == UNION {{d} \X (1..Len(files[d])) : d \in Days}

WholeBy(w) == {x \in Entries : LET c == files[x[1]][x[2]] IN c.by = w /\ c.whole}

(* Every record a worker was given (events_written counts it, delivered or *)
(* not) is whole in a log file or counted in log_write_errors, whatever    *)
(* opens and writes of this and other workers fail in between.             *)
LogAccounted ==
  \A w \in Sinks : Cardinality(WholeBy(w)) + logErrors[w] = lines[w]

(* A record is in the file of its own day, although events of two days     *)
(* come mixed around midnight and the file of a day may fail to open.      *)
RightDay == \A d \in Days : \A i \in 1..Len(files[d]) : files[d][i].day = d

(* A record is a line of its own: it starts where the last one ended, and  *)
(* nothing follows it in its line.                                         *)
OwnLine(d, i) ==
  /\ files[d][i].whole
  /\ i > 1 => files[d][i - 1].newline
  /\ i < Len(files[d]) => files[d][i].newline

OwnLines == {x \in Entries : OwnLine(x[1], x[2])}

(* What a reader of the text log cannot get at is counted: a short write   *)
(* of one worker costs its own record and at most the one that any worker  *)
(* appends next to that file.                                              *)
DamageCounted == Total(lines) - Cardinality(OwnLines) <= 2 * Total(logErrors)

=============================================================================
