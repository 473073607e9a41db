------------------------------ MODULE Supervisor ------------------------------
(***************************************************************************)
(* The life of the capture workers and of the process around them: the     *)
(* capture loop of a worker and the tail it runs on the way out            *)
(* (sensor/src/worker.rs run_all), the metrics slot it publishes to        *)
(* (metrics.rs), the signal handler and the thread that watches for it,    *)
(* and main's join loop with its grace deadline and exit code (main.rs).   *)
(*                                                                         *)
(* Live, every worker has one handle.  Offline, one worker replays every   *)
(* file of the capture set in order.  A file is the number of packets      *)
(* libpcap can read from it and how reading then ends.  Packets are        *)
(* counted; what is detected in them is not part of this module.           *)
(***************************************************************************)
EXTENDS Integers, Sequences, FiniteSets

CONSTANTS
  N,                    \* capture workers of a live sensor
  Modes,                \* the values cfg.is_offline_replay() may have
  CaptureSets,          \* the lists of files a replay may be given
  HousekeepingInterval, \* HOUSEKEEPING_INTERVAL: packets drained in one pass
  ErrorLimit,           \* LIVE_CAPTURE_ERROR_LIMIT
  MaxPackets,           \* bound: packets a live interface delivers to a worker
  MaxMishaps            \* bound: workers that panic or stand still in a call

\* A file of a capture set: the packets readable from it, and what comes after them.
CaptureFile == [packets : Nat, end : {"eof", "error"}]

ASSUME SupervisorAssumption ==
  /\ N \in Nat \ {0}
  /\ Modes \subseteq BOOLEAN
  /\ CaptureSets \subseteq Seq(CaptureFile) \ {<<>>}
  /\ HousekeepingInterval \in Nat \ {0}
  /\ ErrorLimit \in Nat \ {0}
  /\ MaxPackets \in Nat /\ MaxMishaps \in Nat

Workers == 1..N

VARIABLES
  offline,     \* cfg.is_offline_replay()
  files,       \* the handles the worker has left, the current one first
  sig,         \* SHUTDOWN, the static the signal handler sets
  shutdown,    \* the flag shared with the workers
  pc,          \* where each worker stands
  received,    \* metrics.packets_received
  filePackets, \* file_packets
  drained,     \* drained
  errors,      \* consecutive_errors
  outcome,     \* outcome, and what the thread's join returns
  gone,        \* the interface is gone: reading from it only fails
  alive,       \* MetricsSlot.alive
  published,   \* MetricsSlot's packets_received
  flushed,     \* history: the sink and the store were flushed on the way out
  reported,    \* history: packets named by report_file()
  pending,     \* pending: the workers main has not joined
  cursor,      \* main's place in its pass over pending
  failures,    \* failures, by worker
  grace,       \* grace_deadline.is_some()
  stuck,       \* stuck
  exitCode     \* -1 while the process runs

flags   == <<sig, shutdown>>
loopVars == <<files, received, filePackets, drained, errors>>
history == <<flushed, reported>>
mainVars == <<pending, cursor, failures, grace, stuck, exitCode>>
worker  == <<pc, outcome, alive, published, history, loopVars>>
vars    == <<offline, flags, gone, worker, mainVars>>

\* Offline replay is one worker over every file; a live sensor has one worker per handle.
Crew == IF offline THEN {1} ELSE Workers

Running == exitCode = -1

Init ==
  /\ offline \in Modes
  /\ files \in IF offline THEN CaptureSets ELSE {<<>>}
  /\ sig = FALSE
  /\ shutdown = FALSE
  /\ pc = [w \in Workers |-> IF w \in Crew THEN "start" ELSE "ended"]
  /\ received = [w \in Workers |-> 0]
  /\ filePackets = 0
  /\ drained = [w \in Workers |-> 0]
  /\ errors = [w \in Workers |-> 0]
  /\ outcome = [w \in Workers |-> "shutdown"]
  /\ gone = [w \in Workers |-> FALSE]
  /\ alive = [w \in Workers |-> FALSE]
  /\ published = [w \in Workers |-> 0]
  /\ flushed = [w \in Workers |-> FALSE]
  /\ reported = 0
  /\ pending = Crew
  /\ cursor = 1
  /\ failures = {}
  /\ grace = FALSE
  /\ stuck = 0
  /\ exitCode = -1

-------------------------------------------------------------------------------
(* A worker: run_all() up to its loop, one pass of the loop, the tail.     *)

At(w, where) == Running /\ pc[w] = where

Goto(w, where) == pc' = [pc EXCEPT ![w] = where]

MarkAlive(w) ==
  /\ At(w, "start")
  /\ Goto(w, "loop")
  /\ alive' = [alive EXCEPT ![w] = TRUE]
  /\ UNCHANGED <<offline, flags, gone, outcome, published, history, loopVars, mainVars>>

\* The head of the loop: obey a shutdown, else drain what is available.
LoopHead(w) ==
  /\ At(w, "loop")
  /\ Goto(w, IF shutdown THEN "tail" ELSE "drain")
  /\ UNCHANGED <<offline, flags, gone, outcome, alive, published, history, loopVars, mainVars>>

\* The inner loop is left; drained is local to the pass.
LeaveDrain(w, where) ==
  /\ Goto(w, where)
  /\ drained' = [drained EXCEPT ![w] = 0]

\* What the handle can deliver next.
PacketReady(w) ==
  /\ ~gone[w]
  /\ IF offline THEN filePackets < Head(files).packets ELSE received[w] < MaxPackets

\* Ok(Some(captured)).  A panic of the parser is caught per packet and only counted.
GetPacket(w) ==
  /\ At(w, "drain")
  /\ PacketReady(w)
  /\ received' = [received EXCEPT ![w] = @ + 1]
  /\ filePackets' = IF offline THEN filePackets + 1 ELSE filePackets
  /\ errors' = [errors EXCEPT ![w] = 0]
  /\ IF drained[w] + 1 >= HousekeepingInterval
       THEN LeaveDrain(w, "housekeeping")
       ELSE drained' = [drained EXCEPT ![w] = @ + 1] /\ UNCHANGED pc
  /\ UNCHANGED <<offline, flags, gone, outcome, alive, published, history, files, mainVars>>

\* Ok(None) on a live handle: nothing is available right now.
NoPacketYet(w) ==
  /\ At(w, "drain")
  /\ ~offline /\ ~gone[w]
  /\ LeaveDrain(w, "housekeeping")
  /\ UNCHANGED <<offline, flags, gone, outcome, alive, published, history, files, received,
                 filePackets, errors, mainVars>>

\* Ok(None) on a file: the same state is carried into the next file.
NextFile(w) ==
  /\ At(w, "drain")
  /\ offline /\ ~PacketReady(w)
  /\ Head(files).end = "eof"
  /\ Len(files) > 1
  /\ reported' = reported + filePackets
  /\ files' = Tail(files)
  /\ filePackets' = 0
  /\ UNCHANGED <<offline, flags, gone, pc, outcome, alive, published, flushed, received, drained,
                 errors, mainVars>>

Fatal(w, why) ==
  /\ LeaveDrain(w, "tail")
  /\ outcome' = [outcome EXCEPT ![w] = why]
  /\ UNCHANGED <<offline, flags, gone, alive, published, history, files, received, filePackets,
                 mainVars>>

\* Ok(None) on the last file.
LastFile(w) ==
  /\ At(w, "drain")
  /\ offline /\ ~PacketReady(w)
  /\ Head(files).end = "eof"
  /\ Len(files) = 1
  /\ Fatal(w, "eof")
  /\ UNCHANGED errors

\* Mutant of FileError: an error is the end of the file, whatever was read before it.
FileErrorAsEof(w) ==
  /\ At(w, "drain")
  /\ offline /\ ~PacketReady(w)
  /\ Head(files).end = "error"
  /\ Fatal(w, "eof")
  /\ UNCHANGED errors

\* Err(e) on a file: it fails the replay only if no packet was read at all.
FileError(w) ==
  /\ At(w, "drain")
  /\ offline /\ ~PacketReady(w)
  /\ Head(files).end = "error"
  /\ Fatal(w, IF received[w] = 0 THEN "capture" ELSE "eof")
  /\ UNCHANGED errors

\* Mutant of CaptureError: one error too many is tolerated.
CaptureErrorLate(w) ==
  /\ At(w, "drain")
  /\ ~offline
  /\ errors' = [errors EXCEPT ![w] = @ + 1]
  /\ IF errors[w] + 1 > ErrorLimit
       THEN Fatal(w, "capture")
       ELSE /\ LeaveDrain(w, "housekeeping")
            /\ UNCHANGED <<offline, flags, gone, outcome, alive, published, history, files,
                           received, filePackets, mainVars>>

\* Err(e) on a live handle: tolerated until ErrorLimit of them come in a row.
CaptureError(w) ==
  /\ At(w, "drain")
  /\ ~offline
  /\ errors' = [errors EXCEPT ![w] = @ + 1]
  /\ IF errors[w] + 1 >= ErrorLimit
       THEN Fatal(w, "capture")
       ELSE /\ LeaveDrain(w, "housekeeping")
            /\ UNCHANGED <<offline, flags, gone, outcome, alive, published, history, files,
                           received, filePackets, mainVars>>

\* Mutant of Housekeeping: every pass starts a new run of errors.
HousekeepingForgives(w) ==
  /\ At(w, "housekeeping")
  /\ Goto(w, "loop")
  /\ published' \in {published, [published EXCEPT ![w] = received[w]]}
  /\ errors' = [errors EXCEPT ![w] = 0]
  /\ UNCHANGED <<offline, flags, gone, outcome, alive, history, files, received, filePackets,
                 drained, mainVars>>

\* The end of a pass.  Whether housekeeping is due depends on the clock; it publishes.
Housekeeping(w) ==
  /\ At(w, "housekeeping")
  /\ Goto(w, "loop")
  /\ published' \in {published, [published EXCEPT ![w] = received[w]]}
  /\ UNCHANGED <<offline, flags, gone, outcome, alive, history, loopVars, mainVars>>

\* Mutant of FlushTail: the tail of a worker that failed is skipped.
FlushTailIfHealthy(w) ==
  /\ At(w, "tail")
  /\ Goto(w, "publish")
  /\ flushed' = [flushed EXCEPT ![w] = outcome[w] # "capture"]
  /\ reported' = IF offline THEN reported + filePackets ELSE reported
  /\ UNCHANGED <<offline, flags, gone, outcome, alive, published, loopVars, mainVars>>

\* Mutant of FlushTail: the last file is reported with the packets of all files.
FlushTailReportsAll(w) ==
  /\ At(w, "tail")
  /\ Goto(w, "publish")
  /\ flushed' = [flushed EXCEPT ![w] = TRUE]
  /\ reported' = IF offline THEN reported + received[w] ELSE reported
  /\ UNCHANGED <<offline, flags, gone, outcome, alive, published, loopVars, mainVars>>

\* The tail: the last sweep, the condensed, the throttled and the stored events are flushed.
FlushTail(w) ==
  /\ At(w, "tail")
  /\ Goto(w, "publish")
  /\ flushed' = [flushed EXCEPT ![w] = TRUE]
  /\ reported' = IF offline THEN reported + filePackets ELSE reported
  /\ UNCHANGED <<offline, flags, gone, outcome, alive, published, loopVars, mainVars>>

\* Mutant of PublishFinal: the slot is marked dead before the last publish.
PublishFinalDead(w) ==
  /\ At(w, "publish")
  /\ Goto(w, "dead")
  /\ alive' = [alive EXCEPT ![w] = FALSE]
  /\ UNCHANGED <<offline, flags, gone, outcome, published, history, loopVars, mainVars>>

\* ... the final counters are published ...
PublishFinal(w) ==
  /\ At(w, "publish")
  /\ Goto(w, "dead")
  /\ published' = [published EXCEPT ![w] = received[w]]
  /\ UNCHANGED <<offline, flags, gone, outcome, alive, history, loopVars, mainVars>>

\* ... and only then is the slot marked dead.
MarkDead(w) ==
  /\ At(w, "dead")
  /\ Goto(w, "ended")
  /\ alive' = [alive EXCEPT ![w] = FALSE]
  /\ UNCHANGED <<offline, flags, gone, outcome, published, history, loopVars, mainVars>>

-------------------------------------------------------------------------------
(* What may happen to a worker.                                            *)

\* The interface goes away from under a live worker.
LoseInterface(w) ==
  /\ ~offline
  /\ \E where \in {"start", "loop", "drain", "housekeeping"} : At(w, where)
  /\ ~gone[w]
  /\ gone' = [gone EXCEPT ![w] = TRUE]
  /\ UNCHANGED <<offline, flags, worker, mainVars>>

MishapAllowed == Cardinality({w \in Workers : pc[w] = "wedged" \/ outcome[w] = "panic"}) < MaxMishaps

\* A call does not return: a wedged handle, a disk that hangs under a flush.
Wedge(w) ==
  /\ \E where \in {"drain", "housekeeping", "tail"} : At(w, where)
  /\ MishapAllowed
  /\ Goto(w, "wedged")
  /\ UNCHANGED <<offline, flags, gone, outcome, alive, published, history, loopVars, mainVars>>

\* The thread unwinds outside the catch_unwind around a packet: nothing of the tail runs.
Panic(w) ==
  /\ \E where \in {"start", "drain", "housekeeping", "tail"} : At(w, where)
  /\ MishapAllowed
  /\ Goto(w, "ended")
  /\ outcome' = [outcome EXCEPT ![w] = "panic"]
  /\ UNCHANGED <<offline, flags, gone, alive, published, history, loopVars, mainVars>>

-------------------------------------------------------------------------------
(* The signal, its watcher, and main's join loop.                          *)

\* handle_signal().
Signal ==
  /\ Running
  /\ ~sig
  /\ sig' = TRUE
  /\ UNCHANGED <<offline, shutdown, gone, worker, mainVars>>

\* The "signals" thread.
Watcher ==
  /\ Running
  /\ sig /\ ~shutdown
  /\ shutdown' = TRUE
  /\ UNCHANGED <<offline, sig, gone, worker, mainVars>>

ShuttingDown == shutdown \/ sig

Failed(w) == outcome[w] \in {"capture", "panic"}

\* A live worker that left its loop when nobody asked it to.
StoppedUnasked(w) == outcome[w] = "shutdown" /\ ~offline /\ ~ShuttingDown

\* Mutant of Join: results are discarded.
JoinDiscarded ==
  /\ Running
  /\ cursor \in pending
  /\ pc[cursor] = "ended"
  /\ pending' = pending \ {cursor}
  /\ cursor' = cursor + 1
  /\ UNCHANGED <<offline, flags, gone, worker, failures, grace, stuck, exitCode>>

\* One slot of the pass whose thread is_finished(): join it and inspect the result.
Join ==
  /\ Running
  /\ cursor \in pending
  /\ pc[cursor] = "ended"
  /\ pending' = pending \ {cursor}
  /\ failures' = IF Failed(cursor) \/ StoppedUnasked(cursor)
                   THEN failures \union {cursor} ELSE failures
  /\ shutdown' = (shutdown \/ StoppedUnasked(cursor))
  /\ cursor' = cursor + 1
  /\ UNCHANGED <<offline, sig, gone, worker, grace, stuck, exitCode>>

\* One slot of the pass that is joined already, or still runs.
PassOver ==
  /\ Running
  /\ cursor \in Workers
  /\ cursor \notin pending \/ pc[cursor] # "ended"
  /\ cursor' = cursor + 1
  /\ UNCHANGED <<offline, flags, gone, worker, pending, failures, grace, stuck, exitCode>>

\* What the process exits with; main raises the flag for the other threads first.
ExitWith(left) ==
  /\ stuck' = left
  /\ shutdown' = TRUE
  /\ exitCode' = IF failures = {} THEN 0 ELSE 1
  /\ UNCHANGED <<offline, sig, gone, worker, pending, cursor, failures, grace>>

AllJoined ==
  /\ Running
  /\ cursor > N
  /\ pending = {}
  /\ ExitWith(0)

\* Mutant of NextPass: the deadline runs from the start, not from the request to stop.
GraceFromStart ==
  /\ Running
  /\ cursor > N
  /\ pending # {}
  /\ grace' = TRUE
  /\ cursor' = 1
  /\ UNCHANGED <<offline, flags, gone, worker, pending, failures, stuck, exitCode>>

\* Mutant of NextPass: no deadline, main waits for as long as a worker takes.
NoGrace ==
  /\ Running
  /\ cursor > N
  /\ pending # {}
  /\ cursor' = 1
  /\ UNCHANGED <<offline, flags, gone, worker, pending, failures, grace, stuck, exitCode>>

\* The end of a pass with workers left: the deadline starts with the request to stop.
NextPass ==
  /\ Running
  /\ cursor > N
  /\ pending # {}
  /\ grace' = (grace \/ ShuttingDown)
  /\ cursor' = 1
  /\ UNCHANGED <<offline, flags, gone, worker, pending, failures, stuck, exitCode>>

\* The ten seconds are over at the end of a pass: exit with the rest still running.
GraceExpired ==
  /\ Running
  /\ cursor > N
  /\ pending # {}
  /\ grace
  /\ ExitWith(Cardinality(pending))

-------------------------------------------------------------------------------
WorkerStep(w) ==
  \/ MarkAlive(w) \/ LoopHead(w)
  \/ GetPacket(w) \/ NoPacketYet(w) \/ CaptureError(w)
  \/ NextFile(w) \/ LastFile(w) \/ FileError(w)
  \/ Housekeeping(w)
  \/ FlushTail(w) \/ PublishFinal(w) \/ MarkDead(w)

Main == Join \/ PassOver \/ AllJoined \/ NextPass \/ GraceExpired

Next ==
  \/ \E w \in Workers : WorkerStep(w) \/ LoseInterface(w) \/ Wedge(w) \/ Panic(w)
  \/ Signal \/ Watcher
  \/ Main

Spec == Init /\ [][Next]_vars

(* Every thread keeps running; a deadline that is over is seen by some later pass.  *)
Fairness ==
  /\ \A w \in Workers : WF_vars(WorkerStep(w))
  /\ WF_vars(Watcher)
  /\ WF_vars(Main)
  /\ SF_vars(GraceExpired)

FairSpec == Spec /\ Fairness

-------------------------------------------------------------------------------
Places ==
  {"start", "loop", "drain", "housekeeping", "tail", "publish", "dead", "ended", "wedged"}

(* Every variable of the supervisor keeps its type, and an error streak its limit. *)
TypeOK ==
  /\ offline \in BOOLEAN
  /\ files \in Seq(CaptureFile)
  /\ sig \in BOOLEAN /\ shutdown \in BOOLEAN
  /\ pc \in [Workers -> Places]
  /\ received \in [Workers -> Nat]
  /\ filePackets \in Nat
  /\ drained \in [Workers -> 0..(HousekeepingInterval - 1)]
  /\ errors \in [Workers -> 0..ErrorLimit]
  /\ outcome \in [Workers -> {"shutdown", "eof", "capture", "panic"}]
  /\ gone \in [Workers -> BOOLEAN]
  /\ alive \in [Workers -> BOOLEAN]
  /\ published \in [Workers -> Nat]
  /\ flushed \in [Workers -> BOOLEAN]
  /\ reported \in Nat
  /\ pending \subseteq Workers
  /\ cursor \in 1..(N + 1)
  /\ failures \subseteq Workers
  /\ grace \in BOOLEAN
  /\ stuck \in 0..N
  /\ exitCode \in {-1, 0, 1}

(* The exit code of a process that waited for all its workers is 1 exactly *)
(* when one of them failed or panicked: no outage exits 0, and a requested *)
(* stop that races with a worker's end is never reported as an outage.     *)
(* Without a signal the deadline never runs, so that a live sensor leaves  *)
(* no worker behind ("an earlier version started the deadline here, which  *)
(* made a healthy live sensor stop").                                      *)
ExitCodeHonest ==
  /\ (~Running /\ stuck = 0) => (exitCode = 1 <=> \E w \in Crew : Failed(w))
  /\ (~Running /\ ~offline /\ ~sig) => stuck = 0

(* "A capture worker that dies while the sensor is supposed to be          *)
(* monitoring is a detection outage: the process must exit non-zero"       *)
(* (main.rs): the failure of one worker of a live sensor ends the process. *)
OutageEndsProcess ==
  \A w \in Workers : (~offline /\ pc[w] = "ended" /\ Failed(w)) ~> ~Running

(* Once main has joined every worker, each of them has flushed its events  *)
(* and published its last counters, unless it panicked: the metrics line   *)
(* main prints last, and the event log, are complete.                      *)
TailBeforeExit ==
  (~Running /\ stuck = 0) =>
    \A w \in Crew : outcome[w] # "panic" => flushed[w] /\ published[w] = received[w]

(* A scrape that sees a worker as not alive sees its last counters.        *)
ScrapeSeesLastCounters ==
  \A w \in Workers : ~alive[w] => published[w] = received[w]

(* A replay reports what it read: the packets named file by file add up to *)
(* the packets received, and one that exits 0 without having been stopped  *)
(* has read at least one packet, or its files hold none.                   *)
ReplayAccounted ==
  offline =>
    /\ flushed[1] => reported = received[1]
    /\ (~Running /\ exitCode = 0 /\ stuck = 0 /\ outcome[1] = "eof") =>
         received[1] > 0 \/ Head(files).end = "eof"

(* A signal ends the process, also when a worker is wedged in a call that  *)
(* never returns.                                                          *)
StopsOnSignal == sig ~> ~Running

(* A worker whose interface is gone does not log errors forever: it fails, *)
(* unless it is stopped, or stands still in a call or a panic, before.     *)
LostInterfaceReported ==
  \A w \in Workers :
    gone[w] ~> (Failed(w) \/ pc[w] = "wedged" \/ shutdown)
===============================================================================
