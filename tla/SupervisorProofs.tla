-------------------------- MODULE SupervisorProofs --------------------------
(***************************************************************************)
(* Proofs about Supervisor: for any number of workers, any capture set and *)
(* any number of panics and wedged calls, the exit code says what happened *)
(* to the workers, every worker main has joined ran its tail, and a replay *)
(* accounts for the packets it read.                                       *)
(***************************************************************************)
EXTENDS Supervisor, FiniteSetTheorems, TLAPS

(* Where a worker is still in, and where it is on its way out of, its loop. *)
InLoop == {"start", "loop", "drain", "housekeeping"}
Leaving == {"tail", "publish", "dead", "ended"}

(* A worker in its loop has no outcome yet and is below the error limit;   *)
(* the end of the files is an outcome of replays.                          *)
Undecided(w) ==
  /\ pc[w] \in InLoop => outcome[w] = "shutdown" /\ errors[w] < ErrorLimit
  /\ outcome[w] = "eof" => offline

(* What a worker has done of its tail when it stands at a step of it.      *)
TailSteps(w) ==
  /\ pc[w] \in {"publish", "dead"} => flushed[w]
  /\ pc[w] = "dead" => published[w] = received[w]
  /\ pc[w] = "ended" /\ outcome[w] # "panic" => flushed[w] /\ published[w] = received[w]
  /\ flushed[w] => pc[w] \in {"publish", "dead", "ended"}

(* No worker leaves its loop with nothing to report unless it was asked to. *)
StopAsked(w) == pc[w] \in Leaving /\ outcome[w] = "shutdown" => sig

(* A slot is alive from the start of the loop to the last publish, and one *)
(* that is not has the last counters.                                      *)
SlotHonest(w) ==
  /\ pc[w] \notin {"start", "ended"} => alive[w]
  /\ ~alive[w] => published[w] = received[w]

(* The workers: of those a replay does not use only the slot matters.      *)
WorkersInv ==
  /\ \A w \in Workers : Undecided(w) /\ SlotHonest(w)
  /\ \A w \in Crew : TailSteps(w) /\ StopAsked(w)
  /\ \A w \in Workers \ Crew : pc[w] = "ended"

(* While the process runs only a signal raises the flag and the deadline.  *)
OnlySignalStops ==
  /\ Running /\ shutdown => sig
  /\ grace => sig

(* What main knows of the workers it has joined.                           *)
Joined ==
  /\ pending \subseteq Crew
  /\ \A w \in Crew \ pending : pc[w] = "ended"
  /\ failures = {w \in Crew \ pending : Failed(w)}

(* The exit code is that of the failures, and workers are left behind only *)
(* after a signal, and are then counted.                                   *)
ExitState ==
  ~Running => /\ exitCode = 1 <=> failures # {}
              /\ pending # {} => stuck # 0 /\ sig
              /\ pending = {} => stuck = 0

(* Packets named by the reports and by the current file are those received, *)
(* and the end of a replay is a packet read or the end of a file.           *)
ReplayCounts ==
  offline =>
    /\ reported + (IF flushed[1] THEN 0 ELSE filePackets) = received[1]
    /\ outcome[1] = "eof" => received[1] > 0 \/ Head(files).end = "eof"

SupervisorInv ==
  TypeOK /\ WorkersInv /\ OnlySignalStops /\ Joined /\ ExitState /\ ReplayCounts

-------------------------------------------------------------------------------
(* What the assumption says of the numbers, without the capture sets.      *)
LEMMA Numbers ==
  /\ N \in Nat /\ N >= 1
  /\ HousekeepingInterval \in Nat /\ HousekeepingInterval >= 1
  /\ ErrorLimit \in Nat /\ ErrorLimit >= 1
  /\ 1 \in Workers
BY SupervisorAssumption DEF Workers

(* A replay has the one worker.                                            *)
LEMMA CrewOfWorkers == Crew \subseteq Workers /\ (offline => Crew = {1})
BY Numbers DEF Crew

(* What a thread of a worker may do to the process. *)
Act(w) == WorkerStep(w) \/ LoseInterface(w) \/ Wedge(w) \/ Panic(w)

(* A step of a worker is a step of a running process and of a worker that  *)
(* has not ended; it changes that worker alone, and nothing of main's.     *)
Alone(w) ==
  /\ Running /\ pc[w] # "ended"
  /\ UNCHANGED <<offline, sig, shutdown, pending, cursor, failures, grace, stuck, exitCode>>
  /\ \A v \in Workers \ {w} :
       /\ pc'[v] = pc[v] /\ outcome'[v] = outcome[v] /\ errors'[v] = errors[v]
       /\ received'[v] = received[v] /\ published'[v] = published[v]
       /\ alive'[v] = alive[v] /\ flushed'[v] = flushed[v]

(* What the body of every worker action leaves unchanged.                  *)
LEMMA ActAlone ==
  ASSUME TypeOK, NEW w \in Workers, Act(w)
  PROVE  Alone(w)
<1> USE DEF Alone, TypeOK, At, Goto, LeaveDrain, Running, flags, loopVars, history, mainVars, worker
<1>1. CASE MarkAlive(w) BY <1>1 DEF MarkAlive
<1>2. CASE LoopHead(w) BY <1>2 DEF LoopHead
<1>3. CASE GetPacket(w) BY <1>3 DEF GetPacket
<1>4. CASE NoPacketYet(w) BY <1>4 DEF NoPacketYet
<1>5. CASE CaptureError(w) BY <1>5 DEF CaptureError, Fatal
<1>6. CASE NextFile(w) BY <1>6 DEF NextFile
<1>7. CASE LastFile(w) BY <1>7 DEF LastFile, Fatal
<1>8. CASE FileError(w) BY <1>8 DEF FileError, Fatal
<1>9. CASE Housekeeping(w) BY <1>9 DEF Housekeeping
<1>10. CASE FlushTail(w) BY <1>10 DEF FlushTail
<1>11. CASE PublishFinal(w) BY <1>11 DEF PublishFinal
<1>12. CASE MarkDead(w) BY <1>12 DEF MarkDead
<1>13. CASE LoseInterface(w) BY <1>13 DEF LoseInterface
<1>14. CASE Wedge(w) BY <1>14 DEF Wedge
<1>15. CASE Panic(w) BY <1>15 DEF Panic
<1> QED BY <1>1, <1>2, <1>3, <1>4, <1>5, <1>6, <1>7, <1>8, <1>9, <1>10, <1>11, <1>12,
           <1>13, <1>14, <1>15 DEF Act, WorkerStep

-------------------------------------------------------------------------------
(* Types.                                                                  *)

(* A file list shortened by NextFile is a file list.                       *)
LEMMA TailOfFiles ==
  ASSUME NEW s \in Seq(CaptureFile), Len(s) > 1
  PROVE  Tail(s) \in Seq(CaptureFile)
<1>1. s # <<>> OBVIOUS
<1> QED BY <1>1

(* A worker's step keeps the types; that the worker is undecided keeps its *)
(* errors below the limit.                                                 *)
LEMMA ActTypes ==
  ASSUME TypeOK, NEW w \in Workers, Undecided(w), Act(w)
  PROVE  TypeOK'
<1> USE Numbers DEF TypeOK, At, Goto, LeaveDrain, flags, loopVars, history, mainVars, worker, Places
<1>0. 0 \in 0..(HousekeepingInterval - 1) OBVIOUS
<1>1. CASE MarkAlive(w) BY <1>1 DEF MarkAlive
<1>2. CASE LoopHead(w) BY <1>2 DEF LoopHead
<1>3. CASE GetPacket(w)
  <2>1. received' \in [Workers -> Nat] /\ filePackets' \in Nat BY <1>3 DEF GetPacket
  <2>2. errors' \in [Workers -> 0..ErrorLimit] BY <1>3 DEF GetPacket
  <2>3. drained' \in [Workers -> 0..(HousekeepingInterval - 1)]
    <3>1. CASE drained[w] + 1 >= HousekeepingInterval BY <1>0, <1>3, <3>1 DEF GetPacket
    <3>2. CASE ~(drained[w] + 1 >= HousekeepingInterval)
      <4>1. drained[w] + 1 \in 0..(HousekeepingInterval - 1) BY <3>2
      <4> QED BY <1>3, <3>2, <4>1 DEF GetPacket
    <3> QED BY <3>1, <3>2
  <2>4. pc' \in [Workers -> Places]
    <3>1. pc' = pc \/ pc' = [pc EXCEPT ![w] = "housekeeping"] BY <1>3 DEF GetPacket
    <3> QED BY <3>1
  <2> QED BY <1>3, <2>1, <2>2, <2>3, <2>4 DEF GetPacket
<1>4. CASE NoPacketYet(w)
  <2>1. drained' \in [Workers -> 0..(HousekeepingInterval - 1)]
    BY <1>0, <1>4 DEF NoPacketYet
  <2> QED BY <1>4, <2>1 DEF NoPacketYet
<1>5. CASE CaptureError(w)
  <2>1. errors' \in [Workers -> 0..ErrorLimit]
    <3>1. errors[w] + 1 \in 0..ErrorLimit BY <1>5 DEF CaptureError, Undecided, InLoop
    <3> QED BY <1>5, <3>1 DEF CaptureError
  <2>2. drained' \in [Workers -> 0..(HousekeepingInterval - 1)]
    BY <1>0, <1>5 DEF CaptureError, Fatal
  <2>3. CASE errors[w] + 1 >= ErrorLimit BY <1>5, <2>1, <2>2, <2>3 DEF CaptureError, Fatal
  <2>4. CASE ~(errors[w] + 1 >= ErrorLimit) BY <1>5, <2>1, <2>2, <2>4 DEF CaptureError
  <2> QED BY <2>3, <2>4
<1>6. CASE NextFile(w)
  <2>1. files' \in Seq(CaptureFile) BY <1>6, TailOfFiles DEF NextFile
  <2>2. reported' \in Nat /\ filePackets' \in Nat BY <1>6 DEF NextFile
  <2> QED BY <1>6, <2>1, <2>2 DEF NextFile
<1>7. CASE LastFile(w) \/ FileError(w)
  <2>1. drained' \in [Workers -> 0..(HousekeepingInterval - 1)]
    BY <1>0, <1>7 DEF LastFile, FileError, Fatal
  <2>2. outcome' \in [Workers -> {"shutdown", "eof", "capture", "panic"}]
    BY <1>7 DEF LastFile, FileError, Fatal
  <2> QED BY <1>7, <2>1, <2>2 DEF LastFile, FileError, Fatal
<1>8. CASE Housekeeping(w) BY <1>8 DEF Housekeeping
<1>9. CASE FlushTail(w)
  <2>1. reported' \in Nat BY <1>9 DEF FlushTail
  <2> QED BY <1>9, <2>1 DEF FlushTail
<1>10. CASE PublishFinal(w) BY <1>10 DEF PublishFinal
<1>11. CASE MarkDead(w) BY <1>11 DEF MarkDead
<1>12. CASE LoseInterface(w) BY <1>12 DEF LoseInterface
<1>13. CASE Wedge(w) BY <1>13 DEF Wedge
<1>14. CASE Panic(w) BY <1>14 DEF Panic
<1> QED BY <1>1, <1>2, <1>3, <1>4, <1>5, <1>6, <1>7, <1>8, <1>9, <1>10, <1>11, <1>12,
           <1>13, <1>14 DEF Act, WorkerStep

(* So does a step of main, whose stuck counts a set of workers.            *)
LEMMA MainTypes ==
  ASSUME TypeOK, Main
  PROVE  TypeOK'
<1> USE DEF TypeOK, flags, loopVars, history, worker
<1>1. IsFiniteSet(pending) /\ Cardinality(pending) \in 0..N
  <2>1. IsFiniteSet(Workers) /\ Cardinality(Workers) = N
    BY Numbers, FS_Interval DEF Workers
  <2> QED BY <2>1, Numbers, FS_Subset, FS_CardinalityType
<1>2. cursor \in Workers => cursor + 1 \in 1..(N + 1) BY Numbers DEF Workers
<1>3. CASE Join BY <1>2, <1>3 DEF Join
<1>4. CASE PassOver BY <1>2, <1>4 DEF PassOver
<1>5. CASE AllJoined BY <1>5, Numbers DEF AllJoined, ExitWith
<1>6. CASE NextPass
  <2>1. 1 \in 1..(N + 1) BY Numbers
  <2> QED BY <1>6, <2>1 DEF NextPass, ShuttingDown
<1>7. CASE GraceExpired BY <1>1, <1>7 DEF GraceExpired, ExitWith
<1> QED BY <1>3, <1>4, <1>5, <1>6, <1>7 DEF Main

-------------------------------------------------------------------------------
(* Steps of the workers.                                                   *)

(* Each step of a worker leaves it with the facts of the place it goes to. *)
LEMMA ActWorker ==
  ASSUME TypeOK, NEW w \in Crew, Undecided(w), SlotHonest(w), TailSteps(w), StopAsked(w),
         OnlySignalStops, Act(w)
  PROVE  Undecided(w)' /\ SlotHonest(w)' /\ TailSteps(w)' /\ StopAsked(w)'
<1> USE Numbers, CrewOfWorkers
    DEF TypeOK, At, Goto, LeaveDrain, flags, loopVars, history, mainVars, worker, Places,
        Undecided, SlotHonest, TailSteps, StopAsked, InLoop, Leaving, OnlySignalStops
<1>0. w \in Workers OBVIOUS
<1>1. CASE MarkAlive(w) BY <1>0, <1>1 DEF MarkAlive
<1>2. CASE LoopHead(w) BY <1>0, <1>2 DEF LoopHead
<1>3. CASE GetPacket(w) BY <1>0, <1>3 DEF GetPacket
<1>4. CASE NoPacketYet(w) BY <1>0, <1>4 DEF NoPacketYet
<1>5. CASE CaptureError(w)
  <2>1. CASE errors[w] + 1 >= ErrorLimit BY <1>0, <1>5, <2>1 DEF CaptureError, Fatal
  <2>2. CASE ~(errors[w] + 1 >= ErrorLimit) BY <1>0, <1>5, <2>2 DEF CaptureError
  <2> QED BY <2>1, <2>2
<1>6. CASE NextFile(w) BY <1>0, <1>6 DEF NextFile
<1>7. CASE LastFile(w) BY <1>0, <1>7 DEF LastFile, Fatal
<1>8. CASE FileError(w) BY <1>0, <1>8 DEF FileError, Fatal
<1>9. CASE Housekeeping(w) BY <1>0, <1>9 DEF Housekeeping
<1>10. CASE FlushTail(w) BY <1>0, <1>10 DEF FlushTail
<1>11. CASE PublishFinal(w) BY <1>0, <1>11 DEF PublishFinal
<1>12. CASE MarkDead(w) BY <1>0, <1>12 DEF MarkDead
<1>13. CASE LoseInterface(w) BY <1>0, <1>13 DEF LoseInterface
<1>14. CASE Wedge(w) BY <1>0, <1>14 DEF Wedge
<1>15. CASE Panic(w) BY <1>0, <1>15 DEF Panic
<1> QED BY <1>1, <1>2, <1>3, <1>4, <1>5, <1>6, <1>7, <1>8, <1>9, <1>10, <1>11, <1>12,
           <1>13, <1>14, <1>15 DEF Act, WorkerStep

(* The worker of a replay accounts for its packets at every step.          *)
LEMMA ActReplay ==
  ASSUME SupervisorInv, offline, Act(1), Alone(1)
  PROVE  ReplayCounts'
<1>0. /\ 1 \in Workers /\ 1 \in Crew /\ offline' = offline
      /\ Undecided(1) /\ TailSteps(1) /\ ReplayCounts /\ TypeOK
  BY Numbers, CrewOfWorkers DEF SupervisorInv, WorkersInv, Alone
<1> USE <1>0 DEF ReplayCounts, TypeOK, At, Goto, LeaveDrain, flags, loopVars, history, mainVars,
        worker, Undecided, InLoop, TailSteps
<1>1. CASE GetPacket(1)
  <2>1. ~flushed[1] /\ outcome[1] = "shutdown" BY <1>1 DEF GetPacket
  <2>2. /\ received'[1] = received[1] + 1 /\ filePackets' = filePackets + 1
        /\ reported' = reported /\ flushed' = flushed /\ outcome' = outcome
    BY <1>1 DEF GetPacket
  <2> QED BY <2>1, <2>2
<1>2. CASE NextFile(1)
  <2>1. ~flushed[1] /\ outcome[1] = "shutdown" BY <1>2 DEF NextFile
  <2>2. /\ received' = received /\ filePackets' = 0 /\ reported' = reported + filePackets
        /\ flushed' = flushed /\ outcome' = outcome
    BY <1>2 DEF NextFile
  <2> QED BY <2>1, <2>2
<1>3. CASE LastFile(1) \/ FileError(1)
  <2>1. outcome'[1] = "eof" => received[1] > 0 \/ Head(files).end = "eof"
    BY <1>3 DEF LastFile, FileError, Fatal
  <2> QED BY <1>3, <2>1 DEF LastFile, FileError, Fatal
<1>4. CASE FlushTail(1)
  <2>1. ~flushed[1] BY <1>4 DEF FlushTail
  <2>2. /\ received' = received /\ files' = files /\ outcome' = outcome
        /\ reported' = reported + filePackets /\ flushed'[1]
    BY <1>4 DEF FlushTail
  <2> QED BY <2>1, <2>2
<1>5. CASE Panic(1)
  <2>1. /\ received' = received /\ files' = files /\ outcome'[1] = "panic"
        /\ reported' = reported /\ filePackets' = filePackets /\ flushed' = flushed
    BY <1>5 DEF Panic
  <2> QED BY <2>1
<1>6. CASE \/ MarkAlive(1) \/ LoopHead(1) \/ NoPacketYet(1) \/ Housekeeping(1)
           \/ PublishFinal(1) \/ MarkDead(1) \/ LoseInterface(1) \/ Wedge(1)
  <2>1. /\ received' = received /\ files' = files /\ outcome' = outcome
        /\ reported' = reported /\ filePackets' = filePackets /\ flushed' = flushed
    BY <1>6 DEF MarkAlive, LoopHead, NoPacketYet, Housekeeping, PublishFinal, MarkDead,
                LoseInterface, Wedge
  <2> QED BY <2>1
<1>7. CASE CaptureError(1) BY <1>7 DEF CaptureError
<1> QED BY <1>1, <1>2, <1>3, <1>4, <1>5, <1>6, <1>7 DEF Act, WorkerStep

(* A step of a worker keeps the invariant.                                 *)
LEMMA ActStep ==
  ASSUME SupervisorInv, NEW w \in Workers, Act(w)
  PROVE  SupervisorInv'
<1>1. TypeOK' BY ActTypes DEF SupervisorInv, WorkersInv
<1>2. Alone(w) BY ActAlone DEF SupervisorInv
<1>3. w \in Crew /\ Crew' = Crew /\ Running /\ Running'
  BY <1>2 DEF SupervisorInv, WorkersInv, Alone, Crew, Running
<1>4. Undecided(w)' /\ SlotHonest(w)' /\ TailSteps(w)' /\ StopAsked(w)'
  BY <1>3, ActWorker DEF SupervisorInv, WorkersInv
<1>5. \A v \in Workers \ {w} :
        /\ Undecided(v)' = Undecided(v) /\ SlotHonest(v)' = SlotHonest(v)
        /\ TailSteps(v)' = TailSteps(v) /\ StopAsked(v)' = StopAsked(v)
  BY <1>2 DEF Alone, Undecided, SlotHonest, TailSteps, StopAsked
<1>6. WorkersInv'
  BY <1>2, <1>3, <1>4, <1>5, CrewOfWorkers DEF SupervisorInv, WorkersInv, Alone
<1>7. OnlySignalStops' BY <1>2, <1>3 DEF SupervisorInv, OnlySignalStops, Alone
<1>8. Joined'
  <2>1. \A v \in Crew \ pending : v \in Workers \ {w}
    BY <1>2, CrewOfWorkers DEF SupervisorInv, Joined, Alone
  <2>2. \A v \in Crew \ pending : pc'[v] = "ended" /\ (Failed(v)' <=> Failed(v))
    BY <1>2, <2>1 DEF SupervisorInv, Joined, Alone, Failed
  <2> QED BY <1>2, <1>3, <2>2 DEF SupervisorInv, Joined, Alone
<1>9. ExitState' BY <1>3 DEF ExitState
<1>10. ReplayCounts'
  <2>1. CASE offline
    <3>1. w = 1 BY <1>3, <2>1, CrewOfWorkers
    <3> QED BY <1>2, <2>1, <3>1, ActReplay
  <2>2. CASE ~offline BY <1>2, <2>2 DEF Alone, ReplayCounts
  <2> QED BY <2>1, <2>2
<1> QED BY <1>1, <1>6, <1>7, <1>8, <1>9, <1>10 DEF SupervisorInv

-------------------------------------------------------------------------------
(* Steps of the signal, its watcher and main.                              *)

(* They leave the workers alone; a raised signal only adds to what holds.  *)
LEMMA OthersLeaveWorkers ==
  ASSUME SupervisorInv, UNCHANGED <<offline, worker>>, sig => sig'
  PROVE  WorkersInv' /\ ReplayCounts' /\ Crew' = Crew
<1> USE DEF worker, history, loopVars
<1>1. Crew' = Crew BY DEF Crew
<1>2. WorkersInv'
  BY <1>1 DEF SupervisorInv, WorkersInv, Undecided, SlotHonest, TailSteps, StopAsked
<1>3. ReplayCounts' BY DEF SupervisorInv, ReplayCounts
<1> QED BY <1>1, <1>2, <1>3

(* The handler and the watcher raise flags.                                *)
LEMMA SignalStep ==
  ASSUME SupervisorInv, Signal \/ Watcher
  PROVE  SupervisorInv'
<1>1. TypeOK'
  BY DEF SupervisorInv, TypeOK, Signal, Watcher, worker, loopVars, history, mainVars
<1>2. WorkersInv' /\ ReplayCounts' /\ Crew' = Crew
  BY OthersLeaveWorkers DEF Signal, Watcher
<1>3. UNCHANGED <<pc, outcome, pending, failures, grace, exitCode>> /\ Running
  BY DEF Signal, Watcher, worker, mainVars
<1>4. OnlySignalStops'
  BY <1>3 DEF SupervisorInv, OnlySignalStops, Signal, Watcher
<1>5. Joined' BY <1>2, <1>3 DEF SupervisorInv, Joined, Failed
<1>6. ExitState' BY <1>3 DEF ExitState, Running
<1> QED BY <1>1, <1>2, <1>4, <1>5, <1>6 DEF SupervisorInv

(* No worker that main joins stopped unasked: a join only records failures. *)
LEMMA JoinRecords ==
  ASSUME SupervisorInv, Join
  PROVE  /\ shutdown' = shutdown
         /\ failures' = IF Failed(cursor) THEN failures \union {cursor} ELSE failures
<1>1. cursor \in Crew /\ pc[cursor] = "ended"
  BY DEF SupervisorInv, Joined, Join
<1>2. ~StoppedUnasked(cursor)
  BY <1>1 DEF SupervisorInv, WorkersInv, StopAsked, Leaving, StoppedUnasked, ShuttingDown
<1> QED BY <1>2 DEF Join, SupervisorInv, TypeOK

(* main joins, passes over, starts the deadline, and exits.                *)
LEMMA MainStep ==
  ASSUME SupervisorInv, Main
  PROVE  SupervisorInv'
<1>1. TypeOK' BY MainTypes DEF SupervisorInv
<1>2. Running /\ UNCHANGED <<offline, sig, worker>>
  BY DEF Main, Join, PassOver, AllJoined, NextPass, GraceExpired, ExitWith, flags
<1>3. WorkersInv' /\ ReplayCounts' /\ Crew' = Crew
  BY <1>2, OthersLeaveWorkers
<1>4. UNCHANGED <<pc, outcome, sig>> BY <1>2 DEF worker
<1>5. CASE Join
  <2>1. OnlySignalStops'
    BY <1>4, <1>5, JoinRecords DEF SupervisorInv, OnlySignalStops, Join, Running
  <2>2. Joined'
    <3>1. pending' = pending \ {cursor} /\ cursor \in pending /\ pc[cursor] = "ended"
      BY <1>5 DEF Join
    <3>2. \A w \in Crew : Failed(w)' <=> Failed(w) BY <1>4 DEF Failed
    <3>3. failures' = {w \in Crew \ pending' : Failed(w)}
      BY <1>5, <3>1, JoinRecords DEF SupervisorInv, Joined
    <3> QED BY <1>3, <1>4, <3>1, <3>2, <3>3 DEF SupervisorInv, Joined
  <2>3. ExitState' BY <1>2, <1>5 DEF ExitState, Join, Running
  <2> QED BY <1>1, <1>3, <2>1, <2>2, <2>3 DEF SupervisorInv
<1>6. CASE PassOver \/ NextPass
  <2>1. UNCHANGED <<shutdown, pending, failures, exitCode>>
    BY <1>6 DEF PassOver, NextPass, flags
  <2>2. OnlySignalStops'
    <3>1. grace' => grace \/ shutdown \/ sig
      BY <1>6 DEF PassOver, NextPass, ShuttingDown
    <3> QED BY <1>2, <1>4, <2>1, <3>1 DEF SupervisorInv, OnlySignalStops, Running
  <2>3. Joined' BY <1>3, <1>4, <2>1 DEF SupervisorInv, Joined, Failed
  <2>4. ExitState' BY <1>2, <2>1 DEF ExitState, Running
  <2> QED BY <1>1, <1>3, <2>2, <2>3, <2>4 DEF SupervisorInv
<1>7. CASE AllJoined \/ GraceExpired
  <2>1. /\ UNCHANGED <<pending, failures, grace>>
        /\ exitCode' = IF failures = {} THEN 0 ELSE 1
    BY <1>7 DEF AllJoined, GraceExpired, ExitWith
  <2>2. ~Running' BY <2>1 DEF Running
  <2>3. OnlySignalStops'
    BY <1>4, <2>1, <2>2 DEF SupervisorInv, OnlySignalStops
  <2>4. Joined' BY <1>3, <1>4, <2>1 DEF SupervisorInv, Joined, Failed
  <2>5. IsFiniteSet(pending)
    <3>1. IsFiniteSet(Workers) BY Numbers, FS_Interval DEF Workers
    <3> QED BY <3>1, FS_Subset DEF SupervisorInv, TypeOK
  <2>6. (pending # {} => stuck' # 0 /\ sig) /\ (pending = {} => stuck' = 0)
    <3>1. CASE AllJoined BY <3>1 DEF AllJoined, ExitWith
    <3>2. CASE GraceExpired
      BY <2>5, <3>2, FS_EmptySet DEF GraceExpired, ExitWith, SupervisorInv, OnlySignalStops
    <3> QED BY <1>7, <3>1, <3>2
  <2>7. ExitState' BY <1>4, <2>1, <2>6 DEF ExitState
  <2> QED BY <1>1, <1>3, <2>3, <2>4, <2>7 DEF SupervisorInv
<1> QED BY <1>5, <1>6, <1>7 DEF Main

-------------------------------------------------------------------------------
(* The invariant holds at the start, at every step, and so throughout.     *)
LEMMA InitSupervisorInv == Init => SupervisorInv
<1> SUFFICES ASSUME Init PROVE SupervisorInv OBVIOUS
<1>1. offline \in BOOLEAN BY SupervisorAssumption DEF Init
<1>2. files \in Seq(CaptureFile)
  <2>1. <<>> \in Seq(CaptureFile) OBVIOUS
  <2> QED BY <2>1, SupervisorAssumption DEF Init
<1>3. TypeOK
  <2>1. pc \in [Workers -> Places] BY DEF Init, Places
  <2>2. drained \in [Workers -> 0..(HousekeepingInterval - 1)] BY Numbers DEF Init
  <2>3. errors \in [Workers -> 0..ErrorLimit] BY Numbers DEF Init
  <2>4. cursor \in 1..(N + 1) /\ stuck \in 0..N BY Numbers DEF Init
  <2>5. pending \subseteq Workers BY CrewOfWorkers DEF Init
  <2> QED BY <1>1, <1>2, <2>1, <2>2, <2>3, <2>4, <2>5 DEF Init, TypeOK
<1>4. WorkersInv
  BY Numbers, CrewOfWorkers DEF Init, WorkersInv, Undecided, SlotHonest, TailSteps, StopAsked,
     InLoop, Leaving
<1>5. OnlySignalStops BY DEF Init, OnlySignalStops
<1>6. Joined BY DEF Init, Joined
<1>7. ExitState BY DEF Init, ExitState, Running
<1>8. ReplayCounts BY Numbers DEF Init, ReplayCounts
<1> QED BY <1>3, <1>4, <1>5, <1>6, <1>7, <1>8 DEF SupervisorInv

LEMMA NextSupervisorInv == SupervisorInv /\ [Next]_vars => SupervisorInv'
<1> SUFFICES ASSUME SupervisorInv, [Next]_vars PROVE SupervisorInv' OBVIOUS
<1>1. ASSUME NEW w \in Workers, Act(w) PROVE SupervisorInv' BY <1>1, ActStep
<1>2. CASE Signal \/ Watcher BY <1>2, SignalStep
<1>3. CASE Main BY <1>3, MainStep
<1>4. CASE UNCHANGED vars
  BY <1>4 DEF vars, flags, worker, history, loopVars, mainVars, SupervisorInv, TypeOK,
     WorkersInv, Crew, Undecided, SlotHonest, TailSteps, StopAsked, OnlySignalStops, Running,
     Joined, Failed, ExitState, ReplayCounts
<1> QED BY <1>1, <1>2, <1>3, <1>4 DEF Next, Act

LEMMA SpecSupervisorInv == Spec => []SupervisorInv
BY InitSupervisorInv, NextSupervisorInv, PTL DEF Spec

(* Every variable of the supervisor keeps its type; a worker's run of      *)
(* capture errors never passes LIVE_CAPTURE_ERROR_LIMIT.                   *)
THEOREM SpecSupervisorTypeOK == Spec => []TypeOK
<1>1. SupervisorInv => TypeOK BY DEF SupervisorInv
<1> QED BY <1>1, SpecSupervisorInv, PTL

(* The exit code of main: 1 exactly when a worker it joined failed or      *)
(* panicked, and without a signal a live sensor leaves no worker behind.   *)
THEOREM SpecExitCodeHonest == Spec => []ExitCodeHonest
<1>1. ASSUME SupervisorInv PROVE ExitCodeHonest
  <2>1. ASSUME ~Running, stuck = 0 PROVE exitCode = 1 <=> \E w \in Crew : Failed(w)
    BY <1>1, <2>1 DEF SupervisorInv, ExitState, Joined
  <2>2. ASSUME ~Running, ~sig PROVE stuck = 0
    BY <1>1, <2>2 DEF SupervisorInv, ExitState
  <2> QED BY <2>1, <2>2 DEF ExitCodeHonest
<1> QED BY <1>1, SpecSupervisorInv, PTL

(* run_all()'s tail is complete in every worker main has joined, unless    *)
(* the worker panicked: events flushed, last counters published.           *)
THEOREM SpecTailBeforeExit == Spec => []TailBeforeExit
<1>1. SupervisorInv => TailBeforeExit
  BY DEF SupervisorInv, TailBeforeExit, ExitState, Joined, WorkersInv, TailSteps
<1> QED BY <1>1, SpecSupervisorInv, PTL

(* The metrics endpoint never shows a dead slot with counters that are not *)
(* the worker's last.                                                      *)
THEOREM SpecScrapeSeesLastCounters == Spec => []ScrapeSeesLastCounters
<1>1. SupervisorInv => ScrapeSeesLastCounters
  BY DEF SupervisorInv, ScrapeSeesLastCounters, WorkersInv, SlotHonest
<1> QED BY <1>1, SpecSupervisorInv, PTL

(* The file reports of a replay add up to the packets received, and a      *)
(* replay that exits 0 read a packet or files without any.                 *)
THEOREM SpecReplayAccounted == Spec => []ReplayAccounted
<1>1. ASSUME SupervisorInv PROVE ReplayAccounted
  BY <1>1, Numbers DEF SupervisorInv, TypeOK, ReplayAccounted, ReplayCounts
<1> QED BY <1>1, SpecSupervisorInv, PTL
=============================================================================
