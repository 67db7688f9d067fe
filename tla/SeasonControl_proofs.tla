------------------------- MODULE SeasonControl_proofs -------------------------
(***************************************************************************)
(* Proofs about SeasonControl for every set of processes and commands and  *)
(* every value of the bounds.                                              *)
(***************************************************************************)
EXTENDS SeasonControl, TLAPS

-----------------------------------------------------------------------------
(* Where a process may be, given whether the snapshot was taken.           *)

Results == {"ok", "failed", "completed", "error"}

Sane(p, taken) ==
  /\ p.pc = "boot" => p.cmd \in {"start", "up"}
  /\ p.pc = "transition" /\ p.cmd \in {"complete", "force"} => taken
  /\ p.status = "completed" => taken
  /\ p.pc = "endbeat" => p.result \in Results

Good(p, taken) == p \in Process /\ Sane(p, taken)

(* The inductive invariant of the overlapping operations: whoever will     *)
(* write "completed" holds it from a file that had its snapshot.           *)
ControlInv ==
  /\ TypeOK
  /\ file.status = "completed" => snapshot.taken
  /\ \A q \in Procs : Sane(proc[q], snapshot.taken)

LEMMA IdleGood == ASSUME NEW taken PROVE Good(Idle, taken)
  BY ControlConstants DEF Idle, NewRecord, Good, Sane, Process, Points, Stages,
     StoreOps, Statuses, Record, Beats, Runtimes, AllCommands

LEMMA BeginAt ==
  ASSUME NEW c, NEW point
  PROVE  LET p == Begin(c, point) IN p.pc = point /\ p.cmd = c /\ p.stage = "load"
  BY DEF Begin, Idle

LEMMA BeginGood ==
  ASSUME NEW taken, NEW c \in AllCommands, NEW point \in Points \ {"endbeat"},
         point = "boot" => c \in {"start", "up"},
         point = "transition" => c \notin {"complete", "force"}
  PROVE  Good(Begin(c, point), taken)
<1>1. Idle \in Process /\ Idle.status # "completed"
  BY IdleGood, ControlConstants DEF Good, Idle
<1>2. Begin(c, point) \in Process /\ Begin(c, point).status # "completed"
  BY <1>1 DEF Begin, Process
<1> QED BY <1>2, BeginAt DEF Good, Sane

LEMMA ProcGood == ASSUME ControlInv, NEW q \in Procs PROVE Good(proc[q], snapshot.taken)
  BY DEF ControlInv, TypeOK, Good

(* A process that goes on as a good one leaves the others good.            *)
LEMMA BecomeGood ==
  ASSUME ControlInv, NEW q \in Procs, NEW p, Good(p, snapshot.taken), Become(q, p),
         UNCHANGED snapshot
  PROVE  proc' \in [Procs -> Process] /\ \A o \in Procs : Sane(proc'[o], snapshot'.taken)
  BY DEF ControlInv, TypeOK, Good, Become

(* The same when a record replaces the file: the histories may change.     *)
LEMMA ReplaceGood ==
  ASSUME ControlInv, NEW q \in Procs, NEW p, Good(p, snapshot.taken),
         NEW f \in Record, Replace(q, f, p), UNCHANGED snapshot
  PROVE  proc' \in [Procs -> Process] /\ \A o \in Procs : Sane(proc'[o], snapshot'.taken)
<1> DEFINE Was(o) == IF o = q THEN p ELSE proc[o]
           New(o) == [Was(o) EXCEPT !.pausedAll = @ /\ f.paused,
                                    !.inactiveAll = @ /\ f.status # "active",
                                    !.closedAll = @ /\ Closed(f)]
<1>1. proc' = [o \in Procs |-> New(o)]
  BY DEF Replace
<1>2. ASSUME NEW o \in Procs PROVE New(o) \in Process /\ Sane(New(o), snapshot'.taken)
  <2>1. Good(Was(o), snapshot.taken)
    BY ProcGood
  <2>2. f.paused \in BOOLEAN /\ Closed(f) \in BOOLEAN
    BY DEF Record, Closed
  <2> HIDE DEF Was
  <2>3. New(o) \in Process
    BY <2>1, <2>2 DEF Good, Process
  <2>4. Sane(New(o), snapshot.taken)
    BY <2>1 DEF Good, Sane, Process
  <2> QED BY <2>3, <2>4
<1> HIDE DEF New
<1> QED BY <1>1, <1>2

LEMMA GotoGood ==
  ASSUME ControlInv, NEW q \in Procs, NEW point \in Points \ {"boot", "endbeat"},
         point = "transition" => proc[q].cmd \notin {"complete", "force"} \/ snapshot.taken
  PROVE  Good([proc[q] EXCEPT !.pc = point, !.stage = "load"], snapshot.taken)
  BY ProcGood DEF Good, Sane, Process, Stages

LEMMA EndTickGood ==
  ASSUME ControlInv, NEW q \in Procs, NEW result \in Results
  PROVE  Good([proc[q] EXCEPT !.pc = "endbeat", !.stage = "load", !.result = result],
              snapshot.taken)
  BY ProcGood DEF Good, Sane, Process, Stages, Points, StoreOps, Results, Beats

(* What the processes go on to after the writes that lead back to a loop.  *)
LEMMA AfterGood ==
  ASSUME ControlInv, NEW q \in Procs
  PROVE  /\ Good(AfterTransition(q), snapshot.taken)
         /\ \A p \in AfterBeat(q) : Good(p, snapshot.taken)
         /\ Good(AfterRuntime(q), snapshot.taken)
         /\ Good(Begin(proc[q].cmd, "look"), snapshot.taken)
<1>1. /\ proc[q].cmd \in AllCommands
      /\ {"start", "up"} \subseteq AllCommands
  BY ProcGood DEF Good, Process, AllCommands
<1>2. \A c \in AllCommands :
        \A point \in {"enter", "beat", "clean", "look", "stopped", "leave", "rest", "round"} :
          Good(Begin(c, point), snapshot.taken)
  BY BeginGood DEF Points, StoreOps, RuntimeOps
<1>3. Good([Begin("start", "leave") EXCEPT !.seen = "completed"], snapshot.taken)
  <2>1. Good(Begin("start", "leave"), snapshot.taken)
    BY <1>1, <1>2
  <2> QED BY <2>1 DEF Good, Sane, Process, Statuses
<1>4. Good(AfterTransition(q), snapshot.taken)
  BY <1>1, <1>2, IdleGood DEF AfterTransition, LoopPoint
<1>5. ASSUME NEW p \in AfterBeat(q) PROVE Good(p, snapshot.taken)
  BY <1>1, <1>2, <1>3, <1>5, IdleGood DEF AfterBeat
<1>6. Good(AfterRuntime(q), snapshot.taken)
  BY <1>1, <1>2, IdleGood DEF AfterRuntime
<1> QED BY <1>1, <1>2, <1>4, <1>5, <1>6

-----------------------------------------------------------------------------
LEMMA ControlInit == Init => ControlInv
<1> SUFFICES ASSUME Init PROVE ControlInv
  OBVIOUS
<1>1. NewRecord \in Record /\ NewRecord.status # "completed"
  BY ControlConstants DEF NewRecord, Record, Statuses, Beats, Runtimes
<1>2. NoSnapshot \in [taken : BOOLEAN, runs : Nat]
  BY DEF NoSnapshot
<1>3. Idle \in Process /\ Sane(Idle, snapshot.taken)
  BY IdleGood DEF Good
<1>4. 0 \in 0 .. MaxCommands /\ 0 \in 0 .. MaxFaults
  BY ControlConstants
<1> QED
  BY <1>1, <1>2, <1>3, <1>4 DEF Init, ControlInv, TypeOK

(* The steps of one process.                                               *)
LEMMA StepInv ==
  ASSUME ControlInv, NEW q \in Procs, Step(q) PROVE ControlInv'
<1> USE DEF At, InStage, Fault
<1>0. /\ Good(proc[q], snapshot.taken)
      /\ file \in Record
      /\ proc[q].pc \in Points
  BY ProcGood DEF ControlInv, TypeOK, Good, Process
<1>1. CASE WriteSnapshot(q)
  <2> DEFINE p == [proc[q] EXCEPT !.pc = "transition", !.stage = "load"]
  <2>1. p \in Process /\ Sane(p, TRUE)
    BY <1>0 DEF Good, Sane, Process, Points, StoreOps, Stages
  <2>2. proc' = [proc EXCEPT ![q] = p] /\ snapshot'.taken = TRUE
        /\ snapshot' \in [taken : BOOLEAN, runs : Nat]
    BY <1>1 DEF WriteSnapshot, Goto, Become, ControlInv, TypeOK
  <2>3. \A o \in Procs : Sane(proc[o], TRUE)
    BY DEF ControlInv, Sane
  <2> HIDE DEF p
  <2> QED BY <1>1, <2>1, <2>2, <2>3 DEF WriteSnapshot, ControlInv, TypeOK
<1>2. CASE Boot(q)
  <2>1. Good([proc[q] EXCEPT !.pc = IF file.status = "draft" THEN "transition"
                                      ELSE LoopPoint(proc[q].cmd),
                             !.stage = "load"], snapshot.taken)
    BY <1>0, <1>2, GotoGood DEF Boot, Good, Sane, Points, StoreOps, RuntimeOps, LoopPoint
  <2> QED BY <1>2, <2>1, BecomeGood DEF Boot, Goto, ControlInv, TypeOK
<1>3. CASE Load(q)
  <2>1. Good([proc[q] EXCEPT !.status = file.status, !.stage = "read"], snapshot.taken)
    BY <1>0 DEF Good, Sane, Process, Record, Stages, ControlInv
  <2> QED BY <1>3, <2>1, BecomeGood DEF Load, ControlInv, TypeOK
<1>4. CASE Refuse(q)
  BY <1>4, IdleGood, BecomeGood DEF Refuse, ControlInv, TypeOK
<1>5. CASE Read(q)
  <2>1. Good([proc[q] EXCEPT !.rec = file, !.stage = "write"], snapshot.taken)
    BY <1>0 DEF Good, Sane, Process, Stages
  <2> QED BY <1>5, <2>1, BecomeGood DEF Read, ControlInv, TypeOK
<1>6. CASE WriteTransition(q)
  <2> DEFINE target == Target(proc[q].cmd)
             f == [status |-> target, paused |-> target = "active" /\ proc[q].rec.paused,
                   beat |-> proc[q].rec.beat, runtime |-> "none"]
  <2>1. f \in Record
    BY <1>0 DEF Good, Process, Record, Target, Statuses, Runtimes
  <2>2. f.status = "completed" => snapshot.taken
    BY <1>0, <1>6 DEF WriteTransition, Good, Sane, Target
  <2>3. Replace(q, f, AfterTransition(q))
        /\ UNCHANGED <<openPr, board, snapshot, workspaces, issued, faults, killed>>
    BY <1>6 DEF WriteTransition
  <2> HIDE DEF f
  <2>4. file' = f
    BY <2>3 DEF Replace
  <2> QED BY <2>1, <2>2, <2>3, <2>4, AfterGood, ReplaceGood DEF ControlInv, TypeOK
<1>7. CASE WritePause(q)
  <2> DEFINE f == [proc[q].rec EXCEPT !.status = proc[q].status,
                                      !.paused = proc[q].cmd = "pause"]
  <2>1. f \in Record /\ f.status = proc[q].status
    BY <1>0 DEF Good, Process, Record
  <2>2. Replace(q, f, Idle) /\ UNCHANGED <<openPr, board, snapshot, workspaces, issued, faults, killed>>
    BY <1>7 DEF WritePause
  <2> HIDE DEF f
  <2>3. file' = f
    BY <2>2 DEF Replace
  <2> QED BY <1>0, <2>1, <2>2, <2>3, IdleGood, ReplaceGood DEF ControlInv, TypeOK, Good, Sane
<1>8. CASE WriteBeat(q)
  <2> DEFINE f == [proc[q].rec EXCEPT !.status = proc[q].status, !.beat = "running"]
             p == Begin(proc[q].cmd, "look")
  <2>1. f \in Record /\ f.status = proc[q].status
    BY <1>0 DEF Good, Process, Record, Beats
  <2>2. Good(p, snapshot.taken)
    BY AfterGood
  <2>3. Replace(q, f, p)
        /\ UNCHANGED <<openPr, board, snapshot, workspaces, issued, faults, killed>>
    BY <1>8 DEF WriteBeat
  <2> HIDE DEF f, p
  <2>4. file' = f
    BY <2>3 DEF Replace
  <2> QED BY <1>0, <2>1, <2>2, <2>3, <2>4, ReplaceGood DEF ControlInv, TypeOK, Good, Sane
<1>9. CASE WriteEndBeat(q)
  <2> DEFINE f == [proc[q].rec EXCEPT !.status = proc[q].status, !.beat = proc[q].result]
  <2>1. f \in Record /\ f.status = proc[q].status
    BY <1>0 DEF Good, Process, Record
  <2>2. PICK p \in AfterBeat(q) : Replace(q, f, p)
    BY <1>9 DEF WriteEndBeat
  <2>3. UNCHANGED <<openPr, board, snapshot, workspaces, issued, faults, killed>>
    BY <1>9 DEF WriteEndBeat
  <2> HIDE DEF f
  <2>4. file' = f
    BY <2>2 DEF Replace
  <2>5. Good(p, snapshot.taken)
    BY <2>2, AfterGood
  <2> QED BY <1>0, <2>1, <2>2, <2>3, <2>4, <2>5, ReplaceGood
      DEF ControlInv, TypeOK, Good, Sane
<1>15. CASE WriteRuntime(q)
  <2> DEFINE f == [proc[q].rec EXCEPT !.status = proc[q].status, !.runtime = Runtime(q)]
  <2>1. f \in Record /\ f.status = proc[q].status
    <3>1. Runtime(q) \in Runtimes
      BY DEF Runtime, Runtimes
    <3> QED BY <1>0, <3>1 DEF Good, Process, Record
  <2>2. Replace(q, f, AfterRuntime(q))
        /\ UNCHANGED <<openPr, board, snapshot, workspaces, issued, faults, killed>>
    BY <1>15 DEF WriteRuntime
  <2> HIDE DEF f
  <2>3. file' = f
    BY <2>2 DEF Replace
  <2> QED BY <1>0, <2>1, <2>2, <2>3, AfterGood, ReplaceGood DEF ControlInv, TypeOK, Good, Sane
<1>16. CASE Clean(q)
  BY <1>16, IdleGood, BecomeGood DEF Clean, ControlInv, TypeOK
<1>10. CASE Look(q)
  <2>1. Good([proc[q] EXCEPT !.pc = "state", !.seen = file.status,
                             !.pausedAll = file.paused,
                             !.inactiveAll = file.status # "active",
                             !.closedAll = Closed(file)], snapshot.taken)
    BY <1>0 DEF Good, Sane, Process, Record, Points, StoreOps, Closed
  <2> QED BY <1>10, <2>1, BecomeGood DEF Look, ControlInv, TypeOK
<1>11. CASE State(q)
  <2>1. Good([proc[q] EXCEPT !.pc = "lifecycle", !.stage = "load"], snapshot.taken)
    BY GotoGood DEF Points, StoreOps
  <2>2. Good([proc[q] EXCEPT !.pc = "wake", !.stage = "load"], snapshot.taken)
    BY GotoGood DEF Points, StoreOps
  <2>3. Good([proc[q] EXCEPT !.pc = "endbeat", !.stage = "load", !.result = "error"],
             snapshot.taken)
    BY EndTickGood DEF Results
  <2> QED
    BY <1>11, <2>1, <2>2, <2>3, BecomeGood DEF State, Goto, EndTick, ControlInv, TypeOK
<1>12. CASE Lifecycle(q) \/ LifecycleFails(q) \/ WakeNobody(q) \/ FinishRun(q)
            \/ FinishOutside(q)
  <2>1. PICK result \in Results : EndTick(q, result)
    BY <1>12 DEF Lifecycle, LifecycleFails, WakeNobody, FinishRun, FinishOutside, Results
  <2>2. UNCHANGED <<file, snapshot, issued, killed>>
    BY <1>12 DEF Lifecycle, LifecycleFails, WakeNobody, FinishRun, FinishOutside
  <2>3. /\ openPr' \in BOOLEAN /\ board' \in Nat /\ faults' \in 0 .. MaxFaults
        /\ workspaces' \in BOOLEAN
    <3>1. openPr \in BOOLEAN /\ board \in Nat /\ faults \in 0 .. MaxFaults
          /\ MaxFaults \in Nat
      BY ControlConstants DEF ControlInv, TypeOK
    <3>2. openPr' \in BOOLEAN
      BY <1>12, <3>1 DEF Lifecycle, LifecycleFails, WakeNobody, FinishRun, FinishOutside
    <3>3. board' \in {board, board + 1}
      BY <1>12 DEF Lifecycle, LifecycleFails, WakeNobody, FinishRun, FinishOutside
    <3>4. faults' = faults \/ (faults < MaxFaults /\ faults' = faults + 1)
      BY <1>12 DEF Lifecycle, LifecycleFails, WakeNobody, FinishRun, FinishOutside
    <3>5. board' \in Nat /\ faults' \in 0 .. MaxFaults
      BY <3>1, <3>3, <3>4
    <3>6. workspaces' \in BOOLEAN
      BY <1>12 DEF Lifecycle, LifecycleFails, WakeNobody, FinishRun, FinishOutside,
         ControlInv, TypeOK
    <3> QED BY <3>2, <3>5, <3>6
  <2> QED
    BY <2>1, <2>2, <2>3, EndTickGood, BecomeGood DEF EndTick, ControlInv, TypeOK
<1>13. CASE Wake(q)
  <2>1. Good([proc[q] EXCEPT !.pc = "run", !.stage = "load"], snapshot.taken)
    BY GotoGood DEF Points, StoreOps
  <2> QED BY <1>13, <2>1, BecomeGood DEF Wake, Goto, ControlInv, TypeOK
<1>14. CASE FallThrough(q)
  <2>1. Good([proc[q] EXCEPT !.pc = "outside", !.stage = "load"], snapshot.taken)
    BY GotoGood DEF Points, StoreOps
  <2> QED BY <1>14, <2>1, BecomeGood DEF FallThrough, Goto, ControlInv, TypeOK
<1> QED
  BY <1>1, <1>2, <1>3, <1>4, <1>5, <1>6, <1>7, <1>8, <1>9, <1>10, <1>11, <1>12, <1>13,
     <1>14, <1>15, <1>16 DEF Step, StoreStep, TickStep

LEMMA NextInv == ControlInv /\ [Next]_vars => ControlInv'
<1> SUFFICES ASSUME ControlInv, [Next]_vars PROVE ControlInv'
  OBVIOUS
<1>1. ASSUME NEW q \in Procs, NEW c \in Commands, Issue(q, c) PROVE ControlInv'
  <2>1. Good(Begin(c, FirstPoint(c)), snapshot.taken)
    <3>1. c \in AllCommands
      BY ControlConstants
    <3>2. FirstPoint(c) \in Points
      BY <3>1 DEF FirstPoint, AllCommands, Points, StoreOps
    <3>3. /\ FirstPoint(c) = "boot" => c \in {"start", "up"}
          /\ FirstPoint(c) = "transition" => c \notin {"complete", "force"}
          /\ FirstPoint(c) # "endbeat"
      BY <3>1 DEF FirstPoint, AllCommands
    <3> QED BY <3>1, <3>2, <3>3, BeginGood
  <2>2. issued' \in 0 .. MaxCommands
    BY <1>1, ControlConstants DEF Issue, ControlInv, TypeOK
  <2> QED BY <1>1, <2>1, <2>2, BecomeGood DEF Issue, ControlInv, TypeOK
<1>2. ASSUME NEW q \in Procs, Crash(q) PROVE ControlInv'
  <2>1. faults' \in 0 .. MaxFaults
    BY <1>2, ControlConstants DEF Crash, Fault, ControlInv, TypeOK
  <2> QED BY <1>2, <2>1, IdleGood, BecomeGood DEF Crash, ControlInv, TypeOK
<1>3. CASE UNCHANGED vars
  BY <1>3 DEF vars, ControlInv, TypeOK
<1>4. ASSUME NEW q \in Procs, Interrupt(q) PROVE ControlInv'
  <2>1. faults' \in 0 .. MaxFaults
    BY <1>4, ControlConstants DEF Interrupt, Fault, ControlInv, TypeOK
  <2>2. Good(Begin("start", "interrupt"), snapshot.taken)
    BY BeginGood DEF Points, StoreOps, RuntimeOps, AllCommands
  <2>3. Good(IF InLoop(q) THEN Begin("start", "interrupt") ELSE Idle, snapshot.taken)
    BY <2>2, IdleGood
  <2> QED BY <1>4, <2>1, <2>3, BecomeGood DEF Interrupt, ControlInv, TypeOK
<1> QED BY <1>1, <1>2, <1>3, <1>4, StepInv DEF Next

THEOREM ControlInvariant == Spec => []ControlInv
  BY ControlInit, NextInv, PTL DEF Spec

(* Every reachable state of the season's file and its processes is typed.  *)
THEOREM TypeCorrect == Spec => []TypeOK
  BY ControlInvariant, PTL DEF ControlInv

(* A completed season has its leaderboard frozen, for any number of        *)
(* processes whose reads and writes of season_state.json overlap.          *)
THEOREM CompletedSeasonIsFrozen == Spec => []CompletedIsFrozen
<1>1. ControlInv => CompletedIsFrozen
  BY DEF ControlInv, CompletedIsFrozen
<1> QED BY <1>1, ControlInvariant, PTL

-----------------------------------------------------------------------------
(* Refinement.  When store operations do not overlap, the one under way    *)
(* holds the file as it is, so its write acts on the season at once.       *)

Holds(p) == p.pc \in StoreOps /\ p.stage # "load"
Fresh(p, f) == Holds(p) => p.status = f.status /\ (p.stage = "write" => p.rec = f)

SerialInv ==
  /\ \A q \in Procs : Fresh(proc[q], file)
  /\ \A q, o \in Procs : Holds(proc[q]) /\ Holds(proc[o]) => q = o

Serial == ControlInv /\ SerialInv

Steering == <<file.status, file.paused, file.beat, file.runtime>>
AbstractStep == AtomicSeason!Next \/ UNCHANGED Steering

LEMMA SerialInit == Init => SerialInv
  BY DEF Init, SerialInv, Fresh, Holds, Idle, StoreOps

(* A step that leaves the file alone and takes up nothing is a stutter.    *)
LEMMA BecomeSerial ==
  ASSUME Serial, NEW q \in Procs, NEW p, Become(q, p), UNCHANGED file, Fresh(p, file),
         Holds(p) => Holds(proc[q]) \/ \A o \in Procs \ {q} : ~Holds(proc[o])
  PROVE  SerialInv' /\ UNCHANGED Steering
<1>1. \A o \in Procs : proc'[o] = IF o = q THEN p ELSE proc[o]
  BY DEF Serial, ControlInv, TypeOK, Become
<1> QED BY <1>1 DEF Serial, SerialInv, Fresh, Steering

(* The write of the operation that holds the file leaves nobody holding.   *)
LEMMA ReplaceSerial ==
  ASSUME Serial, NEW q \in Procs, Holds(proc[q]), NEW p, p \in Process, ~Holds(p),
         NEW f, Replace(q, f, p)
  PROVE  SerialInv'
<1>1. ASSUME NEW o \in Procs PROVE ~Holds(proc'[o])
  <2> DEFINE was == IF o = q THEN p ELSE proc[o]
  <2>1. was \in Process /\ ~Holds(was)
    BY DEF Serial, SerialInv, ControlInv, TypeOK
  <2>2. proc'[o] = [was EXCEPT !.pausedAll = @ /\ f.paused,
                               !.inactiveAll = @ /\ f.status # "active",
                               !.closedAll = @ /\ Closed(f)]
    BY DEF Replace
  <2> HIDE DEF was
  <2> QED BY <2>1, <2>2 DEF Holds, Process
<1> QED BY <1>1 DEF SerialInv, Fresh

LEMMA NotHeld ==
  ASSUME ControlInv, NEW q \in Procs, NEW point \in Points
  PROVE  ~Holds([proc[q] EXCEPT !.pc = point, !.stage = "load"])
  BY ProcGood DEF Good, Process, Holds

LEMMA IdleNotHeld == ~Holds(Idle)
  BY DEF Holds, Idle

LEMMA BeginNotHeld == ASSUME NEW c, NEW point PROVE ~Holds(Begin(c, point))
  BY BeginAt DEF Holds

(* Where a process goes after a write it has read nothing.                 *)
LEMMA AfterNotHeld ==
  ASSUME ControlInv, NEW q \in Procs
  PROVE  /\ ~Holds(AfterTransition(q))
         /\ \A p \in AfterBeat(q) : ~Holds(p)
         /\ ~Holds(AfterRuntime(q))
<1>1. ~Holds([Begin("start", "leave") EXCEPT !.seen = "completed"])
  BY DEF Begin, Idle, Holds
<1> QED
  BY <1>1, BeginNotHeld, IdleNotHeld DEF AfterTransition, AfterBeat, AfterRuntime

(* The five writes, each an operation of the abstract season.              *)
LEMMA WriteRefines ==
  ASSUME Serial, NEW q \in Procs,
         \/ WriteTransition(q) \/ WritePause(q) \/ WriteBeat(q) \/ WriteEndBeat(q)
         \/ WriteRuntime(q)
  PROVE  SerialInv' /\ AbstractStep
<1> USE DEF At, InStage
<1>1. /\ Good(proc[q], snapshot.taken)
      /\ Holds(proc[q])
      /\ proc[q].status = file.status /\ proc[q].rec = file
      /\ file \in Record
  BY ProcGood DEF Serial, SerialInv, ControlInv, TypeOK, Fresh, Holds,
     WriteTransition, WritePause, WriteBeat, WriteEndBeat, WriteRuntime
<1>2. ControlInv
  BY DEF Serial
<1>3. /\ Idle \in Process /\ AfterTransition(q) \in Process
      /\ \A p \in AfterBeat(q) : p \in Process
      /\ AfterRuntime(q) \in Process /\ Begin(proc[q].cmd, "look") \in Process
  BY <1>2, IdleGood, AfterGood DEF Good
<1>4. CASE WriteTransition(q)
  <2> DEFINE target == Target(proc[q].cmd)
             f == [status |-> target, paused |-> target = "active" /\ proc[q].rec.paused,
                   beat |-> proc[q].rec.beat, runtime |-> "none"]
             p == AfterTransition(q)
  <2>1. p \in Process /\ ~Holds(p) /\ Replace(q, f, p)
    BY <1>2, <1>3, <1>4, AfterNotHeld DEF WriteTransition
  <2>2. file' = f
    BY <2>1 DEF Replace
  <2>3. target \in {"active", "observing", "completed"}
    BY DEF Target
  <2> HIDE DEF p
  <2>4. AtomicSeason!Transition(target)
    BY <1>1, <2>2 DEF AtomicSeason!Transition
  <2> HIDE DEF f, target
  <2> QED BY <1>1, <2>1, <2>3, <2>4, ReplaceSerial DEF AbstractStep, AtomicSeason!Next
<1>5. CASE WritePause(q)
  <2> DEFINE flag == proc[q].cmd = "pause"
             f == [proc[q].rec EXCEPT !.status = proc[q].status, !.paused = flag]
  <2>1. Replace(q, f, Idle)
    BY <1>5 DEF WritePause
  <2>2. file' = f
    BY <2>1 DEF Replace
  <2>3. AtomicSeason!SetPaused(flag) /\ flag \in BOOLEAN
    BY <1>1, <2>2 DEF AtomicSeason!SetPaused, Record
  <2> HIDE DEF f, flag
  <2> QED
    BY <1>1, <1>3, <2>1, <2>3, IdleNotHeld, ReplaceSerial DEF AbstractStep, AtomicSeason!Next
<1>6. CASE WriteBeat(q)
  <2> DEFINE f == [proc[q].rec EXCEPT !.status = proc[q].status, !.beat = "running"]
             p == Begin(proc[q].cmd, "look")
  <2>1. p \in Process /\ ~Holds(p) /\ Replace(q, f, p)
    BY <1>3, <1>6, BeginNotHeld DEF WriteBeat
  <2>2. file' = f
    BY <2>1 DEF Replace
  <2>3. AtomicSeason!RecordBeat("running")
    BY <1>1, <2>2 DEF AtomicSeason!RecordBeat, Record
  <2> HIDE DEF f, p
  <2> QED BY <1>1, <2>1, <2>3, ReplaceSerial DEF AbstractStep, AtomicSeason!Next
<1>7. CASE WriteEndBeat(q)
  <2> DEFINE f == [proc[q].rec EXCEPT !.status = proc[q].status, !.beat = proc[q].result]
  <2>1. PICK p \in AfterBeat(q) : Replace(q, f, p)
    BY <1>7 DEF WriteEndBeat
  <2>2. p \in Process /\ ~Holds(p)
    BY <1>2, <1>3, <2>1, AfterNotHeld
  <2>3. file' = f
    BY <2>1 DEF Replace
  <2>4. proc[q].result \in Results
    BY <1>1, <1>7 DEF WriteEndBeat, Good, Sane
  <2>5. AtomicSeason!RecordBeat(proc[q].result)
    BY <1>1, <2>3 DEF AtomicSeason!RecordBeat, Record
  <2> HIDE DEF f
  <2> QED
    BY <1>1, <2>1, <2>2, <2>4, <2>5, ReplaceSerial
       DEF AbstractStep, AtomicSeason!Next, Results
<1>8. CASE WriteRuntime(q)
  <2> DEFINE f == [proc[q].rec EXCEPT !.status = proc[q].status, !.runtime = Runtime(q)]
             p == AfterRuntime(q)
  <2>1. p \in Process /\ ~Holds(p) /\ Replace(q, f, p)
    BY <1>2, <1>3, <1>8, AfterNotHeld DEF WriteRuntime
  <2>2. file' = f
    BY <2>1 DEF Replace
  <2>3. Runtime(q) \in {"running", "sleeping", "completed", "stopped", "interrupted"}
    BY DEF Runtime
  <2>4. AtomicSeason!RecordRuntime(Runtime(q))
    BY <1>1, <2>2 DEF AtomicSeason!RecordRuntime, Record
  <2> HIDE DEF f, p
  <2> QED BY <1>1, <2>1, <2>3, <2>4, ReplaceSerial DEF AbstractStep, AtomicSeason!Next
<1> QED BY <1>4, <1>5, <1>6, <1>7, <1>8

(* Every other step of a process is a stutter.                             *)
LEMMA StepRefines ==
  ASSUME Overlap = FALSE, Serial, NEW q \in Procs, Step(q)
  PROVE  SerialInv' /\ AbstractStep
<1> USE DEF At, InStage
<1>0. ControlInv /\ Good(proc[q], snapshot.taken) /\ file \in Record
      /\ Fresh(proc[q], file)
  BY ProcGood DEF Serial, SerialInv, ControlInv, TypeOK
<1>1. ASSUME NEW p, Become(q, p), ~Holds(p), UNCHANGED file
      PROVE  SerialInv' /\ AbstractStep
  BY <1>1, BecomeSerial DEF Fresh, AbstractStep
<1>2. CASE Load(q)
  <2> DEFINE p == [proc[q] EXCEPT !.status = file.status, !.stage = "read"]
  <2>1. Fresh(p, file)
    BY <1>0 DEF Good, Process, Fresh
  <2>2. \A o \in Procs \ {q} : ~Holds(proc[o])
    BY <1>2 DEF Load, Busy, Holds
  <2> QED BY <1>2, <2>1, <2>2, BecomeSerial DEF Load, AbstractStep
<1>3. CASE Read(q)
  <2> DEFINE p == [proc[q] EXCEPT !.rec = file, !.stage = "write"]
  <2>1. Holds(proc[q])
    BY <1>3 DEF Read, Holds
  <2>2. Fresh(p, file)
    BY <1>0, <2>1 DEF Good, Process, Fresh
  <2> QED BY <1>3, <2>1, <2>2, BecomeSerial DEF Read, AbstractStep
<1>4. CASE Refuse(q)
  BY <1>1, <1>4, IdleNotHeld DEF Refuse
<1>5. CASE \/ WriteTransition(q) \/ WritePause(q) \/ WriteBeat(q) \/ WriteEndBeat(q)
           \/ WriteRuntime(q)
  BY <1>5, WriteRefines
<1>6. ASSUME NEW point \in Points, Goto(q, point), UNCHANGED file
      PROVE  SerialInv' /\ AbstractStep
  BY <1>0, <1>1, <1>6, NotHeld DEF Goto
<1>7. ASSUME NEW result, EndTick(q, result), UNCHANGED file
      PROVE  SerialInv' /\ AbstractStep
  <2> DEFINE p == [proc[q] EXCEPT !.pc = "endbeat", !.stage = "load", !.result = result]
  <2>1. ~Holds(p)
    BY <1>0 DEF Good, Process, Holds
  <2> QED BY <1>1, <1>7, <2>1 DEF EndTick
<1>8. CASE WriteSnapshot(q) \/ Boot(q) \/ Wake(q) \/ FallThrough(q)
  BY <1>6, <1>8 DEF WriteSnapshot, Boot, LoopPoint, Wake, FallThrough, Points, StoreOps,
     RuntimeOps
<1>9. CASE State(q) \/ Lifecycle(q) \/ LifecycleFails(q) \/ WakeNobody(q) \/ FinishRun(q)
           \/ FinishOutside(q)
  BY <1>6, <1>7, <1>9 DEF State, Lifecycle, LifecycleFails, WakeNobody, FinishRun,
     FinishOutside, Points, StoreOps
<1>10. CASE Look(q)
  <2> DEFINE p == [proc[q] EXCEPT !.pc = "state", !.seen = file.status,
                                  !.pausedAll = file.paused,
                                  !.inactiveAll = file.status # "active",
                                  !.closedAll = Closed(file)]
  <2>1. ~Holds(p)
    BY <1>0 DEF Good, Process, Holds, StoreOps, RuntimeOps
  <2> QED BY <1>1, <1>10, <2>1 DEF Look
<1>11. CASE Clean(q)
  BY <1>1, <1>11, IdleNotHeld DEF Clean
<1> QED
  BY <1>2, <1>3, <1>4, <1>5, <1>8, <1>9, <1>10, <1>11 DEF Step, StoreStep, TickStep

LEMMA NextRefines ==
  ASSUME Overlap = FALSE PROVE Serial /\ [Next]_vars => SerialInv' /\ AbstractStep
<1> SUFFICES ASSUME Serial, [Next]_vars PROVE SerialInv' /\ AbstractStep
  OBVIOUS
<1>1. ASSUME NEW q \in Procs, NEW c \in Commands, Issue(q, c)
      PROVE  SerialInv' /\ AbstractStep
  BY <1>1, BeginNotHeld, BecomeSerial DEF Issue, Fresh, AbstractStep
<1>2. ASSUME NEW q \in Procs, Crash(q) PROVE SerialInv' /\ AbstractStep
  BY <1>2, IdleNotHeld, BecomeSerial DEF Crash, Fresh, AbstractStep
<1>3. CASE UNCHANGED vars
  BY <1>3 DEF vars, Serial, SerialInv, Fresh, Holds, AbstractStep, Steering
<1>4. ASSUME NEW q \in Procs, Interrupt(q) PROVE SerialInv' /\ AbstractStep
  <2> DEFINE p == IF InLoop(q) THEN Begin("start", "interrupt") ELSE Idle
  <2>1. ~Holds(p)
    BY BeginNotHeld, IdleNotHeld
  <2> HIDE DEF p
  <2>2. Become(q, p) /\ UNCHANGED file
    BY <1>4 DEF Interrupt, p
  <2> QED BY <2>1, <2>2, BecomeSerial DEF Fresh, AbstractStep
<1> QED BY <1>1, <1>2, <1>3, <1>4, StepRefines DEF Next

(* Without overlap of the store operations, which is what the comment on   *)
(* single-process ticks in controller.py relies on, every behaviour of the *)
(* season's file is one of the atomic season: heartbeats and runtime       *)
(* records leave status and pause alone, and pausing leaves the status     *)
(* alone.                                                                  *)
THEOREM StoreIsAtomic == ASSUME Overlap = FALSE PROVE Spec => AtomicStore
<1>1. Init => AtomicSeason!Init
  BY DEF Init, AtomicSeason!Init, NewRecord
<1>2. Init => Serial
  BY ControlInit, SerialInit DEF Serial
<1>3. Serial /\ [Next]_vars => Serial'
  BY NextInv, NextRefines DEF Serial
<1>4. Serial /\ [Next]_vars => [AtomicSeason!Next]_Steering
  BY NextRefines DEF AbstractStep
<1> QED BY <1>1, <1>2, <1>3, <1>4, PTL DEF Spec, AtomicStore, AtomicSeason!Spec, Steering

-----------------------------------------------------------------------------
(* Where a step leaves its process, and the others' ticks.                 *)

LEMMA BecomeOnly ==
  ASSUME ControlInv, NEW q \in Procs, NEW p, Become(q, p)
  PROVE  \A o \in Procs : proc'[o] = IF o = q THEN p ELSE proc[o]
  BY DEF ControlInv, TypeOK, Become

LEMMA ReplaceOnly ==
  ASSUME ControlInv, NEW q \in Procs, NEW p \in Process, NEW f, Replace(q, f, p)
  PROVE  \A o \in Procs :
           LET was == IF o = q THEN p ELSE proc[o]
           IN  /\ proc'[o].pc = was.pc /\ proc'[o].seen = was.seen
               /\ proc'[o].pausedAll = (was.pausedAll /\ f.paused)
               /\ proc'[o].inactiveAll = (was.inactiveAll /\ f.status # "active")
<1> TAKE o \in Procs
<1> DEFINE was == IF o = q THEN p ELSE proc[o]
<1>1. was \in Process
  BY DEF ControlInv, TypeOK
<1>2. proc'[o] = [was EXCEPT !.pausedAll = @ /\ f.paused,
                             !.inactiveAll = @ /\ f.status # "active",
                             !.closedAll = @ /\ Closed(f)]
  BY DEF Replace
<1> HIDE DEF was
<1>3. /\ proc'[o].pc = was.pc /\ proc'[o].seen = was.seen
      /\ proc'[o].pausedAll = (was.pausedAll /\ f.paused)
      /\ proc'[o].inactiveAll = (was.inactiveAll /\ f.status # "active")
  BY <1>1, <1>2 DEF Process
<1> QED BY <1>3 DEF was

(* A process that goes to another point keeps what its tick has seen.      *)
LEMMA GoesTo ==
  ASSUME ControlInv, NEW q \in Procs, NEW point,
         \/ Goto(q, point)
         \/ point = "endbeat" /\ \E result : EndTick(q, result)
  PROVE  /\ proc'[q].pc = point /\ proc'[q].seen = proc[q].seen
         /\ proc'[q].pausedAll = proc[q].pausedAll
         /\ proc'[q].inactiveAll = proc[q].inactiveAll
         /\ \A o \in Procs : o # q => proc'[o] = proc[o]
<1>1. proc[q] \in Process
  BY ProcGood DEF Good
<1>2. CASE Goto(q, point)
  <2>1. proc'[q] = [proc[q] EXCEPT !.pc = point, !.stage = "load"]
    BY <1>2, BecomeOnly DEF Goto
  <2> QED BY <1>1, <1>2, <2>1, BecomeOnly DEF Goto, Process
<1>3. ASSUME point = "endbeat", NEW result, EndTick(q, result)
      PROVE  /\ proc'[q].pc = point /\ proc'[q].seen = proc[q].seen
             /\ proc'[q].pausedAll = proc[q].pausedAll
             /\ proc'[q].inactiveAll = proc[q].inactiveAll
             /\ \A o \in Procs : o # q => proc'[o] = proc[o]
  <2>1. proc'[q] = [proc[q] EXCEPT !.pc = "endbeat", !.stage = "load", !.result = result]
    BY <1>3, BecomeOnly DEF EndTick
  <2>2. \A o \in Procs : o # q => proc'[o] = proc[o]
    BY <1>3, BecomeOnly DEF EndTick
  <2>3. /\ proc'[q].pc = "endbeat" /\ proc'[q].seen = proc[q].seen
        /\ proc'[q].pausedAll = proc[q].pausedAll
        /\ proc'[q].inactiveAll = proc[q].inactiveAll
    BY <1>1, <2>1 DEF Process
  <2> QED BY <1>3, <2>2, <2>3
<1> QED BY <1>2, <1>3

(* Where the five writes leave their process.                              *)
Resting == {"idle", "enter", "round", "beat", "look", "leave", "rest", "clean", "stopped"}

LEMMA AfterRests ==
  ASSUME ControlInv, NEW q \in Procs
  PROVE  /\ Idle.pc \in Resting
         /\ AfterTransition(q).pc \in Resting
         /\ \A p \in AfterBeat(q) : p.pc \in Resting
         /\ AfterRuntime(q).pc \in Resting
         /\ Begin(proc[q].cmd, "look").pc \in Resting
<1>1. Idle.pc = "idle"
  BY DEF Idle
<1>2. [Begin("start", "leave") EXCEPT !.seen = "completed"].pc = "leave"
  BY DEF Begin, Idle
<1>3. /\ Idle.pc \in Resting
      /\ [Begin("start", "leave") EXCEPT !.seen = "completed"].pc \in Resting
      /\ \A c : \A point \in Resting : Begin(c, point).pc \in Resting
  BY <1>1, <1>2, BeginAt DEF Resting
<1>4. {"enter", "round", "beat", "look", "leave", "rest", "clean", "stopped"} \subseteq Resting
  BY DEF Resting
<1>5. AfterTransition(q).pc \in Resting
  BY <1>3, <1>4 DEF AfterTransition, LoopPoint
<1>6. \A p \in AfterBeat(q) : p.pc \in Resting
  BY <1>3, <1>4 DEF AfterBeat
<1>7. AfterRuntime(q).pc \in Resting
  BY <1>3, <1>4 DEF AfterRuntime
<1> QED BY <1>3, <1>4, <1>5, <1>6, <1>7

LEMMA Written ==
  ASSUME ControlInv, NEW q \in Procs,
         \/ WriteTransition(q) \/ WritePause(q) \/ WriteBeat(q) \/ WriteEndBeat(q)
         \/ WriteRuntime(q)
  PROVE  \E f : \E p \in Process :
           Replace(q, f, p) /\ file' = f /\ killed' = killed /\ p.pc \in Resting
<1>1. PICK f, p :
        /\ Replace(q, f, p) /\ killed' = killed
        /\ p \in {Idle, AfterTransition(q), AfterRuntime(q), Begin(proc[q].cmd, "look")}
                \cup AfterBeat(q)
  BY DEF WriteTransition, WritePause, WriteBeat, WriteEndBeat, WriteRuntime
<1>2. p \in Process /\ p.pc \in Resting
  BY <1>1, IdleGood, AfterGood, AfterRests DEF Good
<1>3. file' = f
  BY <1>1 DEF Replace
<1> QED BY <1>1, <1>2, <1>3

-----------------------------------------------------------------------------
(* What a tick has seen since its first look, with any overlap.            *)

Open(p) == ~p.pausedAll /\ ~p.inactiveAll

(* Between the first look and the read of the pause flag, a tick that saw  *)
(* the season active remembers that it was, and a file that was paused     *)
(* throughout still is.                                                    *)
Opening(p, f) ==
  /\ p.pc = "state" => /\ p.pausedAll => f.paused
                       /\ p.seen = "active" => ~p.inactiveAll
  /\ p.pc \in {"wake", "run", "outside"} => Open(p)

OpeningInv == \A q \in Procs : Opening(proc[q], file)

LEMMA StepOpens ==
  ASSUME ControlInv, OpeningInv, NEW q \in Procs, Step(q) PROVE OpeningInv'
<1> USE DEF At, InStage
<1>0. proc[q] \in Process /\ file \in Record
  BY ProcGood DEF Good, ControlInv, TypeOK
<1>1. ASSUME UNCHANGED file, Opening(proc'[q], file),
             \A o \in Procs : o # q => proc'[o] = proc[o]
      PROVE  OpeningInv'
  BY <1>1 DEF OpeningInv
<1>2. ASSUME NEW point \in Points \ {"state", "wake", "run", "outside"}, UNCHANGED file,
             \/ Goto(q, point)
             \/ point = "endbeat" /\ \E result : EndTick(q, result)
      PROVE  OpeningInv'
  BY <1>1, <1>2, GoesTo DEF Opening
<1>3. ASSUME NEW point \in {"wake", "run", "outside"}, UNCHANGED file, Goto(q, point),
             Open(proc[q])
      PROVE  OpeningInv'
  BY <1>1, <1>3, GoesTo DEF Opening, Open
<1>4. CASE \/ WriteTransition(q) \/ WritePause(q) \/ WriteBeat(q) \/ WriteEndBeat(q)
           \/ WriteRuntime(q)
  <2>1. PICK f, p :
          p \in Process /\ Replace(q, f, p) /\ file' = f /\ p.pc \in Resting
    BY <1>4, Written
  <2> SUFFICES ASSUME NEW o \in Procs PROVE Opening(proc'[o], file')
    BY DEF OpeningInv
  <2>2. Opening(proc[o], file)
    BY DEF OpeningInv
  <2>3. CASE o = q
    <3>1. proc'[q].pc = p.pc
      BY <2>1, ReplaceOnly
    <3> QED BY <2>1, <2>3, <3>1 DEF Opening, Resting
  <2>4. CASE o # q
    <3>1. /\ proc'[o].pc = proc[o].pc /\ proc'[o].seen = proc[o].seen
          /\ proc'[o].pausedAll = (proc[o].pausedAll /\ file'.paused)
          /\ proc'[o].inactiveAll = (proc[o].inactiveAll /\ file'.status # "active")
      BY <2>1, <2>4, ReplaceOnly
    <3> QED BY <2>2, <3>1 DEF Opening, Open
  <2> QED BY <2>3, <2>4
<1>5. CASE Load(q) \/ Read(q)
  <2>1. /\ proc'[q].pc \in StoreOps /\ UNCHANGED file
        /\ \A o \in Procs : o # q => proc'[o] = proc[o]
    <3>1. CASE Load(q)
      <4>1. proc'[q] = [proc[q] EXCEPT !.status = file.status, !.stage = "read"]
        BY <3>1, BecomeOnly DEF Load
      <4> QED BY <1>0, <3>1, <4>1, BecomeOnly DEF Load, Process
    <3>2. CASE Read(q)
      <4>1. proc'[q] = [proc[q] EXCEPT !.rec = file, !.stage = "write"]
        BY <3>2, BecomeOnly DEF Read
      <4> QED BY <1>0, <3>2, <4>1, BecomeOnly DEF Read, Process
    <3> QED BY <1>5, <3>1, <3>2
  <2> QED BY <1>1, <2>1 DEF Opening, StoreOps, RuntimeOps
<1>6. CASE Refuse(q) \/ Clean(q)
  <2>1. proc'[q].pc = "idle" /\ \A o \in Procs : o # q => proc'[o] = proc[o]
    BY <1>6, BecomeOnly DEF Refuse, Clean, Idle
  <2> QED BY <1>1, <1>6, <2>1 DEF Refuse, Clean, Opening
<1>7. CASE WriteSnapshot(q) \/ Boot(q)
  BY <1>2, <1>7 DEF WriteSnapshot, Boot, LoopPoint, Points, StoreOps, RuntimeOps
<1>8. CASE Lifecycle(q) \/ LifecycleFails(q) \/ WakeNobody(q) \/ FinishRun(q)
           \/ FinishOutside(q)
  BY <1>2, <1>8 DEF Lifecycle, LifecycleFails, WakeNobody, FinishRun, FinishOutside,
     Points, StoreOps
<1>9. CASE Look(q)
  <2> DEFINE p == [proc[q] EXCEPT !.pc = "state", !.seen = file.status,
                                  !.pausedAll = file.paused,
                                  !.inactiveAll = file.status # "active",
                                  !.closedAll = Closed(file)]
  <2>1. proc'[q] = p /\ \A o \in Procs : o # q => proc'[o] = proc[o]
    BY <1>9, BecomeOnly DEF Look
  <2>2. /\ p.pc = "state" /\ p.seen = file.status /\ p.pausedAll = file.paused
        /\ p.inactiveAll = (file.status # "active")
    BY <1>0 DEF Process
  <2> HIDE DEF p
  <2> QED BY <1>1, <1>9, <2>1, <2>2 DEF Look, Opening
<1>10. CASE State(q)
  <2>1. CASE Goto(q, "lifecycle") \/ EndTick(q, "error")
    BY <1>2, <1>10, <2>1 DEF State, Points, StoreOps
  <2>2. CASE proc[q].seen = "active" /\ ~file.paused /\ Goto(q, "wake")
    BY <1>3, <1>10, <2>2 DEF State, OpeningInv, Opening, Open
  <2> QED BY <1>10, <2>1, <2>2 DEF State
<1>11. CASE Wake(q) \/ FallThrough(q)
  BY <1>3, <1>11 DEF Wake, FallThrough, OpeningInv, Opening
<1> QED
  BY <1>4, <1>5, <1>6, <1>7, <1>8, <1>9, <1>10, <1>11 DEF Step, StoreStep, TickStep

(* A process that begins or stops is in no tick.                           *)
LEMMA IssueAndCrash ==
  ASSUME ControlInv, NEW q \in Procs,
         (\E c \in Commands : Issue(q, c)) \/ Interrupt(q) \/ Crash(q)
  PROVE  /\ proc'[q].pc \in {"snapshot", "transition", "pause", "beat", "boot", "clean",
                             "interrupt", "idle"}
         /\ \A o \in Procs : o # q => proc'[o] = proc[o]
         /\ UNCHANGED file
<1>1. ASSUME NEW c \in Commands, Issue(q, c)
      PROVE  proc'[q].pc \in {"snapshot", "transition", "pause", "beat", "boot", "clean"}
  <2>1. proc'[q] = Begin(c, FirstPoint(c))
    BY <1>1, BecomeOnly DEF Issue
  <2>2. proc'[q].pc = FirstPoint(c)
    BY <2>1, BeginAt
  <2>3. c \in AllCommands
    BY ControlConstants
  <2> QED BY <2>2, <2>3 DEF FirstPoint, AllCommands
<1>2. ASSUME Crash(q) PROVE proc'[q].pc = "idle"
  BY <1>2, BecomeOnly DEF Crash, Idle
<1>3. ASSUME Interrupt(q) PROVE proc'[q].pc \in {"interrupt", "idle"}
  <2>1. proc'[q] = Begin("start", "interrupt") \/ proc'[q] = Idle
    BY <1>3, BecomeOnly DEF Interrupt
  <2> QED BY <2>1, BeginAt DEF Idle
<1> QED BY <1>1, <1>2, <1>3, BecomeOnly DEF Issue, Interrupt, Crash

LEMMA NextOpens == ControlInv /\ OpeningInv /\ [Next]_vars => OpeningInv'
<1> SUFFICES ASSUME ControlInv, OpeningInv, [Next]_vars PROVE OpeningInv'
  OBVIOUS
<1>1. ASSUME NEW q \in Procs, (\E c \in Commands : Issue(q, c)) \/ Interrupt(q) \/ Crash(q)
      PROVE  OpeningInv'
  BY <1>1, IssueAndCrash DEF OpeningInv, Opening
<1>2. CASE UNCHANGED vars
  BY <1>2 DEF vars, OpeningInv
<1> QED BY <1>1, <1>2, StepOpens DEF Next

(* However store operations overlap, no tick starts a run if the season    *)
(* was paused, or was not active, from the tick's first look on: the reads *)
(* of status and pause come after it.                                      *)
THEOREM RunsNeedOpening == Spec => []WakeNeedsOpening
<1>1. Init => OpeningInv
  BY DEF Init, OpeningInv, Opening, Idle
<1>2. OpeningInv => WakeNeedsOpening
  BY DEF OpeningInv, Opening, Open, WakeNeedsOpening
<1> QED BY <1>1, <1>2, NextOpens, ControlInvariant, PTL DEF Spec

-----------------------------------------------------------------------------
(* Who executes the heartbeat that the file calls running, without overlap.*)

LEMMA StepOwns ==
  ASSUME Serial, RunningBeatHasOwner, NEW q \in Procs, Step(q)
  PROVE  RunningBeatHasOwner'
<1> USE DEF At, InStage
<1>0. ControlInv /\ proc[q] \in Process
  BY ProcGood DEF Serial, Good
<1>1. ASSUME file'.beat = file.beat, killed' = killed,
             \A o \in Procs : InTick(o) => InTick(o)'
      PROVE  RunningBeatHasOwner'
  BY <1>1 DEF RunningBeatHasOwner
<1>2. ASSUME UNCHANGED <<file, killed>>, InTick(q) => InTick(q)',
             \A o \in Procs : o # q => proc'[o] = proc[o]
      PROVE  RunningBeatHasOwner'
  BY <1>1, <1>2 DEF InTick
<1>3. CASE WriteTransition(q) \/ WritePause(q) \/ WriteRuntime(q)
  <2>0. proc[q].rec = file /\ file \in Record
    BY <1>3 DEF Serial, SerialInv, ControlInv, TypeOK, Fresh, Holds, WriteTransition,
       WritePause, WriteRuntime
  <2>1. file'.beat = file.beat /\ killed' = killed
    <3>1. CASE WriteTransition(q)
      BY <2>0, <3>1 DEF WriteTransition, Replace
    <3>2. CASE WritePause(q)
      BY <2>0, <3>2 DEF WritePause, Replace, Record
    <3>3. CASE WriteRuntime(q)
      BY <2>0, <3>3 DEF WriteRuntime, Replace, Record
    <3> QED BY <1>3, <3>1, <3>2, <3>3
  <2>2. PICK f, p : p \in Process /\ Replace(q, f, p)
    BY <1>0, <1>3, Written
  <2>3. \A o \in Procs : o # q => proc'[o].pc = proc[o].pc
    BY <1>0, <2>2, ReplaceOnly
  <2>4. ~InTick(q)
    BY <1>3 DEF WriteTransition, WritePause, WriteRuntime, RuntimeOps, InTick
  <2> QED BY <1>1, <2>1, <2>3, <2>4 DEF InTick
<1>4. CASE WriteBeat(q)
  <2> DEFINE p == Begin(proc[q].cmd, "look")
  <2>1. p \in Process /\ p.pc = "look"
    BY <1>0, AfterGood, BeginAt DEF Good
  <2>2. \E f : Replace(q, f, p)
    BY <1>4 DEF WriteBeat
  <2> HIDE DEF p
  <2>3. proc'[q].pc = "look"
    BY <1>0, <2>1, <2>2, ReplaceOnly
  <2> QED BY <2>3 DEF InTick, RunningBeatHasOwner
<1>5. CASE WriteEndBeat(q)
  <2>1. file'.beat = proc[q].result
    <3>1. proc[q].rec \in Record
      BY <1>0 DEF Process
    <3> QED BY <1>5, <3>1 DEF WriteEndBeat, Replace, Record
  <2>2. proc[q].result \in Results
    BY <1>0, <1>5, ProcGood DEF WriteEndBeat, Good, Sane
  <2> QED BY <2>1, <2>2 DEF Results, RunningBeatHasOwner
<1>6. CASE Load(q) \/ Read(q)
  <2>1. /\ proc'[q].pc = proc[q].pc /\ UNCHANGED <<file, killed>>
        /\ \A o \in Procs : o # q => proc'[o] = proc[o]
    <3>1. CASE Load(q)
      <4>1. proc'[q] = [proc[q] EXCEPT !.status = file.status, !.stage = "read"]
        BY <1>0, <3>1, BecomeOnly DEF Load
      <4> QED BY <1>0, <3>1, <4>1, BecomeOnly DEF Load, Process
    <3>2. CASE Read(q)
      <4>1. proc'[q] = [proc[q] EXCEPT !.rec = file, !.stage = "write"]
        BY <1>0, <3>2, BecomeOnly DEF Read
      <4> QED BY <1>0, <3>2, <4>1, BecomeOnly DEF Read, Process
    <3> QED BY <1>6, <3>1, <3>2
  <2> QED BY <1>2, <2>1 DEF InTick
<1>7. CASE Refuse(q) \/ Clean(q)
  BY <1>0, <1>2, <1>7, BecomeOnly DEF Refuse, OpenPrsRefuse, Clean, InTick
<1>8. CASE WriteSnapshot(q) \/ Boot(q)
  <2>1. ~InTick(q) /\ UNCHANGED <<file, killed>> /\ \E point : Goto(q, point)
    BY <1>8 DEF WriteSnapshot, Boot, InTick
  <2> QED BY <1>0, <1>2, <2>1, GoesTo
<1>9. ASSUME NEW point \in {"lifecycle", "wake", "run", "outside", "endbeat"},
             UNCHANGED <<file, killed>>,
             \/ Goto(q, point)
             \/ point = "endbeat" /\ \E result : EndTick(q, result)
      PROVE  RunningBeatHasOwner'
  BY <1>0, <1>2, <1>9, GoesTo DEF InTick
<1>10. CASE State(q) \/ Lifecycle(q) \/ LifecycleFails(q) \/ WakeNobody(q) \/ FinishRun(q)
            \/ FinishOutside(q) \/ Wake(q) \/ FallThrough(q)
  BY <1>9, <1>10 DEF State, Lifecycle, LifecycleFails, WakeNobody, FinishRun, FinishOutside,
     Wake, FallThrough
<1>11. CASE Look(q)
  <2> DEFINE p == [proc[q] EXCEPT !.pc = "state", !.seen = file.status,
                                  !.pausedAll = file.paused,
                                  !.inactiveAll = file.status # "active",
                                  !.closedAll = Closed(file)]
  <2>1. proc'[q] = p /\ \A o \in Procs : o # q => proc'[o] = proc[o]
    BY <1>0, <1>11, BecomeOnly DEF Look
  <2>2. p.pc = "state"
    BY <1>0 DEF Process
  <2> HIDE DEF p
  <2> QED BY <1>2, <1>11, <2>1, <2>2 DEF Look, InTick
<1> QED
  BY <1>3, <1>4, <1>5, <1>6, <1>7, <1>8, <1>10, <1>11 DEF Step, StoreStep, TickStep

LEMMA NextOwns == Serial /\ RunningBeatHasOwner /\ [Next]_vars => RunningBeatHasOwner'
<1> SUFFICES ASSUME Serial, RunningBeatHasOwner, [Next]_vars PROVE RunningBeatHasOwner'
  OBVIOUS
<1>1. ASSUME NEW q \in Procs, NEW c \in Commands, Issue(q, c) PROVE RunningBeatHasOwner'
  <2>1. ~InTick(q)
    BY <1>1 DEF Issue, At, InTick
  <2>2. /\ \A o \in Procs : o # q => proc'[o] = proc[o]
        /\ UNCHANGED <<file, killed>>
    BY <1>1, IssueAndCrash DEF Serial, Issue
  <2> QED BY <2>1, <2>2 DEF RunningBeatHasOwner, InTick
<1>2. ASSUME NEW q \in Procs, Interrupt(q) \/ Crash(q) PROVE RunningBeatHasOwner'
  BY <1>2 DEF Interrupt, Crash, RunningBeatHasOwner
<1>3. CASE UNCHANGED vars
  BY <1>3 DEF vars, RunningBeatHasOwner, InTick
<1> QED BY <1>1, <1>2, <1>3, StepOwns DEF Next

(* Without overlap of the store operations, a heartbeat that is recorded   *)
(* as running is being executed, whichever way the ticks of the others     *)
(* end, unless a process was killed or interrupted: nobody writes back a   *)
(* beat that has ended, and every end of a tick is recorded.               *)
THEOREM RunningBeatIsExecuted ==
  ASSUME Overlap = FALSE
  PROVE  Spec => []RunningBeatHasOwner
<1>1. Init => RunningBeatHasOwner
  BY DEF Init, NewRecord, RunningBeatHasOwner
<1>2. Init => Serial
  BY ControlInit, SerialInit DEF Serial
<1>3. Serial /\ [Next]_vars => Serial'
  BY NextInv, NextRefines DEF Serial
<1> QED BY <1>1, <1>2, <1>3, NextOwns, PTL DEF Spec
=============================================================================
