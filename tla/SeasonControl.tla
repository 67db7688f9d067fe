----------------------------- MODULE SeasonControl -----------------------------
(***************************************************************************)
(* season_state.json and the processes that write it: the operator's       *)
(* `season ...` commands (SeasonStore.transition, set_paused), the         *)
(* heartbeats of the gateway loop, of `season start` or of a hand-made     *)
(* `season tick` (SeasonRuntime.tick), and the runtime status that         *)
(* `season start` keeps (record_runtime_status).  Every operation of       *)
(* SeasonStore loads the status, then loads the record once more, then     *)
(* replaces the whole file; no lock protects the three steps.              *)
(*                                                                         *)
(* The absent file reads as [status |-> the configured one, paused |->     *)
(* FALSE], so it is modelled as that record.                               *)
(***************************************************************************)
EXTENDS Naturals, FiniteSets

CONSTANTS
  Procs,          \* the processes an operator may start
  Commands,       \* the commands they may run
  InitialStatus,  \* season.status in the configuration
  Overlap,        \* whether two operations of SeasonStore may be under way at once
  MaxCommands,    \* bound: commands issued
  MaxRuns,        \* bound: ranked runs finished before no more are started
  MaxFaults       \* bound: crashes, interrupts and failing polls

AllCommands == {"activate", "observe", "complete", "force", "clean", "pause", "resume",
                "tick", "start", "up"}

ASSUME ControlConstants ==
  /\ Commands \subseteq AllCommands
  /\ InitialStatus \in {"draft", "active"}
  /\ Overlap \in BOOLEAN
  /\ MaxCommands \in Nat
  /\ MaxRuns \in Nat
  /\ MaxFaults \in Nat

VARIABLES
  file,      \* season_state.json
  proc,      \* proc[q]: what process q is executing
  openPr,    \* tracked_open_prs returns something
  board,     \* ranked runs the leaderboard counts
  snapshot,  \* leaderboard_snapshot.json, NoSnapshot while absent
  workspaces, \* participants' workspaces and memory are on disk
  issued,    \* commands issued so far (bounded by MaxCommands)
  faults,    \* faults so far (bounded by MaxFaults)
  killed     \* history: some process was killed or interrupted

vars == <<file, proc, openPr, board, snapshot, workspaces, issued, faults, killed>>

Statuses == {"draft", "active", "observing", "completed"}
Beats == {"none", "running", "ok", "failed", "completed", "error"}
Runtimes == {"none", "running", "sleeping", "completed", "stopped", "interrupted"}
Record == [status : Statuses, paused : BOOLEAN,
           beat : Beats,                          \* heartbeat.last_status
           runtime : Runtimes]                    \* runtime_status

NoSnapshot == [taken |-> FALSE, runs |-> 0]

(* The runtime records of `season start`: on entering its loop, at the top *)
(* of each round, before it sleeps, when it ends and on Ctrl-C.            *)
RuntimeOps == {"enter", "round", "rest", "leave", "interrupt"}
(* The store operations; each runs through the stages load, read, write.   *)
StoreOps == {"transition", "pause", "beat", "endbeat"} \cup RuntimeOps
(* Everything else a process does.  "state" and "wake" are the two later   *)
(* reads of a tick, "run" is a season run, "outside" a run the controller  *)
(* launches after the season's own tick has returned None, "clean" the     *)
(* removal of the participants' workspaces and memory.                     *)
Points == StoreOps \cup {"idle", "boot", "snapshot", "look", "state", "lifecycle",
                         "wake", "run", "outside", "clean", "stopped"}
Stages == {"load", "read", "write"}

Process ==
  [pc : Points, stage : Stages, cmd : AllCommands,
   status : Statuses,        \* what the operation's load returned
   rec : Record,             \* what the operation's _load_state returned
   seen : Statuses,          \* season.status as the tick loaded it
   result : Beats,           \* how the tick ended
   pausedAll : BOOLEAN,      \* history: the file was paused ever since the tick began
   inactiveAll : BOOLEAN,    \* history: it was never active since then
   closedAll : BOOLEAN]      \* history: it was never active and not paused since then

NewRecord == [status |-> InitialStatus, paused |-> FALSE, beat |-> "none",
              runtime |-> "none"]

Idle == [pc |-> "idle", stage |-> "load", cmd |-> "tick", status |-> InitialStatus,
         rec |-> NewRecord, seen |-> InitialStatus, result |-> "none",
         pausedAll |-> FALSE, inactiveAll |-> FALSE, closedAll |-> FALSE]

(* A process of command c at a point, with nothing read yet.               *)
Begin(c, point) == [Idle EXCEPT !.pc = point, !.cmd = c]

Init ==
  /\ file = NewRecord
  /\ proc = [q \in Procs |-> Idle]
  /\ openPr = FALSE
  /\ board = 0
  /\ snapshot = NoSnapshot
  /\ workspaces = FALSE
  /\ issued = 0
  /\ faults = 0
  /\ killed = FALSE

-----------------------------------------------------------------------------
Closed(f) == f.status # "active" \/ f.paused
Fault == faults < MaxFaults /\ faults' = faults + 1

At(q, point) == proc[q].pc = point
InStage(q, s) == proc[q].pc \in StoreOps /\ proc[q].stage = s

(* The operation has read something it will write back.                    *)
Busy(q) == proc[q].pc \in StoreOps /\ proc[q].stage # "load"

Become(q, p) == proc' = [proc EXCEPT ![q] = p]
Goto(q, point) == Become(q, [proc[q] EXCEPT !.pc = point, !.stage = "load"])

(* File f replaces season_state.json; q goes on as p.  The histories of    *)
(* all ticks take note.                                                    *)
Replace(q, f, p) ==
  /\ file' = f
  /\ proc' = [o \in Procs |->
       LET was == IF o = q THEN p ELSE proc[o]
       IN  [was EXCEPT !.pausedAll = @ /\ f.paused,
                       !.inactiveAll = @ /\ f.status # "active",
                       !.closedAll = @ /\ Closed(f)]]

-----------------------------------------------------------------------------
(* The commands.  `up` refuses to start while the gateway runs; nothing    *)
(* keeps `season start` or `season tick` from running beside it.           *)

FirstPointUnfrozen(c) ==
  CASE c \in {"complete", "force", "activate", "observe"} -> "transition"
    [] c \in {"pause", "resume"} -> "pause"
    [] c = "tick" -> "beat"
    [] c \in {"start", "up"} -> "boot"
    [] c = "clean" -> "clean"

FirstPoint(c) ==
  CASE c \in {"complete", "force"} -> "snapshot"
    [] c \in {"activate", "observe"} -> "transition"
    [] c \in {"pause", "resume"} -> "pause"
    [] c = "tick" -> "beat"
    [] c \in {"start", "up"} -> "boot"
    [] c = "clean" -> "clean"

Issue(q, c) ==
  /\ At(q, "idle") \/ At(q, "stopped")
  /\ issued < MaxCommands
  /\ c = "up" => \A o \in Procs : At(o, "idle") \/ At(o, "stopped") \/ proc[o].cmd # "up"
  /\ issued' = issued + 1
  /\ Become(q, Begin(c, FirstPoint(c)))
  /\ UNCHANGED <<file, openPr, board, snapshot, workspaces, faults, killed>>

(* `season complete` writes the snapshot before it asks for the transition. *)
WriteSnapshot(q) ==
  /\ At(q, "snapshot")
  /\ snapshot' = [taken |-> TRUE, runs |-> board]
  /\ Goto(q, "transition")
  /\ UNCHANGED <<file, openPr, board, workspaces, issued, faults, killed>>

(* The gateway and `season start` activate a draft season before their     *)
(* first heartbeat, which `season start` precedes by two runtime records.  *)
LoopPoint(c) == IF c = "start" THEN "enter" ELSE "beat"

Boot(q) ==
  /\ At(q, "boot")
  /\ Goto(q, IF file.status = "draft" THEN "transition" ELSE LoopPoint(proc[q].cmd))
  /\ UNCHANGED <<file, openPr, board, snapshot, workspaces, issued, faults, killed>>

-----------------------------------------------------------------------------
(* The store operations.                                                   *)

OpenPrsRefuse(q) == At(q, "transition") /\ proc[q].cmd = "complete" /\ openPr

Load(q) ==
  /\ InStage(q, "load")
  /\ Overlap \/ \A o \in Procs \ {q} : ~Busy(o)
  /\ ~OpenPrsRefuse(q)
  /\ Become(q, [proc[q] EXCEPT !.status = file.status, !.stage = "read"])
  /\ UNCHANGED <<file, openPr, board, snapshot, workspaces, issued, faults, killed>>

(* season_has_open_prs: the command ends; its snapshot stays.              *)
Refuse(q) ==
  /\ InStage(q, "load")
  /\ OpenPrsRefuse(q)
  /\ Become(q, Idle)
  /\ UNCHANGED <<file, openPr, board, snapshot, workspaces, issued, faults, killed>>

Read(q) ==
  /\ InStage(q, "read")
  /\ Become(q, [proc[q] EXCEPT !.rec = file, !.stage = "write"])
  /\ UNCHANGED <<file, openPr, board, snapshot, workspaces, issued, faults, killed>>

Target(c) ==
  CASE c = "observe" -> "observing"
    [] c \in {"complete", "force"} -> "completed"
    [] OTHER -> "active"

(* What a process goes on to once its transition is written.               *)
AfterTransition(q) ==
  LET c == proc[q].cmd
  IN  CASE c \in {"start", "up"} -> Begin(c, LoopPoint(c))
        [] c \in {"complete", "force"} -> Begin(c, "clean")
        [] OTHER -> Idle

(* transition builds a fresh record; of the old one it keeps the heartbeat *)
(* and, when activating, the pause.                                        *)
WriteTransition(q) ==
  /\ InStage(q, "write")
  /\ At(q, "transition")
  /\ LET target == Target(proc[q].cmd)
     IN  Replace(q, [status |-> target,
                     paused |-> target = "active" /\ proc[q].rec.paused,
                     beat |-> proc[q].rec.beat,
                     runtime |-> "none"],
                 AfterTransition(q))
  /\ UNCHANGED <<openPr, board, snapshot, workspaces, issued, faults, killed>>

(* The other operations update the record they read: the status becomes    *)
(* the one loaded before it.                                               *)
WritePause(q) ==
  /\ InStage(q, "write")
  /\ At(q, "pause")
  /\ Replace(q, [proc[q].rec EXCEPT !.status = proc[q].status,
                                    !.paused = proc[q].cmd = "pause"],
             Idle)
  /\ UNCHANGED <<openPr, board, snapshot, workspaces, issued, faults, killed>>

WriteBeatFresh(q) ==
  /\ InStage(q, "write")
  /\ At(q, "beat")
  /\ Replace(q, [status |-> proc[q].status, paused |-> FALSE, beat |-> "running",
                  runtime |-> proc[q].rec.runtime],
             Begin(proc[q].cmd, "look"))
  /\ UNCHANGED <<openPr, board, snapshot, workspaces, issued, faults, killed>>

(* record_heartbeat_started.                                               *)
WriteBeat(q) ==
  /\ InStage(q, "write")
  /\ At(q, "beat")
  /\ Replace(q, [proc[q].rec EXCEPT !.status = proc[q].status, !.beat = "running"],
             Begin(proc[q].cmd, "look"))
  /\ UNCHANGED <<openPr, board, snapshot, workspaces, issued, faults, killed>>

AfterBeatEndless(q) ==
  {IF proc[q].cmd \in {"start", "up"} THEN Begin(proc[q].cmd, "beat") ELSE Idle}

(* After record_heartbeat_completed `season tick` ends.  The gateway loop  *)
(* ends when the tick itself saw the season completed, and sleeps and      *)
(* ticks again otherwise, whatever error the tick raised.  `season start`  *)
(* dies of that error; it ends too when the tick saw the season completed  *)
(* or it has done its --max-heartbeats, a number left open here.           *)
AfterBeat(q) ==
  LET raised == proc[q].result = "error"
      saw    == proc[q].seen = "completed" /\ ~raised
  IN  CASE proc[q].cmd = "up" -> {Begin("up", IF saw THEN "stopped" ELSE "beat")}
        [] proc[q].cmd = "start" /\ saw ->
             {[Begin("start", "leave") EXCEPT !.seen = "completed"]}
        [] proc[q].cmd = "start" /\ ~saw /\ ~raised ->
             {Begin("start", "leave"), Begin("start", "rest")}
        [] OTHER -> {Idle}

WriteEndBeat(q) ==
  /\ InStage(q, "write")
  /\ At(q, "endbeat")
  /\ \E p \in AfterBeat(q) :
       Replace(q, [proc[q].rec EXCEPT !.status = proc[q].status, !.beat = proc[q].result], p)
  /\ UNCHANGED <<openPr, board, snapshot, workspaces, issued, faults, killed>>

(* record_runtime_status.                                                  *)
Runtime(q) ==
  CASE At(q, "rest") -> "sleeping"
    [] At(q, "leave") -> IF proc[q].seen = "completed" THEN "completed" ELSE "stopped"
    [] At(q, "interrupt") -> "interrupted"
    [] OTHER -> "running"

AfterRuntime(q) ==
  CASE At(q, "round") -> Begin("start", "beat")
    [] At(q, "enter") \/ At(q, "rest") -> Begin("start", "round")
    [] OTHER -> Idle

WriteRuntime(q) ==
  /\ InStage(q, "write")
  /\ proc[q].pc \in RuntimeOps
  /\ Replace(q, [proc[q].rec EXCEPT !.status = proc[q].status, !.runtime = Runtime(q)],
             AfterRuntime(q))
  /\ UNCHANGED <<openPr, board, snapshot, workspaces, issued, faults, killed>>

-----------------------------------------------------------------------------
(* SeasonRuntime.tick between its two heartbeat records.                   *)

Look(q) ==
  /\ At(q, "look")
  /\ Become(q, [proc[q] EXCEPT !.pc = "state", !.seen = file.status,
                               !.pausedAll = file.paused,
                               !.inactiveAll = file.status # "active",
                               !.closedAll = Closed(file)])
  /\ UNCHANGED <<file, openPr, board, snapshot, workspaces, issued, faults, killed>>

EndTick(q, result) ==
  Become(q, [proc[q] EXCEPT !.pc = "endbeat", !.stage = "load", !.result = result])

StateIgnoringPause(q) ==
  /\ At(q, "state")
  /\ \/ /\ proc[q].seen \in {"completed", "observing"}
        /\ Goto(q, "lifecycle")
     \/ /\ proc[q].seen = "draft"
        /\ EndTick(q, "error")
     \/ /\ proc[q].seen = "active"
        /\ Goto(q, "wake")
  /\ UNCHANGED <<file, openPr, board, snapshot, workspaces, issued, faults, killed>>

(* The pause flag comes from a second read; a draft season is an error.    *)
State(q) ==
  /\ At(q, "state")
  /\ \/ /\ proc[q].seen \in {"completed", "observing"} \/ file.paused
        /\ Goto(q, "lifecycle")
     \/ /\ proc[q].seen = "draft" /\ ~file.paused
        /\ EndTick(q, "error")
     \/ /\ proc[q].seen = "active" /\ ~file.paused
        /\ Goto(q, "wake")
  /\ UNCHANGED <<file, openPr, board, snapshot, workspaces, issued, faults, killed>>

(* _run_external_lifecycle_tick: PRs may turn out closed.                  *)
Lifecycle(q) ==
  /\ At(q, "lifecycle")
  /\ openPr' \in {openPr, FALSE}
  /\ EndTick(q, IF proc[q].seen = "completed" THEN "completed" ELSE "ok")
  /\ UNCHANGED <<file, board, snapshot, workspaces, issued, faults, killed>>

LifecycleFailsUnrecorded(q) ==
  /\ At(q, "lifecycle") \/ At(q, "wake")
  /\ Fault
  /\ Become(q, Idle)
  /\ UNCHANGED <<file, openPr, board, snapshot, workspaces, issued, killed>>

(* The poll raises, in the tick itself or in the controller's wake tick.   *)
LifecycleFails(q) ==
  /\ At(q, "lifecycle") \/ At(q, "wake")
  /\ Fault
  /\ EndTick(q, "error")
  /\ UNCHANGED <<file, openPr, board, snapshot, workspaces, issued, killed>>

(* LocalController.run_once loads the status once more.  In an active      *)
(* season it wakes a due participant, if there is one; otherwise the       *)
(* season tick returns None and run_once goes on to a run of its own,      *)
(* which governance may block.                                             *)
Wake(q) ==
  /\ At(q, "wake")
  /\ file.status = "active"
  /\ board < MaxRuns
  /\ Goto(q, "run")
  /\ workspaces' = TRUE
  /\ UNCHANGED <<file, openPr, board, snapshot, issued, faults, killed>>

WakeNobody(q) ==
  /\ At(q, "wake")
  /\ EndTick(q, "ok")
  /\ UNCHANGED <<file, openPr, board, snapshot, workspaces, issued, faults, killed>>

FallThrough(q) ==
  /\ At(q, "wake")
  /\ file.status # "active"
  /\ Goto(q, "outside")
  /\ UNCHANGED <<file, openPr, board, snapshot, workspaces, issued, faults, killed>>

(* A ranked run ends: it counts on the leaderboard, may leave a PR open    *)
(* and leaves its participant's memory.  A failed or blocked run is a      *)
(* tick's status, not an error.                                            *)
FinishRun(q) ==
  /\ At(q, "run")
  /\ board' = board + 1
  /\ openPr' \in {openPr, TRUE}
  /\ workspaces' = TRUE
  /\ \E result \in {"ok", "failed", "error"} : EndTick(q, result)
  /\ UNCHANGED <<file, snapshot, issued, faults, killed>>

FinishOutside(q) ==
  /\ At(q, "outside")
  /\ \E result \in {"ok", "failed", "error"} : EndTick(q, result)
  /\ UNCHANGED <<file, openPr, board, snapshot, workspaces, issued, faults, killed>>

-----------------------------------------------------------------------------
(* `season complete`, once the transition is written, and `season          *)
(* workspace clean` remove every participant's containers, workspaces and  *)
(* memory, also those of a run under way.                                  *)
Clean(q) ==
  /\ At(q, "clean")
  /\ workspaces' = FALSE
  /\ Become(q, Idle)
  /\ UNCHANGED <<file, openPr, board, snapshot, issued, faults, killed>>

-----------------------------------------------------------------------------
(* Ctrl-C in `season start`.  From the loop on it goes to mark the runtime *)
(* interrupted, past the tick that is under way; before that, or when it   *)
(* is marking already, the process just ends.                              *)
InLoop(q) == ~At(q, "boot") /\ ~At(q, "transition") /\ ~At(q, "enter")
             /\ ~At(q, "interrupt")

Interrupt(q) ==
  /\ proc[q].cmd = "start" /\ ~At(q, "idle")
  /\ Fault
  /\ Become(q, IF InLoop(q) THEN Begin("start", "interrupt") ELSE Idle)
  /\ killed' = TRUE
  /\ UNCHANGED <<file, openPr, board, snapshot, workspaces, issued>>

(* The process is killed.                                                  *)
Crash(q) ==
  /\ ~At(q, "idle") /\ ~At(q, "stopped")
  /\ Fault
  /\ Become(q, Idle)
  /\ killed' = TRUE
  /\ UNCHANGED <<file, openPr, board, snapshot, workspaces, issued>>

StoreStep(q) ==
  \/ Load(q) \/ Refuse(q) \/ Read(q)
  \/ WriteTransition(q) \/ WritePause(q) \/ WriteBeat(q) \/ WriteEndBeat(q)
  \/ WriteRuntime(q)

TickStep(q) ==
  \/ Look(q) \/ State(q) \/ Lifecycle(q) \/ LifecycleFails(q)
  \/ Wake(q) \/ WakeNobody(q) \/ FallThrough(q) \/ FinishRun(q) \/ FinishOutside(q)

Step(q) == WriteSnapshot(q) \/ Boot(q) \/ StoreStep(q) \/ TickStep(q) \/ Clean(q)

Next ==
  \/ \E q \in Procs, c \in Commands : Issue(q, c)
  \/ \E q \in Procs : Step(q)
  \/ \E q \in Procs : Interrupt(q) \/ Crash(q)

Spec == Init /\ [][Next]_vars

(* A process that runs goes on running; nobody owes a command.             *)
Fairness == \A q \in Procs : WF_vars(Step(q))

FairSpec == Spec /\ Fairness

-----------------------------------------------------------------------------
(* Properties.                                                             *)

TypeOK ==
  /\ file \in Record
  /\ proc \in [Procs -> Process]
  /\ openPr \in BOOLEAN
  /\ board \in Nat
  /\ snapshot \in [taken : BOOLEAN, runs : Nat]
  /\ workspaces \in BOOLEAN
  /\ issued \in 0 .. MaxCommands
  /\ faults \in 0 .. MaxFaults
  /\ killed \in BOOLEAN

(* As long as no two store operations overlap, which is what the comment   *)
(* on single-process ticks in controller.py relies on, every operation     *)
(* acts on the season at once and only on what it is for: heartbeats and   *)
(* runtime records leave status and pause alone, pausing leaves the status *)
(* alone, and only a transition drops the runtime status.                  *)
AtomicSeason ==
  INSTANCE SeasonLifecycle WITH status <- file.status, paused <- file.paused,
                                beat <- file.beat, runtime <- file.runtime
AtomicStore == AtomicSeason!Spec

(* A heartbeat that the file calls running is being executed by somebody,  *)
(* whichever way the ticks before it ended, unless a process was killed or *)
(* interrupted.                                                            *)
InTick(q) == proc[q].pc \in {"look", "state", "lifecycle", "wake", "run",
                             "outside", "endbeat"}
RunningBeatHasOwner == file.beat = "running" => killed \/ \E q \in Procs : InTick(q)

(* A season that is marked completed has its leaderboard frozen, whatever  *)
(* commands, heartbeats and crashes interleave.                            *)
CompletedIsFrozen == file.status = "completed" => snapshot.taken

(* No tick starts a run, ranked or not, if the season was paused, or was   *)
(* not active, from the tick's first look to the start of the run.         *)
WakeNeedsOpening ==
  \A q \in Procs :
    proc[q].pc \in {"run", "outside"} => ~proc[q].pausedAll /\ ~proc[q].inactiveAll

(* Nor if at each moment since then it was one or the other.               *)
ClosedSeasonStartsNothing ==
  \A q \in Procs : proc[q].pc \in {"run", "outside"} => ~proc[q].closedAll

(* Recording a heartbeat or the runtime's status changes neither the       *)
(* status nor the pause flag an operator set.                              *)
HeartbeatsNeverSteer ==
  [][\A q \in Procs :
       WriteBeat(q) \/ WriteEndBeat(q) \/ WriteRuntime(q)
         => file'.status = file.status /\ file'.paused = file.paused]_vars

(* The leaderboard the surface shows is frozen only once the season is     *)
(* completed.                                                              *)
FrozenOnlyWhenCompleted ==
  snapshot.taken /\ (\A q \in Procs : proc[q].cmd \notin {"complete", "force"})
    => file.status = "completed"

(* `season complete` without --force-with-open-prs never completes a       *)
(* season that has an open PR.                                             *)
CompletesWithoutOpenPrs ==
  [][\A q \in Procs : WriteTransition(q) /\ proc[q].cmd = "complete" => ~openPr]_vars

(* `season start` that is interrupted marks the runtime interrupted, as    *)
(* the command says when it ends.                                          *)
InterruptIsMarked ==
  [][\A q \in Procs : Interrupt(q) => At(q, "interrupt")']_vars

(* A runtime status of running or sleeping has a `season start` that is in *)
(* its loop, unless a process was killed or interrupted.                   *)
RuntimeHasOwner ==
  file.runtime \in {"running", "sleeping"}
    => killed \/ \E q \in Procs : proc[q].cmd = "start" /\ ~At(q, "idle")

(* A season's run keeps its participant's workspace until it ends.         *)
RunKeepsWorkspace == \A q \in Procs : At(q, "run") => workspaces

(* Once the season stays completed, the loops of the gateway and of        *)
(* `season start` stop.                                                    *)
Running(q) == proc[q].cmd \in {"start", "up"} /\ ~At(q, "idle") /\ ~At(q, "stopped")
LoopEnds ==
  <>[](file.status = "completed") => <>[](\A q \in Procs : ~Running(q))
=============================================================================
