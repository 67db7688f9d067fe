---------------------------- MODULE SeasonScheduler ----------------------------
(***************************************************************************)
(* Who runs when in a season.  The controller process repeats a tick       *)
(* (LocalController._run_season_wake_tick): recover stale runs, pick one   *)
(* due participant, hand it to Runner.run and wait for it.  Operators may  *)
(* start Runner.run for the same participants from processes of their own  *)
(* (`contribarena run --season`).  All of them share one                   *)
(* participant_state.json per participant, which no lock protects; each    *)
(* read-modify-write of it is one step here, and the steps of different    *)
(* processes interleave.                                                   *)
(***************************************************************************)
EXTENDS ParticipantState, FiniteSets

CONSTANTS
  Participants,      \* the agents of the season's allowlist
  Controller,        \* the process that ticks
  Manual,            \* operator processes that may call Runner.run
  ManualSources,     \* the --wake-source values operators pass
  MaxConcurrent,     \* participant_max_concurrent
  OperatorStatuses,  \* season statuses an operator may set
  MaxRuns,           \* bound: Runner.run calls
  MaxFaults          \* bound: crashes, interrupts, raising handlers, operator moves

ASSUME SchedulerConstants ==
  /\ Participants # {}
  /\ Controller \notin Manual
  /\ ManualSources \subseteq Sources
  /\ MaxConcurrent \in Nat \ {0}
  /\ MaxRuns \in Nat
  /\ MaxFaults \in Nat
  /\ "active" \in OperatorStatuses

VARIABLES
  season,      \* status in season_state.json
  pst,         \* pst[p]: participant p's participant_state.json
  proc,        \* proc[q]: what process q is executing
  nextRun,     \* the next fresh run id
  faults,      \* faults so far (bounded by MaxFaults)
  dispatched   \* dispatched[p]: replacements of p the controller took up

vars == <<season, pst, proc, nextRun, faults, dispatched>>

Procs == Manual \cup {Controller}

(* Where a process is.  "consume" and "prelaunch" are the controller's     *)
(* writes before launcher.run; "admit" .. "summary" are Runner.run;        *)
(* "after" is the controller's second pair of consumed-marks.              *)
Control == {"idle", "consume", "prelaunch", "admit", "setup",
            "running", "terminal", "summary", "after"}

(* The run's start is written to the file, its end is not.                 *)
Live == {"running", "terminal", "summary"}

Outcome == [completed : BOOLEAN,   \* terminal.status = "completed"
            transient : BOOLEAN,   \* _replacement_due_terminal
            infra     : BOOLEAN,   \* _provider_infrastructure_terminal
            retryable : BOOLEAN]   \* a retryable live submission failed

(* A completed run is neither transient nor infra (layer model_runtime is  *)
(* a failure) and never schedules a live submission retry; a run that      *)
(* failed in the model runtime may be any combination.                     *)
Outcomes == {o \in Outcome : o.completed => ~(o.transient \/ o.infra \/ o.retryable)}
(* _terminal_state_for_exception never blames the model runtime.           *)
RaisedOutcomes == {o \in Outcomes : ~o.completed /\ ~o.transient /\ ~o.infra}
NoOutcome == [completed |-> FALSE, transient |-> FALSE,
              infra |-> FALSE, retryable |-> FALSE]

Process == [pc : Control, part : Participants, rid : RunId, src : Sources,
            out : Outcomes, raises : BOOLEAN,
            snapRepl : BOOLEAN,   \* the scan saw a due replacement
            snapRetry : BOOLEAN,  \* the scan saw a due live submission retry
            wokenBefore : BOOLEAN, \* history: clock due and last_wake_at present at the scan
            neverWoken : BOOLEAN,  \* history: last_wake_at absent at the scan
            lived : 0 .. FullGrace] \* history: age of the run since Start

Idle == [pc |-> "idle", part |-> CHOOSE p \in Participants : TRUE, rid |-> 0,
         src |-> "manual", out |-> NoOutcome, raises |-> FALSE,
         snapRepl |-> FALSE, snapRetry |-> FALSE,
         wokenBefore |-> FALSE, neverWoken |-> FALSE, lived |-> 0]

Init ==
  /\ season = "active"
  /\ pst = [p \in Participants |-> Fresh]
  /\ proc = [q \in Procs |-> Idle]
  /\ nextRun = 1
  /\ faults = 0
  /\ dispatched = [p \in Participants |-> 0]

-----------------------------------------------------------------------------
Mine(q) == pst[proc[q].part]

(* q saves the state of its participant.                                   *)
Save(q, s) == pst' = [pst EXCEPT ![proc[q].part] = s]
Goto(q, label) == proc' = [proc EXCEPT ![q].pc = label]
Stop(q) == proc' = [proc EXCEPT ![q] = Idle]
Fault == faults < MaxFaults /\ faults' = faults + 1

-----------------------------------------------------------------------------
(* The controller's tick.                                                  *)

Recovered == [p \in Participants |-> RecoverIfStale(pst[p])]

Eligible(st) == {p \in Participants : st[p].active < MaxConcurrent /\ IsDue(st[p])}

(* The head of the due list after the sort by _season_due_priority; the    *)
(* order inside a queue class (PR count, run count, next wake, id) is left *)
(* open.                                                                   *)
FirstInQueue(st, p) ==
  /\ p \in Eligible(st)
  /\ \A o \in Eligible(st) : QueueClass(st[p]) <= QueueClass(st[o])

(* The scan finds somebody to run.  What it read of the replacement and of *)
(* the retry is kept and used again after the run.                         *)
ScanAndPick(p) ==
  /\ proc[Controller].pc = "idle"
  /\ season = "active"
  /\ nextRun <= MaxRuns
  /\ FirstInQueue(Recovered, p)
  /\ pst' = Recovered
  /\ LET s == Recovered[p] IN
       proc' = [proc EXCEPT ![Controller] =
                  [Idle EXCEPT !.pc = IF ReplacementDue(s) \/ RetryDue(s)
                                        THEN "consume" ELSE "prelaunch",
                               !.part = p,
                               !.rid = nextRun,
                               !.src = "auto",
                               !.snapRepl = ReplacementDue(s),
                               !.snapRetry = RetryDue(s),
                               !.wokenBefore = s.wake = WakeInterval,
                               !.neverWoken = s.wake = None]]
  /\ nextRun' = nextRun + 1
  /\ UNCHANGED <<season, faults, dispatched>>

(* The scan finds nobody (or the bound MaxRuns is reached): it has still   *)
(* recovered stale runs.                                                   *)
ScanAndSkip ==
  /\ proc[Controller].pc = "idle"
  /\ season = "active"
  /\ Eligible(Recovered) = {} \/ nextRun > MaxRuns
  /\ pst' = Recovered
  /\ UNCHANGED <<season, proc, nextRun, faults, dispatched>>

(* The two consumed-marks, before launcher.run and again after it, both    *)
(* guarded by what the scan read.                                          *)
ConsumeSnapshot(q) ==
  LET afterRepl == IF proc[q].snapRepl THEN MarkReplacementConsumed(Mine(q)) ELSE Mine(q)
  IN  IF proc[q].snapRetry THEN MarkRetryConsumed(afterRepl) ELSE afterRepl

Consume ==
  /\ proc[Controller].pc = "consume"
  /\ Save(Controller, ConsumeSnapshot(Controller))
  /\ Goto(Controller, "prelaunch")
  /\ dispatched' = IF proc[Controller].snapRepl
                     THEN [dispatched EXCEPT ![proc[Controller].part] = @ + 1]
                     ELSE dispatched
  /\ UNCHANGED <<season, nextRun, faults>>

Prelaunch ==
  /\ proc[Controller].pc = "prelaunch"
  /\ Save(Controller, MarkRunStarted(Mine(Controller), PendingId, "auto", FALSE))
  /\ Goto(Controller, "admit")
  /\ UNCHANGED <<season, nextRun, faults, dispatched>>

AfterRun ==
  /\ proc[Controller].pc = "after"
  /\ Save(Controller, ConsumeSnapshot(Controller))
  /\ Stop(Controller)
  /\ UNCHANGED <<season, nextRun, faults, dispatched>>

-----------------------------------------------------------------------------
(* Runner.run, by the controller or by an operator.                        *)

LaunchManual(q, p, src) ==
  /\ q \in Manual
  /\ proc[q].pc = "idle"
  /\ nextRun <= MaxRuns
  /\ proc' = [proc EXCEPT ![q] = [Idle EXCEPT !.pc = "admit", !.part = p,
                                              !.rid = nextRun, !.src = src]]
  /\ nextRun' = nextRun + 1
  /\ UNCHANGED <<season, pst, faults, dispatched>>

(* admit_run only reads; the run starts in a later write.                  *)
Admit(q) ==
  /\ proc[q].pc = "admit"
  /\ season = "active"
  /\ Mine(q).active < MaxConcurrent
  /\ Goto(q, "setup")
  /\ UNCHANGED <<season, pst, nextRun, faults, dispatched>>

(* admit_run raises: the controller's tick ends in an error, without the   *)
(* second consumed-marks.                                                  *)
Reject(q) ==
  /\ proc[q].pc = "admit"
  /\ season # "active" \/ Mine(q).active >= MaxConcurrent
  /\ Stop(q)
  /\ UNCHANGED <<season, pst, nextRun, faults, dispatched>>

Start(q) ==
  /\ proc[q].pc = "setup"
  /\ Save(q, MarkRunStarted(Mine(q), proc[q].rid, proc[q].src, TRUE))
  /\ Goto(q, "running")
  /\ UNCHANGED <<season, nextRun, faults, dispatched>>

(* _record_replacement_if_due, _record_live_submission_retry_if_due.       *)
Recorded(s, o) ==
  LET replaced == IF o.transient THEN MarkReplacementDue(s) ELSE s
  IN  IF o.retryable THEN MarkRetryDue(replaced) ELSE replaced

(* The run reaches a terminal state, normally or through the handler of    *)
(* `except Exception`, which re-raises at its end.                         *)
Terminal(q, o, raises) ==
  /\ proc[q].pc = "running"
  /\ raises => o \in RaisedOutcomes
  /\ Save(q, Recorded(Mine(q), o))
  /\ proc' = [proc EXCEPT ![q].pc = "terminal", ![q].out = o, ![q].raises = raises]
  /\ UNCHANGED <<season, nextRun, faults, dispatched>>

(* run_summary.json is written.  terminal_state.json, written earlier,     *)
(* carries no run id, so the stale check does not find the run by it.      *)
Summarise(q) ==
  /\ proc[q].pc = "terminal"
  /\ Save(q, ArtifactWritten(Mine(q), proc[q].rid))
  /\ Goto(q, "summary")
  /\ UNCHANGED <<season, nextRun, faults, dispatched>>

(* A later step of a normal ending fails (workspace, judgement): the       *)
(* handler records a second terminal state for the same run, from the same *)
(* captured live actions.                                                  *)
FailAfterTerminal(q, o) ==
  /\ proc[q].pc \in {"terminal", "summary"}
  /\ ~proc[q].raises
  /\ o \in RaisedOutcomes
  /\ proc[q].out.retryable => o.retryable
  /\ Fault
  /\ Save(q, Recorded(Mine(q), o))
  /\ proc' = [proc EXCEPT ![q].pc = "terminal", ![q].out = o, ![q].raises = TRUE]
  /\ UNCHANGED <<season, nextRun, dispatched>>

Finish(q) ==
  /\ proc[q].pc = "summary"
  /\ Save(q, MarkRunFinished(Mine(q), proc[q].rid, proc[q].out.completed, proc[q].out.infra))
  /\ IF q = Controller /\ ~proc[q].raises THEN Goto(q, "after") ELSE Stop(q)
  /\ UNCHANGED <<season, nextRun, faults, dispatched>>

(* KeyboardInterrupt or SystemExit inside the try of Runner.run; inside    *)
(* the handler of another exception nobody catches it (see Crash).         *)
Interrupt(q) ==
  /\ proc[q].pc \in Live
  /\ ~proc[q].raises
  /\ Fault
  /\ Save(q, MarkRunInterrupted(Mine(q), proc[q].rid))
  /\ Stop(q)
  /\ UNCHANGED <<season, nextRun, dispatched>>

(* The process is killed, or an exception leaves Runner.run with no mark   *)
(* written: before its try, or inside its own handler.                     *)
Crash(q) ==
  /\ proc[q].pc # "idle"
  /\ Fault
  /\ Stop(q)
  /\ UNCHANGED <<season, pst, nextRun, dispatched>>

-----------------------------------------------------------------------------
(* SeasonStore.transition by an operator.                                  *)
SetSeason(status) ==
  /\ status \in OperatorStatuses
  /\ status # season
  /\ Fault
  /\ season' = status
  /\ UNCHANGED <<pst, proc, nextRun, dispatched>>

(* A live run grows older, up to the age from which nothing spares it.     *)
Lived(r) == IF r.pc \in Live THEN Least(r.lived + 1, FullGrace) ELSE r.lived

TimePasses ==
  /\ pst' = [p \in Participants |-> Age(pst[p])]
  /\ proc' = [q \in Procs |-> [proc[q] EXCEPT !.lived = Lived(proc[q])]]
  /\ UNCHANGED <<season, nextRun, faults, dispatched>>

RunnerStep(q) ==
  \/ Admit(q)
  \/ Reject(q)
  \/ Start(q)
  \/ \E o \in Outcomes, raises \in BOOLEAN : Terminal(q, o, raises)
  \/ Summarise(q)
  \/ Finish(q)

ControllerStep ==
  \/ \E p \in Participants : ScanAndPick(p)
  \/ ScanAndSkip
  \/ Consume
  \/ Prelaunch
  \/ AfterRun

Faulty(q) ==
  \/ \E o \in Outcomes : FailAfterTerminal(q, o)
  \/ Interrupt(q)
  \/ Crash(q)

Next ==
  \/ ControllerStep
  \/ \E q \in Procs : RunnerStep(q)
  \/ \E q \in Procs : Faulty(q)
  \/ \E q \in Manual, p \in Participants, src \in ManualSources : LaunchManual(q, p, src)
  \/ \E status \in OperatorStatuses : SetSeason(status)
  \/ TimePasses

Spec == Init /\ [][Next]_vars

(* The gateway loop ticks for ever and catches every exception of a tick;  *)
(* Runner.run is bounded by its budget; time passes.  Operators owe        *)
(* nothing.                                                                *)
Fairness ==
  /\ WF_vars(ControllerStep)
  /\ WF_vars(RunnerStep(Controller))
  /\ WF_vars(TimePasses)

FairSpec == Spec /\ Fairness

-----------------------------------------------------------------------------
(* Properties.                                                             *)

TypeOK ==
  /\ season \in OperatorStatuses
  /\ pst \in [Participants -> State]
  /\ proc \in [Procs -> Process]
  /\ nextRun \in 1 .. MaxRuns + 1
  /\ faults \in 0 .. MaxFaults
  /\ dispatched \in [Participants -> Nat]

(* The processes that hold a slot of p: their start is written, their end  *)
(* is not.                                                                 *)
LiveRuns(p) == {q \in Procs : proc[q].part = p /\ proc[q].pc \in Live}

(* At most max_concurrent_runs runs of a participant are alive at once:    *)
(* what admit_run and the scan's concurrency check are there for.          *)
ConcurrencyLimit == \A p \in Participants : Cardinality(LiveRuns(p)) <= MaxConcurrent

(* A slot that no live run holds is still reachable for the stale check:   *)
(* without that, a crash takes the slot away for good.                     *)
SlotRecoverable ==
  \A p \in Participants :
    pst[p].active > Cardinality(LiveRuns(p)) => pst[p].pend.status = "running"

(* A live run is not declared stale before it has really had the grace it  *)
(* is due, 600 s, or its whole wall time and 600 s once its                *)
(* run_summary.json exists: the instant the stale check reads is never     *)
(* older than the start of any run that is alive, whoever wrote the file   *)
(* since.                                                                  *)
StaleSparesYoungRuns ==
  \A q \in Procs :
    proc[q].pc \in Live /\ PendingIsStale(Mine(q)) =>
      proc[q].lived >= IF Mine(q).pend.term THEN FullGrace ELSE ShortGrace

(* The run that the stale check gives up (its message: it "did not reach   *)
(* terminal state before runtime restart") is not executed by anybody.     *)
StaleRunsAreDead ==
  [][\A p \in Participants :
       pst[p].pend.status = "running" /\ pst'[p].pend.status = "stale" =>
         \A q \in LiveRuns(p) : proc[q].rid # pst[p].pend.id]_vars

(* Over the whole season a participant is given at most                    *)
(* MAX_REPLACEMENT_ATTEMPTS replacement runs, whatever crashes, retries of *)
(* the terminal handler and second consumed-marks happen in between.       *)
ReplacementBudget == \A p \in Participants : dispatched[p] <= MaxReplacementAttempts

(* Once a replacement (or a live submission retry) is exhausted no later   *)
(* write revives it: the consumed-marks and the run-finished mark leave it *)
(* alone, so it can never be dispatched first again.                       *)
ExhaustedIsFinal ==
  [][\A p \in Participants :
       /\ pst[p].repl.status = "exhausted" => pst'[p].repl.status = "exhausted"
       /\ pst[p].retry.status = "exhausted" => pst'[p].retry.status = "exhausted"]_vars

(* The step that ends the controller's run.                                *)
ControllerFinishes == proc[Controller].pc = "summary" /\ Finish(Controller)

(* An auto run that ended on a provider failure (billing, auth, rate       *)
(* limit) gives the wake clock back: a participant whose wake interval had *)
(* elapsed at the scan is due again afterwards.                            *)
InfraRestoresClock ==
  [][ControllerFinishes /\ proc[Controller].out.infra /\ proc[Controller].wokenBefore
       => ClockDue(pst'[proc[Controller].part])]_vars

(* The same for the very first wake of a participant.                      *)
InfraRestoresFirstWake ==
  [][ControllerFinishes /\ proc[Controller].out.infra /\ proc[Controller].neverWoken
       => ClockDue(pst'[proc[Controller].part])]_vars

(* A replacement that is due stops being due only when the controller      *)
(* takes it up, or when a further failure re-books or exhausts it.         *)
DueReplacementIsTakenUp ==
  [][\A p \in Participants :
       ReplacementDue(pst[p]) /\ pst'[p].repl.status \notin {"due", "exhausted"}
         => Consume /\ proc[Controller].part = p]_vars

(* While the season is active a crash never locks a participant out:       *)
(* whatever slot the dead run held is eventually free again.               *)
NeverLockedOut ==
  \A p \in Participants : []<>(season # "active" \/ pst[p].active < MaxConcurrent)

(* In an active season a pending run nobody executes any more does not     *)
(* stay "running".                                                         *)
AbandonedRunRecovered ==
  \A p \in Participants :
    pst[p].pend.status = "running" ~> season # "active" \/ pst[p].pend.status # "running"
=============================================================================
