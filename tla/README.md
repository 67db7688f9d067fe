# ContribArena: a verification development

TLA+ modules, TLC configurations and TLAPS proofs for ContribArena, a program
that runs coding agents against GitHub repositories in *seasons*: a gateway
process ticks, each tick may wake one participant, the participant's agent works
in a container and may open a pull request, and later ticks poll GitHub until the
maintainers have merged or closed it. Everything is kept in JSON files; nothing
locks them. The development is about that: what several processes, crashes,
failures of GitHub and the passing of time may do to those files.

Paths below are relative to the repository; `engine/…`, `tools/…` and so on are
under `src/contribarena/`.

## 1. The system

| Component | State it keeps | Operations | Hard because |
|---|---|---|---|
| Season state (`engine/seasons.py`, `cli.py`) | `season_state.json`: status, pause flag, heartbeat, runtime status; `leaderboard_snapshot.json` | `season activate/observe/complete/pause/resume`, heartbeat and runtime records, removal of workspaces | every operation reads the file twice, then replaces it, without a lock |
| Season runtime (`engine/season_runtime.py`) | – | `tick`: record heartbeat, choose lifecycle poll or wake, record its end; `start`: activate, tick, record what it does, sleep | three reads of status and pause at different moments; a loop that an exception or Ctrl-C may end anywhere |
| Participant state (`engine/seasons.py`) | `participant_state.json` per participant: active runs, pending run, wake clock, replacement, live submission retry | `mark_participant_*`, `mark_live_submission_retry_*`, `admit_run` | one record, several writers, each terminal path writes a part of it |
| Controller (`engine/controller.py`) | – | season wake tick, external lifecycle tick, `run_once` | keeps what it read before a run and uses it after the run |
| Runner (`engine/runner.py`) | run directory: `terminal_state.json`, `run_summary.json`, … | admission, start, agent, terminal recording, finish, interruption | its exception handler repeats what the normal ending did |
| PR ledger (`engine/external_lifecycle.py`, `engine/middleware/governance.py`) | `pr_history.json`: references and lifecycle records; run summaries, counts, `post_completion_outcomes.jsonl` | open, observe, back off, backfill, synchronise | loaded, held over network calls, saved whole |
| GitHub tools and client (`tools/github_live.py`, `tools/github_pr.py`) | – | open a PR, find it, verify it, poll it | GitHub acts before anything is saved; answers are lost, late or not ok |
| Gateway (`engine/gateway.py`) | `gateway.pid`, `gateway_state.json`, the API child | start, loop, stop, restart | pid file and state file shared by starter, stopper, loop and signal handler |
| Judgement and its refresh (`engine/judgement.py`, `engine/judge_refresh.py`) | `judgement.json`, `judgement_retry_state.json`, a copy of both in `run_summary.json` | judge panel, retry, stale recovery, `judge` | three kinds of process write three files back from copies; two attempt limits, recovery after two hours |
| Agent loop and goals (`engine/agent_loop.py`, `engine/goals.py`) | tool results, goal and its events, counters | turns, tool calls, review of an invocation | long sequences of legal calls decide which limit, gate or ending applies |
| Phases and tool registry (`engine/lifecycle.py`, `tools/registry.py`) | the phase, derived from the goal and its events | phase transitions, tool gating, submission gates | which call is legal after which; two gates read the same results |
| Workspace and editor (`engine/workspace.py`, `tools/editor.py`, `tools/aci.py`) | a container, files | start, exec, edit, destroy | cleanup after failures |
| Live submission (`tools/github_live.py`) | the git working tree, index, branch and pushed branch | prepare branch, commit, push, open | any order; one shell command of many parts |
| Memory (`memory/`) | event log, sqlite index, optional graph | append, search, catch up | log and index may drift apart |
| Providers (`providers/`) | – | model calls, fallback, guarding of actions | retries and partial answers |
| Read model, surface, API (`engine/read_model.py`, `engine/surface_indexer.py`, `engine/surface_summary.py`, `engine/api.py`) | SQLite tables, `surface.json` | rebuild from artifacts, watch, read | three kinds of process rebuild while the files change; ranking is decided by copies of the same rules |

How they interact. The gateway loop calls `SeasonRuntime.tick`, which records a
heartbeat in the season's file and calls the controller; the controller scans the
participants' files, and calls `Runner.run` and waits for it; the runner calls the
agent loop, whose tools (`github_open_pr` among them) write the participant's
ledger; a season that is observing or completed gets the lifecycle tick instead,
which polls the ledger's PRs and rewrites run summaries and counts. Operators
start further processes that do the same: `run --season`, `season tick`,
`season start` (the gateway's loop without the gateway), `pr refresh`, `season …`. They share only the files.

What makes each part correct is in its section below; the hazards, each at its
line, are in `PROJECT.json`.

## 2. Plan

In this order, the behaviour that everything else rests on first:

1. **ParticipantState, SeasonScheduler** – who runs when. *Proved in part.*
2. **SeasonLifecycle, SeasonControl** – the season's file; SeasonLifecycle is the
   abstract specification and SeasonControl implements it when operations do not
   overlap. *Proved.*
3. **PrRecords, PrLedger** – the pull requests. *Proved in part.*
4. **Gateway** – pid file, state file, start, stop, restart. *Proved in part.*
5. **Goals, JudgementRetry, AgentRun** – one run with the tools its agent calls, the
   ending, and the judgement with its retries; AgentRun composes the three.
   *Proved in part.*
6. **LiveSubmission** – the way of a patch into a pull request. *Refuted, and proved
   where it holds.*
7. **RunSummary, ReadModel** – what a run leaves for the public tables, and who
   rebuilds them. *Proved in part.*

What is left for the development to grow by: the lost updates inside one read-modify-write of a participant's file, the queue order
inside a class, the memory's index.

Each component module takes its parameters as CONSTANTS with a named assumption,
has an action per operation, and no RECURSIVE operator; `MC*.tla` give instances,
`*_proofs.tla` the theorems.

## 3. The scheduler: ParticipantState, SeasonScheduler

`ParticipantState` holds the pure part: a participant's record and each function
of `seasons.py` that rewrites it, as an operator from the loaded record to the
saved one (`MarkRunStarted`, `MarkRunFinished`, `MarkRunInterrupted`, `MarkStale`,
`MarkReplacementDue`, …). The code compares instants only with "now", so an
instant is an age, saturating at the threshold that reads it.

`SeasonScheduler` runs them. `proc[q]` is what a process executes. The controller
scans (`ScanAndPick`, `ScanAndSkip`), marks replacement and retry consumed
(`Consume`), writes the prelaunch record (`Prelaunch`), calls `Runner.run` (`Admit`
or `Reject`, `Start`, `Terminal`, `Summarise`, `Finish`) and marks consumed once
more (`AfterRun`), guarded by what the scan read. Operators enter at `Admit` with
`LaunchManual`. A `season tick` or `season start` by hand would be a second controller;
there is one here. `Interrupt` is the KeyboardInterrupt handler, `FailAfterTerminal`
a failure in the normal ending that makes the exception handler record a second
terminal state, `Crash` a kill. What the agent did is an `Outcome`: completed,
transient (a replacement is booked), infra (the wake clock is given back),
retryable (a live submission retry is booked). Each read-modify-write of the file
is one step; the lost updates that splitting them would add are not covered.

| Run | Shows |
|---|---|
| `sched_single` | The controller alone, two participants: no slot is stranded by crashes and interrupts (`SlotRecoverable`), a provider failure gives the wake clock back (`InfraRestoresClock`); while the season is active the concurrency limit never locks a participant out for good (`NeverLockedOut`) and an abandoned run does not stay pending (`AbandonedRunRecovered`). |
| `sched_operator` | With an operator's own runs on the same file: counters stay in range (`TypeOK`), a participant is given at most its replacements (`ReplacementBudget`), exhaustion is final (`ExhaustedIsFinal`), and no run is given up as stale before it has really lived for the grace it is due, whichever process wrote the record since (`StaleSparesYoungRuns`). |

Bounds: at most three runs and two faults, one or two participants, intervals of
one or two units. The stale check has two graces (600 s, or the wall time and 600 s once the
run's summary exists), one and two units, so that a run may be past the one and not the
other. Three runs are a run, its replacement and one more beyond the
budget; a slot is lost or an attempt too many made within that. Two participants
are needed for the queue only.

Fairness: the gateway loop catches every exception of a tick and goes on, the
runner is bounded by its budget, time passes. Operators owe nothing.

Proved (`SeasonScheduler_proofs`), for all participants, operators and bounds:
`TypeCorrect`; `ReplacementsBounded`; `ExhaustionIsFinal`; and `SlotsAccounted`, that
`SlotRecoverable` holds with the controller alone and one run per participant;
`ProviderFailureRestoresClock`, that
`InfraRestoresClock` holds with the controller alone, whatever the limit of runs; and
`YoungRunsSpared`, that `StaleSparesYoungRuns` holds whoever runs beside whom and however
many runs are admitted.
The replacement bound is not inductive alone: it needs that a
participant's dispatches never exceed its booked attempts, that a dispatch
under way was counted, and that "due" means attempts within the maximum.
`SlotsAccounted` needs that `active_runs` is 0 or 1, that it is 1 exactly while
a live run or an unrecovered crash holds it, and that the pending record is that
run's. Both assumptions (no operator, a limit of
one) are needed: see section 12. The clock's invariant (`ClockInv`) follows the saved
previous wake from the prelaunch record to the end of the run: between the two
nobody but this run writes the clock, and time only makes the saved instant older,
so that what was due at the scan is due when it is given back. For `YoungRunsSpared` each
process carries a history, `lived`, the time since its run started, which no code reads; the
invariant (`YoungInv`) is that the instant in the pending record is never older than the
youngest run alive: a start writes the present, and what may replace a record is a start or
takes the record away.

## 4. The season's file: SeasonLifecycle, SeasonControl

The five operations of `SeasonStore` that write the file - transition, pause, a heartbeat's
start and end, and the runtime status - load the status, load the record again, replace the
file: the stages `load`, `read`, `write` of `proc[q]`. Other points of a
process are the steps of `SeasonRuntime.tick` in between
(`Look`, `State`: two reads; `Wake`: the controller's third; `FallThrough`:
`run_once` going on after the season tick returned None). The commands of
`cli.py` choose the first point. `season start` (`SeasonRuntime.start`) activates a draft
season and then repeats: runtime record, tick, runtime record; it ends when the tick saw the
season completed, at `max_heartbeats`, and when a tick raises; Ctrl-C leads from within the loop to a
record that it was interrupted, and from before it nowhere (`Interrupt`, `InLoop`). The gateway's loop
goes on after a tick that failed and ends after one
that saw the season completed. `season complete`, once the transition is written, and `season
workspace clean` remove workspaces and memory (`Clean`). `board`, `openPr` and `workspaces` stand for what
runs change elsewhere.

`SeasonLifecycle` says what the operations promise: one acts at a time, at once,
and only on what it is for. `AtomicStore` is that SeasonControl implements it.

| Run | Shows |
|---|---|
| `control_serial` | Store operations do not overlap (the comment at `controller.py:1022` relies on that): each acts at once and only on its own part (`AtomicStore`), a heartbeat the file calls running has an owner (`RunningBeatHasOwner`), and no tick starts a run in a season that was paused, or not active, throughout (`WakeNeedsOpening`). |
| `control_races` | They overlap: a completed season is still always frozen (`CompletedIsFrozen`), and the loops of the gateway and of `season start`, beside each other and beside commands, stop once the season stays completed (`LoopEnds`). |
| `control_v_pause_lost` | Finding: a heartbeat undoes a pause. |

Bounds: two processes, three or four commands, one fault; one run in `control_serial`, which has
all ten commands, none in `control_races`, which leaves out `season workspace clean` and whose
two properties are not about runs. A lost update needs two operations; a third command shows what
follows. `MaxCommands` bounds the commands, not the rounds of a loop, which are as many as the loops
make. Where no liveness is checked the processes are interchangeable (`ProcSymmetry`).

Fairness: a process that runs goes on. Nobody owes a command, and `LoopEnds`
assumes that the season stays completed. `Interrupt` and `Crash` are never owed.

Proved (`SeasonControl_proofs`), for all processes and bounds: `TypeCorrect`;
`CompletedSeasonIsFrozen`, by the invariant that whoever will write "completed"
(it completes, or holds a copy or a status that says so) took or saw the snapshot;
`StoreIsAtomic`, the refinement, under `Overlap = FALSE`, by the invariant that at
most one operation has read and that what it read is still the file;
`RunsNeedOpening`, however operations overlap, by the invariant that, between a
tick's two reads, a season it saw active is remembered so and one that was paused
throughout still is (`OpeningInv`);
`RunningBeatIsExecuted`, under `Overlap = FALSE`.

## 5. Pull requests: PrRecords, PrLedger

`PrRecords` has the ledger and the functions on it: classification of an answer
(`Classify`, `GithubStateOf`), backoff, what is due, the open-PR limit, backfill and
synchronisation of references. References keep their order because
`update_governance_pr_state` changes only the first. Instants are the poll
intervals left. `PrLedger` runs two kinds of process: `github_open_pr` (`StartOpen`
loads; `Lookup`, `Create`, `Verify` talk to GitHub; `RecordOpen` saves; `EndRun` is
the run's summary) and the lifecycle tick (`StartTick` loads and synchronises,
`PreSave`, one `PollOk`, `PollNotOk` or `PollRaises` per due record, `SaveTick`).
Each holds the copy it loaded until it saves. GitHub and the maintainers are
the environment; `Faults` says what may go wrong.

| Run | Shows |
|---|---|
| `pr_serial` | One process, all failures but raising polls, a crash, a season that completes: the ledger forgets no PR and no outcome (`NothingForgotten`), an outcome is appended once (`OneRowPerOutcome`), no ledger, copy or summary holds an outcome nobody decided (`OutcomesAreReal`), records are well formed (`TypeOK`). |
| `pr_live` | Raising polls, refused and failing requests, a crash, completion at any time: never more PRs open on GitHub than the limit (`OpenPrsBounded`), and the outcome of every PR in the ledger arrives everywhere it is kept (`OutcomesArrive`). |
| `pr_v_failed` | Finding: an HTTP error is an answer, the record becomes failed and is never polled again. |

Bounds: two PRs, one crash, a limit of one or two; the retry count is kept
up to three, where the backoff reaches its ceiling. A second PR is
what the limit of one refuses and what a stale copy would lose; the three attempts
of an open request are the code's own. Several processes that overlap are covered
by the theorems.

Fairness: the gateway ticks for ever and goes on with what it began, time passes,
and GitHub does not fail one record's poll for ever (strong fairness of `PollOk`;
the tick is interleaved with runs, hence strong fairness of `StartTick`). Crashes
are bounded. Polls answered not-ok are left out of `pr_live`: `pr_v_failed` shows
that they stop polling.

Abstractions: a PR once closed is not reopened; the checks other than the open-PR
limit (quality gate, kill switches, daily limits) are a free choice to block;
"rejected" is unreachable because nothing under `src/` records a rejection signal;
due records are polled in any order; a PR found again by a later run counts for
that run's summary.

Proved (`PrLedger_proofs`), for all PRs, processes, faults and overlaps:
`TypeCorrect`, `RecordedOutcomesAreReal`, `OutcomesAppendedOnce`, and `CountsAgree`: the
two functions that count a participant's pull requests, one for ticks and one for
runs that end, agree on every ledger. The invariant
(`RealInv`) extends "no outcome nobody decided" to every copy a process holds: it
will be saved, and what it says stays true because a settled PR stays settled.

Two more hold of processes that follow one another (`Overlap = FALSE`), however many
PRs, processes and crashes there are. `LedgerNeverForgets` (`NothingForgotten`): by
`KeptInv` the copy of the one process at work has all that the file has, and a PR about
to be recorded has no recorded outcome that the fresh record would replace. `LimitKept`
(`OpenPrsBounded`): by `Limit` every PR open on GitHub has an open reference in the
ledger and in the copy at work, or is in the hands of the process about to record it, so
that being under the limit in the copy leaves room for one. It is a theorem of a GitHub
that fails no identity check of a PR it has opened and loses no answer to a request it
has carried out; the code does not ensure either, and section 12 shows what each leads to.

## 6. The gateway's processes: Gateway

`gw[g]` is the gateway process with pid g: it writes its pid, installs its signal
handlers (before that a SIGTERM kills it, `Deaf`), starts the API child, activates
the season, loops (`Top`, `Tick`; the sleep is time spent at the top) and ends
(`EndApi`, `Unlink`). What a tick does is SeasonControl's. Every write of
`gateway_state.json` has the stages `load`, `temp`, `replace`; the signal handler
(`Handle`) may come between any two, writes through the same temporary file, and
makes the interrupted replace raise (`ReplaceRaises`), which the loop survives after
a heartbeat and the process does not elsewhere. `cmd[o]` is an operator's `up`
(`ReadPid` to `WriteUp`), `down` (`ReadApiPid` to `WriteDown`) or `restart`, which is
the second and then the first. `Faults` says what may fail: a gateway or an API child
dies, the season cannot be loaded, a command is interrupted.

| Run | Shows |
|---|---|
| `gateway_serial` | Commands one at a time; a gateway, an API, a boot or a stopping command fails: never two gateways (`SingleGateway`), none left when `down` returns, whatever it answers (`DownMeansDown`), no status that says ended for one that loops (`EndedMeansEnded`), the API's pid that `up` overwrote is recorded again (`ApiRecordRepaired`), and a gateway asked to stop ends by itself (`AskedToStopStops`). |

Bounds: two gateways, two API children, three commands, one failure. A stop and a
start need two gateways; the third command meets what an interrupted second left.

Fairness: processes run, signals are delivered, a heartbeat ends (the runner is
bounded by its budget). Nobody owes a command. `down` may give up waiting at any
time, so that `AskedToStopStops` does not rest on its kill.

Abstractions: pids are not used twice; a killed process is gone at once; an API
child is one port and one process; the doctor is a free choice to refuse.

Proved (`Gateway_proofs`), for all operators, processes and bounds: `TypeCorrect`, and,
when commands do not overlap and none is interrupted while it starts a gateway,
`OneGateway`, `DownLeavesNoGateway` and `StatusTellsTheTruth` (`EndedMeansEnded`). The invariant (`SingleInv`): the pid file
names whatever gateway lives, but between spawning and recording it; a command
that holds a pid holds that of the gateway that lives, if any; and none lives from
the moment a command has seen it gone until it spawns the next. On it rests the one
of the status (`StatusInv`): from the gateway's own "starting" on, whatever is written or is
about to be written while it lives says that it runs or is asked to stop.

## 7. One run: Goals, AgentRun

`Goals` is the goal service: what it keeps in memory (`Memory`), the phase that
follows (`PhaseOf`), when the goal tool refuses (`Refusal`, `Possible`), what an update
does (`Updated`) and what is left of it when the file cannot be saved (`Unsaved`).

`AgentRun` is `Runner.run` from its try block. `step` says where the runner is:
`begin`, `start`, `loop`, then `derive` and the steps of the ending. In the loop the agent
may call any tool (`ToolCall`, one disjunct per group of tools that differ in what
they leave behind); `Returns` ends an invocation and applies `review_invocation`:
`Counters`, `Verdict`, `WithinLimits`. Of the tool results the model keeps what the gates
read (`facts`). `Derive` is the decision how the run ended: the derived result
(`AgentResult`), the enforcement for issue runs (`Enforced`), the quality gate
(`GatePasses`) and the live override (`Decided`). The ending books a replacement
or a resubmission, finalizes the workspace, writes the summary, judges, writes it
again, records the run (`WriteTerminal` to `Finally`). `Raises`, `Interrupted` and `Killed` may
come at any of these steps; `path` is then the exception handler's or the signal
handler's, which may fail in its turn (`HandlerFails`). What an exception makes of the run
depends on where it comes from (`Raised`): docker's, of the start and the synchronisation after it, are
the workspace's; a missing provider or library is the agent's; an agent that calls the tools outside
the agent library, as the stub does, also lets docker's and the budget's (`BudgetExhausted`: blocked) through,
while the library tells the agent of them, which costs a turn (`Shell`). A container that is finalized is
`settled` (removed; or kept, by the cleanup policy or as a persistent workspace) or, if docker fails to remove it, `stuck`.

| Run | Shows (with section 8) |
|---|---|
| `agent_run` | A completed shadow run earned it (`CompletedIsEarned`); a live run is completed exactly if its pull request is recorded (`CompletedMeansOpened`), and is then not made a second time (`NoSecondAttemptAfterPr`); however it fails, its end is recorded and its workspace finalized - removed, kept on purpose, or tried in vain - (`EndedIsRecorded`, `WorkspaceFinalized`); it ends (`RunEnds`). |

Bounds: three kinds of run (shadow, shadow with an issue, live), started with the
goals that decide their phase; three invocations of two turns, two per phase; two
abandoned goals, one switch each, two recoveries, one review round; one failure.
Three invocations reach every phase and every limit, two turns show that calls of
one invocation are read together. One failure hits each step, and the handler
that follows it may fail without being counted (`MaxFaults` bounds the first only).

Fairness: the runner goes on (`Onward`): an invocation returns because turns are
bounded and tools and providers time out. That the agent calls any tool is not
assumed: `RunEnds` holds for one that never does.

Abstractions: the budgets of single scouting tools are a free choice to refuse; a
turn with several calls counts as several turns; which kind of call failed is not
tracked, so that the third failure of a kind is possible whenever there were two
failures; of the local stub only the exceptions are there, not its calls and the
result that it hands over ready-made (`legacy`); which handler of a failure failed is not kept, so that a `stuck` container
may or may not be tried once more by the finally clause.

Proved (`AgentRun_proofs`), for all budgets, limits and faults: `TypeCorrect`,
`AbandonsStayBounded` (`AbandonsBounded`: the limits on abandoned goals hold whatever the
agent does), `CompletionIsEarned`, `EndRecorded`, `ContainerFinalized`, `PullRequestDecides`, `NeverTwice`, `ReplacedStaysUnscored`.
The invariants: each ending keeps to its own steps (`PathOK`); a run that has passed
its recording step is recorded (`EndInv`); before the bookings nothing is due, and
what is booked was decided by the terminal state that `facts` agree with (`BookInv`);
the runner judges only after the booking, and whatever a tick does to a run that
is to be replaced takes its scores away (`ReplInv`).

## 8. Judging: JudgementRetry

Three processes judge a run: its runner, the tick's refresh, the operator's `judge`.
Each goes through `Panel`, the writes of the judgement and the summary, and the mark
of a retry (`MarkDue`, `Defer`, `DeferSummary`, or `MarkNothing`, `Note`), writing from what
it read before the panel. The tick takes up what is due (`TickStarts`), skips a run
that is to be replaced (`TickSkips`), makes a retry found running for two hours due again
(`TickRecovers`) and counts an exception (`TickRaises`). `Verdicts` are all that a panel
may say, from three attempts at each question. AgentRun EXTENDS the module, so that
`agent_run` checks it beside the run: `TransientNotScored` (a fallback of judges that
were out of reach never stays as a score), `SummaryAgrees` (the summary repeats the
judgement), `ReplacedRunNotScored`, `PanelsBounded` (panels paid for), `DueSettles` (a
retry that is due is settled).

Bounds: two questions, the code's three retries, one `judge` command, one failure.
`Overlap = FALSE`: one refresh at a time, none of a run that has not ended. With
`TRUE`, TLC refutes `TransientNotScored` and `SummaryAgrees` (section 12).

Fairness: ticks go on while the season is active, a `judge` that was started goes
on, time passes. `torn` marks that a process was stopped between writes that belong
together: the two properties that speak of it except that case, and section 13
says what it leaves behind.

Abstractions: the judgement in the summary is kept in step, its copy of
the retry state is not needed by these properties; the markers of a transient
failure that the judge looks for are among those the runner looks for.

Proved (`AgentRun_proofs`, `AgentRunJudging_proofs`), for all questions, limits, verdicts and
failures: `ReplacedStaysUnscored` and `PanelsStayBounded`, however the judging processes
overlap; `TransientIsNotScored` and `SummaryRepeatsJudgement` under `Overlap = FALSE`.
For the panels the invariant (`PanelInv`) keeps an account: what the runner and a
`judge` under way may still cost is set aside, and what is left covers the attempts that the
retry file, and the copy the tick counts from, still allow. For the files it (`FileInv`)
says, with one process judging at a time, what each point of that process has
already written: nothing before the runner judges, a judgement that the summary repeats before the
retry is marked, a copy that says deferred after a retry was marked due.

## 9. From patch to pull request: LiveSubmission

The working tree, git's index, HEAD and the pushed branch as the sets of files whose
change is there, and the four live tools in any order: `PrepareBranch` (one shell
command: save, clean, fetch, check out, apply), `Commit`, `PushBranch`, `OpenPr`.

| Run | Shows |
|---|---|
| `live_v_patch_lost` | Finding: with a modified and a new file, `github_prepare_branch` removes the new file and then fails to apply the saved patch; commit, push and open go on, and the pull request lacks the new file. |

The instance is the smallest that has both kinds of file. No failure is
injected: the four tools succeed or fail as git does.

Proved (`LiveSubmission_proofs`): `TypeCorrect`, and `OneKindArrivesWhole`: a patch that only
modifies files, or only adds them, always arrives whole or not at all.

## 10. The public tables: RunSummary, ReadModel

`RunSummary` holds the pure part: `SubmissionOutcome`, `Replacement`, `LiveRetry`,
`JudgementEligible` from how a run ended; `RankingExcluded`, its copy in `read_model.py`
(`RankingExcludedHere`) and the reason shown (`RankingExclusionReason`); the
leaderboard, participants, season, totals and pull request rows of a set of summaries
(`Tables`), the export of `surface index` (`Exported`), and what the API works out anew
from one page of runs (`ApiLeaderboard`, `ApiStats`).

`ReadModel` says who writes the files and when they are read. Runners write the
summary twice, in place (`BeginSummary`, `EndSummary`: in between it is torn). The
gateway's tick brings summaries in line with the ledger (`SyncTerminal`,
`WriteOutcome`), polls (`Observe`, `SaveLedger`), judges again, and rebuilds; an exception
leads to one more rebuild (`Handler`). `season complete` writes the snapshot in place
and then the season. A rebuild (`StartBuild`, `ReadSummary` per run, `ReadTheRest`, `StoreTables`) is
made by the gateway, the read API's watcher thread, or an operator's command; `WatchBreaks` is the
watcher's fall back to polling, `BuildFails` a locked database.

| Run | Shows |
|---|---|
| `read_model` | Whatever changes while the files are read, the tables tell one story (`OneTruth`): board, participants, season and totals count the same runs, those served without a reason not to be ranked; the export says the same; the API's own board and totals are the stored ones. While the gateway ticks the tables catch up for good (`CatchesUp`), and a pull request's outcome reaches its run's summary for good, although judges and runners write back older copies (`OutcomeReachesSummary`). |

Bounds: two participants with a run each, pages of two. The seven starts choose how
the two runs end (opened its pull request; none to open; judges out of reach; model
lost) and which had ended before, and give out a panel, a command of the
operator or a failure, in the pairs that meet. Each start is a case that the
properties are about: a run that ends while the gateway ticks, one judged again by the tick or the
operator, a failure of the tick, the rebuild, the API or the runner, one in the midst of
`season complete`. All together at once exceed TLC's reach.

Fairness: the gateway's loop goes on, and so do its own judging and its own rebuild
(`TickStep`, `JudgeStep("tick")`, `BuildStep("gateway")`). None for the watcher, runners or
operators. Both liveness properties end with the loop: after the last tick of
a completed season nobody rebuilds (section 13).

Abstractions: one season; a run opens at most one pull request; a run may end at any moment;
appends to logs are atomic; of the judge's writes those to the summary; `season complete`
reads the runs in one moment; the adjustment of scores for maintainers' comments
short of merging or closing is left out, as are the tables that copy logs (events, phases,
violations, updates, workspaces) and the provider quota (a run that met it is never judged).

Proved (`ReadModel_proofs`), for all runs, participants and bounds, whatever the page's size
and whoever rebuilds: `TypeCorrect` and `TablesTellOneTruth`. The invariant `Inv` is inductive
where the two are not: what the gateway or a judge holds to write back is a whole summary
(`GatewayTyped`, `JudgingTyped`); a run that is judged again has ended, so nobody tears its
summary meanwhile (`JudgedIsWhole`); what a rebuild has read is a summary, none or a torn one for each
run (`Rebuilding`), and the tables are those of some such reading (`StoreTyped`), of one
moment or not. That the tables of any reading tell one story is then a fact about
the operators (`OneReadingOneStory`): the two exclusion rules and the reason shown agree
(`ExclusionsAgree`); the participants partition the ranked runs, so that their counts add up
(`ParticipantsAddUp`), which is shown without induction: had two functions with the sum's recursion
a set they differ on, they would have a smallest one (`LeastNatural`, `OneSum`); and a page that holds
all runs holds each once (`OnePage`).

## 11. What is proved and what is only checked

Assumptions of the theorems are those named in the modules (`StateConstants`,
`SchedulerConstants`, `ControlConstants`, `RecordConstants`, `LedgerConstants`,
`GatewayConstants`, `GoalConstants`, `RetryConstants`, `RunConstants`, `Constants` of
ReadModel) and, where stated, `Overlap = FALSE`,
a controller on its own, a start that is not interrupted, a patch of one kind, or an open
request whose outcome is learnt. Each
proof names its inductive invariant; the argument is in the component's section.

Proved and not in any run: `AbandonsBounded`, and the type invariants of SeasonControl, Gateway
and LiveSubmission. Only model-checked: the liveness properties, as fairness and ENABLED are
outside the prover; so are the runs that refute something, which need no proof. No
recursive operator is used anywhere.

## 12. Where the assumptions matter

Some properties are stated in the modules although no run lists them: they hold
under an assumption the code makes silently, and TLC refutes them without it. Each
is reproduced by checking the property with the change named.

| Property | Change | What happens |
|---|---|---|
| `StaleRunsAreDead` | `sched_operator` as it is | A live run is lost sight of: the operator's run is alive and older than its grace when the controller scans; it is given up, as one that "did not reach terminal state before runtime restart" (`seasons.py:493`), its slot goes to the next run. |
| `ConcurrencyLimit` | `sched_operator` as it is | `admit_run` reads `active_runs`, the start increments it later: a `run --season` and the controller both get the last slot. |
| `SlotRecoverable` | `sched_single`, `MaxConcurrent = 2` | `pending_run` holds one run; a start after a crash replaces the crashed run's record and its slot is lost. |
| `DueReplacementIsTakenUp` | `sched_single`, `MaxFaults = 2` | The consumed-mark after the run, guarded by what the scan read before it, turns the replacement the run itself booked into "running". |
| `InfraRestoresFirstWake` | `sched_single`, `MaxFaults = 2`, one participant | `mark_participant_run_started` saves the previous wake only if there is one (`seasons.py:717`): a provider failure on the very first wake costs a wake interval. The test `test_provider_infrastructure_failure_does_not_advance_auto_wake_clock` (`tests/unit/test_runner_m02.py:2358`) has a participant that woke before. |
| `ClosedSeasonStartsNothing` | `control_serial` | Status and pause read apart, and `run_once` going on when the season tick returns None: a run starts in a season that was closed at every moment of the tick. |
| `FrozenOnlyWhenCompleted` | `control_serial` | `season complete` writes the snapshot before the transition that refuses. |
| `CompletesWithoutOpenPrs` | `control_serial` | The open-PR check and the completing write are apart. |
| `RuntimeHasOwner` | `control_serial` | `season start` ends by a tick's exception and leaves the runtime status "running". |
| `InterruptIsMarked` | `control_serial` | Ctrl-C in `season start` during the preflight, the activation or the first runtime record: nothing is marked. |
| `RunKeepsWorkspace` | `control_serial` | `season workspace clean`, and `season complete`, remove the workspace of a run under way. |
| `NothingForgotten` | `pr_serial`, two processes, `Overlap = TRUE` | `pr refresh` beside the gateway saves the ledger it loaded before a run recorded its PR. |
| `OpenPrsBounded` | `pr_live`, `"unverified"` among `Faults` | An identity check that is not ok leaves the PR open and unrecorded. |
| `OpenPrsBounded` | `pr_live`, `"lost"` among `Faults` | The answer to a request that opened the PR is lost, the retry is refused, nothing is recorded. |
| `SingleGateway` | `gateway_serial`, two operators, `Overlap = TRUE` | Two `up` commands read the pid file before either writes it. |
| `SingleGateway` | `gateway_serial`, `"up"` among `Faults` | An `up` interrupted between spawning and recording: until the gateway writes its pid itself, the next `up` starts another. |
| `DownLeavesNoApi` | `gateway_serial`, `MaxFaults = 0` | A stop that meets a write of the state file during the boot makes the gateway crash with an API child that no file names; the child keeps the port. |
| `StopsWithoutCrash` | `gateway_serial`, `MaxFaults = 0` | The same crash, seen from the gateway. |
| `FailureIsReal` | `gateway_serial` | A gateway that ends just as the deadline passes leaves nothing to kill, which `down` reports as a stop that failed; `restart` then starts nothing. |
| `TransientNotScored` | `agent_run`, `Overlap = TRUE` | An operator's `judge` of a run that is still ending and the runner's own judgement write over each other: a transient fallback keeps its score. |
| `SummaryAgrees` | `agent_run`, `Overlap = TRUE` | The same overlap: the summary keeps the judgement of the one, `judgement.json` that of the other. |


## 13. What the code does that one might not expect

Seen while modelling; each is what the models do too, unless it says "not modelled".
None of these is a claim about intent.

The run (AgentRun, Goals):

- The stop for too many abandoned goals is read from the *last* result with a
  terminal status (`agent_loop.py:189-281`); a later one (the third failure of a kind says
  "failed_to_recover", on which nothing acts) hides it.
- A patch finalized in the last invocation or the last of its phase ends the run as
  blocked, budget exhausted, not completed: the limits are tested first.
- The gate of the run accepts a rationale instead of a verification, the gate of
  `github_open_pr` does not: a live run with an accepted rationale can never open its PR.
- An issue run never completes in shadow: `_enforce_issue_completion` wants notes that
  `derive_agent_result` leaves empty. It is not seeded with its goal when the
  participant's last goal is finished, and then starts by scouting.
- Scouting with the repository tools is no progress, being refused one is.
- A silent agent in an exhausted scout phase with an active goal is asked again.
- Review rounds start afresh by a goal update; review is skipped when the contribution goal was
  carried over.
- A goal whose file cannot be saved has changed the phase all the same.
- Abandoning a goal under another scope evades the limit of its own scope.
- `aci_submit_patch_finalize` takes the accepted draft even if the tree has been edited since; edits made in
  the shell are seen by no gate.
- An exception after the ending was decided replaces a completed ending; if the
  exception handler itself fails the run stays recorded as running.

- If docker fails to remove the container, `workspace.cleanup_failed` is traced and the run
  goes on; the exception handler tries again what the ending tried, the handler of an interruption does not.
- Time and steps of an invocation are tested before a tool is executed; the agent library turns the
  exception into an answer, so that the agent may go on calling until its turns are over.

Seasons and their runtime (SeasonControl, SeasonScheduler):

- `season start` dies of an exception in a tick that the gateway's loop survives, and its runtime
  status stays "running".
- Ctrl-C in `season start` before the loop prints that the runtime "was marked interrupted"
  (`cli.py:448`); nothing was.
- Every transition writes a record without the runtime status: it is gone until the next round.
- `season complete` and `season workspace clean` ask nobody whether a run is using the workspace.
- A run that is alive after 600 s is given up as one that did not survive a restart if the
  controller's scan meets it - which takes an operator's run, or two controllers.

Judging (JudgementRetry):

- A run blocked by the quality gate is never judged.
- A crash between the judgement's write and the mark of the retry leaves a transient
  fallback scored for good; one between the second summary and "succeeded" has a good
  judgement made again.
- The two limits differ by one (`<=` in the mark, `<` in the tick's handler); a retry given up by the
  handler keeps the judgement "deferred" and the run out of the ranking, one given up by
  the panel is ranked without a score.
- `judge` scores runs that are never judged otherwise.

Pull requests and the ledger:

- `github_prepare_branch` after `github_commit` drops the commit.
- A terminal PR whose run left no `run_summary.json` makes every tick save the ledger
  (`controller.py:763`).
- A pid in `gateway.pid` reused by another process after a reboot is taken for the gateway
  (`gateway.py:108`; not modelled).

The public tables (RunSummary, ReadModel):

- `/api/leaderboard` and `/api/surface` work the board out anew and ignore the frozen
  snapshot, from one page of at most 500 runs whatever limit is asked for
  (`read_model.py:205`).
- A rejected `season complete` leaves a snapshot that hides the live board; a torn one
  shows an empty board.
- After the gateway's loop has ended, a rebuild of the watcher that began before may
  bring back the unfrozen board, and nobody rebuilds any more.
- Changes between the API's first rebuild and the start of watching are missed, a failed
  rebuild is not repeated; a snapshot is outside the watched directory. The gateway's
  rebuilds make up for all of it while it lives.
- A judge that writes the tick's PR outcome back to an older one is put right by the next tick; a
  tick that writes a judgement back is not: the judgement is lost from the summary.
- A PR observed before its hand-started run has ended may be shown as unsettled in the
  pull request table for good: the runner resets the log that the table is made of.
- After `season complete` outcomes are no longer written into summaries.
- The summary infers a replacement for a failed submission with a transient message
  although nothing books one, and a live resubmission stays "due" in it for ever.
- `season tick` and `season start` by hand refresh the database of the raw configuration
  path (`season_runtime.py:178`), which may be another than the API reads (not modelled).

## 14. What is not modelled

- **Memory**, **model providers**: append-only logs and mappings of payloads; no gate, limit or
  schedule reads them back. What their failures lead to is modelled (bookings, retries,
  the judge's heuristic).
- **Configuration**, **read-only GitHub tools**, **preflight**, **guidance**, **prompts**: no
  state whose order matters; their values are the constants of the models.
- **The web surface** presents `surface.json`; the API's routes other than those named
  are stateless reads.
- **Parsing and recognition** (the action guard's, the judge's answers, git's output): their
  outcomes are free choices.
- **Arithmetic of scores**: no other part reads it back.
- **Participant-file writes lost inside one read-modify-write**: each is one step, and so are the
  two of a run's terminal state (`Terminal`: replacement, then retry).
- **A second controller** (`season tick` or `season start` beside the gateway) in SeasonScheduler;
  SeasonControl has them, for what they do to the season's file.
- **`season_config.yaml`**, which `SeasonStore.load` fills in if it is empty; the configured season is a
  constant.
- **Reopened pull requests, daily limits, cool-downs, kill switches**: the last three are
  a free choice to block (`MayOpen`).

`PROJECT.json` lists every part with its status, every definition with the lines it
models, and every hazard with the properties about it.
