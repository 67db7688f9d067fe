------------------------------- MODULE ReadModel -------------------------------
(***************************************************************************)
(* The SQLite read model behind the public site, and the files it is       *)
(* rebuilt from: run_summary.json, pr_lifecycle_state.json and             *)
(* pr_review_log.jsonl of each run, leaderboard_snapshot.json and          *)
(* season_state.json.  Runners, the gateway's tick and the operator's      *)
(* commands write the files; the gateway after every tick, the read API's  *)
(* watcher thread and the operator's --refresh commands rebuild the        *)
(* tables, each reading one file after the other.                          *)
(*                                                                         *)
(* One season; a run has at most one pull request.  The ledger is that of  *)
(* PrLedger, cut down to the state it saves for a run's pull request.      *)
(*                                                                         *)
(* An operator that no other definition uses is a faulty variant of the    *)
(* one that follows it, to show that a property can fail.                  *)
(***************************************************************************)
EXTENDS RunSummary

CONSTANTS
  Starts,      \* where to start: how the runs end, which of them ended
               \* before, and the bounds below
  Outcomes,    \* what GitHub may say of an open pull request
  Builders     \* who rebuilds the tables

ASSUME Constants ==
  /\ \A s \in Starts :
       /\ s.ending \in [Runs -> Ending] /\ s.old \subseteq Runs
       /\ s.panels \in Nat /\ s.hands \in Nat /\ s.faults \in Nat
  /\ Outcomes \subseteq {"open", "merged", "closed"}
  /\ Builders \subseteq {"gateway", "watcher", "hand"}

VARIABLES
  ending,     \* how each run ends
  run,        \* how far its runner is
  summary,    \* run_summary.json
  retry,      \* judgement_retry_state.json: the status
  lifecycle,  \* pr_lifecycle_state.json: the state of the pull request in it
  logs,       \* pr_review_log.jsonl: the state its last entry shows
  ledger,     \* the saved lifecycle record: the state of the pull request
  season,     \* season_state.json: the status
  snapshot,   \* leaderboard_snapshot.json
  gateway,    \* the gateway's loop
  hand,       \* the operator's `season complete`
  judging,    \* judging[j]: the refresh of a judgement by j
  build,      \* build[b]: the rebuild of the tables by b
  watcher,    \* the API's watcher thread
  dirty,      \* it has changes it has not taken up
  store,      \* the tables of the database
  panels, hands, faults   \* bounds: judge panels held again, commands of the
                          \* operator and failures still to come

fileVars == <<summary, retry, lifecycle, logs, ledger, season, snapshot>>
apiVars == <<watcher, dirty>>
countVars == <<panels, hands, faults>>
vars == <<ending, run, fileVars, gateway, hand, judging, build, apiVars, store, countVars>>

Judges == {"tick", "hand"}
PrStates == {"none", "open", "merged", "closed"}
Terminal == {"merged", "closed"}

Nothing == [files |-> [r \in Runs |-> Absent], logs |-> [r \in Runs |-> "none"],
            snapshot |-> NoSnapshot, state |-> "active"]
NotBuilding == [at |-> "idle", left |-> {}, seen |-> Nothing]
NotJudging == [at |-> "idle", run |-> 0, copy |-> Absent, verdict |-> "judged"]
Asleep == [at |-> "asleep", todo |-> {}, run |-> 0, copy |-> Absent, state |-> "none",
           last |-> FALSE, handler |-> FALSE]

NoTables == Tables(Nothing)

Has(r) == PullRequest(ending[r]) = "open"
FirstVerdict(e) == IF JudgementEligible(e) THEN e.verdict ELSE "not_judged"

Init == \E start \in Starts :
  /\ ending = start.ending
  /\ run = [r \in Runs |-> IF r \in start.old THEN "ended" ELSE "running"]
  /\ ledger = [r \in Runs |-> PullRequest(ending[r])]
  /\ lifecycle = [r \in Runs |-> IF r \in start.old THEN ledger[r] ELSE "none"]
  /\ logs = [r \in Runs |-> IF r \in start.old /\ Has(r) THEN "unknown" ELSE "none"]
  /\ summary = [r \in Runs |->
       IF r \in start.old
       THEN build_run_summary(ending[r], FirstVerdict(ending[r]), ledger[r]) ELSE Absent]
  /\ retry = [r \in Runs |->
       IF r \in start.old THEN RetryOf(FirstVerdict(ending[r])) ELSE "none"]
  /\ season = "active" /\ snapshot = NoSnapshot
  /\ gateway = Asleep
  /\ hand = "idle"
  /\ judging = [j \in Judges |-> NotJudging]
  /\ build = [b \in Builders |-> NotBuilding]
  /\ watcher = "starting" /\ dirty = FALSE
  /\ store = NoTables
  /\ panels = start.panels /\ hands = start.hands /\ faults = start.faults

-----------------------------------------------------------------------------
(* A write of r's summary.  The watcher is told of every change below the  *)
(* artifact root while it watches, and finds a new time of change on a     *)
(* summary when it polls.                                                  *)
Summarised(r, s) ==
  /\ summary' = [summary EXCEPT ![r] = s]
  /\ dirty' = (dirty \/ watcher \in {"watching", "polling"})
  /\ UNCHANGED watcher
Logged(r, s) ==
  /\ logs' = [logs EXCEPT ![r] = s]
  /\ dirty' = (dirty \/ watcher = "watching")
  /\ UNCHANGED watcher

Unreadable(r) == summary[r] \in {Absent, Torn}
Fail == faults > 0 /\ faults' = faults - 1

(* The runner ends run r: its copy of the lifecycle record and its log of  *)
(* openings, the summary, the judgement, and the summary again.  Each      *)
(* summary is written in place, so there is a moment when it is torn.      *)
BeginSummary(r) ==
  /\ run[r] \in {"running", "judging"}
  /\ run' = [run EXCEPT ![r] = IF @ = "running" THEN "writing" ELSE "rewriting"]
  /\ IF run[r] = "running" /\ Has(r)
     THEN /\ lifecycle' = [lifecycle EXCEPT ![r] = ledger[r]]
          /\ logs' = [logs EXCEPT ![r] = "unknown"]
     ELSE UNCHANGED <<lifecycle, logs>>
  /\ Summarised(r, Torn)
  /\ UNCHANGED <<ending, retry, ledger, season, snapshot, gateway, hand, judging, build, store,
                 countVars>>

(* A retry is booked before the second summary is begun; here with it.     *)
EndSummary(r) ==
  /\ run[r] \in {"writing", "rewriting"}
  /\ LET judged == run[r] = "rewriting" /\ JudgementEligible(ending[r])
         verdict == IF judged THEN ending[r].verdict ELSE "not_judged"
     IN /\ Summarised(r, build_run_summary(ending[r], verdict,
                           IF judged THEN lifecycle[r] ELSE "none"))
        /\ retry' = [retry EXCEPT ![r] = RetryOf(verdict)]
  /\ run' = [run EXCEPT ![r] = IF @ = "writing" THEN "judging" ELSE "ended"]
  /\ UNCHANGED <<ending, lifecycle, logs, ledger, season, snapshot, gateway, hand, judging, build,
                 store, countVars>>

(* The runner is killed: what it had not written stays unwritten.          *)
RunnerDies(r) ==
  /\ run[r] \in {"running", "writing", "judging", "rewriting"} /\ Fail
  /\ run' = [run EXCEPT ![r] = "dead"]
  /\ UNCHANGED <<ending, fileVars, gateway, hand, judging, build, apiVars, store, panels, hands>>

-----------------------------------------------------------------------------
(* The gateway's tick.  It first brings the files of finished pull         *)
(* requests in line with the ledger, then looks at the open ones, then     *)
(* judges again, then the tables are rebuilt.  A completed season's tick   *)
(* only rebuilds, and is the last one.                                     *)
GatewayOnly ==
  UNCHANGED <<ending, run, fileVars, hand, judging, build, apiVars, store, countVars>>

WakeUp ==
  /\ gateway.at = "asleep"
  /\ gateway' = IF season = "completed" THEN [Asleep EXCEPT !.at = "rebuild", !.last = TRUE]
                ELSE [Asleep EXCEPT !.at = "sync", !.todo = {r \in Runs : ledger[r] \in Terminal}]
  /\ GatewayOnly

(* A summary that cannot be parsed needs nothing; one that is missing      *)
(* needs an update that cannot be made.                                    *)
NeedsUpdateByState(r) == lifecycle[r] # ledger[r] \/ summary[r] = Absent
NeedsUpdate(r) ==
  \/ lifecycle[r] # ledger[r]
  \/ summary[r] = Absent
  \/ summary[r] # Torn /\ (summary[r].pr # ledger[r] \/ summary[r].adjusted # ledger[r])

(* The files of run r are brought to state s: the lifecycle state, then    *)
(* the summary, which is read here and written back by WriteOutcome with   *)
(* the outcome replaced.  Not once the season is completed.                *)
UpdateRun(r, s, next) ==
  IF season = "completed" THEN gateway' = next /\ UNCHANGED lifecycle
  ELSE /\ lifecycle' = [lifecycle EXCEPT ![r] = s]
       /\ gateway' = IF Unreadable(r) THEN next ELSE [next EXCEPT !.run = r, !.copy = summary[r]]

SyncTerminal ==
  /\ gateway.at = "sync" /\ gateway.todo # {} /\ gateway.copy = Absent
  /\ LET r == Min(gateway.todo)
         next == [gateway EXCEPT !.todo = @ \ {r}, !.state = ledger[r]]
     IN IF NeedsUpdate(r) THEN UpdateRun(r, ledger[r], next)
        ELSE gateway' = next /\ UNCHANGED lifecycle
  /\ UNCHANGED <<ending, run, summary, retry, logs, ledger, season, snapshot, hand, judging, build,
                 apiVars, store, countVars>>

WriteOutcome ==
  /\ gateway.copy # Absent
  /\ Summarised(gateway.run,
       [gateway.copy EXCEPT !.pr = gateway.state, !.adjusted = gateway.state])
  /\ gateway' = [gateway EXCEPT !.copy = Absent]
  /\ UNCHANGED <<ending, run, retry, lifecycle, logs, ledger, season, snapshot, hand, judging, build,
                 store, countVars>>

(* An open pull request is found in state s; the ledger is saved at the    *)
(* end of the poll.                                                        *)
Poll ==
  /\ gateway.at = "sync" /\ gateway.todo = {} /\ gateway.copy = Absent
  /\ gateway' = [gateway EXCEPT !.at = "poll", !.todo = {r \in Runs : ledger[r] = "open"}]
  /\ GatewayOnly

Observe(r, s) ==
  /\ gateway.at = "poll" /\ r \in gateway.todo /\ gateway.copy = Absent
  /\ UpdateRun(r, s, [gateway EXCEPT !.at = "save", !.run = r, !.state = s])
  /\ Logged(r, s)
  /\ UNCHANGED <<ending, run, summary, retry, ledger, season, snapshot, hand, judging, build, store,
                 countVars>>

SaveLedger ==
  /\ gateway.at = "save" /\ gateway.copy = Absent
  /\ ledger' = [ledger EXCEPT ![gateway.run] = gateway.state]
  /\ gateway' = [gateway EXCEPT !.at = "poll", !.todo = @ \ {gateway.run}]
  /\ UNCHANGED <<ending, run, summary, retry, lifecycle, logs, season, snapshot, hand, judging, build,
                 apiVars, store, countVars>>

(* Nothing (more) is due to be looked at.                                  *)
PollDone ==
  /\ gateway.at = "poll" /\ gateway.copy = Absent
  /\ gateway' = [Asleep EXCEPT !.at = "rejudge"]
  /\ GatewayOnly

-----------------------------------------------------------------------------
(* A judgement is made again, by the tick of an active season when its     *)
(* retry is due, or by the operator's `judge`.  JudgementRetry has every   *)
(* write of it; here are those of the summary.  Process j reads it, holds  *)
(* the panel, and writes what it read with the judgement replaced.         *)
Refreshable(r) == ~Unreadable(r) /\ run[r] \in {"ended", "dead"}
StartPanel(j, r) ==
  /\ judging[j] = NotJudging /\ Refreshable(r)
  /\ panels > 0 /\ panels' = panels - 1
  /\ judging' = [judging EXCEPT ![j] = [@ EXCEPT !.at = "panel", !.run = r, !.copy = summary[r]]]

TickJudges(r) ==
  /\ gateway.at = "rejudge" /\ retry[r] = "due" /\ summary[r] # Absent
  /\ Refreshable(r) => summary[r].replacement = "none"
  /\ StartPanel("tick", r)
  /\ gateway' = [gateway EXCEPT !.at = "judged"]
  /\ UNCHANGED <<ending, run, fileVars, hand, build, apiVars, store, hands, faults>>

(* A run that is to be replaced is not judged again.                       *)
TickSkips(r) ==
  /\ gateway.at = "rejudge" /\ retry[r] = "due" /\ Refreshable(r)
  /\ summary[r].replacement = "due"
  /\ retry' = [retry EXCEPT ![r] = "skipped"]
  /\ Summarised(r, [summary[r] EXCEPT !.judgement = "not_judged", !.judgement_retry = "skipped"])
  /\ gateway' = [gateway EXCEPT !.at = "judged"]
  /\ UNCHANGED <<ending, run, lifecycle, logs, ledger, season, snapshot, hand, judging, build, store,
                 countVars>>

HandJudges(r) ==
  /\ hands > 0 /\ hands' = hands - 1
  /\ StartPanel("hand", r)
  /\ UNCHANGED <<ending, run, fileVars, gateway, hand, build, apiVars, store, faults>>

(* A panel that was out of reach leaves a fallback, deferred just after.   *)
WriteJudgement(j, verdict) ==
  /\ judging[j].at = "panel"
  /\ Summarised(judging[j].run,
       [judging[j].copy EXCEPT !.adjusted = lifecycle[judging[j].run],
          !.judgement = IF verdict = "deferred" THEN "fallback" ELSE verdict])
  /\ judging' = [judging EXCEPT ![j] = [@ EXCEPT !.at = "mark", !.copy = Absent, !.verdict = verdict]]
  /\ UNCHANGED <<ending, run, retry, lifecycle, logs, ledger, season, snapshot, gateway, hand, build,
                 store, countVars>>

(* The retry's outcome; a deferred one is due again or given up, by the    *)
(* number of attempts.                                                     *)
MarkRetry(j, status) ==
  /\ judging[j].at = "mark"
  /\ LET r == judging[j].run
         v == judging[j].verdict
     IN /\ status \in (IF v = "deferred" THEN {"due", "failed"}
                       ELSE IF retry[r] = "none" THEN {"none"} ELSE {"succeeded"})
        /\ IF status = "none" THEN UNCHANGED <<summary, retry, apiVars>>
           ELSE /\ retry' = [retry EXCEPT ![r] = status]
                /\ Summarised(r, [summary[r] EXCEPT !.judgement_retry = status,
                     !.judgement = CASE status = "due" -> "deferred"
                                     [] status = "failed" -> "failed"
                                     [] OTHER -> @])
  /\ judging' = [judging EXCEPT ![j] = NotJudging]
  /\ UNCHANGED <<ending, run, lifecycle, logs, ledger, season, snapshot, gateway, hand, build, store,
                 countVars>>

(* Every tick ends with a rebuild.                                         *)
RebuildsLast == IF season = "completed" THEN "rebuild" ELSE "asleep"
Rebuilds == "rebuild"
RejudgeDone ==
  /\ gateway.at \in {"rejudge", "judged"} /\ judging["tick"] = NotJudging
  /\ gateway' = [Asleep EXCEPT !.at = Rebuilds]
  /\ GatewayOnly

(* An exception ends the tick; its handler rebuilds too.                   *)
Handler == [Asleep EXCEPT !.at = "rebuild", !.handler = TRUE]
TickRaises ==
  /\ gateway.at \in {"sync", "poll", "save", "rejudge"} /\ Fail
  /\ gateway' = Handler
  /\ UNCHANGED <<ending, run, fileVars, hand, judging, build, apiVars, store, panels, hands>>

-----------------------------------------------------------------------------
(* A rebuild by b: the summaries are listed, read one after the other,     *)
(* then the logs, the snapshot and the season, and the tables are replaced *)
(* in one transaction.                                                     *)
Listed == {r \in Runs : summary[r] # Absent}
StartBuild(b) ==
  /\ b \in Builders /\ build[b] = NotBuilding
  /\ build' = [build EXCEPT ![b] = [at |-> "files", left |-> Listed, seen |-> Nothing]]

GatewayRebuilds ==
  /\ gateway.at = "rebuild"
  /\ gateway' = [gateway EXCEPT !.at = "rebuilding"]
  /\ StartBuild("gateway")
  /\ UNCHANGED <<ending, run, fileVars, hand, judging, apiVars, store, countVars>>

HandRebuilds ==
  /\ hands > 0 /\ hands' = hands - 1
  /\ StartBuild("hand")
  /\ UNCHANGED <<ending, run, fileVars, gateway, hand, judging, apiVars, store, panels, faults>>

ReadSummary(b) ==
  /\ build[b].at = "files" /\ build[b].left # {}
  /\ LET r == Min(build[b].left)
     IN build' = [build EXCEPT ![b].left = @ \ {r}, ![b].seen.files[r] = summary[r]]
  /\ UNCHANGED <<ending, run, fileVars, gateway, hand, judging, apiVars, store, countVars>>

ReadTheRest(b) ==
  /\ build[b].at = "files" /\ build[b].left = {}
  /\ LET seen == [build[b].seen EXCEPT !.logs = logs, !.snapshot = snapshot, !.state = season]
     IN build' = [build EXCEPT ![b] = [@ EXCEPT !.at = "store", !.seen = seen]]
  /\ UNCHANGED <<ending, run, fileVars, gateway, hand, judging, apiVars, store, countVars>>

(* What b does once its rebuild is over.  The gateway's loop is over after *)
(* the rebuild of a tick that saw the season completed, and it stops the   *)
(* API then; if a rebuild fails the exception's handler makes another, and *)
(* lets it fail.  An API that cannot build its tables at the start exits.  *)
Afterwards(b, ok) ==
  /\ gateway' = IF b # "gateway" THEN gateway
                ELSE IF ~ok /\ ~gateway.handler THEN Handler
                ELSE [Asleep EXCEPT !.at = IF ok /\ gateway.last THEN "ended" ELSE "asleep"]
  /\ watcher' = IF b = "gateway" /\ ok /\ gateway.last THEN "off"
                ELSE IF b = "watcher" /\ ok /\ watcher = "booting" THEN "ready"
                ELSE IF b = "watcher" /\ ~ok /\ watcher = "booting" THEN "starting"
                ELSE watcher
  /\ build' = [build EXCEPT ![b] = NotBuilding]

StoreTables(b) ==
  /\ build[b].at = "store"
  /\ store' = Tables(build[b].seen)
  /\ Afterwards(b, TRUE)
  /\ UNCHANGED <<ending, run, fileVars, hand, judging, dirty, countVars>>

(* The database is locked, or a file goes away.  The tables stay.          *)
BuildFails(b) ==
  /\ build[b].at = "store" /\ Fail
  /\ Afterwards(b, FALSE)
  /\ UNCHANGED <<ending, run, fileVars, hand, judging, dirty, store, panels, hands>>

-----------------------------------------------------------------------------
(* The read API builds the tables once, then starts to watch; what changes *)
(* in between it is not told of.  If watching breaks it polls instead, and *)
(* takes the first look for a change.  A failed rebuild is not repeated.   *)
ApiStarts ==
  /\ watcher = "starting" /\ watcher' = "booting"
  /\ StartBuild("watcher")
  /\ UNCHANGED <<ending, run, fileVars, gateway, hand, judging, dirty, store, countVars>>

WatchBegins ==
  /\ watcher = "ready" /\ watcher' = "watching" /\ dirty' = FALSE
  /\ UNCHANGED <<ending, run, fileVars, gateway, hand, judging, build, store, countVars>>

WatchBreaks ==
  /\ watcher = "watching" /\ build["watcher"] = NotBuilding /\ Fail
  /\ watcher' = "polling" /\ dirty' = TRUE
  /\ UNCHANGED <<ending, run, fileVars, gateway, hand, judging, build, store, panels, hands>>

WatcherRebuilds ==
  /\ watcher \in {"watching", "polling"} /\ dirty /\ dirty' = FALSE
  /\ StartBuild("watcher")
  /\ UNCHANGED <<ending, run, fileVars, gateway, hand, judging, watcher, store, countVars>>

(* The API dies; the gateway starts another.                               *)
ApiExits ==
  /\ watcher \in {"booting", "ready", "watching", "polling"} /\ Fail
  /\ watcher' = "starting" /\ dirty' = FALSE
  /\ build' = [build EXCEPT !["watcher"] = NotBuilding]
  /\ UNCHANGED <<ending, run, fileVars, gateway, hand, judging, store, panels, hands>>

-----------------------------------------------------------------------------
(* `season complete`: the board of the moment is written in place, then    *)
(* the season is completed, unless it is refused or the command dies.      *)
SnapshotTorn ==
  /\ hand = "idle" /\ season = "active" /\ hands > 0 /\ hands' = hands - 1
  /\ hand' = "freezing" /\ snapshot' = Torn
  /\ UNCHANGED <<ending, run, summary, retry, lifecycle, logs, ledger, season, gateway, judging, build,
                 apiVars, store, panels, faults>>

SnapshotWritten ==
  /\ hand = "freezing"
  /\ hand' = "frozen" /\ snapshot' = Snapshot(summary)
  /\ UNCHANGED <<ending, run, summary, retry, lifecycle, logs, ledger, season, gateway, judging, build,
                 apiVars, store, countVars>>

(* Open pull requests refuse the transition unless it is forced.           *)
Complete(force) ==
  /\ hand = "frozen" /\ hand' = "idle"
  /\ season' = IF force \/ \A r \in Runs : ledger[r] # "open" THEN "completed" ELSE season
  /\ UNCHANGED <<ending, run, summary, retry, lifecycle, logs, ledger, snapshot, gateway, judging,
                 build, apiVars, store, countVars>>

HandDies ==
  /\ hand # "idle" /\ Fail /\ hand' = "idle"
  /\ UNCHANGED <<ending, run, fileVars, gateway, judging, build, apiVars, store, panels, hands>>

-----------------------------------------------------------------------------
RunnerStep == \E r \in Runs : BeginSummary(r) \/ EndSummary(r) \/ RunnerDies(r)
JudgeStep(j) ==
  \/ \E v \in {"judged", "fallback", "deferred"} : WriteJudgement(j, v)
  \/ \E s \in RetryStates : MarkRetry(j, s)
BuildStep(b) == ReadSummary(b) \/ ReadTheRest(b) \/ StoreTables(b)
TickStep ==
  \/ WakeUp \/ SyncTerminal \/ WriteOutcome \/ Poll \/ SaveLedger \/ PollDone
  \/ \E r \in Runs, s \in Outcomes : Observe(r, s)
  \/ \E r \in Runs : TickJudges(r) \/ TickSkips(r)
  \/ RejudgeDone \/ GatewayRebuilds
WatcherStep == ApiStarts \/ WatchBegins \/ WatchBreaks \/ WatcherRebuilds \/ ApiExits
HandStep ==
  \/ \E r \in Runs : HandJudges(r)
  \/ HandRebuilds \/ SnapshotTorn \/ SnapshotWritten \/ HandDies
  \/ \E force \in BOOLEAN : Complete(force)

Next ==
  \/ RunnerStep \/ TickStep \/ TickRaises \/ WatcherStep \/ HandStep
  \/ \E j \in Judges : JudgeStep(j)
  \/ \E b \in Builders : BuildStep(b) \/ BuildFails(b)

(* The gateway's loop goes on, and so does what it waits for.              *)
Spec ==
  /\ Init /\ [][Next]_vars
  /\ WF_vars(TickStep) /\ WF_vars(JudgeStep("tick")) /\ WF_vars(BuildStep("gateway"))

-----------------------------------------------------------------------------
(* Every variable has its type.                                            *)
File == Summary \cup {Absent, Torn}
TypeOK ==
  /\ run \in [Runs -> {"running", "writing", "judging", "rewriting", "ended", "dead"}]
  /\ \A r \in Runs : ending[r] \in Ending /\ summary[r] \in File
  /\ retry \in [Runs -> RetryStates]
  /\ lifecycle \in [Runs -> PrStates] /\ ledger \in [Runs -> PrStates]
  /\ logs \in [Runs -> PrStates \cup {"unknown"}]
  /\ season \in {"active", "completed"} /\ hand \in {"idle", "freezing", "frozen"}
  /\ snapshot.there \in {"absent", "torn", "whole"}
  /\ gateway.at \in {"asleep", "sync", "poll", "save", "rejudge", "judged", "rebuild",
                     "rebuilding", "ended"}
  /\ gateway.copy \in File
  /\ \A j \in Judges : judging[j].at \in {"idle", "panel", "mark"} /\ judging[j].copy \in File
  /\ \A b \in Builders : build[b].at \in {"idle", "files", "store"} /\ build[b].left \subseteq Runs
  /\ watcher \in {"starting", "booting", "ready", "watching", "polling", "off"}
  /\ dirty \in BOOLEAN
  /\ {panels, hands, faults} \subseteq Nat

(* The tables tell one story, however many files changed while they were   *)
(* read: the leaderboard, the participants, the season's row and the       *)
(* totals count the same runs, those that are served with no reason not to *)
(* be ranked, though the code decides in three places which runs are       *)
(* ranked; the exported files say the same; and the board and totals the   *)
(* API works out anew are the stored ones, while no snapshot hides the     *)
(* board and one page holds all runs.                                      *)
SumOf(f, V(_)) == MapThenSumSet(LAMBDA p : V(f[p]), DOMAIN f)
OneTruth ==
  /\ SumOf(store.participants, LAMBDA w : w.runs) = store.stats.runs
  /\ SumOf(store.participants, LAMBDA w : w.merged) = store.stats.merged
  /\ Counted(store.runs, LAMBDA s : RankingExclusionReason(s) = "") = store.stats.runs
  /\ store.season.runs = store.stats.runs
  /\ store.season.participants = Cardinality(DOMAIN store.participants)
  /\ ~store.season.frozen =>
       /\ DOMAIN store.leaderboard = DOMAIN store.participants
       /\ \A p \in DOMAIN store.leaderboard :
            store.leaderboard[p].arena = store.participants[p].arena
  /\ \A b \in Builders : build[b].at = "store" => Exported(build[b].seen) = Tables(build[b].seen)
  /\ Cardinality(DOMAIN store.runs) <= PageLimit =>
       /\ ApiStats(store) = store.stats
       /\ ~store.season.frozen => ApiLeaderboard(store) = store.leaderboard

(* While the gateway ticks, the tables come to say what the files say, and *)
(* stay so: no stale rebuild by the watcher or the operator, no failed     *)
(* one, no missed change and no half-written file has the last word.       *)
Now == [files |-> summary, logs |-> logs, snapshot |-> snapshot, state |-> season]
CatchesUp == <>[](gateway.at = "ended" \/ store = Tables(Now))

(* While the season runs, a pull request the ledger knows to be merged or  *)
(* closed comes to be so in its run's summary, and its adjustment with it, *)
(* even if the runner or a judgement wrote back a summary read before.     *)
OutcomeReachesSummary ==
  \A r \in Runs : <>[](\/ gateway.at = "ended"
                       \/ ledger[r] \notin Terminal
                       \/ Unreadable(r)
                       \/ summary[r].pr = ledger[r] /\ summary[r].adjusted = ledger[r])
=============================================================================
