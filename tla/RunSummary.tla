------------------------------ MODULE RunSummary -------------------------------
(***************************************************************************)
(* What a run leaves in run_summary.json and what the public tables make   *)
(* of a list of such files: which runs are ranked, the leaderboard, the    *)
(* season and participant rows, the totals and the pull request rows.      *)
(* All runs here belong to one season; ReadModel says who writes the files *)
(* and when they are read.                                                 *)
(*                                                                         *)
(* An operator that no other definition uses is a faulty variant of the    *)
(* one that follows it, to show that a property can fail.                  *)
(***************************************************************************)
EXTENDS Integers, FiniteSets, FiniteSetsExt

CONSTANTS
  Runs,           \* the runs, numbered in the order they started
  Participants,   \* the participants of the season
  ParticipantOf,  \* whose run it is
  PageLimit       \* most rows one query of the runs table returns (500)

ASSUME RunConstants ==
  /\ IsFiniteSet(Runs) /\ Runs \subseteq Nat
  /\ ParticipantOf \in [Runs -> Participants]
  /\ PageLimit \in Nat \ {0}

-----------------------------------------------------------------------------
(* How a run ended: its terminal status and layer, the kinds of rows in    *)
(* live_action_log.jsonl, whether the terminal message is that of a        *)
(* provider out of reach, and what the judges say of it when they are      *)
(* asked first.                                                            *)
Rows == {"opened", "updated", "quality", "governance", "identity",
         "transient", "infra", "other"}
Ending ==
  [status : {"completed", "failed", "blocked"},
   layer : {"agent", "model_runtime", "pr", "quality", "workspace", "budget"},
   interrupted : BOOLEAN, live : BOOLEAN, rows : SUBSET Rows, transient : BOOLEAN,
   verdict : {"judged", "fallback", "deferred"}]

(* The first rule that applies.                                            *)
SubmissionOutcome(e) ==
  LET rules == <<
        <<"opened" \in e.rows, "opened_pr">>,
        <<"updated" \in e.rows, "updated_pr">>,
        <<"quality" \in e.rows, "no_pr_quality_blocked">>,
        <<"governance" \in e.rows, "no_pr_governance_blocked_agent">>,
        <<"identity" \in e.rows, "no_pr_identity_mismatch">>,
        <<e.rows \cap {"transient", "infra"} # {}, "no_pr_infrastructure_failure">>,
        <<e.interrupted, "run_interrupted">>,
        <<e.layer = "model_runtime", "no_pr_provider_failure">>,
        <<e.rows # {}, "no_pr_agent_failure">>,
        <<e.status = "completed", "">>,
        <<TRUE, "no_pr_agent_failure">> >>
  IN rules[Min({i \in DOMAIN rules : rules[i][1]})][2]

RankingPolicy(outcome) ==
  outcome \in {"", "opened_pr", "updated_pr", "no_pr_agent_failure",
               "no_pr_quality_blocked", "no_pr_governance_blocked_agent"}

(* replacement_state.json, or else what the summary infers by itself.      *)
ReplacementDue(e) == e.layer = "model_runtime" /\ e.transient
Replacement(e) ==
  IF ReplacementDue(e) \/ (e.layer = "pr" /\ e.transient) THEN "due" ELSE "none"

(* live_submission_retry_state.json: a live run that opened nothing and    *)
(* met a transient failure on the way.                                     *)
LiveRetry(e) ==
  IF e.live /\ e.status # "completed" /\ "opened" \notin e.rows /\ "transient" \in e.rows
  THEN "due" ELSE "none"

JudgementEligible(e) ==
  /\ e.layer \notin {"workspace", "budget"}
  /\ ~ReplacementDue(e)
  /\ e.status = "completed" \/ e.layer \in {"agent", "quality", "pr", "model_runtime"}

(* Without a judgement the summary says not_judged.  The copy of           *)
(* judgement_retry_state.json goes with it.                                *)
PullRequest(e) == IF "opened" \in e.rows THEN "open" ELSE "none"
RetryOfPending(verdict) == IF verdict = "deferred" THEN "pending" ELSE "none"
RetryOf(verdict) == IF verdict = "deferred" THEN "due" ELSE "none"

RetryStates == {"none", "due", "succeeded", "failed", "skipped"}

(* adjusted: the pull request state the real-world adjustment of the score *)
(* was worked out from.  The adjustment of maintainers' answers short of   *)
(* merging or closing is left out.                                         *)
Summary ==
  [status : {"completed", "failed", "blocked"}, eligible : BOOLEAN,
   replacement : {"none", "due"}, live_retry : {"none", "due"},
   judgement_retry : RetryStates,
   judgement : {"not_judged", "judged", "fallback", "deferred", "failed"},
   pr : {"none", "open", "merged", "closed"},
   adjusted : {"none", "open", "merged", "closed"}]

build_run_summary(e, verdict, adjusted) ==
  [status |-> e.status,
   eligible |-> RankingPolicy(SubmissionOutcome(e)),
   replacement |-> Replacement(e), live_retry |-> LiveRetry(e),
   judgement_retry |-> RetryOf(verdict), judgement |-> verdict,
   pr |-> PullRequest(e), adjusted |-> adjusted]

-----------------------------------------------------------------------------
(* A file that is not there, or caught half written, is no row.            *)
Absent == [there |-> "absent"]
Torn == [there |-> "torn"]
Readable(files) == {r \in Runs : files[r] \notin {Absent, Torn}}
LoadRuns(files) == [r \in Readable(files) |-> files[r]]

Scored(s) == s.judgement \in {"judged", "fallback"}
RankingExcluded(s) ==
  \/ ~s.eligible
  \/ s.replacement = "due"
  \/ s.judgement_retry = "due" \/ s.judgement = "deferred"
  \/ s.live_retry = "due"

(* read_model.py decides with a copy of its own, and gives every run it    *)
(* serves the reason of a third.                                           *)
RankingExcludedHereNoRetry(s) == ~s.eligible \/ s.replacement = "due" \/ s.live_retry = "due"
RankingExcludedHere(s) ==
  \/ ~s.eligible
  \/ s.replacement = "due"
  \/ s.judgement_retry = "due" \/ s.judgement = "deferred"
  \/ s.live_retry = "due"
RankingExclusionReason(s) ==
  LET reasons == <<
        <<~s.eligible, "ineligible">>,
        <<s.replacement = "due", "replacement_due">>,
        <<s.judgement_retry = "due", "judgement_retry_due">>,
        <<s.judgement = "deferred", "judgement_deferred">>,
        <<s.live_retry = "due", "live_submission_retry_due">>,
        <<TRUE, "">> >>
  IN reasons[Min({i \in DOMAIN reasons : reasons[i][1]})][2]

PrOpened(s) == s.pr \in {"open", "closed", "merged"}
Merged(s) == s.pr = "merged"

Counted(rows, P(_)) == Cardinality({r \in DOMAIN rows : P(rows[r])})
(* The scores that enter a mean: how many, by the outcome they were        *)
(* adjusted for.                                                           *)
Arena(rows) ==
  [o \in {"none", "open", "merged", "closed"} |->
     Cardinality({r \in DOMAIN rows : Scored(rows[r]) /\ rows[r].adjusted = o})]

RowsOf(rows, p) == [r \in {q \in DOMAIN rows : ParticipantOf[q] = p} |-> rows[r]]
Agents(rows) == {ParticipantOf[r] : r \in DOMAIN rows}
Without(rows, X(_)) == [r \in {q \in DOMAIN rows : ~X(rows[q])} |-> rows[r]]

LeaderboardRow(rows) ==
  [runs |-> Cardinality(DOMAIN rows), prs |-> Counted(rows, PrOpened),
   merged |-> Counted(rows, Merged), judged |-> Counted(rows, Scored), arena |-> Arena(rows)]
Leaderboard(runs) ==
  LET rows == Without(runs, RankingExcluded)
  IN [p \in Agents(rows) |-> LeaderboardRow(RowsOf(rows, p))]

(* leaderboard_snapshot.json: absent, torn (read as an empty board), or    *)
(* the board of the moment it was taken.  While there is a file the season *)
(* is shown as frozen and its live rows are not used.                      *)
NoSnapshot == [there |-> "absent"]
ApplyFrozen(snapshot, board) ==
  IF snapshot = NoSnapshot THEN board
  ELSE IF snapshot = Torn THEN << >>
  ELSE snapshot.leaderboard
Snapshot(files) == [there |-> "whole", leaderboard |-> Leaderboard(LoadRuns(files))]

ParticipantRow(rows) ==
  [runs |-> Cardinality(DOMAIN rows), prs |-> Counted(rows, PrOpened),
   merged |-> Counted(rows, Merged), arena |-> Arena(rows),
   failures |-> Counted(rows, LAMBDA s : s.status # "completed"),
   latest |-> Max(DOMAIN rows)]
ParticipantRowsOf(rows) == [p \in Agents(rows) |-> ParticipantRow(RowsOf(rows, p))]
ParticipantRows(runs) == ParticipantRowsOf(Without(runs, RankingExcludedHere))

(* The season's row: from the ranked runs, then from season_state.json.    *)
SeasonOf(rows) ==
  [runs |-> Cardinality(DOMAIN rows), participants |-> Cardinality(Agents(rows)),
   status |-> "unknown", frozen |-> FALSE]
SeasonRow(runs) == SeasonOf(Without(runs, RankingExcludedHere))
MergeSeasonState(row, seen) ==
  [row EXCEPT !.status = seen.state, !.frozen = seen.snapshot # NoSnapshot]

Stats(runs) ==
  LET rows == Without(runs, RankingExcluded)
  IN [runs |-> Cardinality(DOMAIN rows), prs |-> Counted(rows, PrOpened),
      merged |-> Counted(rows, Merged), judged |-> Counted(rows, Scored)]

(* One row for a pull request: its latest entry in pr_review_log.jsonl, or *)
(* what the summary says when the log is empty.  The runner's own entry    *)
(* says that it was opened and no more: its state is "unknown".            *)
PrRows(runs, logs) ==
  [r \in {q \in DOMAIN runs : logs[q] # "none" \/ runs[q].pr # "none"} |->
     IF logs[r] # "none" THEN logs[r] ELSE runs[r].pr]

(* Everything a rebuild stores, from what it has read.                     *)
Tables(seen) ==
  LET runs == LoadRuns(seen.files)
  IN [runs |-> runs,
      leaderboard |-> ApplyFrozen(seen.snapshot, Leaderboard(runs)),
      participants |-> ParticipantRows(runs),
      season |-> MergeSeasonState(SeasonRow(runs), seen),
      stats |-> Stats(runs),
      prs |-> PrRows(runs, seen.logs)]

(* The JSON files of `surface index`, which makes its own season and       *)
(* participant rows.                                                       *)
ExportedSeason(runs) == SeasonOf(Without(runs, RankingExcluded))
ExportedParticipants(runs) == ParticipantRowsOf(Without(runs, RankingExcluded))
Exported(seen) ==
  LET runs == LoadRuns(seen.files)
  IN [runs |-> runs,
      leaderboard |-> ApplyFrozen(seen.snapshot, Leaderboard(runs)),
      participants |-> ExportedParticipants(runs),
      season |-> MergeSeasonState(ExportedSeason(runs), seen),
      stats |-> Stats(runs),
      prs |-> PrRows(runs, seen.logs)]

(* A query of the runs table: the newest, PageLimit at most, whatever      *)
(* limit was asked for.                                                    *)
Page(tables) ==
  LET all == DOMAIN tables.runs
  IN [r \in {q \in all : Cardinality({n \in all : n > q}) < PageLimit} |-> tables.runs[r]]
ApiLeaderboard(tables) == Leaderboard(Page(tables))
ApiStats(tables) == Stats(Page(tables))
=============================================================================
