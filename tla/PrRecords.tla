-------------------------------- MODULE PrRecords --------------------------------
(***************************************************************************)
(* One participant's pr_history.json (GovernanceState): the PR references  *)
(* that count against the rate limits, and the lifecycle record kept for   *)
(* each PR.  Nothing here has state; PrLedger runs the processes that      *)
(* load, change and save such a ledger.                                    *)
(*                                                                         *)
(* Lists become functions on PR numbers: the references to a PR keep their *)
(* order (update_governance_pr_state changes only the first), the records  *)
(* are at most one per PR (upsert_lifecycle_record).  Instants become the  *)
(* number of poll intervals left until next_poll_at.  Left out because no  *)
(* code path depends on them: commit, branch and url fields, CI, the text  *)
(* of signals, attempts other than through the choice to block.            *)
(* "rejected" needs a rejection signal, which nothing under src/ records.  *)
(***************************************************************************)
EXTENDS Naturals, Sequences, FiniteSets

CONSTANTS
  PRs,         \* PR numbers in the one repository considered
  MaxOpenPrs   \* rate_limits.max_open_prs_per_repo

ASSUME RecordConstants == IsFiniteSet(PRs) /\ MaxOpenPrs \in Nat

PrStates == {"open", "merged", "closed"}
Statuses == {"tracking", "needs_response", "merged", "closed", "failed"}

(* PrLifecycleRecord; Untracked stands for having none.                    *)
Untracked == [state |-> "none", status |-> "none", wait |-> 0, retries |-> 0]
LifeRecord == [state : PrStates, status : Statuses, wait : 0..4, retries : 0..3]

Ledger == [refs : [PRs -> Seq(PrStates)], life : [PRs -> LifeRecord \cup {Untracked}]]

Fresh == [state |-> "open", status |-> "tracking", wait |-> 0, retries |-> 0]

IsTracked(l, pr) == l.life[pr] # Untracked

-----------------------------------------------------------------------------
(* external_lifecycle.py                                                   *)

(* What a poll may say: the state GitHub gives, or an answer that is not   *)
(* ok, which is what the client makes of every HTTP error and timeout.     *)
Answers == PrStates \cup {"not_ok"}

GithubStateAsAnswered(answer) == answer

GithubStateNotOkCloses(answer) == IF answer = "not_ok" THEN "closed" ELSE answer

GithubStateOf(answer) == IF answer = "not_ok" THEN "open" ELSE answer

Classify(answer, changesRequested) ==
  CASE answer = "not_ok" -> "failed"
    [] answer \in {"merged", "closed"} -> answer
    [] answer = "open" /\ changesRequested -> "needs_response"
    [] OTHER -> "tracking"

Observed(answer, changesRequested) ==
  [state |-> GithubStateOf(answer), status |-> Classify(answer, changesRequested),
   wait |-> 1, retries |-> 0]

(* A poll that raises: min(2^(retries - 1), 4), that is 1, 2, 4, 4, ...    *)
(* intervals.  The third retry reaches the ceiling; the count is not kept  *)
(* beyond it.                                                              *)
Backoff(retries) == IF retries <= 2 THEN retries ELSE 4

ObservationFailed(r) ==
  LET n == IF r.retries < 3 THEN r.retries + 1 ELSE 3
  IN  [r EXCEPT !.retries = n, !.wait = Backoff(n)]

DueUnlessAnswered(l) ==
  {pr \in PRs : /\ IsTracked(l, pr)
                /\ l.life[pr].status \notin {"needs_response", "merged", "closed", "failed"}
                /\ l.life[pr].wait = 0}

DueTerminalToo(l) == {pr \in PRs : IsTracked(l, pr) /\ l.life[pr].wait = 0}

Due(l) ==
  {pr \in PRs : /\ IsTracked(l, pr)
                /\ l.life[pr].status \notin {"merged", "closed", "failed"}
                /\ l.life[pr].wait = 0}

-----------------------------------------------------------------------------
(* middleware/governance.py and the helpers of the lifecycle tick          *)

OpenRefs(l) == {r \in PRs \X UNION {DOMAIN l.refs[pr] : pr \in PRs} :
                  r[2] \in DOMAIN l.refs[r[1]] /\ l.refs[r[1]][r[2]] = "open"}

UnderLimitOffByOne(l) == Cardinality(OpenRefs(l)) <= MaxOpenPrs

UnderLimit(l) == Cardinality(OpenRefs(l)) < MaxOpenPrs

(* evaluate_pr_open.  consent: mode, kill switches, quality, class, branch, *)
(* maintainers' signals, daily limits and cool-downs have no objection.    *)
MayOpen(l, consent) == consent /\ UnderLimit(l)

(* A lifecycle record is terminal.  A failed one is, and stays "open".     *)
IsTerminal(r) == r.state \in {"merged", "closed"} \/ r.status \in {"merged", "closed", "failed"}

PrStateOf(r) ==
  CASE "merged" \in {r.state, r.status} -> "merged"
    [] "merged" \notin {r.state, r.status} /\ "closed" \in {r.state, r.status} -> "closed"
    [] OTHER -> "open"

Upsert(l, pr, r) == [l EXCEPT !.life[pr] = r]

(* record_governance_pr appends a reference even when there is one.        *)
RecordRef(l, pr) == [l EXCEPT !.refs[pr] = Append(@, "open")]

RecordPr(l, pr) == Upsert(RecordRef(l, pr), pr, Fresh)

(* update_governance_pr_state: the first reference only.                   *)
UpdateFirstRef(l, pr, state) ==
  IF l.refs[pr] = <<>> THEN l ELSE [l EXCEPT !.refs[pr][1] = state]

(* _backfill_lifecycle_records: references without a record get one.       *)
Backfilled(l) ==
  [l EXCEPT !.life = [pr \in PRs |-> IF l.refs[pr] # <<>> /\ ~IsTracked(l, pr)
                                     THEN Fresh ELSE l.life[pr]]]

(* _sync_governance_pr_ref_state, for every terminal record.               *)
RefsSynced(l) ==
  [l EXCEPT !.refs = [pr \in PRs |-> IF IsTracked(l, pr) /\ IsTerminal(l.life[pr])
                                     THEN [i \in DOMAIN l.refs[pr] |-> PrStateOf(l.life[pr])]
                                     ELSE l.refs[pr]]]

(* The counts _refresh_participant_pr_counts writes.                       *)
CountsOf(l) ==
  [opened |-> Cardinality({pr \in PRs : IsTracked(l, pr) \/ l.refs[pr] # <<>>}),
   merged |-> Cardinality({pr \in PRs : \/ IsTracked(l, pr) /\ PrStateOf(l.life[pr]) = "merged"
                                        \/ \E i \in DOMAIN l.refs[pr] : l.refs[pr][i] = "merged"})]

(* The counts a run that ends writes, which seasons.py takes from the file *)
(* by a reading of its own: references and records alike have a state, and *)
(* a record's lifecycle_status is looked at too.                           *)
Entries(l, pr) ==
  {[state |-> l.refs[pr][i], status |-> "none"] : i \in DOMAIN l.refs[pr]}
    \cup (IF IsTracked(l, pr) THEN {[state |-> l.life[pr].state, status |-> l.life[pr].status]}
          ELSE {})
ParticipantPrCounts(l) ==
  [opened |-> Cardinality({pr \in PRs : Entries(l, pr) # {}}),
   merged |-> Cardinality({pr \in PRs : \E e \in Entries(l, pr) :
                                           e.state = "merged" \/ e.status = "merged"})]

(* One poll interval has passed.                                           *)
Aged(l) ==
  [l EXCEPT !.life = [pr \in PRs |-> IF l.life[pr].wait = 0 THEN l.life[pr]
                                     ELSE [l.life[pr] EXCEPT !.wait = @ - 1]]]
==================================================================================
