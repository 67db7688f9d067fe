-------------------------------- MODULE PrLedger ---------------------------------
(***************************************************************************)
(* The life of a participant's pull requests: github_open_pr opens them    *)
(* for a run, the external lifecycle tick polls GitHub until they are      *)
(* settled and passes the outcome on to the run's summary, the             *)
(* participant's counts and, after the season, post_completion_outcomes.   *)
(* Both load pr_history.json, talk to GitHub, and save the whole ledger.   *)
(* `pr refresh` runs the tick in a process of its own.                     *)
(*                                                                         *)
(* GitHub and the maintainers are the environment.  A PR once closed is    *)
(* not reopened here.                                                      *)
(***************************************************************************)
EXTENDS PrRecords

CONSTANTS
  NoPr,        \* what a process that opens no PR has in the PR's place
  Procs,       \* processes: the gateway, an operator's `pr refresh`
  Overlap,     \* whether one process may load a ledger another will save
  Faults,      \* what may go wrong
  MaxCrashes   \* bound: processes killed

AllFaults == {"raises",      \* a poll raises
              "not_ok",      \* a poll, or the lookup, is answered ok=False
              "unverified",  \* the identity check of an opened PR is not ok
              "transient",   \* an open request fails, GitHub did nothing
              "lost",        \* an open request succeeds, its answer is lost
              "refused"}     \* GitHub refuses the request

ASSUME LedgerConstants ==
  /\ NoPr \notin PRs
  /\ Overlap \in BOOLEAN
  /\ Faults \subseteq AllFaults
  /\ MaxCrashes \in Nat

VARIABLES
  github,     \* github[pr]: "none" until the PR exists, then its state
  ledger,     \* pr_history.json
  summary,    \* summary[pr]: the PR's state in its run's run_summary.json, "none" without one
  counts,     \* prs_opened and merged_prs of participant_state.json
  outcomes,   \* outcomes[pr][s]: rows of post_completion_outcomes.jsonl with status s
  completed,  \* the season is completed
  proc,       \* what each process is executing
  crashes     \* processes killed so far (bounded by MaxCrashes)

vars == <<github, ledger, summary, counts, outcomes, completed, proc, crashes>>
derived == <<summary, counts, outcomes>>

LIVE_PR_RETRY_ATTEMPTS == 3

OpenPoints == {"blocked", "lookup", "create", "failed", "verify", "record", "summarize"}
TickPoints == {"presave", "poll", "save"}

Process == [pc : {"idle"} \cup OpenPoints \cup TickPoints,
            pr : PRs \cup {NoPr},            \* the PR being opened
            copy : Ledger,                   \* the ledger as loaded and changed since
            due : SUBSET PRs,                \* records still to poll
            tries : 0..LIVE_PR_RETRY_ATTEMPTS]

TypeOK ==
  /\ github \in [PRs -> {"none"} \cup PrStates]
  /\ ledger \in Ledger
  /\ summary \in [PRs -> {"none"} \cup PrStates]
  /\ counts \in [opened : Nat, merged : Nat]
  /\ outcomes \in [PRs -> [Statuses -> Nat]]
  /\ completed \in BOOLEAN
  /\ proc \in [Procs -> Process]
  /\ crashes \in Nat

EmptyLedger == [refs |-> [pr \in PRs |-> <<>>], life |-> [pr \in PRs |-> Untracked]]

Idle == [pc |-> "idle", pr |-> NoPr, copy |-> EmptyLedger, due |-> {}, tries |-> 0]

(* old: PRs of a ledger that has references but no lifecycle records yet.  *)
Init ==
  /\ \E old \in SUBSET PRs :
       /\ Cardinality(old) <= MaxOpenPrs
       /\ github = [pr \in PRs |-> IF pr \in old THEN "open" ELSE "none"]
       /\ summary = [pr \in PRs |-> IF pr \in old THEN "open" ELSE "none"]
       /\ ledger = [EmptyLedger EXCEPT !.refs = [pr \in PRs |-> IF pr \in old THEN <<"open">>
                                                                ELSE <<>>]]
       /\ counts = [opened |-> Cardinality(old), merged |-> 0]
  /\ outcomes = [pr \in PRs |-> [s \in Statuses |-> 0]]
  /\ completed = FALSE
  /\ proc = [p \in Procs |-> Idle]
  /\ crashes = 0

-----------------------------------------------------------------------------
At(p, point) == proc[p].pc = point
Become(p, r) == proc' = [proc EXCEPT ![p] = r]
Goto(p, point) == Become(p, [proc[p] EXCEPT !.pc = point])

(* p starts over, holding nothing.                                         *)
GoIdle(p) == Become(p, Idle)

MayStart(p) == At(p, "idle") /\ (Overlap \/ \A o \in Procs : At(o, "idle"))

-----------------------------------------------------------------------------
(* github_open_pr.  A participant has one run at a time.                   *)

(* The ledger is loaded and evaluate_pr_open decides.                      *)
StartOpen(p, pr) ==
  /\ MayStart(p)
  /\ \A o \in Procs : proc[o].pc \notin OpenPoints
  /\ github[pr] \in {"none", "open"}
  /\ \E consent \in BOOLEAN :
       Become(p, [Idle EXCEPT !.pc = IF MayOpen(ledger, consent) THEN "lookup" ELSE "blocked",
                              !.pr = pr, !.copy = ledger])
  /\ UNCHANGED <<github, ledger, derived, completed, crashes>>

(* A blocked or failed attempt is a row more in the ledger as loaded.      *)
SaveAttempt(p) ==
  /\ At(p, "blocked") \/ At(p, "failed")
  /\ ledger' = proc[p].copy
  /\ GoIdle(p)
  /\ UNCHANGED <<github, derived, completed, crashes>>

(* find_open_pr_by_head asks for open PRs only.                            *)
Found(pr) == github[pr] = "open"

(* No PR, or no answer: go on and create one.                              *)
Lookup(p) ==
  /\ At(p, "lookup")
  /\ \/ Found(proc[p].pr) /\ Goto(p, "verify")
     \/ (~Found(proc[p].pr) \/ "not_ok" \in Faults) /\ Goto(p, "create")
  /\ UNCHANGED <<github, ledger, derived, completed, crashes>>

(* A head whose PR has been settled gets a PR with another number.         *)
NewNumber(pr) == IF github[pr] = "none" THEN {pr} ELSE {n \in PRs : github[n] = "none"}

CreateOk(p) ==
  /\ github[proc[p].pr] # "open"
  /\ \E n \in NewNumber(proc[p].pr) :
       /\ github' = [github EXCEPT ![n] = "open"]
       /\ Become(p, [proc[p] EXCEPT !.pc = "verify", !.pr = n])

(* Refused: the branch has an open PR, or GitHub has another reason.       *)
CreateRefused(p) ==
  /\ github[proc[p].pr] = "open" \/ "refused" \in Faults
  /\ Goto(p, "failed")
  /\ UNCHANGED github

(* A transient error is tried again, at most three times in all.           *)
CreateTransient(p) ==
  /\ \/ "transient" \in Faults /\ UNCHANGED github
     \/ /\ "lost" \in Faults
        /\ github[proc[p].pr] = "none"
        /\ github' = [github EXCEPT ![proc[p].pr] = "open"]
  /\ LET tries == proc[p].tries + 1
     IN  Become(p, [proc[p] EXCEPT !.tries = tries,
                                   !.pc = IF tries < LIVE_PR_RETRY_ATTEMPTS THEN "create"
                                          ELSE "failed"])

Create(p) ==
  /\ At(p, "create")
  /\ CreateOk(p) \/ CreateRefused(p) \/ CreateTransient(p)
  /\ UNCHANGED <<ledger, derived, completed, crashes>>

(* _verify_pr_identity.  When it fails nothing is recorded.                *)
Verify(p) ==
  /\ At(p, "verify")
  /\ \/ Goto(p, "record")
     \/ "unverified" \in Faults /\ GoIdle(p)
  /\ UNCHANGED <<github, ledger, derived, completed, crashes>>

(* _record_open_pr_success.  The record names the run as the PR's own, and *)
(* that run has no summary yet.                                            *)
RecordOpen(p) ==
  /\ At(p, "record")
  /\ ledger' = RecordPr(proc[p].copy, proc[p].pr)
  /\ summary' = [summary EXCEPT ![proc[p].pr] = "none"]
  /\ Become(p, [Idle EXCEPT !.pc = "summarize", !.pr = proc[p].pr])
  /\ UNCHANGED <<github, counts, outcomes, completed, crashes>>

(* The run ends: its summary and the participant's counts.                 *)
EndRun(p) ==
  /\ At(p, "summarize")
  /\ summary' = [summary EXCEPT ![proc[p].pr] = "open"]
  /\ counts' = ParticipantPrCounts(ledger)
  /\ GoIdle(p)
  /\ UNCHANGED <<github, ledger, outcomes, completed, crashes>>

-----------------------------------------------------------------------------
(* _run_external_lifecycle_tick                                            *)

(* _update_originating_run_lifecycle_artifacts, for the PRs in S of l.     *)
SummariesOf(S, l) ==
  [pr \in PRs |-> IF pr \in S /\ ~completed /\ summary[pr] # "none"
                  THEN PrStateOf(l.life[pr]) ELSE summary[pr]]

OutcomesRepeated(S, l) ==
  [pr \in PRs |-> [s \in Statuses |->
     IF pr \in S /\ completed /\ l.life[pr].status = s /\ outcomes[pr][s] < 2
     THEN outcomes[pr][s] + 1 ELSE outcomes[pr][s]]]

(* _append_post_completion_outcome_if_needed                               *)
OutcomesOf(S, l) ==
  [pr \in PRs |-> [s \in Statuses |->
     IF pr \in S /\ completed /\ l.life[pr].status = s /\ outcomes[pr][s] = 0
     THEN 1 ELSE outcomes[pr][s]]]

Terminal(l) == {pr \in PRs : IsTracked(l, pr) /\ IsTerminal(l.life[pr])}

(* _sync_terminal_lifecycle_artifacts found something to bring up to date. *)
(* A summary that does not exist always needs an update.                   *)
Synced(l) ==
  \/ RefsSynced(l) # l
  \/ \E pr \in Terminal(l) : ~completed /\ summary[pr] # PrStateOf(l.life[pr])
  \/ OutcomesOf(Terminal(l), l) # outcomes
  \/ Terminal(l) # {} /\ counts # CountsOf(RefsSynced(l))

(* Load, backfill, bring the artifacts of terminal records up to date.     *)
StartTick(p) ==
  /\ MayStart(p)
  /\ LET l == Backfilled(ledger)
         synced == RefsSynced(l)
         next == CASE l # ledger \/ Synced(l) -> "presave"
                   [] ~(l # ledger \/ Synced(l)) /\ Due(synced) # {} -> "poll"
                   [] OTHER -> "idle"
     IN  /\ Become(p, IF next = "idle" THEN Idle
                         ELSE [Idle EXCEPT !.pc = next, !.copy = synced, !.due = Due(synced)])
         /\ summary' = SummariesOf(Terminal(l), l)
         /\ outcomes' = OutcomesOf(Terminal(l), l)
         /\ counts' = IF Terminal(l) # {} THEN CountsOf(synced) ELSE counts
  /\ UNCHANGED <<github, ledger, completed, crashes>>

PreSave(p) ==
  /\ At(p, "presave")
  /\ ledger' = proc[p].copy
  /\ IF proc[p].due = {} THEN GoIdle(p) ELSE Goto(p, "poll")
  /\ UNCHANGED <<github, derived, completed, crashes>>

(* The ledger copy after a poll of pr has changed it to l.                 *)
Polled(p, pr, l) ==
  Become(p, [proc[p] EXCEPT !.copy = l, !.due = @ \ {pr},
                            !.pc = IF proc[p].due = {pr} THEN "save" ELSE "poll"])

PollRaises(p, pr) ==
  /\ At(p, "poll") /\ pr \in proc[p].due
  /\ "raises" \in Faults
  /\ LET l == proc[p].copy
     IN  Polled(p, pr, Upsert(l, pr, ObservationFailed(l.life[pr])))
  /\ UNCHANGED <<github, ledger, derived, completed, crashes>>

PollAnswered(p, pr, answer, changesRequested) ==
  /\ At(p, "poll") /\ pr \in proc[p].due
  /\ LET r == Observed(answer, changesRequested)
         l == UpdateFirstRef(Upsert(proc[p].copy, pr, r), pr, r.state)
     IN  /\ Polled(p, pr, l)
         /\ summary' = SummariesOf({pr}, l)
         /\ outcomes' = OutcomesOf({pr}, l)
         /\ counts' = CountsOf(l)
  /\ UNCHANGED <<github, ledger, completed, crashes>>

(* The maintainers' answer, or GitHub's failure to give one.               *)
PollOk(p, pr) ==
  /\ github[pr] \in PrStates
  /\ \E changesRequested \in BOOLEAN : PollAnswered(p, pr, github[pr], changesRequested)

PollNotOk(p, pr) == "not_ok" \in Faults /\ PollAnswered(p, pr, "not_ok", FALSE)

SaveTick(p) ==
  /\ At(p, "save")
  /\ ledger' = proc[p].copy
  /\ GoIdle(p)
  /\ UNCHANGED <<github, derived, completed, crashes>>

-----------------------------------------------------------------------------
(* The environment.                                                        *)

Crash(p) ==
  /\ ~At(p, "idle")
  /\ crashes < MaxCrashes
  /\ crashes' = crashes + 1
  /\ GoIdle(p)
  /\ UNCHANGED <<github, ledger, derived, completed>>

Settle(pr, state) ==
  /\ github[pr] = "open"
  /\ state \in {"merged", "closed"}
  /\ github' = [github EXCEPT ![pr] = state]
  /\ UNCHANGED <<ledger, derived, completed, proc, crashes>>

(* `season complete --force`: completion does not wait for open PRs.       *)
CompleteSeason ==
  /\ ~completed
  /\ completed' = TRUE
  /\ UNCHANGED <<github, ledger, derived, proc, crashes>>

(* Time passes for every record, in the file and in memory.                *)
Interval ==
  /\ \E pr \in PRs : \/ ledger.life[pr].wait > 0
                     \/ \E p \in Procs : proc[p].copy.life[pr].wait > 0
  /\ ledger' = Aged(ledger)
  /\ proc' = [p \in Procs |-> [proc[p] EXCEPT !.copy = Aged(@)]]
  /\ UNCHANGED <<github, derived, completed, crashes>>

Opening(p) == \/ \E pr \in PRs : StartOpen(p, pr)
              \/ SaveAttempt(p) \/ Lookup(p) \/ Create(p) \/ Verify(p)
              \/ RecordOpen(p) \/ EndRun(p)

Ticking(p) == \/ StartTick(p) \/ PreSave(p) \/ SaveTick(p)
              \/ \E pr \in PRs : PollRaises(p, pr) \/ PollOk(p, pr) \/ PollNotOk(p, pr)

Next == \/ \E p \in Procs : Opening(p) \/ Ticking(p) \/ Crash(p)
        \/ \E pr \in PRs, state \in PrStates : Settle(pr, state)
        \/ CompleteSeason
        \/ Interval

Spec == Init /\ [][Next]_vars

(* The gateway's loop ticks for ever and executes what it began; GitHub    *)
(* does not fail one record's poll for ever.  Time passes.                 *)
Fairness ==
  /\ WF_vars(Interval)
  /\ \A p \in Procs :
       /\ SF_vars(StartTick(p))
       /\ WF_vars(SaveAttempt(p)) /\ WF_vars(Lookup(p)) /\ WF_vars(Create(p))
       /\ WF_vars(Verify(p)) /\ WF_vars(RecordOpen(p)) /\ WF_vars(EndRun(p))
       /\ WF_vars(PreSave(p)) /\ WF_vars(SaveTick(p))
       /\ \A pr \in PRs : SF_vars(PollOk(p, pr))

FairSpec == Spec /\ Fairness

-----------------------------------------------------------------------------
(* Properties.                                                             *)

NeverAheadOf(l, pr) ==
  /\ l.life[pr].state \in {"merged", "closed"} => github[pr] = l.life[pr].state
  /\ \A i \in DOMAIN l.refs[pr] :
       l.refs[pr][i] \in {"merged", "closed"} => github[pr] = l.refs[pr][i]

(* Whatever overlaps, crashes or fails: the ledger, every copy of it that  *)
(* will be saved, and the run summaries call a PR merged or closed only    *)
(* when the maintainers made it so.  A wrong outcome would be scored.      *)
OutcomesAreReal ==
  \A pr \in PRs :
    /\ NeverAheadOf(ledger, pr)
    /\ \A p \in Procs : NeverAheadOf(proc[p].copy, pr)
    /\ summary[pr] \in {"merged", "closed"} => github[pr] = summary[pr]
    /\ \A s \in {"merged", "closed"} : outcomes[pr][s] > 0 => github[pr] = s

(* A PR once in pr_history.json stays there, and once it is recorded as    *)
(* merged or closed no later save (of a tick that loaded earlier, of a run *)
(* that finds the PR again) takes that back.                               *)
NothingForgotten ==
  [][\A pr \in PRs :
       /\ IsTracked(ledger, pr) => IsTracked(ledger, pr)'
       /\ ledger.life[pr].state \in {"merged", "closed"}
            => ledger'.life[pr].state = ledger.life[pr].state
       /\ Len(ledger'.refs[pr]) >= Len(ledger.refs[pr])]_vars

(* post_completion_outcomes.jsonl gets a PR's outcome at most once however *)
(* often ticks observe or re-observe it, also after a crash between the    *)
(* row and the save of the ledger.                                         *)
OneRowPerOutcome == \A pr \in PRs, s \in Statuses : outcomes[pr][s] <= 1

(* max_open_prs_per_repo bounds the PRs that are open on GitHub, not just  *)
(* the rows of the ledger, unless a process was killed between opening a   *)
(* PR and recording it.                                                    *)
OpenPrsBounded ==
  crashes = 0 => Cardinality({pr \in PRs : github[pr] = "open"}) <= MaxOpenPrs

(* The outcome of PR pr is known everywhere it is kept.                    *)
OutcomeKnown(pr) ==
  /\ ledger.life[pr].state = github[pr]
  /\ \A i \in DOMAIN ledger.refs[pr] : ledger.refs[pr][i] = github[pr]
  /\ ~completed /\ summary[pr] # "none" => summary[pr] = github[pr]
  /\ \A s \in {"merged", "closed"} : completed /\ github[pr] = s => outcomes[pr][s] = 1
  /\ counts = CountsOf(ledger)

(* Every PR in the ledger that the maintainers merge or close ends up      *)
(* recorded as that, in the ledger, the run's summary or the               *)
(* post-completion outcomes, and the counts, in spite of polls that raise  *)
(* and of crashes.                                                         *)
OutcomesArrive ==
  \A pr \in PRs :
    (ledger.refs[pr] # <<>> /\ github[pr] \in {"merged", "closed"}) ~> OutcomeKnown(pr)

(* A failing observation of a PR is transient: it leaves the record one    *)
(* that will be polled again.                                              *)
FailuresAreTransient ==
  \A pr \in PRs : ledger.life[pr].status # "failed"
==================================================================================
