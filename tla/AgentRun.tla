-------------------------------- MODULE AgentRun --------------------------------
(***************************************************************************)
(* One ranked run, from the runner's try block to its end: the agent's     *)
(* invocations with the tools they call, the review after each of them,    *)
(* the state the run is declared to have ended in, and what is booked and  *)
(* written afterwards - a replacement, a retry of the submission, the      *)
(* summary, the judgement.  Goals has the goal service, JudgementRetry the *)
(* judgement and what ticks and operators do with it later.                *)
(*                                                                         *)
(* Of the list of tool results the model keeps what is read of it: facts.  *)
(* What the loop no longer needs is forgotten when the run is decided.     *)
(*                                                                         *)
(* An operator that no other definition uses is a faulty variant of the    *)
(* one that follows it, to show that a property can fail.                  *)
(***************************************************************************)
EXTENDS Goals, JudgementRetry

CONSTANTS
  Kinds,           \* kinds of run: shadow or live, with an issue to resolve or not
  StartGoals,      \* per kind, goals that earlier runs may have left
  MaxTurns,        \* run.budget.max_steps: the turns of an invocation
  MaxInvocations,  \* run.budget.max_invocations
  PhaseBudget,     \* the same per phase
  MaxQuiet,        \* run.budget.max_consecutive_no_progress
  MaxRecoveries,   \* run.budget.max_recoveries
  MaxRounds        \* run.budget.review.max_review_rounds

Counted == {"scout", "work", "review", "completed"}
Budgeted == {"scout", "work", "review"}

ASSUME RunConstants ==
  /\ Kinds \subseteq [mode : {"shadow", "live"}, issue : BOOLEAN]
  /\ StartGoals \in [Kinds -> SUBSET Goal]
  /\ {MaxTurns, MaxInvocations, MaxQuiet, MaxRecoveries, MaxRounds} \subseteq Nat
  /\ PhaseBudget \in [Budgeted -> Nat]

VARIABLES
  mode,       \* shadow or live
  step,       \* where the runner is
  path,       \* which of its endings it executes
  goals,      \* the goal service's memory
  facts,      \* what the recorded tool results show
  loop,       \* counters of the agent loop, and of the invocation under way
  terminal,   \* the state the run ended in
  container,  \* the workspace's container: settled (removed, or kept on purpose),
              \* stuck (it should be removed, and docker failed to), unknown
  recorded,   \* the participant's record of the run
  due         \* what is booked for later

runVars == <<mode, step, path, goals, facts, loop, terminal, container, recorded, due>>
vars == <<runVars, retryVars, faults>>

Tail == {"terminal", "replace", "retry", "release", "summary", "judge", "judging",
         "publish", "finish", "mark", "finally"}
Steps == Tail \cup {"begin", "start", "loop", "derive", "ended", "killed"}

Facts ==
  {"issue",      \* the run was given an issue to resolve
   "edited",     \* some edit was accepted
   "verified",   \* a verification succeeded after the last edit
   "excused",    \* a draft with a rationale for not verifying was accepted after it
   "submitted",  \* a draft was accepted
   "finalized",  \* aci_submit_patch_finalize succeeded
   "chosen",     \* the agent itself set or changed a contribution goal
   "opened",     \* a pull request is recorded as opened or existing
   "retryable"}  \* a live tool failed in a way worth retrying; until that is booked

(* What an error message mentions; "transient" whatever else it mentions.  *)
Matters == {"none", "transient", "infrastructure"}
Terminal ==
  [status : {"none", "completed", "blocked", "failed"},
   layer : {"none", "run", "agent", "budget", "model_runtime", "contribution", "pr",
            "workspace", "unknown"},
   about : Matters]
Stop(status, layer) == [status |-> status, layer |-> layer, about |-> "none"]
Undecided == Stop("none", "none")
Settled(t) == Stop(t.status, "none")   \* nobody reads the rest any more

Loop ==
  [used : [Counted -> Nat],  \* invocations, by the phase they ended in
   quiet : Nat,              \* invocations without progress, one after another
   recoveries : Nat,         \* calls of aci_recover_invalid_action
   failures : Nat,           \* results that failed, up to 2
   rounds : Nat,             \* maintainer reviews, up to MaxRounds + 1
   item : {"other", "switch_limit", "goal_abandon_limit"},  \* the last result that
                             \* carries a terminal status; "other": none that stops
   turn : Nat, progress : BOOLEAN]                          \* this invocation's
FirstInvocation ==
  [used |-> [p \in Counted |-> 0], quiet |-> 0, recoveries |-> 0, failures |-> 0,
   rounds |-> 0, item |-> "other", turn |-> 0, progress |-> FALSE]

Init ==
  /\ \E kind \in Kinds :
       /\ mode = kind.mode
       /\ facts = IF kind.issue THEN {"issue"} ELSE {}
       /\ \E goal \in StartGoals[kind] :
            IF kind.issue /\ goal = NoGoal
            THEN \/ goals = Seeded(Loaded(goal)) /\ faults = 0
                 \/ /\ "save" \in Faults /\ MaxFaults > 0
                    /\ goals = SeedUnsaved(Loaded(goal)) /\ faults = 1
            ELSE goals = Loaded(goal) /\ faults = 0
  /\ step = "begin"
  /\ path = "normal"
  /\ loop = FirstInvocation
  /\ terminal = Undecided
  /\ container = "none"
  /\ recorded = "no"
  /\ due = {}
  /\ RetryInit

-----------------------------------------------------------------------------
Phase == PhaseOf(goals)

Begin ==
  /\ step = "begin"
  /\ recorded' = "running"
  /\ step' = "start"
  /\ UNCHANGED <<mode, path, goals, facts, loop, terminal, container, due, retryVars, faults>>

StartWorkspace ==
  /\ step = "start"
  /\ container' = "up"
  /\ step' = "loop"
  /\ UNCHANGED <<mode, path, goals, facts, loop, terminal, recorded, due, retryVars, faults>>

-----------------------------------------------------------------------------
(* The tools.  A call takes a turn; most leave a result, which counts as   *)
(* progress whether the tool succeeded or not.                             *)

MayCall == step = "loop" /\ loop.turn < MaxTurns

TurnTaken(l) == [l EXCEPT !.turn = @ + 1]
Noted(l, ok) ==
  [l EXCEPT !.turn = @ + 1, !.progress = TRUE,
            !.failures = IF ok \/ @ = 2 THEN @ ELSE @ + 1]

RunUnchanged == UNCHANGED <<mode, step, path, terminal, container, recorded, due, retryVars>>

(* A repository tool leaves no result, so a phase spent scouting shows no  *)
(* progress - until the tool's budget is exhausted: the refusal is one.    *)
Scout ==
  /\ MayCall /\ Phase \in Scouting \cup {"review"}
  /\ loop' = TurnTaken(loop)
  /\ UNCHANGED <<goals, facts, faults>> /\ RunUnchanged

ScoutRefused ==
  /\ MayCall /\ Phase \in Scouting
  /\ loop' = Noted(loop, FALSE)
  /\ UNCHANGED <<goals, facts, faults>> /\ RunUnchanged

(* A tool that the phase does not admit: there is one in each of them.     *)
OutOfPhase ==
  /\ MayCall
  /\ loop' = Noted(loop, FALSE)
  /\ UNCHANGED <<goals, facts, faults>> /\ RunUnchanged

(* A shell command counts if it succeeds.  So goes the call of any tool    *)
(* that raises, be it for docker or for the time that an invocation may    *)
(* take: the agent is told and nothing else happens.                       *)
Shell ==
  /\ MayCall
  /\ loop' \in {TurnTaken(loop), Noted(loop, TRUE)}
  /\ UNCHANGED <<goals, facts, faults>> /\ RunUnchanged

(* Views of the tree, suggestions for verifying it, clean-up.              *)
Observe(ok) ==
  /\ MayCall /\ Phase # "completed"
  /\ loop' = Noted(loop, ok)
  /\ UNCHANGED <<goals, facts, faults>> /\ RunUnchanged

(* Memory, runtime context and reports of progress, in any phase.          *)
Remember(ok) ==
  /\ MayCall
  /\ loop' = Noted(loop, ok)
  /\ UNCHANGED <<goals, facts, faults>> /\ RunUnchanged

Dispute(ok) ==
  /\ MayCall /\ Phase = "review"
  /\ loop' = Noted(loop, ok)
  /\ UNCHANGED <<goals, facts, faults>> /\ RunUnchanged

RoundsSpent == Phase = "review" /\ loop.rounds > MaxRounds

Edited(ok) ==
  /\ loop' = Noted(loop, ok)
  /\ facts' = IF ok THEN (facts \ {"verified", "excused"}) \cup {"edited"} ELSE facts

(* Past the last round the patch tool answers without leaving a result.    *)
ApplyPatch(ok) ==
  /\ MayCall /\ Phase \in Working
  /\ IF RoundsSpent THEN loop' = TurnTaken(loop) /\ UNCHANGED facts ELSE Edited(ok)
  /\ UNCHANGED <<goals, faults>> /\ RunUnchanged

Undo(ok) ==
  /\ MayCall /\ Phase \in Working
  /\ Edited(ok /\ "edited" \in facts)
  /\ UNCHANGED <<goals, faults>> /\ RunUnchanged

Verify(ok) ==
  /\ MayCall /\ Phase \in Working
  /\ loop' = Noted(loop, ok)
  /\ facts' = IF ok THEN facts \cup {"verified"} ELSE facts
  /\ UNCHANGED <<goals, faults>> /\ RunUnchanged

(* rationale: why no command verifies the patch - none, one that will not  *)
(* do, or a valid one.  Whichever comes with an accepted draft is noted as *)
(* accepted.  ok: git and the checks of the paths have no objection.       *)
Rationales == {"none", "weak", "valid"}

Acceptable(rationale) ==
  "edited" \in facts /\ ("verified" \in facts \/ rationale = "valid")

Submit(ok, rationale) ==
  /\ MayCall /\ Phase \in Working
  /\ IF ok /\ ~RoundsSpent /\ Acceptable(rationale)
     THEN /\ facts' = facts \cup {"submitted"}
                        \cup (IF rationale = "none" THEN {} ELSE {"excused"})
          /\ goals' = DraftSubmitted(goals)
          /\ loop' = [Noted(loop, TRUE) EXCEPT
                        !.rounds = IF @ > MaxRounds THEN @ ELSE @ + 1]
     ELSE loop' = Noted(loop, FALSE) /\ UNCHANGED <<facts, goals>>
  /\ UNCHANGED faults /\ RunUnchanged

Finalize ==
  /\ MayCall /\ Phase = "review"
  /\ loop' = Noted(loop, "submitted" \in facts)
  /\ facts' = IF "submitted" \in facts THEN facts \cup {"finalized"} ELSE facts
  /\ UNCHANGED <<goals, faults>> /\ RunUnchanged

GoalRefused(status, scope) ==
  /\ MayCall
  /\ LET why == Refusal(goals, status, scope)
     IN /\ why # "none" \/ ~Possible(goals, status)
        /\ loop' = [Noted(loop, FALSE) EXCEPT
                      !.item = IF why \in {"switch_limit", "goal_abandon_limit"} THEN why
                               ELSE @]
  /\ UNCHANGED <<goals, facts, faults>> /\ RunUnchanged

GoalAccepted(status, scope) ==
  MayCall /\ Refusal(goals, status, scope) = "none" /\ Possible(goals, status)

GoalUpdate(status, scope) ==
  /\ GoalAccepted(status, scope)
  /\ goals' = Updated(goals, status, scope)
  /\ facts' = IF scope = "contribution" THEN facts \cup {"chosen"} ELSE facts
  /\ LET item == ItemAfter(goals, status, scope)
     IN loop' = [Noted(loop, TRUE) EXCEPT !.item = IF item = "unchanged" THEN @ ELSE item]
  /\ UNCHANGED faults /\ RunUnchanged

GoalNotSaved(status, scope) ==
  /\ GoalAccepted(status, scope)
  /\ Fault("save")
  /\ goals' = Unsaved(goals, status, scope)
  /\ loop' = Noted(loop, FALSE)
  /\ UNCHANGED facts /\ RunUnchanged

(* The action guard turns output that is no tool call into this one.  The  *)
(* third failure of a kind carries a terminal status that nobody acts on,  *)
(* but that hides the one before.                                          *)
Recovered(l, third) ==
  [Noted(l, FALSE) EXCEPT !.recoveries = @ + 1, !.item = IF third THEN "other" ELSE @]

Recover(third) ==
  /\ MayCall
  /\ third => loop.failures = 2
  /\ loop' = Recovered(loop, third)
  /\ UNCHANGED <<goals, facts, faults>> /\ RunUnchanged

(* Fork, branch, commit and push; a transient failure may be retried.      *)
LiveStep(result) ==
  /\ MayCall /\ Phase = "review" /\ mode = "live"
  /\ loop' = Noted(loop, result = "ok")
  /\ facts' = IF result = "transient" THEN facts \cup {"retryable"} ELSE facts
  /\ UNCHANGED <<goals, faults>> /\ RunUnchanged

(* github_open_pr: a finalized and verified patch, no rationale, and the   *)
(* consent of governance and GitHub; PrLedger has what it does to the      *)
(* ledger.                                                                 *)
ReadyToOpen == {"submitted", "finalized", "verified"} \subseteq facts

OpenPr(result) ==
  /\ MayCall /\ Phase = "review" /\ mode = "live"
  /\ result # "failed" => ReadyToOpen
  /\ loop' = Noted(loop, result = "ok")
  /\ facts' = facts \cup (CASE result = "ok" -> {"opened"}
                            [] result = "transient" -> {"retryable"}
                            [] OTHER -> {})
  /\ UNCHANGED <<goals, faults>> /\ RunUnchanged

LiveResults == {"ok", "transient", "failed"}

ToolCall ==
  \/ Scout \/ ScoutRefused \/ OutOfPhase \/ Shell \/ Finalize
  \/ \E ok \in BOOLEAN :
       \/ Observe(ok) \/ Remember(ok) \/ Dispute(ok)
       \/ ApplyPatch(ok) \/ Undo(ok) \/ Verify(ok) \/ Recover(ok)
       \/ \E rationale \in Rationales : Submit(ok, rationale)
  \/ \E status \in Statuses, scope \in Scopes :
       GoalRefused(status, scope) \/ GoalUpdate(status, scope) \/ GoalNotSaved(status, scope)
  \/ \E result \in LiveResults : LiveStep(result) \/ OpenPr(result)

-----------------------------------------------------------------------------
(* The invocation returns and is reviewed.                                 *)

Total(l) == l.used["scout"] + l.used["work"] + l.used["review"] + l.used["completed"]
Class(phase) == IF phase \in Scouting THEN "scout" ELSE phase
PhaseSpent(l) ==
  Class(Phase) \in Budgeted /\ l.used[Class(Phase)] >= PhaseBudget[Class(Phase)]

(* A patch is submitted once it is finalized; a draft will do if the agent *)
(* never touched a contribution goal.                                      *)
PatchDrafted == "submitted" \in facts
PatchSubmitted == "finalized" \in facts \/ ("submitted" \in facts /\ "chosen" \notin facts)

Ended(t) == [again |-> FALSE, terminal |-> t]
Again == [again |-> TRUE, terminal |-> Undecided]

(* The gaps that agent_loop_progress finds in the contribution's life      *)
(* cycle come to this: no submitted patch, or no pull request for it.      *)
LifecycleGaps == ~PatchSubmitted \/ "opened" \notin facts

WithinLimits(l) ==
  IF PhaseSpent(l) THEN IF Phase \in Scouting /\ goals.goal.status = "active" THEN Again
                        ELSE Ended(Stop("blocked", "budget"))
  ELSE IF PatchSubmitted THEN IF mode = "live" THEN Again ELSE Ended(Undecided)
  ELSE IF l.quiet >= MaxQuiet THEN Ended(Stop("failed", "agent"))
  ELSE IF goals.goal.status = "active" \/ LifecycleGaps THEN Again
  ELSE Ended(Undecided)

(* error: whether the provider failed, and what its message mentions.      *)
Verdict(l, error) ==
  IF error.failed THEN Ended([status |-> "failed", layer |-> "model_runtime",
                              about |-> error.about])
  ELSE IF mode = "live" /\ "opened" \in facts THEN Ended(Undecided)
  ELSE IF l.item = "goal_abandon_limit" THEN Ended(Stop("blocked", "agent"))
  ELSE IF l.item = "switch_limit" THEN Ended(Stop("blocked", "budget"))
  ELSE IF l.recoveries >= MaxRecoveries THEN Ended(Stop("failed", "agent"))
  ELSE IF Total(l) >= MaxInvocations THEN Ended(Stop("blocked", "budget"))
  ELSE WithinLimits(l)

CountersUnbudgeted(l) ==
  [l EXCEPT !.used = IF Class(Phase) \in Budgeted THEN [@ EXCEPT ![Class(Phase)] = @ + 1]
                     ELSE @,
            !.quiet = IF l.progress THEN 0 ELSE @ + 1,
            !.turn = 0, !.progress = FALSE]

Counters(l) ==
  [l EXCEPT !.used[Class(Phase)] = @ + 1,
            !.quiet = IF l.progress THEN 0 ELSE @ + 1,
            !.turn = 0, !.progress = FALSE]

(* The loop is over: nothing reads its counters and the goal any more.     *)
ForgetLoop == goals' = Loaded(NoGoal) /\ loop' = FirstInvocation

Returns(error) ==
  /\ step = "loop"
  /\ LET verdict == Verdict(Counters(loop), error)
     IN /\ terminal' = verdict.terminal
        /\ IF verdict.again
           THEN step' = "loop" /\ loop' = Counters(loop) /\ UNCHANGED goals
           ELSE step' = "derive" /\ ForgetLoop
  /\ UNCHANGED <<mode, path, facts, container, recorded, due, retryVars, faults>>

-----------------------------------------------------------------------------
(* The state the run ended in: the loop's, or else the quality gate's; for *)
(* a live run a recorded pull request overrides both.                      *)

DerivedStatus ==
  IF terminal # Undecided THEN terminal.status
  ELSE IF PatchSubmitted THEN "completed"
  ELSE "blocked"

(* noted: the statement of the problem and the notes on reproducing it     *)
(* that a result must carry are there.  Nobody writes them, and only an    *)
(* issue run must carry them: it is never complete.                        *)
AgentResult == [status |-> DerivedStatus, noted |-> "issue" \notin facts]

Enforced(result) ==
  IF result.status = "completed" /\ ~result.noted THEN "blocked" ELSE result.status

Backed == "verified" \in facts \/ "excused" \in facts
GatePasses(others) ==
  Enforced(AgentResult) = "completed" /\ others /\ "submitted" \in facts /\ Backed

Derived(others) ==
  IF terminal # Undecided THEN terminal
  ELSE IF AgentResult.status # "completed" THEN Stop("blocked", "agent")
  ELSE IF GatePasses(others) THEN Stop("completed", "run")
  ELSE Stop("blocked", "contribution")

(* mismatch: the last word of the attempts to open one is that the pull    *)
(* request is by someone else.  The other reasons all mean the same here.  *)
SubmissionOutcome(mismatch) ==
  IF "opened" \in facts THEN "opened_pr"
  ELSE IF mismatch THEN "no_pr_identity_mismatch"
  ELSE "no_pr"

DecidedByLoop(others, mismatch) ==
  IF terminal # Undecided THEN terminal
  ELSE IF mode # "live" THEN Derived(others)
  ELSE IF SubmissionOutcome(mismatch) = "opened_pr" THEN Stop("completed", "run")
  ELSE Stop("failed", IF mismatch THEN "run" ELSE "pr")

Decided(others, mismatch) ==
  IF mode # "live" THEN Derived(others)
  ELSE IF SubmissionOutcome(mismatch) = "opened_pr" THEN Stop("completed", "run")
  ELSE IF Derived(others).status # "completed" THEN Derived(others)
  ELSE Stop("failed", IF SubmissionOutcome(mismatch) = "no_pr_identity_mismatch" THEN "run"
                      ELSE "pr")

Forget == facts' = facts \cap {"opened", "retryable"}

(* others: minimality, paths and risk of the patch.                        *)
Derive ==
  /\ step = "derive"
  /\ \E others, mismatch \in BOOLEAN : terminal' = Decided(others, mismatch)
  /\ Forget
  /\ step' = "terminal"
  /\ UNCHANGED <<mode, path, goals, loop, container, recorded, due, retryVars, faults>>

-----------------------------------------------------------------------------
(* The endings.  An interrupted run leaves the bookings and the judgement  *)
(* out and records itself at last.                                         *)

NextStepUnmarked ==
  IF path = "interrupted"
  THEN [terminal |-> "summary", summary |-> "release", release |-> "finally"]
  ELSE [terminal |-> "replace", replace |-> "retry", retry |-> "release",
        release |-> "summary", summary |-> "judge"]

NextStep ==
  IF path = "interrupted"
  THEN [terminal |-> "summary", summary |-> "release", release |-> "mark"]
  ELSE [terminal |-> "replace", replace |-> "retry", retry |-> "release",
        release |-> "summary", summary |-> "judge"]

Proceed == step' = NextStep[step]

WriteTerminal ==
  /\ step = "terminal"
  /\ Proceed
  /\ UNCHANGED <<mode, path, goals, facts, loop, terminal, container, recorded, due,
                 retryVars, faults>>

ToBeReplaced(t) == t.layer = "model_runtime" /\ t.about = "transient"

RecordReplacement ==
  /\ step = "replace"
  /\ due' = IF ToBeReplaced(terminal) THEN due \cup {"replacement"} ELSE due
  /\ Proceed
  /\ UNCHANGED <<mode, path, goals, facts, loop, terminal, container, recorded, retryVars,
                 faults>>

ToBeResubmittedAnyway ==
  mode = "live" /\ terminal.status # "completed" /\ "retryable" \in facts

ToBeResubmitted ==
  /\ mode = "live" /\ terminal.status # "completed"
  /\ "opened" \notin facts /\ "retryable" \in facts

RecordLiveRetry ==
  /\ step = "retry"
  /\ due' = IF ToBeResubmitted THEN due \cup {"live_retry"} ELSE due
  /\ facts' = facts \ {"retryable"}
  /\ Proceed
  /\ UNCHANGED <<mode, path, goals, loop, terminal, container, recorded, retryVars, faults>>

SettlementsMisspelt == {"stopped", "stuck"}

(* What _finalize_workspace comes to.  A container is removed, or kept: by *)
(* policy, or because the workspace is persistent.  If docker fails to     *)
(* remove it, that is noted and the run goes on.                           *)
Settlements == {"settled", "stuck"}

(* The exception handler finalizes once more what the run has finalized,   *)
(* the handler of an interruption does not.                                *)
Release ==
  /\ step = "release"
  /\ container' \in IF container = "up" \/ (container = "stuck" /\ path = "failed")
                    THEN Settlements ELSE {container}
  /\ Proceed
  /\ UNCHANGED <<mode, path, goals, facts, loop, terminal, recorded, due, retryVars, faults>>

Summarise ==
  /\ step = "summary"
  /\ summary' = FromFiles
  /\ Proceed
  /\ UNCHANGED <<mode, path, goals, facts, loop, terminal, container, recorded, due,
                 judgement, retry, proc, panels, hands, torn, faults>>

JudgeableAnyway(t) ==
  /\ t.layer \notin {"workspace", "budget"}
  /\ ~(t.layer = "model_runtime" /\ t.about = "infrastructure")
  /\ t.status = "completed" \/ t.layer \in {"agent", "pr", "model_runtime"}

Judgeable(t) ==
  /\ t.layer \notin {"workspace", "budget"}
  /\ ~ToBeReplaced(t)
  /\ ~(t.layer = "model_runtime" /\ t.about = "infrastructure")
  /\ t.status = "completed" \/ t.layer \in {"agent", "pr", "model_runtime"}

Judge ==
  /\ step = "judge"
  /\ IF Judgeable(terminal)
     THEN Become("runner", [Idle EXCEPT !.pc = "panel"]) /\ step' = "judging"
     ELSE step' = "publish" /\ UNCHANGED proc
  /\ terminal' = Settled(terminal)
  /\ UNCHANGED <<mode, path, goals, facts, loop, container, recorded, due,
                 judgement, retry, summary, panels, hands, torn, faults>>

Judging ==
  /\ step = "judging"
  /\ IF AtPoint("runner", "idle") THEN step' = "publish" /\ UNCHANGED retryVars
     ELSE JudgeStep("runner") /\ UNCHANGED step
  /\ UNCHANGED <<mode, path, goals, facts, loop, terminal, container, recorded, due, faults>>

Publish ==
  /\ step = "publish"
  /\ summary' = FromFiles
  /\ step' = "finish"
  /\ UNCHANGED <<mode, path, goals, facts, loop, terminal, container, recorded, due,
                 judgement, retry, proc, panels, hands, torn, faults>>

Finish ==
  /\ step \in {"finish", "mark"}
  /\ recorded' = IF step = "finish" THEN "finished" ELSE "interrupted"
  /\ step' = "finally"
  /\ UNCHANGED <<mode, path, goals, facts, loop, terminal, container, due, retryVars, faults>>

FinallyNothing ==
  /\ step = "finally"
  /\ step' = "ended"
  /\ UNCHANGED <<mode, path, goals, facts, loop, terminal, container, recorded, due,
                 retryVars, faults>>

(* The handler of an interruption that fails has not noted that it         *)
(* finalized the workspace; the model does not keep which handler failed.  *)
Finally ==
  /\ step = "finally"
  /\ container' \in IF container = "up" THEN Settlements
                    ELSE IF container = "stuck" /\ path = "broken" THEN Settlements
                    ELSE {container}
  /\ step' = "ended"
  /\ UNCHANGED <<mode, path, goals, facts, loop, terminal, recorded, due, retryVars, faults>>

-----------------------------------------------------------------------------
(* Failures.  The judgement is torn if the runner stops after it has been  *)
(* written and before the summary repeats it.                              *)

Tearing ==
  torn' = (torn \/ (/\ step \in {"judging", "publish"}
                    /\ judgement # NoJudgement /\ ~AtPoint("runner", "panel")))

Leave(newPath, newStep) ==
  /\ path' = newPath
  /\ step' = newStep
  /\ Become("runner", Idle)
  /\ Tearing
  /\ Forget /\ ForgetLoop
  /\ UNCHANGED <<mode, recorded, due, judgement, retry, summary, panels, hands>>

InTry == path = "normal" /\ step \notin {"finally", "ended", "killed"}

(* An exception.  The runner uses docker for the start and, until the      *)
(* agent is called, inside the container.  An agent raises if its library  *)
(* or its provider is missing, and one that calls its tools outside that   *)
(* library, as the stub does, lets the exceptions of the tools through: of *)
(* docker and of the budget.  Anything else may be raised anywhere.  A     *)
(* container that was started just before is not known to have been.       *)
Raised ==
  {Stop("failed", "unknown")}
    \cup (IF step \in {"start", "loop"} THEN {Stop("failed", "workspace")} ELSE {})
    \cup (IF step = "loop" THEN {Stop("failed", "agent"), Stop("blocked", "budget")} ELSE {})

Raises ==
  /\ InTry /\ Fault("raise")
  /\ terminal' \in Raised
  /\ container' \in {container} \cup (IF step = "start" THEN {"unknown"} ELSE {})
  /\ Leave("failed", "terminal")

Interrupted ==
  /\ InTry /\ Fault("interrupt")
  /\ terminal' = Stop("failed", "run")
  /\ UNCHANGED container
  /\ Leave("interrupted", "terminal")

(* The handler itself does not get to its end: not counted, as it happens  *)
(* at most twice.  Only the handler of an interruption has a finally       *)
(* clause of its own.                                                      *)
HandlerFails ==
  /\ path \in {"failed", "interrupted"} /\ step \notin {"finally", "ended", "killed"}
  /\ {"raise", "interrupt"} \cap Faults # {}
  /\ IF path = "interrupted" /\ step # "mark" THEN Leave("interrupted", "mark")
     ELSE Leave("broken", "finally")
  /\ terminal' = Settled(terminal)
  /\ UNCHANGED <<container, faults>>

Killed ==
  /\ step \notin {"ended", "killed"}
  /\ Fault("kill")
  /\ Leave(path, "killed")
  /\ terminal' = Settled(terminal)
  /\ UNCHANGED container

-----------------------------------------------------------------------------
Ending ==
  \/ WriteTerminal \/ RecordReplacement \/ RecordLiveRetry \/ Release \/ Summarise
  \/ Judge \/ Judging \/ Publish \/ Finish \/ Finally

Errors ==
  {[failed |-> FALSE, about |-> "none"]} \cup [failed : {TRUE}, about : Matters]

Onward ==
  \/ Begin \/ StartWorkspace \/ Derive \/ Ending
  \/ \E error \in Errors : Returns(error)

Over == step \in {"ended", "killed"}
Replaced == "replacement" \in due

Refresh == RefreshStep(~Over, Replaced) /\ UNCHANGED runVars

Next == ToolCall \/ Onward \/ Raises \/ Interrupted \/ HandlerFails \/ Killed \/ Refresh

Spec == Init /\ [][Next]_vars

(* The runner goes on: an invocation returns, as its turns are bounded and *)
(* calls of tools and providers time out - that the agent calls any tool   *)
(* is not assumed.  Ticks go on while the season is active, a `judge`      *)
(* command that was started goes on, and time passes.                      *)
Fairness ==
  /\ WF_vars(Onward)
  /\ WF_vars(TickStep(~Over, Replaced) /\ UNCHANGED <<runVars, faults>>)
  /\ WF_vars(RejudgeStep("hand") /\ UNCHANGED <<runVars, faults>>)
  /\ WF_vars(TwoHoursPass /\ UNCHANGED <<runVars, faults>>)

FairSpec == Spec /\ Fairness

-----------------------------------------------------------------------------
(* Type correctness: the runner, the goal service and the three processes  *)
(* that judge leave every variable in its set.                             *)
TypeOK ==
  /\ mode \in {"shadow", "live"}
  /\ step \in Steps
  /\ path \in {"normal", "failed", "interrupted", "broken"}
  /\ goals \in Memory
  /\ facts \subseteq Facts
  /\ loop \in Loop
  /\ terminal \in Terminal
  /\ container \in {"none", "up", "settled", "stuck", "unknown"}
  /\ recorded \in {"no", "running", "finished", "interrupted"}
  /\ due \subseteq {"replacement", "live_retry"}
  /\ judgement \in Judgement
  /\ retry \in Retry
  /\ summary \in Summary
  /\ proc \in [Procs -> Process]
  /\ panels \in Nat /\ hands \in Nat /\ faults \in Nat
  /\ torn \in BOOLEAN

(* A shadow run is completed only on a draft that the agent submitted, if  *)
(* it set itself a contribution goal also finalized, and after whose last  *)
(* edit a verification succeeded or a rationale was accepted; whatever     *)
(* edits, drafts and changes of the goal came in between.                  *)
CompletedIsEarned ==
  [][step = "derive" /\ terminal'.status = "completed" /\ mode # "live" =>
       /\ {"edited", "submitted"} \subseteq facts
       /\ "chosen" \in facts => "finalized" \in facts
       /\ Backed]_vars

(* A live run is completed exactly if a pull request is recorded, also if  *)
(* the provider failed, a limit was hit or the quality gate objects after  *)
(* it was opened - as long as the runner itself meets no exception.        *)
CompletedMeansOpened ==
  mode = "live" /\ path = "normal" /\ step \in Tail \cup {"ended"}
    => (terminal.status = "completed" <=> "opened" \in facts)

(* When a pull request is recorded, neither a replacement nor a retry of   *)
(* the submission is booked - by the ending or by the exception handler    *)
(* that repeats it: either would contribute a second time.                 *)
NoSecondAttemptAfterPr ==
  "opened" \in facts => due = {}

(* However the agent sets, completes, supersedes and abandons goals, with  *)
(* whatever scope, it abandons no more of them than the limits allow, and  *)
(* at the limit none is active.                                            *)
AbandonsBounded ==
  /\ Abandons(goals) <= MaxAbandoned
  /\ Abandons(goals) = MaxAbandoned => goals.goal.status # "active"
  /\ \A s \in Switched : goals.abandoned[s] <= MaxSwitches[s]

(* A run that ended by itself is recorded as ended, also if it failed or   *)
(* was interrupted at any point, and if the handler of an interruption     *)
(* failed in turn: a participant whose run stays recorded as active is not *)
(* scheduled again.  (The exception handler that fails is the exception.)  *)
EndedIsRecorded ==
  step = "ended" /\ path # "broken" => recorded \in {"finished", "interrupted"}

(* Whatever fails - the run, the handler of its failure, both - no run     *)
(* ends with a container that it knows of and that nobody tried to remove  *)
(* or decided to keep.  (That docker then removes it is not claimed.)      *)
WorkspaceFinalized ==
  step = "ended" => container # "up"

(* Every run ends, whatever the agent does: budgets bound it.              *)
RunEnds == <>(step \in {"ended", "killed"})

(* Unless a process was stopped between its writes: when nobody judges, a  *)
(* judgement that judges out of reach left incomplete carries no score,    *)
(* and one that is to be retried says that it is deferred.                 *)
TransientNotScored ==
  Quiet /\ ~torn =>
    /\ ~NeedsRetry(judgement)
    /\ retry.status = "due" => judgement.status = "deferred"

(* The summary, which surfaces and the leaderboard read, repeats the       *)
(* judgement, although three kinds of processes rewrite it from copies.    *)
SummaryAgrees ==
  Over /\ Quiet /\ ~torn /\ summary.there => summary.judgement = judgement

(* A run that is to be replaced gets no score, unless an operator has it   *)
(* judged.                                                                 *)
ReplacedRunNotScored ==
  Replaced /\ hands = 0 => ~Scored(judgement)

(* Panels cost money: the runner and the ticks hold at most 1 + MaxRetries *)
(* of them for a run, as many again after each `judge` command, and one    *)
(* more for each failure - a retry found stale is not counted.             *)
PanelsBounded ==
  panels <= (1 + MaxRetries) * (1 + hands) + faults

(* A judgement that is due to be retried is settled: it succeeds, is given *)
(* up or skipped.                                                          *)
DueSettles ==
  retry.status \in {"due", "running"} ~> retry.status \notin {"due", "running"}
=============================================================================
