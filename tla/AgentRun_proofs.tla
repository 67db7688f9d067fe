---------------------------- MODULE AgentRun_proofs ----------------------------
(***************************************************************************)
(* Proofs about AgentRun for every kind of run, every budget and limit,    *)
(* any number of failures and of `judge` commands.                         *)
(***************************************************************************)
EXTENDS AgentRun, TLAPS

-----------------------------------------------------------------------------
(* What the operators return.                                              *)

LEMMA GoalOps ==
  ASSUME NEW m \in Memory, NEW status \in Statuses, NEW scope \in Scopes
  PROVE  /\ Updated(m, status, scope) \in Memory
         /\ Unsaved(m, status, scope) \in Memory
         /\ DraftSubmitted(m) \in Memory
         /\ PhaseOf(m) \in Phases
<1>1. NewGoal(status, scope) \in Goal
  BY DEF NewGoal, Goal, Statuses, Finished
<1>2. Updated(m, status, scope) \in Memory
  BY <1>1 DEF Updated, Memory
<1>3. Unsaved(m, status, scope) \in Memory
  BY <1>1 DEF Unsaved, Memory
<1>4. DraftSubmitted(m) \in Memory
  BY DEF DraftSubmitted, Memory
<1>5. PhaseOf(m) \in Phases
  BY DEF PhaseOf, PhaseOfGoal, Phases
<1> QED BY <1>2, <1>3, <1>4, <1>5

LEMMA LoadedTyped ==
  ASSUME NEW goal \in Goal
  PROVE  Loaded(goal) \in Memory
BY DEF Loaded, Memory

LEMMA NoGoalTyped == NoGoal \in Goal
BY DEF NoGoal, Goal, Scopes

LEMMA ResultFields ==
  ASSUME NEW l \in Loop, NEW turn \in Nat, NEW failures \in Nat
  PROVE  [l EXCEPT !.turn = turn, !.progress = TRUE, !.failures = failures] \in Loop
BY DEF Loop

LEMMA ReviewFields ==
  ASSUME NEW l \in Loop, NEW used \in [Counted -> Nat], NEW quiet \in Nat
  PROVE  [l EXCEPT !.used = used, !.quiet = quiet, !.turn = 0, !.progress = FALSE] \in Loop
BY DEF Loop

LEMMA LoopOps ==
  ASSUME NEW l \in Loop
  PROVE  /\ TurnTaken(l) \in Loop
         /\ \A ok \in BOOLEAN : Noted(l, ok) \in Loop
<1>1. TurnTaken(l) \in Loop
  BY DEF TurnTaken, Loop
<1>2. ASSUME NEW ok \in BOOLEAN PROVE Noted(l, ok) \in Loop
  <2> DEFINE failures == IF ok \/ l.failures = 2 THEN l.failures ELSE l.failures + 1
  <2>1. failures \in Nat
    BY DEF Loop
  <2> DEFINE turn == l.turn + 1
  <2>2. turn \in Nat
    BY DEF Loop
  <2>3. Noted(l, ok) = [l EXCEPT !.turn = turn, !.progress = TRUE, !.failures = failures]
    BY DEF Noted
  <2> HIDE DEF failures, turn
  <2> QED BY <2>1, <2>2, <2>3, ResultFields
<1> QED BY <1>1, <1>2

LEMMA FirstInvocationTyped == FirstInvocation \in Loop
BY DEF FirstInvocation, Loop

LEMMA CountersTyped ==
  ASSUME NEW l \in Loop, goals \in Memory
  PROVE  Counters(l) \in Loop
<1>1. Phase \in Phases
  BY GoalOps DEF Phase, Statuses, Scopes
<1>2. Class(Phase) \in Counted
  BY <1>1 DEF Class, Phases, Scouting, Counted
<1> DEFINE used == [l.used EXCEPT ![Class(Phase)] = @ + 1]
           quiet == IF l.progress THEN 0 ELSE l.quiet + 1
<1>3. used \in [Counted -> Nat]
  BY <1>2 DEF Loop
<1>4. quiet \in Nat
  BY DEF Loop
<1>5. Counters(l) = [l EXCEPT !.used = used, !.quiet = quiet, !.turn = 0,
                              !.progress = FALSE]
  BY DEF Counters
<1> HIDE DEF used, quiet
<1>6. [l EXCEPT !.used = used, !.quiet = quiet, !.turn = 0, !.progress = FALSE] \in Loop
  BY <1>3, <1>4, ReviewFields, Zenon
<1> QED BY <1>5, <1>6, Zenon

LEMMA BlankRecords ==
  /\ NoJudgement \in Judgement
  /\ NoRetry \in Retry
  /\ Succeeded \in Retry
  /\ NoSummary \in Summary
  /\ Idle \in Process
BY DEF NoJudgement, NoRetry, Succeeded, NoSummary, Idle, Judgement, Retry, Summary, Process

LEMMA TerminalOps ==
  /\ \A t \in Terminal : Settled(t) \in Terminal
  /\ Undecided \in Terminal
BY DEF Settled, Undecided, Stop, Terminal, Matters

-----------------------------------------------------------------------------
(* The judgement and its retry.                                            *)

RetryTypeOK ==
  /\ judgement \in Judgement
  /\ retry \in Retry
  /\ summary \in Summary
  /\ proc \in [Procs -> Process]
  /\ panels \in Nat /\ hands \in Nat
  /\ torn \in BOOLEAN

LEMMA BecomeTyped ==
  ASSUME proc \in [Procs -> Process], NEW p \in Procs, NEW r \in Process, Become(p, r)
  PROVE  proc' \in [Procs -> Process]
BY DEF Become

LEMMA RejudgeTyped ==
  ASSUME RetryTypeOK, NEW p \in Procs, RejudgeStep(p)
  PROVE  RetryTypeOK'
<1> USE DEF RetryTypeOK
<1>0. proc[p] \in Process
  OBVIOUS
<1>1. CASE Panel(p)
  <2>1. [proc[p] EXCEPT !.pc = IF p = "runner" THEN "mark" ELSE "summary"] \in Process
    BY <1>0 DEF Process
  <2>2. Verdicts \subseteq Judgement
    <3>1. ASSUME NEW results PROVE PanelStatus(results) \in Judgement
      <4> DEFINE status == IF \A q \in Questions : results[q] = "score"
                           THEN "judged" ELSE "fallback"
                 transient == \E q \in Questions : results[q] = "transient"
      <4>1. status \in {"judged", "fallback"} /\ transient \in BOOLEAN
        OBVIOUS
      <4>2. PanelStatus(results) = [status |-> status, transient |-> transient]
        BY DEF PanelStatus
      <4> HIDE DEF status, transient
      <4> QED BY <4>1, <4>2 DEF Judgement
    <3> QED BY <3>1 DEF Verdicts
  <2> QED BY <1>1, <2>1, <2>2, BecomeTyped DEF Panel
<1>2. CASE MarkDue(p)
  <2>1. Attempts \in Nat
    BY DEF Attempts, Retry, Summary
  <2>2. PICK mark \in Retry, j \in Judgement :
          /\ retry' = mark
          /\ Become(p, [proc[p] EXCEPT !.pc = "defer", !.summary = summary, !.retry = mark,
                                       !.judgement = j])
    <3> DEFINE next == Attempts + 1
               again == next <= MaxRetries
               mark == [status |-> IF again THEN "due" ELSE "failed", attempts |-> next,
                        fresh |-> FALSE]
               j == [status |-> IF again THEN "deferred" ELSE "failed", transient |-> TRUE]
    <3>1. mark \in Retry /\ j \in Judgement
      BY <2>1 DEF Retry, Judgement
    <3>2. /\ retry' = mark
          /\ Become(p, [proc[p] EXCEPT !.pc = "defer", !.summary = summary, !.retry = mark,
                                       !.judgement = j])
      BY <1>2 DEF MarkDue
    <3> QED BY <3>1, <3>2
  <2>3. [proc[p] EXCEPT !.pc = "defer", !.summary = summary, !.retry = mark,
                        !.judgement = j] \in Process
    BY <1>0 DEF Process
  <2> QED BY <1>2, <2>2, <2>3, BecomeTyped DEF MarkDue
<1>3. CASE Defer(p)
  <2>1. [proc[p] EXCEPT !.pc = "deferSummary"] \in Process /\ proc[p].judgement \in Judgement
    BY <1>0 DEF Process
  <2> QED BY <1>3, <2>1, BecomeTyped DEF Defer
<1>4. CASE DeferSummary(p)
  <2>1. [proc[p].summary EXCEPT !.judgement = judgement, !.retry = proc[p].retry] \in Summary
    BY <1>0 DEF Process, Summary
  <2> QED BY <1>4, <2>1, BecomeTyped, BlankRecords DEF DeferSummary
<1>5. CASE MarkNothing(p)
  <2>1. [proc[p] EXCEPT !.pc = "note"] \in Process
    BY <1>0 DEF Process
  <2> QED BY <1>5, <2>1, BecomeTyped, BlankRecords DEF MarkNothing
<1>6. CASE WriteSummary(p)
  <2>1. /\ [proc[p].summary EXCEPT !.judgement = judgement] \in Summary
        /\ [proc[p] EXCEPT !.pc = "mark"] \in Process
    BY <1>0 DEF Process, Summary
  <2> QED BY <1>6, <2>1, BecomeTyped DEF WriteSummary
<1>7. CASE Note(p)
  <2>1. [summary EXCEPT !.retry = Succeeded] \in Summary
    BY BlankRecords DEF Summary
  <2> QED BY <1>7, <2>1, BecomeTyped, BlankRecords DEF Note
<1> QED BY <1>1, <1>2, <1>3, <1>4, <1>5, <1>6, <1>7 DEF RejudgeStep, JudgeStep

LEMMA RefreshTyped ==
  ASSUME RetryTypeOK, faults \in Nat, NEW ending \in BOOLEAN, NEW replaced \in BOOLEAN,
         RefreshStep(ending, replaced)
  PROVE  RetryTypeOK' /\ faults' \in Nat
<1> USE DEF RetryTypeOK
<1>0. /\ {"tick", "hand"} \subseteq Procs
      /\ retry.attempts \in Nat /\ retry.fresh \in BOOLEAN
  BY DEF Procs, Retry
<1>1. CASE TickRecovers(ending) /\ UNCHANGED faults
  BY <1>1 DEF TickRecovers, Retry
<1>2. CASE TickSkips(ending, replaced) /\ UNCHANGED faults
  <2> DEFINE mark == [retry EXCEPT !.status = "skipped"]
  <2>1. mark \in Retry
    BY DEF Retry
  <2>2. [pc |-> "defer", summary |-> summary, retry |-> mark,
         judgement |-> [status |-> "not_judged", transient |-> FALSE],
         attempts |-> retry.attempts] \in Process
    BY <1>0, <2>1 DEF Process, Judgement
  <2> QED BY <1>0, <1>2, <2>1, <2>2, BecomeTyped DEF TickSkips
<1>3. CASE TickStarts(ending, replaced) /\ UNCHANGED faults
  <2>1. [retry EXCEPT !.status = "running", !.fresh = TRUE] \in Retry
    BY DEF Retry
  <2>2. [Idle EXCEPT !.pc = "panel", !.summary = summary, !.attempts = retry.attempts]
          \in Process
    BY <1>0, BlankRecords DEF Process
  <2> QED BY <1>0, <1>3, <2>1, <2>2, BecomeTyped DEF TickStarts
<1>4. CASE RejudgeStep("tick") /\ UNCHANGED faults
  BY <1>0, <1>4, RejudgeTyped
<1>5. CASE HandStarts(ending) /\ UNCHANGED faults
  <2>1. [Idle EXCEPT !.pc = "panel", !.summary = summary] \in Process
    BY BlankRecords DEF Process
  <2> QED BY <1>0, <1>5, <2>1, BecomeTyped DEF HandStarts
<1>6. CASE RejudgeStep("hand") /\ UNCHANGED faults
  BY <1>0, <1>6, RejudgeTyped
<1>7. CASE TwoHoursPass /\ UNCHANGED faults
  BY <1>7 DEF TwoHoursPass, Retry
<1>8. CASE TickRaises
  <2>1. proc["tick"].attempts \in Nat
    BY <1>0 DEF Process
  <2>2. retry' \in Retry
    BY <1>0, <1>8, <2>1 DEF TickRaises, Retry
  <2> QED BY <1>0, <1>8, <2>2, BecomeTyped, BlankRecords DEF TickRaises, Fault
<1>9. ASSUME NEW p \in {"tick", "hand"}, RefreshDies(p) PROVE RetryTypeOK' /\ faults' \in Nat
  BY <1>0, <1>9, BecomeTyped, BlankRecords DEF RefreshDies, Fault
<1> QED
  BY <1>1, <1>2, <1>3, <1>4, <1>5, <1>6, <1>7, <1>8, <1>9 DEF RefreshStep, TickStep

-----------------------------------------------------------------------------
(* The tools.                                                              *)

ToolTypeOK ==
  /\ goals \in Memory
  /\ facts \subseteq Facts
  /\ loop \in Loop
  /\ faults \in Nat

LEMMA ItemFields ==
  ASSUME NEW l \in Loop, NEW item \in {"other", "switch_limit", "goal_abandon_limit"},
         NEW n \in Nat
  PROVE  /\ [l EXCEPT !.item = item] \in Loop
         /\ [l EXCEPT !.rounds = n] \in Loop
         /\ [l EXCEPT !.recoveries = n, !.item = item] \in Loop
<1>1. [l EXCEPT !.item = item] \in Loop
  BY DEF Loop
<1>2. [l EXCEPT !.rounds = n] \in Loop
  BY DEF Loop
<1>3. [l EXCEPT !.recoveries = n, !.item = item] \in Loop
  BY DEF Loop
<1> QED BY <1>1, <1>2, <1>3

LEMMA RefusalRange ==
  ASSUME NEW m, NEW status, NEW scope
  PROVE  /\ Refusal(m, status, scope) \in {"none", "switch_limit", "strategy_limit",
                                           "goal_abandon_limit"}
         /\ ItemAfter(m, status, scope) \in {"unchanged", "other", "goal_abandon_limit"}
BY DEF Refusal, ItemAfter

LEMMA EditedTyped ==
  ASSUME ToolTypeOK, NEW ok \in BOOLEAN, Edited(ok)
  PROVE  facts' \subseteq Facts /\ loop' \in Loop
<1>1. loop' \in Loop
  BY LoopOps DEF ToolTypeOK, Edited
<1>2. facts' \subseteq Facts
  BY DEF ToolTypeOK, Edited, Facts
<1> QED BY <1>1, <1>2

(* A call of a tool is well typed.                                         *)
LEMMA ToolTyped ==
  ASSUME ToolTypeOK, ToolCall
  PROVE  ToolTypeOK'
<1> USE DEF ToolTypeOK
<1>0. /\ \A ok \in BOOLEAN : Noted(loop, ok) \in Loop
      /\ TurnTaken(loop) \in Loop
      /\ loop.item \in {"other", "switch_limit", "goal_abandon_limit"}
      /\ loop.recoveries \in Nat /\ loop.rounds \in Nat
  BY LoopOps DEF Loop
<1>1. CASE Scout \/ ScoutRefused \/ OutOfPhase
  BY <1>0, <1>1 DEF Scout, ScoutRefused, OutOfPhase
<1>2. CASE Shell
  BY <1>0, <1>2 DEF Shell
<1>3. CASE Finalize
  <2> DEFINE ok == "submitted" \in facts
  <2>0. ok \in BOOLEAN /\ loop' = Noted(loop, ok)
    BY <1>3 DEF Finalize
  <2> HIDE DEF ok
  <2>1. loop' \in Loop
    BY <1>0, <2>0
  <2>2. facts' \subseteq Facts
    BY <1>3 DEF Finalize, Facts
  <2> QED BY <1>3, <2>1, <2>2 DEF Finalize
<1>4. ASSUME NEW ok \in BOOLEAN, Observe(ok) \/ Remember(ok) \/ Dispute(ok)
      PROVE  ToolTypeOK'
  BY <1>0, <1>4 DEF Observe, Remember, Dispute
<1>5. ASSUME NEW ok \in BOOLEAN, ApplyPatch(ok) PROVE ToolTypeOK'
  <2>1. CASE RoundsSpent
    BY <1>0, <1>5, <2>1 DEF ApplyPatch
  <2>2. CASE ~RoundsSpent
    BY <1>5, <2>2, EditedTyped DEF ApplyPatch
  <2> QED BY <2>1, <2>2
<1>6. ASSUME NEW ok \in BOOLEAN, Undo(ok) PROVE ToolTypeOK'
  <2>1. (ok /\ "edited" \in facts) \in BOOLEAN
    OBVIOUS
  <2> QED BY <1>6, <2>1, EditedTyped DEF Undo
<1>7. ASSUME NEW ok \in BOOLEAN, Verify(ok) PROVE ToolTypeOK'
  <2>1. facts' \subseteq Facts
    BY <1>7 DEF Verify, Facts
  <2> QED BY <1>0, <1>7, <2>1 DEF Verify
<1>8. ASSUME NEW ok \in BOOLEAN, Recover(ok) PROVE ToolTypeOK'
  <2> DEFINE l == Noted(loop, FALSE)
             n == l.recoveries + 1
             item == IF ok THEN "other" ELSE l.item
  <2>1. loop' = [l EXCEPT !.recoveries = n, !.item = item]
    BY <1>8 DEF Recover, Recovered
  <2>2. l \in Loop
    BY <1>0
  <2> HIDE DEF l
  <2>3. n \in Nat
    BY <2>2 DEF Loop
  <2>4. item \in {"other", "switch_limit", "goal_abandon_limit"}
    BY <2>2 DEF Loop
  <2> HIDE DEF n, item
  <2>5. loop' \in Loop
    BY <2>1, <2>2, <2>3, <2>4, ItemFields
  <2> QED BY <1>8, <2>5 DEF Recover
<1>9. ASSUME NEW ok \in BOOLEAN, NEW rationale \in Rationales, Submit(ok, rationale)
      PROVE  ToolTypeOK'
  <2>1. CASE loop' = Noted(loop, FALSE) /\ UNCHANGED <<facts, goals>>
    BY <1>0, <1>9, <2>1 DEF Submit
  <2>2. CASE /\ facts' = facts \cup {"submitted"}
                           \cup (IF rationale = "none" THEN {} ELSE {"excused"})
             /\ goals' = DraftSubmitted(goals)
             /\ loop' = [Noted(loop, TRUE) EXCEPT
                           !.rounds = IF @ > MaxRounds THEN @ ELSE @ + 1]
    <3> DEFINE l == Noted(loop, TRUE)
               n == IF l.rounds > MaxRounds THEN l.rounds ELSE l.rounds + 1
    <3>1. l \in Loop
      BY <1>0
    <3>3. loop' = [l EXCEPT !.rounds = n]
      BY <2>2
    <3> HIDE DEF l
    <3>2. n \in Nat
      BY <3>1 DEF Loop
    <3> HIDE DEF n
    <3>4. loop' \in Loop
      BY <3>1, <3>2, <3>3, ItemFields
    <3>5. facts' \subseteq Facts
      BY <2>2 DEF Facts
    <3>6. goals' \in Memory
      BY <2>2, GoalOps DEF Statuses, Scopes
    <3> QED BY <1>9, <3>4, <3>5, <3>6 DEF Submit
  <2> QED BY <1>9, <2>1, <2>2 DEF Submit
<1>10. ASSUME NEW status \in Statuses, NEW scope \in Scopes, GoalRefused(status, scope)
       PROVE  ToolTypeOK'
  <2>1. PICK item \in {"other", "switch_limit", "goal_abandon_limit"} :
          loop' = [Noted(loop, FALSE) EXCEPT !.item = item]
    <3> DEFINE why == Refusal(goals, status, scope)
               item == IF why \in {"switch_limit", "goal_abandon_limit"} THEN why
                       ELSE Noted(loop, FALSE).item
    <3>1. item \in {"other", "switch_limit", "goal_abandon_limit"}
      BY <1>0 DEF Loop
    <3>2. loop' = [Noted(loop, FALSE) EXCEPT !.item = item]
      BY <1>10 DEF GoalRefused
    <3> QED BY <3>1, <3>2
  <2>2. loop' \in Loop
    BY <1>0, <2>1, ItemFields
  <2> QED BY <1>10, <2>2 DEF GoalRefused
<1>11. ASSUME NEW status \in Statuses, NEW scope \in Scopes, GoalUpdate(status, scope)
       PROVE  ToolTypeOK'
  <2>1. PICK item \in {"other", "switch_limit", "goal_abandon_limit"} :
          loop' = [Noted(loop, TRUE) EXCEPT !.item = item]
    <3> DEFINE after == ItemAfter(goals, status, scope)
               l == Noted(loop, TRUE)
               item == IF after = "unchanged" THEN l.item ELSE after
    <3>2. loop' = [l EXCEPT !.item = item]
      BY <1>11 DEF GoalUpdate
    <3>3. l \in Loop /\ after \in {"unchanged", "other", "goal_abandon_limit"}
      BY <1>0, RefusalRange
    <3>4. l.item \in {"other", "switch_limit", "goal_abandon_limit"}
      BY <3>3 DEF Loop
    <3>1. item \in {"other", "switch_limit", "goal_abandon_limit"}
      BY <3>3, <3>4
    <3> QED BY <3>1, <3>2
  <2>2. loop' \in Loop
    BY <1>0, <2>1, ItemFields
  <2>3. facts' \subseteq Facts
    BY <1>11 DEF GoalUpdate, Facts
  <2>4. goals' \in Memory
    BY <1>11, GoalOps DEF GoalUpdate
  <2> QED BY <1>11, <2>2, <2>3, <2>4 DEF GoalUpdate
<1>12. ASSUME NEW status \in Statuses, NEW scope \in Scopes, GoalNotSaved(status, scope)
       PROVE  ToolTypeOK'
  <2>1. goals' \in Memory
    BY <1>12, GoalOps DEF GoalNotSaved
  <2>2. loop' \in Loop /\ facts' = facts
    BY <1>0, <1>12 DEF GoalNotSaved
  <2>3. faults' \in Nat
    BY <1>12 DEF GoalNotSaved, Fault
  <2> QED BY <2>1, <2>2, <2>3
<1>13. ASSUME NEW result \in LiveResults, LiveStep(result) PROVE ToolTypeOK'
  <2>1. facts' \subseteq Facts
    BY <1>13 DEF LiveStep, Facts
  <2> QED BY <1>0, <1>13, <2>1 DEF LiveStep
<1>14. ASSUME NEW result \in LiveResults, OpenPr(result) PROVE ToolTypeOK'
  <2>1. facts' \subseteq Facts
    BY <1>14 DEF OpenPr, Facts
  <2> QED BY <1>0, <1>14, <2>1 DEF OpenPr
<1> QED
  BY <1>1, <1>2, <1>3, <1>4, <1>5, <1>6, <1>7, <1>8, <1>9, <1>10, <1>11, <1>12, <1>13,
     <1>14 DEF ToolCall

-----------------------------------------------------------------------------
(* The runner.  Each of its endings has its own steps: without that the    *)
(* step after one that the ending does not have would be undefined.        *)

PathOK ==
  /\ path = "normal" => step # "mark"
  /\ path = "failed" => step \in (Tail \ {"mark"}) \cup {"ended", "killed"}
  /\ path = "interrupted" =>
       step \in {"terminal", "summary", "release", "mark", "finally", "ended", "killed"}
  /\ path = "broken" => step \in {"finally", "ended", "killed"}

TypeInv == TypeOK /\ PathOK

LEMMA ProceedTyped ==
  ASSUME TypeInv, Proceed, path' = path,
         step \in {"terminal", "replace", "retry", "release", "summary"}
  PROVE  step' \in {"replace", "retry", "release", "summary", "judge", "mark"} /\ PathOK'
<1>1. CASE path = "interrupted"
  BY <1>1 DEF TypeInv, TypeOK, PathOK, Proceed, NextStep, Tail
<1>2. CASE path \in {"normal", "failed"}
  BY <1>2 DEF TypeInv, TypeOK, PathOK, Proceed, NextStep, Tail
<1> QED BY <1>1, <1>2 DEF TypeInv, TypeOK, PathOK

LEMMA VerdictTyped ==
  ASSUME NEW l, NEW error \in Errors
  PROVE  Verdict(l, error).terminal \in Terminal
<1> DEFINE out == [status |-> "failed", layer |-> "model_runtime", about |-> error.about]
           Ends == {Undecided, out, Stop("blocked", "agent"), Stop("blocked", "budget"),
                    Stop("failed", "agent")}
<1>1. error.about \in Matters
  <2>1. CASE error = [failed |-> FALSE, about |-> "none"]
    BY <2>1 DEF Matters
  <2>2. CASE error \in [failed : {TRUE}, about : Matters]
    BY <2>2
  <2> QED BY <2>1, <2>2 DEF Errors
<1>2. Ends \subseteq Terminal
  BY <1>1 DEF Undecided, Stop, Terminal, Matters
<1>3. Verdict(l, error) = Again \/ \E t \in Ends : Verdict(l, error) = Ended(t)
  BY DEF Verdict, WithinLimits
<1> QED BY <1>2, <1>3 DEF Again, Ended

LEMMA DecidedTyped ==
  ASSUME terminal \in Terminal, NEW others, NEW mismatch
  PROVE  Decided(others, mismatch) \in Terminal
<1>1. /\ Stop("completed", "run") \in Terminal /\ Stop("blocked", "contribution") \in Terminal
      /\ Stop("failed", "run") \in Terminal /\ Stop("failed", "pr") \in Terminal
      /\ Stop("blocked", "agent") \in Terminal
  BY DEF Stop, Terminal, Matters
<1> QED BY <1>1 DEF Decided, Derived

LEMMA LeaveTyped ==
  ASSUME TypeOK, NEW newPath \in {"failed", "interrupted", "broken"} \cup {path},
         NEW newStep \in Steps, Leave(newPath, newStep),
         terminal' \in Terminal, container' \in {"none", "up", "settled", "stuck", "unknown"},
         faults' \in Nat
  PROVE  TypeOK'
<1>1. goals' \in Memory /\ loop' \in Loop
  BY NoGoalTyped, LoadedTyped, FirstInvocationTyped DEF Leave, ForgetLoop
<1>2. facts' \subseteq Facts
  BY DEF TypeOK, Leave, Forget, Facts
<1>3. proc' \in [Procs -> Process]
  BY BecomeTyped, BlankRecords DEF TypeOK, Leave, Procs
<1>4. torn' \in BOOLEAN
  BY DEF TypeOK, Leave, Tearing
<1> QED BY <1>1, <1>2, <1>3, <1>4 DEF TypeOK, Leave

LEMMA ReturnsTyped ==
  ASSUME TypeInv, NEW error \in Errors, Returns(error)
  PROVE  TypeInv'
<1> DEFINE verdict == Verdict(Counters(loop), error)
<1>1. verdict.terminal \in Terminal
  BY VerdictTyped
<1>2. goals' \in Memory /\ loop' \in Loop /\ step' \in {"loop", "derive"}
  <2>1. CASE verdict.again
    BY <2>1, CountersTyped DEF TypeInv, TypeOK, Returns
  <2>2. CASE ~verdict.again
    BY <2>2, NoGoalTyped, LoadedTyped, FirstInvocationTyped DEF Returns, ForgetLoop
  <2> QED BY <2>1, <2>2
<1>3. /\ terminal' = verdict.terminal
      /\ step = "loop"
      /\ UNCHANGED <<mode, path, facts, container, recorded, due, retryVars, faults>>
  BY DEF Returns
<1> HIDE DEF verdict
<1>4. path = "normal"
  BY <1>3 DEF TypeInv, TypeOK, PathOK, Tail
<1>5. TypeOK'
  BY <1>1, <1>2, <1>3 DEF TypeInv, TypeOK, Steps, retryVars
<1>6. PathOK'
  BY <1>2, <1>3, <1>4 DEF PathOK
<1> QED BY <1>5, <1>6 DEF TypeInv

LEMMA EndingTyped ==
  ASSUME TypeInv, Ending
  PROVE  TypeInv'
<1>0. path \in {"normal", "failed", "interrupted", "broken"}
  BY DEF TypeInv, TypeOK
<1>1. CASE WriteTerminal
  <2>1. step' \in Tail /\ PathOK'
    BY <1>1, ProceedTyped DEF WriteTerminal, Tail
  <2> QED BY <1>1, <2>1 DEF WriteTerminal, TypeInv, TypeOK, Steps, retryVars
<1>2. CASE RecordReplacement
  <2>1. step' \in Tail /\ PathOK'
    BY <1>2, ProceedTyped DEF RecordReplacement, Tail
  <2> QED BY <1>2, <2>1 DEF RecordReplacement, TypeInv, TypeOK, Steps, retryVars
<1>3. CASE RecordLiveRetry
  <2>1. step' \in Tail /\ PathOK'
    BY <1>3, ProceedTyped DEF RecordLiveRetry, Tail
  <2> QED BY <1>3, <2>1 DEF RecordLiveRetry, TypeInv, TypeOK, Steps, retryVars
<1>4. CASE Release
  <2>1. step' \in Tail /\ PathOK'
    BY <1>4, ProceedTyped DEF Release, Tail
  <2> QED BY <1>4, <2>1 DEF Release, Settlements, TypeInv, TypeOK, Steps, retryVars
<1>5. CASE Summarise
  <2>1. step' \in Tail /\ PathOK'
    BY <1>5, ProceedTyped DEF Summarise, Tail
  <2>2. summary' \in Summary
    BY <1>5 DEF Summarise, FromFiles, TypeInv, TypeOK, Summary
  <2> QED BY <1>5, <2>1, <2>2 DEF Summarise, TypeInv, TypeOK, Steps
<1>6. CASE Judge
  <2>1. [Idle EXCEPT !.pc = "panel"] \in Process
    BY BlankRecords DEF Process
  <2>2. proc' \in [Procs -> Process]
    BY <1>6, <2>1, BecomeTyped DEF Judge, TypeInv, TypeOK, Procs
  <2>3. terminal' \in Terminal
    BY <1>6, TerminalOps DEF Judge, TypeInv, TypeOK
  <2>4. step' \in {"judging", "publish"}
    BY <1>6 DEF Judge
  <2>5. TypeOK'
    BY <1>6, <2>2, <2>3, <2>4 DEF Judge, TypeInv, TypeOK, Steps, Tail
  <2>6. PathOK'
    BY <1>0, <1>6, <2>4 DEF Judge, TypeInv, PathOK, Tail
  <2> QED BY <2>5, <2>6 DEF TypeInv
<1>7. CASE Judging
  <2>1. CASE step' = "publish" /\ UNCHANGED retryVars
    BY <1>0, <1>7, <2>1 DEF Judging, TypeInv, TypeOK, PathOK, Steps, Tail, retryVars
  <2>2. CASE JudgeStep("runner") /\ UNCHANGED step
    <3>1. RetryTypeOK'
      <4>1. "runner" \in Procs /\ RetryTypeOK
        BY DEF Procs, TypeInv, TypeOK, RetryTypeOK
      <4> QED BY <2>2, <4>1, RejudgeTyped DEF RejudgeStep
    <3> QED BY <1>7, <2>2, <3>1 DEF Judging, TypeInv, TypeOK, PathOK, RetryTypeOK
  <2> QED BY <1>7, <2>1, <2>2 DEF Judging
<1>8. CASE Publish
  <2>1. summary' \in Summary
    BY <1>8 DEF Publish, FromFiles, TypeInv, TypeOK, Summary
  <2>2. TypeOK'
    BY <1>8, <2>1 DEF Publish, TypeInv, TypeOK, Steps, Tail
  <2>3. PathOK'
    BY <1>0, <1>8 DEF Publish, TypeInv, PathOK, Tail
  <2> QED BY <2>2, <2>3 DEF TypeInv
<1>9. CASE Finish
  <2>1. TypeOK'
    BY <1>9 DEF Finish, TypeInv, TypeOK, Steps, Tail, retryVars
  <2>2. PathOK'
    BY <1>0, <1>9 DEF Finish, TypeInv, PathOK, Tail
  <2> QED BY <2>1, <2>2 DEF TypeInv
<1>10. CASE Finally
  <2>1. TypeOK'
    BY <1>10 DEF Finally, Settlements, TypeInv, TypeOK, Steps, Tail, retryVars
  <2>2. PathOK'
    BY <1>0, <1>10 DEF Finally, TypeInv, PathOK, Tail
  <2> QED BY <2>1, <2>2 DEF TypeInv
<1> QED
  BY <1>1, <1>2, <1>3, <1>4, <1>5, <1>6, <1>7, <1>8, <1>9, <1>10 DEF Ending

LEMMA FailureTyped ==
  ASSUME TypeInv, Raises \/ Interrupted \/ HandlerFails \/ Killed
  PROVE  TypeInv'
<1>0. path \in {"normal", "failed", "interrupted", "broken"}
  BY DEF TypeInv, TypeOK
<1>1. CASE Raises
  <2>1. terminal' \in Terminal
    BY <1>1 DEF Raises, Raised, Stop, Terminal, Matters
  <2>2. container' \in {"none", "up", "settled", "stuck", "unknown"}
    BY <1>1 DEF Raises, TypeInv, TypeOK
  <2>3. Leave("failed", "terminal") /\ faults' \in Nat
    BY <1>1 DEF Raises, Fault, TypeInv, TypeOK
  <2>4. TypeOK'
    BY <2>1, <2>2, <2>3, LeaveTyped DEF TypeInv, Steps, Tail
  <2>5. PathOK'
    BY <2>3 DEF Leave, PathOK, Tail
  <2> QED BY <2>4, <2>5 DEF TypeInv
<1>2. CASE Interrupted
  <2>1. terminal' \in Terminal
    BY <1>2 DEF Interrupted, Stop, Terminal, Matters
  <2>2. container' \in {"none", "up", "settled", "stuck", "unknown"}
    BY <1>2 DEF Interrupted, TypeInv, TypeOK
  <2>3. Leave("interrupted", "terminal") /\ faults' \in Nat
    BY <1>2 DEF Interrupted, Fault, TypeInv, TypeOK
  <2>4. TypeOK'
    BY <2>1, <2>2, <2>3, LeaveTyped DEF TypeInv, Steps, Tail
  <2>5. PathOK'
    BY <2>3 DEF Leave, PathOK, Tail
  <2> QED BY <2>4, <2>5 DEF TypeInv
<1>3. CASE HandlerFails
  <2>1. terminal' \in Terminal
    BY <1>3, TerminalOps DEF HandlerFails, TypeInv, TypeOK
  <2>2. container' \in {"none", "up", "settled", "stuck", "unknown"} /\ faults' \in Nat
    BY <1>3 DEF HandlerFails, TypeInv, TypeOK
  <2>3. CASE path = "interrupted" /\ step # "mark"
    <3>1. Leave("interrupted", "mark")
      BY <1>3, <2>3 DEF HandlerFails
    <3>2. TypeOK'
      BY <2>1, <2>2, <3>1, LeaveTyped DEF TypeInv, Steps, Tail
    <3>3. PathOK'
      BY <3>1 DEF Leave, PathOK, Tail
    <3> QED BY <3>2, <3>3 DEF TypeInv
  <2>4. CASE ~(path = "interrupted" /\ step # "mark")
    <3>1. Leave("broken", "finally")
      BY <1>3, <2>4 DEF HandlerFails
    <3>2. TypeOK'
      BY <2>1, <2>2, <3>1, LeaveTyped DEF TypeInv, Steps, Tail
    <3>3. PathOK'
      BY <3>1 DEF Leave, PathOK, Tail
    <3> QED BY <3>2, <3>3 DEF TypeInv
  <2> QED BY <2>3, <2>4
<1>4. CASE Killed
  <2>1. terminal' \in Terminal
    BY <1>4, TerminalOps DEF Killed, TypeInv, TypeOK
  <2>2. container' \in {"none", "up", "settled", "stuck", "unknown"}
    BY <1>4 DEF Killed, TypeInv, TypeOK
  <2>3. Leave(path, "killed") /\ faults' \in Nat
    BY <1>4 DEF Killed, Fault, TypeInv, TypeOK
  <2>4. TypeOK'
    BY <2>1, <2>2, <2>3, LeaveTyped DEF TypeInv, Steps
  <2>5. PathOK'
    BY <1>0, <2>3 DEF Leave, PathOK
  <2> QED BY <2>4, <2>5 DEF TypeInv
<1> QED BY <1>1, <1>2, <1>3, <1>4

LEMMA InitTyped == Init => TypeInv
<1> SUFFICES ASSUME Init PROVE TypeInv
  OBVIOUS
<1>1. PICK kind \in Kinds :
        /\ mode = kind.mode
        /\ facts = IF kind.issue THEN {"issue"} ELSE {}
        /\ \E goal \in StartGoals[kind] :
             \/ goals = Loaded(goal) /\ faults = 0
             \/ goals = Seeded(Loaded(goal)) /\ faults = 0
             \/ goals = SeedUnsaved(Loaded(goal)) /\ faults = 1
  BY DEF Init
<1>2. PICK goal \in StartGoals[kind] :
        \/ goals = Loaded(goal) /\ faults = 0
        \/ goals = Seeded(Loaded(goal)) /\ faults = 0
        \/ goals = SeedUnsaved(Loaded(goal)) /\ faults = 1
  BY <1>1
<1>3. kind.mode \in {"shadow", "live"} /\ goal \in Goal
  BY RunConstants
<1>4. goals \in Memory
  <2>1. Loaded(goal) \in Memory
    BY <1>3, LoadedTyped
  <2>2. "active" \in Statuses /\ "contribution" \in Scopes
    BY DEF Statuses, Scopes
  <2> QED BY <1>2, <2>1, <2>2, GoalOps DEF Seeded, SeedUnsaved
<1>5. facts \subseteq Facts /\ faults \in Nat
  BY <1>1, <1>2 DEF Facts
<1>6. RetryTypeOK
  BY BlankRecords DEF Init, RetryInit, RetryTypeOK
<1>7. loop \in Loop /\ terminal \in Terminal
  BY FirstInvocationTyped, TerminalOps DEF Init
<1>8. TypeOK
  BY <1>1, <1>3, <1>4, <1>5, <1>6, <1>7 DEF Init, TypeOK, RetryTypeOK, Steps
<1>9. PathOK
  BY DEF Init, PathOK
<1> QED BY <1>8, <1>9 DEF TypeInv

LEMMA NextTyped == TypeInv /\ [Next]_vars => TypeInv'
<1> SUFFICES ASSUME TypeInv, [Next]_vars PROVE TypeInv'
  OBVIOUS
<1>1. CASE ToolCall
  <2>1. ToolTypeOK'
    BY <1>1, ToolTyped DEF TypeInv, TypeOK, ToolTypeOK
  <2>2. RunUnchanged
    BY <1>1 DEF ToolCall, Scout, ScoutRefused, OutOfPhase, Shell, Finalize, Observe, Remember,
                Dispute, ApplyPatch, Undo, Verify, Recover,
                Submit, GoalRefused, GoalUpdate, GoalNotSaved, LiveStep, OpenPr
  <2> QED BY <2>1, <2>2 DEF TypeInv, TypeOK, PathOK, ToolTypeOK, RunUnchanged, retryVars
<1>2. CASE Begin
  BY <1>2 DEF Begin, TypeInv, TypeOK, PathOK, Steps, Tail, retryVars
<1>3. CASE StartWorkspace
  BY <1>3 DEF StartWorkspace, TypeInv, TypeOK, PathOK, Steps, Tail, retryVars
<1>4. CASE Derive
  <2>1. terminal' \in Terminal
    BY <1>4, DecidedTyped DEF Derive, TypeInv, TypeOK
  <2>2. facts' \subseteq Facts
    BY <1>4 DEF Derive, Forget, TypeInv, TypeOK
  <2>3. TypeOK'
    BY <1>4, <2>1, <2>2 DEF Derive, TypeInv, TypeOK, Steps, Tail, retryVars
  <2>4. PathOK'
    BY <1>4 DEF Derive, TypeInv, PathOK, Tail
  <2> QED BY <2>3, <2>4 DEF TypeInv
<1>5. CASE Ending
  BY <1>5, EndingTyped
<1>6. ASSUME NEW error \in Errors, Returns(error) PROVE TypeInv'
  BY <1>6, ReturnsTyped
<1>7. CASE Raises \/ Interrupted \/ HandlerFails \/ Killed
  BY <1>7, FailureTyped
<1>8. CASE Refresh
  <2>1. (~Over) \in BOOLEAN /\ Replaced \in BOOLEAN
    BY DEF Over, Replaced
  <2>2. RetryTypeOK' /\ faults' \in Nat
    BY <1>8, <2>1, RefreshTyped DEF Refresh, TypeInv, TypeOK, RetryTypeOK
  <2> QED BY <1>8, <2>2 DEF Refresh, TypeInv, TypeOK, PathOK, RetryTypeOK, runVars
<1>9. CASE UNCHANGED vars
  BY <1>9 DEF vars, runVars, retryVars, TypeInv, TypeOK, PathOK
<1> QED
  BY <1>1, <1>2, <1>3, <1>4, <1>5, <1>6, <1>7, <1>8, <1>9 DEF Next, Onward

(* The runner, the goal service and the three processes that judge leave   *)
(* every variable in its set, and each ending keeps to its own steps.      *)
THEOREM TypeCorrect == Spec => [](TypeOK /\ PathOK)
<1>1. Spec => []TypeInv
  BY InitTyped, NextTyped, PTL DEF Spec
<1> QED BY <1>1, PTL DEF TypeInv

-----------------------------------------------------------------------------
(* What the parts of a step leave alone.                                   *)

LEMMA ToolFrame == ToolCall => MayCall /\ RunUnchanged
BY DEF ToolCall, Scout, ScoutRefused, OutOfPhase, Shell, Finalize, Observe, Remember,
                Dispute, ApplyPatch, Undo, Verify, Recover,
       Submit, GoalRefused, GoalUpdate, GoalNotSaved, GoalAccepted, LiveStep, OpenPr

(* Only github_open_pr opens a pull request, and only in a live run.       *)
LEMMA ToolOpens ==
  ASSUME ToolCall, "opened" \in facts', "opened" \notin facts
  PROVE  mode = "live"
<1>1. \A ok \in BOOLEAN : ~ApplyPatch(ok) /\ ~Undo(ok)
  BY DEF ApplyPatch, Undo, Edited
<1>2. ASSUME NEW ok \in BOOLEAN, NEW rationale \in Rationales, Submit(ok, rationale)
      PROVE  FALSE
  <2>1. \/ facts' = facts
        \/ facts' = facts \cup {"submitted"}
                       \cup (IF rationale = "none" THEN {} ELSE {"excused"})
    BY <1>2 DEF Submit
  <2> QED BY <2>1
<1>3. ~Finalize /\ \A ok \in BOOLEAN : ~Verify(ok)
  BY DEF Finalize, Verify
<1>4. ASSUME NEW status \in Statuses, NEW scope \in Scopes, GoalUpdate(status, scope)
      PROVE  FALSE
  <2>1. facts' = IF scope = "contribution" THEN facts \cup {"chosen"} ELSE facts
    BY <1>4 DEF GoalUpdate
  <2> QED BY <2>1
<1> QED
  BY <1>1, <1>2, <1>3, <1>4 DEF ToolCall, Scout, ScoutRefused, OutOfPhase, Shell,
     Observe, Remember, Dispute, Recover, GoalRefused, GoalNotSaved, LiveStep, OpenPr

LEMMA RefreshFrame == Refresh => UNCHANGED runVars
BY DEF Refresh

-----------------------------------------------------------------------------
(* The limits on abandoning: a goal becomes active only below the limit,   *)
(* and only an active goal can be abandoned.                               *)

Bounded(m) ==
  /\ Abandons(m) <= MaxAbandoned
  /\ Abandons(m) = MaxAbandoned => m.goal.status # "active"
  /\ \A s \in Switched : m.abandoned[s] <= MaxSwitches[s]

LEMMA LoadedBounded == ASSUME NEW goal PROVE Bounded(Loaded(goal))
<1>1. /\ Abandons(Loaded(goal)) = 0
      /\ \A s \in Switched : Loaded(goal).abandoned[s] = 0
  BY DEF Abandons, Loaded, Switched, Scopes
<1>2. MaxAbandoned \in Nat /\ MaxAbandoned # 0 /\ \A s \in Switched : MaxSwitches[s] \in Nat
  BY GoalConstants
<1>3. \A s \in Switched : Loaded(goal).abandoned[s] <= MaxSwitches[s]
  BY <1>1, <1>2
<1>4. Abandons(Loaded(goal)) <= MaxAbandoned /\ Abandons(Loaded(goal)) # MaxAbandoned
  BY <1>1, <1>2
<1> QED BY <1>3, <1>4 DEF Bounded

LEMMA UpdateBounded ==
  ASSUME NEW m \in Memory, Bounded(m), NEW status \in Statuses, NEW scope \in Scopes,
         Refusal(m, status, scope) = "none", Possible(m, status)
  PROVE  Bounded(Updated(m, status, scope)) /\ Bounded(Unsaved(m, status, scope))
<1> DEFINE u == Updated(m, status, scope)
           v == Unsaved(m, status, scope)
<1>0. /\ m.abandoned \in [Scopes -> Nat]
      /\ Abandons(m) \in Nat
  <2>1. m.abandoned \in [Scopes -> Nat]
    BY DEF Memory
  <2> QED BY <2>1 DEF Abandons, Scopes
<1>9. MaxAbandoned \in Nat /\ \A s \in Switched : MaxSwitches[s] \in Nat
  BY GoalConstants
<1>1. Abandons(m) < MaxAbandoned \/ status # "active"
  <2>1. status = "active" => ~(Abandons(m) >= MaxAbandoned)
    BY DEF Refusal
  <2> QED BY <1>0, <1>9, <2>1
<1>2. Abandons(m) < MaxAbandoned
  BY <1>0, <1>1, <1>9 DEF Bounded, Possible
<1>3. v.abandoned = m.abandoned /\ Abandons(v) = Abandons(m)
  BY DEF Unsaved, Abandons, Memory
<1>4. Bounded(v)
  BY <1>0, <1>2, <1>3, GoalConstants DEF Bounded
<1>5. CASE status # "abandoned"
  <2>1. u.abandoned = m.abandoned /\ Abandons(u) = Abandons(m)
    BY <1>5 DEF Updated, Abandons
  <2> QED BY <1>0, <1>2, <1>4, <2>1, GoalConstants DEF Bounded
<1>6. CASE status = "abandoned"
  <2>1. u.abandoned = [m.abandoned EXCEPT ![scope] = @ + 1]
    BY <1>6 DEF Updated
  <2>2. Abandons(u) = Abandons(m) + 1
    BY <1>0, <2>1 DEF Abandons, Scopes
  <2>3. u.goal.status = "abandoned"
    BY <1>6 DEF Updated, NewGoal, Finished
  <2>4. scope \in Switched => m.abandoned[scope] < MaxSwitches[scope]
    BY <1>0, <1>6, GoalConstants DEF Refusal, SwitchesSpent, Switched, Scopes
  <2>5. \A s \in Switched : u.abandoned[s] <= MaxSwitches[s]
    BY <1>0, <2>1, <2>4, GoalConstants DEF Bounded, Switched, Scopes
  <2> QED BY <1>0, <1>2, <1>4, <2>2, <2>3, <2>5, GoalConstants DEF Bounded
<1> QED BY <1>5, <1>6

LEMMA SubmittedBounded ==
  ASSUME NEW m \in Memory, Bounded(m)
  PROVE  Bounded(DraftSubmitted(m))
<1>1. DraftSubmitted(m).goal = m.goal /\ DraftSubmitted(m).abandoned = m.abandoned
  BY DEF DraftSubmitted, Memory
<1> QED BY <1>1 DEF Bounded, Abandons

LEMMA InitBounded == Init => Bounded(goals)
<1> SUFFICES ASSUME Init PROVE Bounded(goals)
  OBVIOUS
<1>1. PICK kind \in Kinds : \E goal \in StartGoals[kind] :
        \/ goals = Loaded(goal)
        \/ goals = Seeded(Loaded(goal))
        \/ goals = SeedUnsaved(Loaded(goal))
  BY DEF Init
<1>6. PICK goal \in StartGoals[kind] :
        \/ goals = Loaded(goal)
        \/ goals = Seeded(Loaded(goal))
        \/ goals = SeedUnsaved(Loaded(goal))
  BY <1>1
<1>2. goal \in Goal
  BY RunConstants
<1>3. Loaded(goal) \in Memory /\ Bounded(Loaded(goal))
  BY <1>2, LoadedTyped, LoadedBounded
<1>4. /\ Refusal(Loaded(goal), "complete", "contribution") = "none"
      /\ "active" \in Statuses /\ "contribution" \in Scopes
  BY DEF Refusal, Statuses, Scopes
<1>5. Refusal(Loaded(goal), "active", "contribution") = "none"
  <2>1. Abandons(Loaded(goal)) = 0
    BY DEF Abandons, Loaded, Scopes
  <2> QED BY <2>1, GoalConstants DEF Refusal, SwitchesSpent, Switched
<1> QED BY <1>6, <1>3, <1>4, <1>5, UpdateBounded DEF Seeded, SeedUnsaved, Possible

LEMMA NextBounded == TypeInv /\ Bounded(goals) /\ [Next]_vars => Bounded(goals)'
<1> SUFFICES ASSUME TypeInv, Bounded(goals), [Next]_vars PROVE Bounded(goals')
  BY DEF Bounded, Abandons
<1>0. goals \in Memory
  BY DEF TypeInv, TypeOK
<1>1. CASE ToolCall
  <2>1. \/ goals' = goals \/ goals' = DraftSubmitted(goals)
        \/ \E status \in Statuses, scope \in Scopes :
             GoalUpdate(status, scope) \/ GoalNotSaved(status, scope)
    BY <1>1 DEF ToolCall, Scout, ScoutRefused, OutOfPhase, Shell, Finalize, Observe, Remember,
                Dispute, ApplyPatch, Undo, Verify, Recover,
                Submit, GoalRefused, LiveStep, OpenPr
  <2>2. ASSUME NEW status \in Statuses, NEW scope \in Scopes,
               GoalUpdate(status, scope) \/ GoalNotSaved(status, scope)
        PROVE  Bounded(goals')
    BY <1>0, <2>2, UpdateBounded DEF GoalUpdate, GoalNotSaved, GoalAccepted
  <2> QED BY <1>0, <2>1, <2>2, SubmittedBounded
<1>2. CASE goals' = goals
  BY <1>2
<1>3. CASE ForgetLoop
  BY <1>3, LoadedBounded DEF ForgetLoop
<1>4. goals' = goals \/ ForgetLoop \/ ToolCall
  BY DEF Next, Onward, Begin, StartWorkspace, Derive, Returns, Ending, WriteTerminal,
         RecordReplacement, RecordLiveRetry, Release, Summarise, Judge, Judging, Publish,
         Finish, Finally, Raises, Interrupted, HandlerFails, Killed, Leave, Refresh, runVars,
         vars
<1> QED BY <1>1, <1>2, <1>3, <1>4

(* However goals are set, completed, superseded and abandoned, with        *)
(* whatever limits: aci_goal_update keeps the run within them.             *)
THEOREM AbandonsStayBounded == Spec => []AbandonsBounded
<1>1. Bounded(goals) => AbandonsBounded
  BY DEF Bounded, AbandonsBounded
<1> QED BY <1>1, InitTyped, NextTyped, InitBounded, NextBounded, PTL DEF Spec

-----------------------------------------------------------------------------
(* How a run ends.  What has to be done by then has been done when the     *)
(* finally clause is reached, or is done by it.                            *)

EndInv ==
  /\ step \in {"finally", "ended"} /\ path # "broken"
       => recorded \in {"finished", "interrupted"}
  /\ step = "ended" => container # "up"

LEMMA NextEnd == TypeInv /\ EndInv /\ [Next]_vars => EndInv'
<1> SUFFICES ASSUME TypeInv, EndInv, [Next]_vars PROVE EndInv'
  OBVIOUS
<1> USE DEF EndInv
<1>1. CASE ToolCall
  BY <1>1, ToolFrame DEF RunUnchanged
<1>2. CASE Begin \/ StartWorkspace \/ Derive
  BY <1>2 DEF Begin, StartWorkspace, Derive
<1>3. ASSUME NEW error \in Errors, Returns(error) PROVE EndInv'
  <2>1. step' \in {"loop", "derive"}
    BY <1>3 DEF Returns
  <2> QED BY <2>1
<1>4. CASE WriteTerminal \/ RecordReplacement \/ RecordLiveRetry \/ Release \/ Summarise
  <2>1. step' \notin {"finally", "ended"}
    BY <1>4, ProceedTyped DEF WriteTerminal, RecordReplacement, RecordLiveRetry, Release,
       Summarise
  <2> QED BY <2>1
<1>5. CASE Judge \/ Judging \/ Publish
  BY <1>5 DEF Judge, Judging, Publish
<1>6. CASE Finish
  BY <1>6 DEF Finish
<1>7. CASE Finally
  BY <1>7 DEF Finally, Settlements
<1>8. CASE Raises \/ Interrupted \/ HandlerFails \/ Killed
  BY <1>8 DEF Raises, Interrupted, HandlerFails, Killed, Leave
<1>9. CASE Refresh \/ UNCHANGED vars
  BY <1>9, RefreshFrame DEF runVars, vars
<1> QED
  BY <1>1, <1>2, <1>3, <1>4, <1>5, <1>6, <1>7, <1>8, <1>9 DEF Next, Onward, Ending

LEMMA EndInvariant == Spec => []EndInv
<1>1. Init => EndInv
  BY DEF Init, EndInv
<1> QED BY <1>1, InitTyped, NextTyped, NextEnd, PTL DEF Spec

(* Whatever fails at whatever point: the participant's record says that    *)
(* the run is over, unless the exception handler did not get to that.      *)
THEOREM EndRecorded == Spec => []EndedIsRecorded
<1>1. EndInv => EndedIsRecorded
  BY DEF EndInv, EndedIsRecorded
<1> QED BY <1>1, EndInvariant, PTL

(* No ending leaves a container that it knows of without having tried to   *)
(* remove it or decided to keep it.                                        *)
THEOREM ContainerFinalized == Spec => []WorkspaceFinalized
<1>1. EndInv => WorkspaceFinalized
  BY DEF EndInv, WorkspaceFinalized
<1> QED BY <1>1, EndInvariant, PTL

-----------------------------------------------------------------------------
(* The pull request decides over the end of a live run and over what is    *)
(* booked: nothing is, before the run is decided; after that the terminal  *)
(* state is not the provider's failure if there is a pull request.         *)

Undone == {"begin", "start", "loop", "derive"}

BookInv ==
  /\ step \in Undone => due = {}
  /\ "opened" \in facts => due = {} /\ mode = "live"
  /\ "opened" \in facts /\ step \in Tail => terminal.layer # "model_runtime"
  /\ CompletedMeansOpened

LEMMA NextBook == TypeInv /\ BookInv /\ [Next]_vars => BookInv'
<1> SUFFICES ASSUME TypeInv, BookInv, [Next]_vars PROVE BookInv'
  OBVIOUS
<1> USE DEF BookInv, CompletedMeansOpened
<1>1. CASE ToolCall
  <2>1. step = "loop" /\ due = {}
    BY <1>1, ToolFrame DEF MayCall, Undone
  <2>2. "opened" \in facts' => mode = "live"
    BY <1>1, ToolOpens
  <2> QED BY <1>1, <2>1, <2>2, ToolFrame DEF RunUnchanged, Tail
<1>2. CASE Begin \/ StartWorkspace
  BY <1>2 DEF Begin, StartWorkspace, Undone, Tail
<1>3. ASSUME NEW error \in Errors, Returns(error) PROVE BookInv'
  <2>1. step' \in {"loop", "derive"} /\ due = {} /\ UNCHANGED <<mode, facts, due>>
    BY <1>3 DEF Returns, Undone
  <2> QED BY <2>1 DEF Tail
<1>4. CASE Derive
  <2>1. PICK others \in BOOLEAN, mismatch \in BOOLEAN :
          terminal' = Decided(others, mismatch)
    BY <1>4 DEF Derive
  <2>2. "opened" \in facts' <=> "opened" \in facts
    BY <1>4 DEF Derive, Forget
  <2>3. step = "derive" /\ due' = {} /\ mode' = mode
    BY <1>4 DEF Derive, Undone
  <2>4. mode = "live" /\ "opened" \in facts => terminal' = Stop("completed", "run")
    BY <2>1 DEF Decided, SubmissionOutcome
  <2>5. mode = "live" /\ "opened" \notin facts => terminal'.status # "completed"
    BY <2>1 DEF Decided, SubmissionOutcome, Stop
  <2>6. Stop("completed", "run").status = "completed" /\ Stop("completed", "run").layer = "run"
    BY DEF Stop
  <2> QED BY <2>2, <2>3, <2>4, <2>5, <2>6
<1>5. CASE WriteTerminal \/ Release \/ Summarise
  <2>1. step \in Tail /\ step' \notin Undone
    BY <1>5, ProceedTyped DEF WriteTerminal, Release, Summarise, Tail, Undone
  <2> QED BY <1>5, <2>1 DEF WriteTerminal, Release, Summarise
<1>6. CASE RecordReplacement
  <2>1. step \in Tail /\ step' \notin Undone
    BY <1>6, ProceedTyped DEF RecordReplacement, Tail, Undone
  <2>2. "opened" \in facts => due' = due
    BY <1>6, <2>1 DEF RecordReplacement, ToBeReplaced
  <2> QED BY <1>6, <2>1, <2>2 DEF RecordReplacement
<1>7. CASE RecordLiveRetry
  <2>1. step \in Tail /\ step' \notin Undone
    BY <1>7, ProceedTyped DEF RecordLiveRetry, Tail, Undone
  <2>2. "opened" \in facts => due' = due
    BY <1>7 DEF RecordLiveRetry, ToBeResubmitted
  <2>3. "opened" \in facts' <=> "opened" \in facts
    BY <1>7 DEF RecordLiveRetry
  <2> QED BY <1>7, <2>1, <2>2, <2>3 DEF RecordLiveRetry
<1>8. CASE Judge
  <2>1. terminal'.layer = "none" /\ terminal'.status = terminal.status
    BY <1>8 DEF Judge, Settled, Stop
  <2>2. step \in Tail /\ step' \in {"judging", "publish"}
    BY <1>8 DEF Judge, Tail
  <2> QED BY <1>8, <2>1, <2>2 DEF Judge, Tail, Undone
<1>9. CASE Judging \/ Publish \/ Finish \/ Finally
  BY <1>9 DEF Judging, Publish, Finish, Finally, Tail, Undone
<1>10. CASE Raises \/ Interrupted
  <2>1. terminal'.layer # "model_runtime" /\ path' # "normal" /\ step' = "terminal"
    BY <1>10 DEF Raises, Raised, Interrupted, Stop, Leave
  <2>2. ("opened" \in facts' <=> "opened" \in facts) /\ due' = due /\ mode' = mode
    BY <1>10 DEF Raises, Interrupted, Leave, Forget
  <2> QED BY <2>1, <2>2 DEF Undone
<1>11. CASE HandlerFails
  <2>1. terminal'.layer = "none" /\ path' # "normal" /\ step' \in {"mark", "finally"}
    BY <1>11 DEF HandlerFails, Leave, Settled, Stop
  <2>2. ("opened" \in facts' <=> "opened" \in facts) /\ due' = due /\ mode' = mode
    BY <1>11 DEF HandlerFails, Leave, Forget
  <2> QED BY <2>1, <2>2 DEF Undone
<1>12. CASE Killed
  <2>1. step' = "killed" /\ due' = due /\ mode' = mode
    BY <1>12 DEF Killed, Leave
  <2>2. "opened" \in facts' <=> "opened" \in facts
    BY <1>12 DEF Killed, Leave, Forget
  <2> QED BY <2>1, <2>2 DEF Undone, Tail
<1>13. CASE Refresh \/ UNCHANGED vars
  BY <1>13, RefreshFrame DEF runVars, vars
<1> QED
  BY <1>1, <1>2, <1>3, <1>4, <1>5, <1>6, <1>7, <1>8, <1>9, <1>10, <1>11, <1>12, <1>13
  DEF Next, Onward, Ending

LEMMA BookInvariant == Spec => []BookInv
<1>1. Init => BookInv
  BY DEF Init, BookInv, CompletedMeansOpened, Undone, Tail
<1> QED BY <1>1, InitTyped, NextTyped, NextBook, PTL DEF Spec

(* A recorded pull request makes a live run that meets no exception a      *)
(* completed one, and nothing else does.                                   *)
THEOREM PullRequestDecides == Spec => []CompletedMeansOpened
<1>1. BookInv => CompletedMeansOpened
  BY DEF BookInv
<1> QED BY <1>1, BookInvariant, PTL

(* No run is repeated for a contribution that was made.                    *)
THEOREM NeverTwice == Spec => []NoSecondAttemptAfterPr
<1>1. BookInv => NoSecondAttemptAfterPr
  BY DEF BookInv, NoSecondAttemptAfterPr
<1> QED BY <1>1, BookInvariant, PTL

-----------------------------------------------------------------------------
(* A replaced run is not judged: until the runner gets to judging there is *)
(* no judgement that an operator did not ask for, and once a replacement   *)
(* is booked it does not get to judging.                                   *)

Before == Undone \cup {"terminal", "replace", "retry", "release", "summary", "judge"}

Fresh ==
  /\ judgement = NoJudgement
  /\ retry = NoRetry
  /\ \A p \in Procs : proc[p].pc = "idle"

ReplInv ==
  /\ path = "normal" /\ step \in Before /\ hands = 0 => Fresh
  /\ Replaced => step \notin Undone \cup {"judging"}
  /\ Replaced /\ step \in Before => ~Judgeable(terminal)
  /\ Replaced /\ hands = 0 => Fresh
  /\ path # "normal" /\ step \in Tail => terminal.layer # "model_runtime"

LEMMA FreshRefresh ==
  ASSUME RetryTypeOK, NEW ending, NEW replaced, RefreshStep(ending, replaced)
  PROVE  /\ hands' \in {hands, hands + 1}
         /\ Fresh => hands' = hands + 1
<1>1. {"tick", "hand"} \subseteq Procs
  BY DEF Procs
<1>2. /\ Fresh => ~RejudgeStep("tick") /\ ~RejudgeStep("hand")
      /\ Fresh => ~TickRaises /\ ~RefreshDies("tick") /\ ~RefreshDies("hand")
  BY <1>1 DEF Fresh, RejudgeStep, JudgeStep, Panel, MarkDue, Defer, DeferSummary, MarkNothing,
     WriteSummary, Note, TickRaises, RefreshDies, AtPoint
<1>3. /\ Fresh => ~TickRecovers(ending) /\ ~TwoHoursPass
      /\ Fresh => ~TickSkips(ending, replaced) /\ ~TickStarts(ending, replaced)
  BY DEF Fresh, NoRetry, TickRecovers, TwoHoursPass, TickSkips, TickStarts, Due
<1>4. HandStarts(ending) => hands' = hands + 1
  BY DEF HandStarts
<1>5. ~HandStarts(ending) => hands' = hands
  <2> SUFFICES ASSUME ~HandStarts(ending) PROVE hands' = hands
    OBVIOUS
  <2>1. RejudgeStep("tick") \/ RejudgeStep("hand") => hands' = hands
    BY DEF RejudgeStep, JudgeStep, Panel, MarkDue, Defer, DeferSummary, MarkNothing,
           WriteSummary, Note
  <2>2. TickRecovers(ending) \/ TickSkips(ending, replaced) \/ TickStarts(ending, replaced)
          \/ TwoHoursPass \/ TickRaises \/ RefreshDies("tick") \/ RefreshDies("hand")
        => hands' = hands
    BY DEF TickRecovers, TickSkips, TickStarts, TwoHoursPass, TickRaises, RefreshDies
  <2> QED BY <2>1, <2>2 DEF RefreshStep, TickStep
<1> QED BY <1>2, <1>3, <1>4, <1>5 DEF RefreshStep, TickStep

LEMMA LeaveFresh ==
  ASSUME TypeInv, NEW newPath, NEW newStep, Leave(newPath, newStep), Fresh
  PROVE  Fresh'
<1>1. /\ judgement' = judgement /\ retry' = retry
      /\ proc' = [proc EXCEPT !["runner"] = Idle]
  BY DEF Leave, Become
<1>2. \A p \in Procs : proc'[p].pc = "idle"
  BY <1>1 DEF TypeInv, TypeOK, Fresh, Idle
<1> QED BY <1>1, <1>2 DEF Fresh

LEMMA NextRepl == TypeInv /\ BookInv /\ ReplInv /\ [Next]_vars => ReplInv'
<1> SUFFICES ASSUME TypeInv, BookInv, ReplInv, [Next]_vars PROVE ReplInv'
  OBVIOUS
<1> USE DEF ReplInv, Replaced
<1>1. CASE ToolCall
  BY <1>1, ToolFrame DEF RunUnchanged, retryVars, Fresh
<1>2. CASE Begin \/ StartWorkspace
  BY <1>2 DEF Begin, StartWorkspace, Undone, Before, Tail, retryVars, Fresh
<1>3. ASSUME NEW error \in Errors, Returns(error) PROVE ReplInv'
  <2>1. /\ step = "loop" /\ step' \in {"loop", "derive"} /\ due = {} /\ due' = due
        /\ UNCHANGED <<path, retryVars>>
    BY <1>3 DEF Returns, BookInv, Undone
  <2> QED BY <2>1 DEF Undone, Before, Tail, retryVars, Fresh
<1>4. CASE Derive
  <2>1. /\ step = "derive" /\ step' = "terminal" /\ due = {} /\ due' = due
        /\ UNCHANGED <<path, retryVars>>
    BY <1>4 DEF Derive, BookInv, Undone
  <2>2. path = "normal"
    BY <2>1 DEF TypeInv, TypeOK, PathOK, Tail
  <2> QED BY <2>1, <2>2 DEF Undone, Before, Tail, retryVars, Fresh
<1>5. CASE WriteTerminal \/ RecordLiveRetry \/ Release \/ Summarise
  <2>1. step \in Before \cap Tail /\ step' \notin Undone \cup {"judging"}
    BY <1>5, ProceedTyped DEF WriteTerminal, RecordLiveRetry, Release, Summarise, Before,
       Undone, Tail
  <2>2. /\ UNCHANGED <<path, terminal, judgement, retry, proc, hands>>
        /\ "replacement" \in due' => "replacement" \in due
    BY <1>5 DEF WriteTerminal, RecordLiveRetry, Release, Summarise, retryVars
  <2> QED BY <2>1, <2>2 DEF Fresh
<1>6. CASE RecordReplacement
  <2>1. step \in Before \cap Tail /\ step' \notin Undone \cup {"judging"}
    BY <1>6, ProceedTyped DEF RecordReplacement, Before, Undone, Tail
  <2>2. UNCHANGED <<path, terminal, judgement, retry, proc, hands>>
    BY <1>6 DEF RecordReplacement, retryVars
  <2>3. CASE ToBeReplaced(terminal)
    <3>1. path = "normal" /\ ~Judgeable(terminal)
      BY <2>1, <2>3 DEF ToBeReplaced, Judgeable
    <3> QED BY <2>1, <2>2, <3>1 DEF Fresh
  <2>4. CASE ~ToBeReplaced(terminal)
    <3>1. due' = due
      BY <1>6, <2>4 DEF RecordReplacement
    <3> QED BY <2>1, <2>2, <3>1 DEF Fresh
  <2> QED BY <2>3, <2>4
<1>7. CASE Judge
  <2>1. terminal'.layer = "none"
    BY <1>7 DEF Judge, Settled, Stop
  <2>2. step = "judge" /\ due' = due /\ UNCHANGED <<path, hands, judgement, retry>>
    BY <1>7 DEF Judge
  <2>3. CASE Judgeable(terminal)
    <3>1. step' = "judging" /\ "replacement" \notin due
      BY <1>7, <2>2, <2>3 DEF Judge, Before
    <3> QED BY <2>1, <2>2, <3>1 DEF Before, Undone
  <2>4. CASE ~Judgeable(terminal)
    <3>1. step' = "publish" /\ proc' = proc
      BY <1>7, <2>4 DEF Judge
    <3> QED BY <2>1, <2>2, <3>1 DEF Before, Undone, Fresh
  <2> QED BY <2>3, <2>4
<1>8. CASE Judging
  <2>1. /\ step = "judging" /\ step' \in {"judging", "publish"}
        /\ UNCHANGED <<path, due, terminal>>
    BY <1>8 DEF Judging
  <2> QED BY <2>1 DEF Before, Undone, Tail
<1>9. CASE Publish \/ Finish \/ Finally
  BY <1>9 DEF Publish, Finish, Finally, Before, Undone, Tail, retryVars, Fresh
<1>10. CASE Raises
  <2>1. Leave("failed", "terminal") /\ hands' = hands /\ due' = due
    BY <1>10 DEF Raises, Leave
  <2>2. step' = "terminal" /\ path' = "failed"
    BY <2>1 DEF Leave
  <2>3. /\ terminal'.status # "completed"
        /\ terminal'.layer \in {"unknown", "workspace", "agent", "budget"}
        /\ terminal'.layer = "agent" => step = "loop"
    BY <1>10 DEF Raises, Raised, Stop
  <2>4. "replacement" \in due => ~Judgeable(terminal')
    BY <2>3 DEF Judgeable, Undone
  <2>5. "replacement" \in due /\ hands = 0 => Fresh'
    BY <2>1, LeaveFresh
  <2> QED BY <2>1, <2>2, <2>3, <2>4, <2>5 DEF Undone
<1>11. CASE Interrupted
  <2>1. Leave("interrupted", "terminal") /\ hands' = hands /\ due' = due
    BY <1>11 DEF Interrupted, Leave
  <2>2. step' = "terminal" /\ path' = "interrupted"
    BY <2>1 DEF Leave
  <2>3. ~Judgeable(terminal') /\ terminal'.layer = "run"
    BY <1>11 DEF Interrupted, Stop, Judgeable
  <2>4. "replacement" \in due /\ hands = 0 => Fresh'
    BY <2>1, LeaveFresh
  <2> QED BY <2>1, <2>2, <2>3, <2>4 DEF Undone
<1>12. CASE HandlerFails
  <2>1. PICK newPath \in {"interrupted", "broken"}, newStep \in {"mark", "finally"} :
          Leave(newPath, newStep)
    BY <1>12 DEF HandlerFails
  <2>2. hands' = hands /\ due' = due /\ step' = newStep /\ path' = newPath
    BY <2>1 DEF Leave
  <2>3. terminal'.layer = "none"
    BY <1>12 DEF HandlerFails, Settled, Stop
  <2>4. "replacement" \in due /\ hands = 0 => Fresh'
    BY <2>1, LeaveFresh
  <2> QED BY <2>2, <2>3, <2>4 DEF Undone, Before
<1>13. CASE Killed
  <2>1. Leave(path, "killed")
    BY <1>13 DEF Killed
  <2>2. hands' = hands /\ due' = due /\ step' = "killed"
    BY <2>1 DEF Leave
  <2>3. "replacement" \in due /\ hands = 0 => Fresh'
    BY <2>1, LeaveFresh
  <2> QED BY <2>2, <2>3 DEF Undone, Before, Tail
<1>14. CASE Refresh
  <2>1. UNCHANGED <<path, step, due, terminal>>
    BY <1>14 DEF Refresh, runVars
  <2>2. /\ hands' \in {hands, hands + 1} /\ hands \in Nat
        /\ Fresh => hands' = hands + 1
    BY <1>14, FreshRefresh DEF Refresh, TypeInv, TypeOK, RetryTypeOK
  <2>3. hands' = 0 => ~Fresh /\ hands = 0
    BY <2>2
  <2> QED BY <2>1, <2>3
<1>15. CASE UNCHANGED vars
  BY <1>15 DEF vars, runVars, retryVars, Fresh
<1> QED
  BY <1>1, <1>2, <1>3, <1>4, <1>5, <1>6, <1>7, <1>8, <1>9, <1>10, <1>11, <1>12, <1>13, <1>14,
     <1>15 DEF Next, Onward, Ending

(* The runner never judges a run that is to be replaced, and without a     *)
(* judgement no tick does: only an operator can give it a score.           *)
THEOREM ReplacedStaysUnscored == Spec => []ReplacedRunNotScored
<1>1. Init => ReplInv
  BY DEF Init, RetryInit, ReplInv, Replaced, Fresh, Idle, Undone, Before, Tail
<1>2. ReplInv => ReplacedRunNotScored
  BY DEF ReplInv, ReplacedRunNotScored, Fresh, Scored, NoJudgement
<1> QED BY <1>1, <1>2, InitTyped, NextTyped, BookInvariant, NextRepl, PTL DEF Spec
-----------------------------------------------------------------------------
(* A completed shadow run.  Until the ending is derived the loop has at    *)
(* most decided that the run is not completed, and a draft is accepted     *)
(* only after some edit was.                                               *)

EarnInv ==
  /\ step \in Undone => terminal.status # "completed"
  /\ "submitted" \in facts => "edited" \in facts

LEMMA VerdictNotCompleted ==
  ASSUME NEW l, NEW error
  PROVE  Verdict(l, error).terminal.status # "completed"
BY DEF Verdict, WithinLimits, Ended, Again, Undecided, Stop

LEMMA ToolEarns ==
  ASSUME ToolCall, "submitted" \in facts => "edited" \in facts
  PROVE  "submitted" \in facts' => "edited" \in facts'
<1>1. ASSUME NEW ok \in BOOLEAN, NEW rationale \in Rationales, Submit(ok, rationale)
      PROVE  "submitted" \in facts' => "edited" \in facts'
  <2>1. \/ facts' = facts
        \/ /\ "edited" \in facts
           /\ facts \subseteq facts'
    BY <1>1 DEF Submit, Acceptable
  <2> QED BY <2>1
<1>2. ASSUME NEW ok \in BOOLEAN, ApplyPatch(ok) \/ Undo(ok)
      PROVE  "submitted" \in facts' => "edited" \in facts'
  BY <1>2 DEF ApplyPatch, Undo, Edited
<1>3. ASSUME NEW status \in Statuses, NEW scope \in Scopes, GoalUpdate(status, scope)
      PROVE  "submitted" \in facts' => "edited" \in facts'
  BY <1>3 DEF GoalUpdate
<1>4. ASSUME NEW result \in LiveResults, LiveStep(result) \/ OpenPr(result)
      PROVE  "submitted" \in facts' => "edited" \in facts'
  BY <1>4 DEF LiveStep, OpenPr
<1>5. CASE Finalize \/ \E ok \in BOOLEAN : Verify(ok)
  BY <1>5 DEF Finalize, Verify
<1> QED
  BY <1>1, <1>2, <1>3, <1>4, <1>5 DEF ToolCall, Scout, ScoutRefused, OutOfPhase, Shell,
     Observe, Remember, Dispute, Recover, GoalRefused, GoalNotSaved

LEMMA NextEarn == TypeInv /\ EarnInv /\ [Next]_vars => EarnInv'
<1> SUFFICES ASSUME TypeInv, EarnInv, [Next]_vars PROVE EarnInv'
  OBVIOUS
<1> USE DEF EarnInv
<1>1. CASE ToolCall
  BY <1>1, ToolFrame, ToolEarns DEF RunUnchanged
<1>2. CASE Begin \/ StartWorkspace
  BY <1>2 DEF Begin, StartWorkspace, Undone
<1>3. ASSUME NEW error \in Errors, Returns(error) PROVE EarnInv'
  BY <1>3, VerdictNotCompleted DEF Returns
<1>4. CASE Derive
  BY <1>4 DEF Derive, Forget, Undone
<1>5. CASE WriteTerminal \/ RecordReplacement \/ RecordLiveRetry \/ Release \/ Summarise
  <2>1. step' \notin Undone
    BY <1>5, ProceedTyped DEF WriteTerminal, RecordReplacement, RecordLiveRetry, Release,
       Summarise, Undone
  <2> QED
    BY <1>5, <2>1 DEF WriteTerminal, RecordReplacement, RecordLiveRetry, Release, Summarise
<1>6. CASE Judge \/ Judging \/ Publish \/ Finish \/ Finally
  BY <1>6 DEF Judge, Judging, Publish, Finish, Finally, Undone
<1>7. CASE Raises \/ Interrupted \/ HandlerFails \/ Killed
  BY <1>7 DEF Raises, Interrupted, HandlerFails, Killed, Leave, Forget, Undone
<1>8. CASE Refresh \/ UNCHANGED vars
  BY <1>8, RefreshFrame DEF runVars, vars
<1> QED
  BY <1>1, <1>2, <1>3, <1>4, <1>5, <1>6, <1>7, <1>8 DEF Next, Onward, Ending

(* A step out of "derive" that completes a shadow run is the derivation,   *)
(* and goes through the quality gate.                                      *)
LEMMA StepEarned ==
  ASSUME TypeInv, EarnInv, [Next]_vars,
         step = "derive", terminal'.status = "completed", mode # "live"
  PROVE  /\ {"edited", "submitted"} \subseteq facts
         /\ "chosen" \in facts => "finalized" \in facts
         /\ Backed
<1>1. terminal.status # "completed"
  BY DEF EarnInv, Undone
<1>2. PICK others \in BOOLEAN, mismatch \in BOOLEAN : terminal' = Decided(others, mismatch)
  <2>1. CASE Derive
    BY <2>1 DEF Derive
  <2>2. CASE Raises \/ Interrupted \/ HandlerFails \/ Killed
    BY <1>1, <2>2 DEF Raises, Raised, Interrupted, HandlerFails, Killed, Settled, Stop
  <2>3. CASE Refresh \/ UNCHANGED vars
    BY <1>1, <2>3, RefreshFrame DEF runVars, vars
  <2>4. ~ToolCall
    BY ToolFrame DEF MayCall
  <2> QED
    BY <2>1, <2>2, <2>3, <2>4 DEF Next, Onward, Begin, StartWorkspace, Returns, Ending,
       WriteTerminal, RecordReplacement, RecordLiveRetry, Release, Summarise, Judge, Judging,
       Publish, Finish, Finally
<1>3. Derived(others).status = "completed"
  BY <1>2 DEF Decided
<1>4. terminal = Undecided /\ GatePasses(others)
  BY <1>1, <1>3 DEF Derived, Stop
<1>5. PatchSubmitted /\ "submitted" \in facts /\ Backed
  BY <1>4 DEF GatePasses, Enforced, AgentResult, DerivedStatus
<1> QED BY <1>5 DEF EarnInv, PatchSubmitted

(* For all budgets, limits and faults, and in whatever order the tools are *)
(* called: derive_agent_result and the quality gate complete a shadow run  *)
(* only on an accepted draft of an edit that a verification or an accepted *)
(* rationale backs, and that is finalized where the agent chose the goal.  *)
THEOREM CompletionIsEarned == Spec => CompletedIsEarned
<1>1. Init => EarnInv
  BY DEF Init, EarnInv, Undecided, Stop
<1>2. TypeInv /\ EarnInv /\ [Next]_vars =>
        [step = "derive" /\ terminal'.status = "completed" /\ mode # "live" =>
           /\ {"edited", "submitted"} \subseteq facts
           /\ "chosen" \in facts => "finalized" \in facts
           /\ Backed]_vars
  BY StepEarned
<1> QED BY <1>1, <1>2, InitTyped, NextTyped, NextEarn, PTL DEF Spec, CompletedIsEarned
=============================================================================
