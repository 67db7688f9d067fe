------------------------ MODULE AgentRunJudging_proofs ------------------------
(***************************************************************************)
(* Proofs about how a run is judged, for any number of questions, retries, *)
(* `judge` commands and failures: what the panels cost, and what the three *)
(* kinds of processes that judge leave in the files.                       *)
(***************************************************************************)
EXTENDS AgentRun_proofs, Integers

-----------------------------------------------------------------------------
(* The panels.  Each `judge` command, and the run itself, may cost one     *)
(* panel and MaxRetries more.  Spent counts the panels held, and those     *)
(* that the runner, as long as it may come to judge, and a command under   *)
(* way may still cause; Left is what remains for the retry that the file   *)
(* and the tick speak of.                                                  *)

(* The runner may still come to judge.                                     *)
Ahead == step \in Undone \/ (step \in Before /\ Judgeable(terminal))

RunnerCredit ==
  IF Ahead \/ AtPoint("runner", "panel") THEN 1 + MaxRetries
  ELSE IF AtPoint("runner", "mark") THEN MaxRetries
  ELSE 0
HandCredit == IF proc["hand"].pc \in {"panel", "summary", "mark"} THEN MaxRetries ELSE 0

Allowance == (1 + MaxRetries) * (1 + hands) + faults
Left == Allowance - (panels + RunnerCredit + HandCredit)

(* What the retry needs.  r: the retry file; pc, taken: where the tick is, *)
(* and the attempts it read when it took the run up, which it counts from  *)
(* if it raises.                                                           *)
Pays(left, r, pc, taken) ==
  /\ left >= 0
  /\ r.status = "none" => r.attempts = 0
  /\ r.status \in {"due", "running"} => r.attempts <= MaxRetries
  /\ r.status \in {"due", "running"} /\ pc \notin {"panel", "summary", "mark"}
       => left + r.attempts >= MaxRetries + 1
  /\ pc = "panel" => /\ left >= 1
                     /\ left + r.attempts >= MaxRetries + 1
                     /\ left + taken >= MaxRetries + 1
  /\ pc \in {"summary", "mark"} => left + r.attempts >= MaxRetries
  /\ pc # "idle" => left + taken >= MaxRetries

PanelInv == Pays(Left, retry, proc["tick"].pc, proc["tick"].attempts)

LEMMA Numbers ==
  ASSUME TypeInv
  PROVE  /\ MaxRetries \in Nat /\ MaxRetries >= 1
         /\ Allowance \in Nat /\ Left \in Int
         /\ RunnerCredit \in Nat /\ HandCredit \in Nat
         /\ panels \in Nat /\ hands \in Nat /\ faults \in Nat
         /\ retry.attempts \in Nat /\ proc["tick"].attempts \in Nat
<1>1. MaxRetries \in Nat /\ MaxRetries >= 1
  BY RetryConstants
<1>2. panels \in Nat /\ hands \in Nat /\ faults \in Nat
  BY DEF TypeInv, TypeOK
<1>3. RunnerCredit \in Nat /\ HandCredit \in Nat
  BY <1>1 DEF RunnerCredit, HandCredit
<1>4. (1 + MaxRetries) * (1 + hands) \in Nat
  BY <1>1, <1>2
<1>5. Allowance \in Nat
  BY <1>2, <1>4 DEF Allowance
<1>6. Left \in Int
  BY <1>2, <1>3, <1>5 DEF Left
<1>7. retry.attempts \in Nat /\ proc["tick"].attempts \in Nat
  BY DEF TypeInv, TypeOK, Retry, Process, Procs
<1> QED BY <1>1, <1>2, <1>3, <1>5, <1>6, <1>7

LEMMA AllowanceSteps ==
  ASSUME TypeInv
  PROVE  /\ hands' = hands /\ faults' = faults => Allowance' = Allowance
         /\ hands' = hands /\ faults' = faults + 1 => Allowance' = Allowance + 1
         /\ hands' = hands + 1 /\ faults' = faults => Allowance' = Allowance + 1 + MaxRetries
<1>1. /\ MaxRetries \in Nat /\ hands \in Nat /\ faults \in Nat
  BY Numbers
<1>2. (1 + MaxRetries) * (1 + (hands + 1)) = (1 + MaxRetries) * (1 + hands) + (1 + MaxRetries)
  BY <1>1
<1>3. (1 + MaxRetries) * (1 + hands) \in Nat
  BY <1>1
<1>4. hands' = hands + 1 =>
        (1 + MaxRetries) * (1 + hands') = (1 + MaxRetries) * (1 + hands) + (1 + MaxRetries)
  BY <1>2
<1> DEFINE product == (1 + MaxRetries) * (1 + hands)
<1>5. /\ hands' = hands /\ faults' = faults => Allowance' = Allowance
      /\ hands' = hands /\ faults' = faults + 1 => Allowance' = Allowance + 1
  <2>1. Allowance' = (1 + MaxRetries) * (1 + hands') + faults'
    BY DEF Allowance
  <2>2. hands' = hands => Allowance' = product + faults'
    BY <2>1
  <2>3. Allowance = product + faults /\ product \in Nat
    BY <1>3 DEF Allowance
  <2> HIDE DEF product
  <2> QED BY <1>1, <2>2, <2>3
<1>6. hands' = hands + 1 /\ faults' = faults => Allowance' = Allowance + 1 + MaxRetries
  <2>1. Allowance' = (1 + MaxRetries) * (1 + hands') + faults'
    BY DEF Allowance
  <2>2. hands' = hands + 1 => Allowance' = product + (1 + MaxRetries) + faults'
    BY <1>4, <2>1
  <2>3. Allowance = product + faults /\ product \in Nat
    BY <1>3 DEF Allowance
  <2> HIDE DEF product
  <2> QED BY <1>1, <2>2, <2>3
<1> QED BY <1>5, <1>6

LEMMA BecomesOnly ==
  ASSUME TypeInv, NEW p \in Procs, NEW r, Become(p, r)
  PROVE  proc'[p] = r /\ \A q \in Procs : q # p => proc'[q] = proc[q]
BY DEF TypeInv, TypeOK, Become

LEMMA ThreeProcs == {"runner", "tick", "hand"} = Procs
BY DEF Procs

LEMMA CreditsKept ==
  /\ UNCHANGED <<step, terminal>> /\ proc'["runner"].pc = proc["runner"].pc
       => RunnerCredit' = RunnerCredit
  /\ proc'["hand"].pc = proc["hand"].pc => HandCredit' = HandCredit
BY DEF RunnerCredit, HandCredit, Ahead, AtPoint

(* The retry after another transient failure.                              *)
OnceMore(r) ==
  /\ r.attempts = Attempts + 1
  /\ r.status \in {"due", "failed"}
  /\ r.status = "due" => r.attempts <= MaxRetries

(* The steps of a judging process, as far as the panels are concerned: it  *)
(* holds one, marks the retry due once more, or given up, or succeeded, or *)
(* leaves both alone.                                                      *)
LEMMA JudgingMoves ==
  ASSUME TypeInv, NEW p \in Procs, RejudgeStep(p)
  PROVE  /\ hands' = hands
         /\ \A q \in Procs : q # p => proc'[q] = proc[q]
         /\ proc'[p].pc = "idle" \/ proc'[p].attempts = proc[p].attempts
         /\ \/ /\ proc[p].pc = "panel"
               /\ proc'[p].pc = IF p = "runner" THEN "mark" ELSE "summary"
               /\ panels' = panels + (IF p = "hand" THEN 0 ELSE 1)
               /\ retry' = retry
            \/ /\ proc[p].pc = "summary" /\ proc'[p].pc = "mark"
               /\ panels' = panels /\ retry' = retry
            \/ /\ proc[p].pc = "mark" /\ proc'[p].pc = "defer"
               /\ panels' = panels
               /\ OnceMore(retry')
            \/ /\ proc[p].pc = "mark" /\ proc'[p].pc = "note" /\ p # "runner"
               /\ panels' = panels /\ retry' = Succeeded
            \/ /\ proc[p].pc = "mark" /\ proc'[p].pc = "idle"
               /\ p = "runner" \/ retry.status = "none"
               /\ panels' = panels /\ retry' = retry
            \/ /\ proc[p].pc \in {"defer", "deferSummary", "note"}
               /\ proc'[p].pc \in {"deferSummary", "idle"}
               /\ panels' = panels /\ retry' = retry
<1>0. proc[p] \in Process
  BY DEF TypeInv, TypeOK
<1>1. CASE Panel(p)
  <2>1. proc'[p] = [proc[p] EXCEPT !.pc = IF p = "runner" THEN "mark" ELSE "summary"]
    BY <1>1, BecomesOnly DEF Panel
  <2> QED BY <1>0, <1>1, <2>1, BecomesOnly DEF Panel, AtPoint, Process
<1>2. CASE WriteSummary(p)
  <2>1. proc'[p] = [proc[p] EXCEPT !.pc = "mark"]
    BY <1>2, BecomesOnly DEF WriteSummary
  <2> QED BY <1>0, <1>2, <2>1, BecomesOnly DEF WriteSummary, AtPoint, Process
<1>3. CASE MarkDue(p)
  <2>1. PICK j, mark :
          /\ OnceMore(mark)
          /\ retry' = mark
          /\ Become(p, [proc[p] EXCEPT !.pc = "defer", !.summary = summary, !.retry = mark,
                                       !.judgement = j])
    BY <1>3 DEF MarkDue, OnceMore
  <2>2. proc'[p] = [proc[p] EXCEPT !.pc = "defer", !.summary = summary, !.retry = mark,
                                   !.judgement = j]
    BY <2>1, BecomesOnly
  <2>3. proc'[p].pc = "defer" /\ proc'[p].attempts = proc[p].attempts
    BY <1>0, <2>2 DEF Process
  <2> QED BY <1>3, <2>1, <2>3, BecomesOnly DEF MarkDue, AtPoint
<1>4. CASE Defer(p)
  <2>1. proc'[p] = [proc[p] EXCEPT !.pc = "deferSummary"]
    BY <1>4, BecomesOnly DEF Defer
  <2> QED BY <1>0, <1>4, <2>1, BecomesOnly DEF Defer, AtPoint, Process
<1>5. CASE DeferSummary(p)
  <2>1. proc'[p].pc = "idle"
    BY <1>5, BecomesOnly DEF DeferSummary, Idle
  <2> QED BY <1>5, <2>1, BecomesOnly DEF DeferSummary, AtPoint
<1>6. CASE MarkNothing(p)
  <2>1. CASE p # "runner" /\ retry.status # "none"
    <3>1. proc'[p] = [proc[p] EXCEPT !.pc = "note"]
      BY <1>6, <2>1, BecomesOnly DEF MarkNothing
    <3> QED BY <1>0, <1>6, <2>1, <3>1, BecomesOnly DEF MarkNothing, AtPoint, Process
  <2>2. CASE ~(p # "runner" /\ retry.status # "none")
    <3>1. proc'[p].pc = "idle"
      BY <1>6, <2>2, BecomesOnly DEF MarkNothing, Idle
    <3> QED BY <1>6, <2>2, <3>1, BecomesOnly DEF MarkNothing, AtPoint
  <2> QED BY <2>1, <2>2
<1>7. CASE Note(p)
  <2>1. proc'[p].pc = "idle"
    BY <1>7, BecomesOnly DEF Note, Idle
  <2> QED BY <1>7, <2>1, BecomesOnly DEF Note, AtPoint
<1> QED BY <1>1, <1>2, <1>3, <1>4, <1>5, <1>6, <1>7 DEF RejudgeStep, JudgeStep

LEMMA AttemptsCounted ==
  ASSUME TypeInv
  PROVE  Attempts \in Nat /\ (retry.status # "none" => Attempts = retry.attempts)
BY DEF TypeInv, TypeOK, Attempts, Retry, Summary

(* The tick's own steps use up what is left for the retry.                 *)
LEMMA TickPays ==
  ASSUME TypeInv, PanelInv, RejudgeStep("tick"), UNCHANGED <<runVars, faults>>
  PROVE  PanelInv'
<1> DEFINE pc == proc["tick"].pc
           pcN == proc'["tick"].pc
           taken == proc["tick"].attempts
           takenN == proc'["tick"].attempts
<1>1. RunnerCredit' = RunnerCredit /\ HandCredit' = HandCredit /\ Allowance' = Allowance
  BY JudgingMoves, ThreeProcs, CreditsKept, AllowanceSteps DEF runVars
<1>2. Left' = Allowance - (panels' + RunnerCredit + HandCredit)
  BY <1>1 DEF Left
<1>3. PanelInv' <=> Pays(Left', retry', pcN, takenN)
  BY DEF PanelInv
<1>4. Pays(Left, retry, pc, taken)
  BY DEF PanelInv
<1>5. takenN = taken \/ pcN = "idle"
  BY JudgingMoves, ThreeProcs
<1>6. CASE pc = "panel" /\ pcN = "summary" /\ panels' = panels + 1 /\ retry' = retry
  <2>1. Left' = Left - 1
    BY <1>2, <1>6, Numbers DEF Left
  <2> QED BY <1>3, <1>4, <1>5, <1>6, <2>1, Numbers DEF Pays
<1>7. CASE panels' = panels /\ pc # "panel"
  <2>1. Left' = Left
    BY <1>2, <1>7 DEF Left
  <2>2. CASE pc = "summary" /\ pcN = "mark" /\ retry' = retry
    BY <1>3, <1>4, <1>5, <2>1, <2>2, Numbers DEF Pays
  <2>3. CASE /\ pc = "mark" /\ pcN = "defer"
             /\ OnceMore(retry')
    <3>1. Left + Attempts >= MaxRetries
      BY <1>4, <2>3, AttemptsCounted, Numbers DEF Pays
    <3> QED BY <1>3, <1>4, <1>5, <2>1, <2>3, <3>1, AttemptsCounted, Numbers DEF Pays, OnceMore
  <2>4. CASE pc = "mark" /\ pcN = "note" /\ retry' = Succeeded
    BY <1>3, <1>4, <1>5, <2>1, <2>4, Numbers DEF Pays, Succeeded
  <2>5. CASE pc = "mark" /\ pcN = "idle" /\ retry.status = "none" /\ retry' = retry
    BY <1>3, <1>4, <2>1, <2>5, Numbers DEF Pays
  <2>6. CASE /\ pc \in {"defer", "deferSummary", "note"} /\ pcN \in {"deferSummary", "idle"}
             /\ retry' = retry
    BY <1>3, <1>4, <1>5, <2>1, <2>6, Numbers DEF Pays
  <2> QED BY <1>7, <2>2, <2>3, <2>4, <2>5, <2>6, JudgingMoves, ThreeProcs
<1> QED BY <1>6, <1>7, JudgingMoves, ThreeProcs

(* Another process's mark is paid from its own credit.                     *)
LEMMA OthersPay ==
  ASSUME TypeInv, PanelInv, NEW p \in {"runner", "hand"}, RejudgeStep(p),
         p = "runner" => ~Ahead /\ ~AtPoint("runner", "summary"),
         UNCHANGED <<runVars, faults>>
  PROVE  PanelInv'
<1> DEFINE pc == proc["tick"].pc
           taken == proc["tick"].attempts
<1>1. proc'["tick"] = proc["tick"] /\ Allowance' = Allowance
  BY JudgingMoves, ThreeProcs, AllowanceSteps DEF runVars
<1>2. Ahead' = Ahead
  BY DEF Ahead, runVars
<1>3. PanelInv' <=> Pays(Left', retry', pc, taken)
  BY <1>1 DEF PanelInv
<1>4. Pays(Left, retry, pc, taken)
  BY DEF PanelInv
<1>5. \/ Left' \in Int /\ Left' >= Left /\ retry' = retry
      \/ /\ Left' = Left + MaxRetries
         /\ \/ OnceMore(retry')
            \/ retry' = Succeeded
  <2>1. CASE p = "hand"
    <3>1. RunnerCredit' = RunnerCredit
      BY <2>1, JudgingMoves, ThreeProcs, CreditsKept DEF runVars
    <3>2. Left' = Allowance - (panels' + RunnerCredit + HandCredit')
      BY <1>1, <3>1 DEF Left
    <3> QED BY <2>1, <3>2, JudgingMoves, ThreeProcs, Numbers DEF Left, HandCredit
  <2>2. CASE p = "runner"
    <3>1. HandCredit' = HandCredit
      BY <2>2, JudgingMoves, ThreeProcs, CreditsKept
    <3>2. Left' = Allowance - (panels' + RunnerCredit' + HandCredit)
      BY <1>1, <3>1 DEF Left
    <3> QED
      BY <1>2, <2>2, <3>2, JudgingMoves, ThreeProcs, Numbers DEF Left, RunnerCredit, AtPoint
  <2> HIDE DEF pc, taken
  <2> QED BY <2>1, <2>2
<1>7. CASE Left' \in Int /\ Left' >= Left /\ retry' = retry
  BY <1>3, <1>4, <1>7, Numbers DEF Pays
<1>8. CASE /\ Left' = Left + MaxRetries
           /\ OnceMore(retry')
  BY <1>3, <1>4, <1>8, AttemptsCounted, Numbers DEF Pays, OnceMore
<1>9. CASE Left' = Left + MaxRetries /\ retry' = Succeeded
  BY <1>3, <1>4, <1>9, Numbers DEF Pays, Succeeded
<1> HIDE DEF pc, taken
<1> QED BY <1>5, <1>7, <1>8, <1>9

(* What else a tick or an operator does to the retry, and deaths.          *)
LEMMA RefreshPays ==
  ASSUME TypeInv, PanelInv, Refresh
  PROVE  PanelInv'
<1> DEFINE pc == proc["tick"].pc
           taken == proc["tick"].attempts
<1>0. /\ UNCHANGED runVars /\ UNCHANGED <<step, terminal>>
      /\ RefreshStep(~Over, Replaced)
  BY DEF Refresh, runVars
<1>1. Pays(Left, retry, pc, taken)
  BY DEF PanelInv
<1>2. Left' = Allowance' - (panels' + RunnerCredit' + HandCredit')
  BY DEF Left
<1>3. PanelInv' <=> Pays(Left', retry', proc'["tick"].pc, proc'["tick"].attempts)
  BY DEF PanelInv
<1>4. CASE TickRecovers(~Over) /\ UNCHANGED faults
  <2>1. /\ retry.status = "running"
        /\ retry'.status = "due" /\ retry'.attempts = retry.attempts
        /\ proc' = proc /\ panels' = panels /\ hands' = hands
    BY <1>4 DEF TickRecovers, TypeInv, TypeOK, Retry
  <2>2. Left' = Left
    BY <1>0, <1>2, <1>4, <2>1, CreditsKept, AllowanceSteps DEF Left
  <2> QED BY <1>1, <1>3, <2>1, <2>2, Numbers DEF Pays
<1>5. CASE TickSkips(~Over, Replaced) /\ UNCHANGED faults
  <2>1. /\ retry.status = "due" /\ pc = "idle"
        /\ retry'.status = "skipped" /\ panels' = panels /\ hands' = hands
        /\ proc'["tick"].pc = "defer" /\ proc'["tick"].attempts = retry.attempts
        /\ \A p \in Procs : p # "tick" => proc'[p] = proc[p]
    BY <1>5, ThreeProcs, BecomesOnly DEF TickSkips, Due, MayStart, AtPoint, TypeInv, TypeOK,
       Retry
  <2>2. Left' = Left
    BY <1>0, <1>2, <1>5, <2>1, ThreeProcs, CreditsKept, AllowanceSteps DEF Left
  <2> QED BY <1>1, <1>3, <2>1, <2>2, Numbers DEF Pays
<1>6. CASE TickStarts(~Over, Replaced) /\ UNCHANGED faults
  <2>1. /\ retry.status = "due" /\ pc = "idle"
        /\ retry'.status = "running" /\ retry'.attempts = retry.attempts
        /\ panels' = panels /\ hands' = hands
        /\ proc'["tick"].pc = "panel" /\ proc'["tick"].attempts = retry.attempts
        /\ \A p \in Procs : p # "tick" => proc'[p] = proc[p]
    <3>1. proc'["tick"] = [Idle EXCEPT !.pc = "panel", !.summary = summary,
                                       !.attempts = retry.attempts]
      BY <1>6, ThreeProcs, BecomesOnly DEF TickStarts
    <3>2. proc'["tick"].pc = "panel" /\ proc'["tick"].attempts = retry.attempts
      BY <3>1 DEF Idle
    <3>3. retry'.status = "running" /\ retry'.attempts = retry.attempts
      BY <1>6 DEF TickStarts, TypeInv, TypeOK, Retry
    <3> QED BY <1>6, <3>2, <3>3, ThreeProcs, BecomesOnly DEF TickStarts, Due, MayStart, AtPoint
  <2>2. Left' = Left
    BY <1>0, <1>2, <1>6, <2>1, ThreeProcs, CreditsKept, AllowanceSteps DEF Left
  <2> QED BY <1>1, <1>3, <2>1, <2>2, Numbers DEF Pays
<1>7. CASE HandStarts(~Over) /\ UNCHANGED faults
  <2>1. /\ proc["hand"].pc = "idle" /\ retry' = retry /\ panels' = panels
        /\ hands' = hands + 1
        /\ \A p \in Procs : p # "hand" => proc'[p] = proc[p]
    BY <1>7, ThreeProcs, BecomesOnly DEF HandStarts, MayStart, AtPoint
  <2>2. Allowance' = Allowance + 1 + MaxRetries /\ RunnerCredit' = RunnerCredit
    BY <1>0, <1>7, <2>1, ThreeProcs, CreditsKept, AllowanceSteps
  <2>3. HandCredit = 0 /\ HandCredit' \in {0, MaxRetries}
    BY <2>1 DEF HandCredit
  <2>4. Left' \in Int /\ Left' >= Left
    BY <1>2, <2>1, <2>2, <2>3, Numbers DEF Left
  <2>5. proc'["tick"] = proc["tick"]
    BY <2>1, ThreeProcs
  <2> QED BY <1>1, <1>3, <2>1, <2>4, <2>5, Numbers DEF Pays
<1>8. CASE TwoHoursPass /\ UNCHANGED faults
  <2>1. /\ retry'.status = retry.status /\ retry'.attempts = retry.attempts
        /\ proc' = proc /\ panels' = panels /\ hands' = hands
    BY <1>8 DEF TwoHoursPass, TypeInv, TypeOK, Retry
  <2>2. Left' = Left
    BY <1>0, <1>2, <1>8, <2>1, CreditsKept, AllowanceSteps DEF Left
  <2> QED BY <1>1, <1>3, <2>1, <2>2, Numbers DEF Pays
<1>9. CASE TickRaises
  <2>1. /\ pc # "idle" /\ faults' = faults + 1 /\ panels' = panels /\ hands' = hands
        /\ retry'.attempts = taken + 1 /\ retry'.status \in {"due", "failed"}
        /\ retry'.status = "due" => retry'.attempts < MaxRetries
        /\ proc'["tick"].pc = "idle"
        /\ \A p \in Procs : p # "tick" => proc'[p] = proc[p]
    BY <1>9, ThreeProcs, BecomesOnly DEF TickRaises, Fault, AtPoint, Idle
  <2>2. Left' = Left + 1
    BY <1>0, <1>2, <2>1, ThreeProcs, CreditsKept, AllowanceSteps, Numbers DEF Left
  <2> QED BY <1>1, <1>3, <2>1, <2>2, Numbers DEF Pays
<1>10. ASSUME NEW p \in {"tick", "hand"}, RefreshDies(p) PROVE PanelInv'
  <2>1. /\ proc[p].pc # "idle" /\ faults' = faults + 1
        /\ panels' = panels /\ hands' = hands /\ retry' = retry
        /\ proc'[p].pc = "idle" /\ \A q \in Procs : q # p => proc'[q] = proc[q]
    BY <1>10, ThreeProcs, BecomesOnly DEF RefreshDies, Fault, AtPoint, Idle
  <2>2. Allowance' = Allowance + 1 /\ RunnerCredit' = RunnerCredit
    BY <1>0, <2>1, ThreeProcs, CreditsKept, AllowanceSteps
  <2>3. HandCredit' = HandCredit \/ HandCredit' = 0
    BY <2>1, ThreeProcs DEF HandCredit
  <2>4. Left' \in Int /\ Left' >= Left + 1
    BY <1>2, <2>1, <2>2, <2>3, Numbers DEF Left
  <2>5. CASE p = "tick"
    BY <1>1, <1>3, <2>1, <2>4, <2>5, Numbers DEF Pays
  <2>6. CASE p = "hand"
    <3>1. proc'["tick"] = proc["tick"]
      BY <2>1, <2>6, ThreeProcs
    <3> QED BY <1>1, <1>3, <2>1, <2>4, <3>1, Numbers DEF Pays
  <2> QED BY <2>5, <2>6
<1>11. CASE RejudgeStep("tick") /\ UNCHANGED faults
  BY <1>0, <1>11, TickPays
<1>12. CASE RejudgeStep("hand") /\ UNCHANGED faults
  BY <1>0, <1>12, OthersPay
<1> HIDE DEF pc, taken
<1> QED
  BY <1>0, <1>4, <1>5, <1>6, <1>7, <1>8, <1>9, <1>10, <1>11, <1>12 DEF RefreshStep, TickStep

LEMMA ToolFaults == ToolCall => faults' \in {faults, faults + 1}
BY DEF ToolCall, Scout, ScoutRefused, OutOfPhase, Shell, Finalize, Observe, Remember, Dispute,
       ApplyPatch, Undo, Verify, Recover, Submit, GoalRefused, GoalUpdate, GoalNotSaved,
       LiveStep, OpenPr, Fault

(* The runner: it comes to judge at most once, also after a failure.       *)
LEMMA RunnerPays ==
  ASSUME TypeInv, PanelInv, [Next]_vars, ~Refresh
  PROVE  PanelInv'
<1> DEFINE Kept == /\ proc'["tick"] = proc["tick"] /\ retry' = retry
                   /\ panels' = panels /\ hands' = hands
                   /\ faults' \in {faults, faults + 1}
                   /\ proc'["hand"] = proc["hand"]
<1>1. ASSUME Kept, RunnerCredit' <= RunnerCredit, RunnerCredit' \in Nat PROVE PanelInv'
  <2>1. HandCredit' = HandCredit
    BY <1>1, CreditsKept
  <2>2. Allowance' \in {Allowance, Allowance + 1}
    BY <1>1, AllowanceSteps
  <2>3. Left' = Allowance' - (panels + RunnerCredit' + HandCredit)
    BY <1>1, <2>1 DEF Left
  <2>4. Left' \in Int /\ Left' >= Left
    BY <1>1, <2>2, <2>3, Numbers DEF Left
  <2> QED BY <1>1, <2>4, Numbers DEF PanelInv, Pays
<1>2. ASSUME Kept, ~Ahead', proc'["runner"].pc = "idle" PROVE PanelInv'
  <2>1. RunnerCredit' = 0
    BY <1>2 DEF RunnerCredit, AtPoint
  <2> QED BY <1>1, <1>2, <2>1, Numbers
<1>3. ASSUME Kept, Ahead PROVE PanelInv'
  <2>1. RunnerCredit = 1 + MaxRetries /\ RunnerCredit' \in {0, MaxRetries, 1 + MaxRetries}
    BY <1>3 DEF RunnerCredit
  <2> QED BY <1>1, <1>3, <2>1, Numbers
<1>4. ASSUME Kept, proc'["runner"].pc = proc["runner"].pc, Ahead' => Ahead PROVE PanelInv'
  <2>1. RunnerCredit' <= RunnerCredit /\ RunnerCredit' \in Nat
    BY <1>4, Numbers DEF RunnerCredit, AtPoint
  <2> QED BY <1>1, <1>4, <2>1
<1>5. ASSUME NEW newPath, NEW newStep, Leave(newPath, newStep)
      PROVE  /\ proc'["runner"].pc = "idle" /\ step' = newStep
             /\ faults' \in {faults, faults + 1} => Kept
  BY <1>5, ThreeProcs, BecomesOnly DEF Leave, Idle
<1>6. CASE ToolCall
  BY <1>3, <1>6, ToolFrame, ToolFaults DEF RunUnchanged, retryVars, MayCall, Ahead, Undone
<1>7. CASE Begin \/ StartWorkspace \/ Derive
  BY <1>3, <1>7 DEF Begin, StartWorkspace, Derive, retryVars, Ahead, Undone
<1>8. ASSUME NEW error \in Errors, Returns(error) PROVE PanelInv'
  BY <1>3, <1>8 DEF Returns, retryVars, Ahead, Undone
<1>9. CASE WriteTerminal \/ RecordReplacement \/ RecordLiveRetry \/ Release \/ Summarise
  <2>1. step \in Before /\ step' \notin Undone
    BY <1>9, ProceedTyped DEF WriteTerminal, RecordReplacement, RecordLiveRetry, Release,
       Summarise, Before, Undone
  <2>2. Kept /\ proc' = proc /\ terminal' = terminal
    BY <1>9 DEF WriteTerminal, RecordReplacement, RecordLiveRetry, Release, Summarise, retryVars
  <2> QED BY <1>4, <2>1, <2>2 DEF Ahead
<1>10. CASE Judge
  <2>1. Kept /\ step = "judge" /\ step' \in {"judging", "publish"}
    BY <1>10, ThreeProcs, BecomesOnly DEF Judge
  <2>2. CASE Judgeable(terminal)
    BY <1>3, <2>1, <2>2 DEF Ahead, Before
  <2>3. CASE ~Judgeable(terminal)
    <3>1. proc' = proc /\ ~Ahead'
      BY <1>10, <2>1, <2>3 DEF Judge, Ahead, Before, Undone
    <3> QED BY <1>4, <2>1, <3>1
  <2> QED BY <2>2, <2>3
<1>11. CASE Judging
  <2>1. step = "judging" /\ UNCHANGED faults /\ ~Ahead
    BY <1>11 DEF Judging, Ahead, Before, Undone
  <2>2. CASE step' = "publish" /\ UNCHANGED retryVars
    <3>1. Kept /\ proc' = proc /\ ~Ahead'
      BY <2>1, <2>2 DEF retryVars, Ahead, Before, Undone
    <3> QED BY <1>4, <3>1
  <2>3. CASE JudgeStep("runner") /\ UNCHANGED step
    <3>1. UNCHANGED <<runVars, faults>> /\ RejudgeStep("runner")
      BY <1>11, <2>3 DEF Judging, runVars, RejudgeStep
    <3>2. ~AtPoint("runner", "summary")
      BY <2>3 DEF JudgeStep, Panel, MarkDue, Defer, DeferSummary, MarkNothing, AtPoint
    <3> QED BY <2>1, <3>1, <3>2, OthersPay
  <2> QED BY <1>11, <2>2, <2>3 DEF Judging
<1>12. CASE Publish \/ Finish \/ Finally
  <2>1. Kept /\ proc' = proc /\ ~Ahead'
    BY <1>12 DEF Publish, Finish, Finally, retryVars, Ahead, Before, Undone
  <2> QED BY <1>4, <2>1
<1>13. CASE Raises
  <2>1. Leave("failed", "terminal") /\ faults' = faults + 1
    BY <1>13 DEF Raises, Fault
  <2>2. terminal' \in {Stop("failed", "unknown"), Stop("failed", "workspace")} \/ step = "loop"
    BY <1>13 DEF Raises, Raised
  <2>3. CASE step = "loop"
    BY <1>3, <1>5, <2>1, <2>3 DEF Ahead, Undone
  <2>4. CASE step # "loop"
    <3>1. ~Judgeable(terminal')
      BY <2>2, <2>4 DEF Stop, Judgeable
    <3>2. ~Ahead'
      BY <1>5, <2>1, <3>1 DEF Ahead, Undone
    <3> QED BY <1>2, <1>5, <2>1, <3>2
  <2> QED BY <2>3, <2>4
<1>14. CASE Interrupted
  <2>1. Leave("interrupted", "terminal") /\ faults' = faults + 1
    BY <1>14 DEF Interrupted, Fault
  <2>2. ~Judgeable(terminal')
    BY <1>14 DEF Interrupted, Stop, Judgeable
  <2>3. ~Ahead'
    BY <1>5, <2>1, <2>2 DEF Ahead, Undone
  <2> QED BY <1>2, <1>5, <2>1, <2>3
<1>15. CASE HandlerFails \/ Killed
  <2>1. PICK newPath \in {path, "interrupted", "broken"},
             newStep \in {"mark", "finally", "killed"} : Leave(newPath, newStep)
    BY <1>15 DEF HandlerFails, Killed
  <2>2. faults' \in {faults, faults + 1}
    BY <1>15 DEF HandlerFails, Killed, Fault
  <2>3. ~Ahead'
    BY <1>5, <2>1 DEF Ahead, Before, Undone
  <2> QED BY <1>2, <1>5, <2>1, <2>2, <2>3
<1>16. CASE UNCHANGED vars
  <2>1. Kept /\ proc' = proc /\ (Ahead' <=> Ahead)
    BY <1>16 DEF vars, runVars, retryVars, Ahead
  <2> QED BY <1>4, <2>1
<1> HIDE DEF Kept
<1> QED
  BY <1>6, <1>7, <1>8, <1>9, <1>10, <1>11, <1>12, <1>13, <1>14, <1>15, <1>16
  DEF Next, Onward, Ending

LEMMA InitPays == Init => PanelInv
<1> SUFFICES ASSUME Init PROVE PanelInv
  OBVIOUS
<1>1. /\ panels = 0 /\ hands = 0 /\ faults \in Nat /\ retry = NoRetry
      /\ RunnerCredit = 1 + MaxRetries /\ HandCredit = 0
      /\ proc["tick"].pc = "idle"
  BY ThreeProcs, InitTyped DEF Init, RetryInit, RunnerCredit, HandCredit, Ahead, Undone, Idle,
     TypeInv, TypeOK
<1>2. Left = faults
  <2>1. (1 + MaxRetries) * (1 + hands) = 1 + MaxRetries
    BY <1>1, RetryConstants
  <2> QED BY <1>1, <2>1, RetryConstants DEF Left, Allowance
<1> QED BY <1>1, <1>2 DEF PanelInv, Pays, NoRetry

(* Judging a run costs the runner and the ticks at most 1 + MaxRetries     *)
(* panels, as many again for each `judge` command, and one for each        *)
(* failure, also when all three judge at once: an attempt is counted, or a *)
(* failure was, before another panel is held.                              *)
THEOREM PanelsStayBounded == Spec => []PanelsBounded
<1>1. TypeInv /\ PanelInv /\ [Next]_vars => PanelInv'
  BY RefreshPays, RunnerPays
<1>2. TypeInv /\ PanelInv => PanelsBounded
  BY Numbers DEF PanelInv, Pays, Left, Allowance, PanelsBounded
<1> QED BY <1>1, <1>2, InitTyped, NextTyped, InitPays, PTL DEF Spec

-----------------------------------------------------------------------------
(* The files.  From here on a refresh starts only when the run has ended   *)
(* and nobody else judges (Overlap = FALSE): at most one process has begun *)
(* to judge, so that what it read before the panel is still so afterwards. *)

OneJudge ==
  /\ \A p, q \in Procs : ~AtPoint(p, "idle") /\ ~AtPoint(q, "idle") => p = q
  /\ ~AtPoint("runner", "idle") => step = "judging"
  /\ \A p \in {"tick", "hand"} : ~AtPoint(p, "idle") => Over

(* What TransientNotScored asks for, also of a retry under way.            *)
Sound ==
  /\ ~NeedsRetry(judgement)
  /\ retry.status \in {"due", "running"} => judgement.status = "deferred"
Agrees == summary.there => summary.judgement = judgement

Untouched == judgement = NoJudgement /\ retry = NoRetry /\ summary.judgement = NoJudgement
Judged == judgement.status # "none"

(* The judgement that p is to write says so if the retry it wrote is due.  *)
Deferred(p) ==
  /\ proc[p].judgement.status \in {"deferred", "failed", "not_judged"}
  /\ retry.status = "due" => proc[p].judgement.status = "deferred"
  /\ retry.status # "running"

(* What holds at each point of a process that judges.                      *)
Holds(p) ==
  /\ AtPoint(p, "panel") => IF p = "runner" THEN Untouched ELSE torn \/ (Sound /\ Agrees)
  /\ AtPoint(p, "mark") => IF p = "runner" THEN retry = NoRetry /\ Judged
                           ELSE summary.judgement = judgement
  /\ AtPoint(p, "defer") => Deferred(p) /\ (p = "runner" => Judged)
  /\ AtPoint(p, "deferSummary") => Deferred(p) /\ judgement = proc[p].judgement
  /\ AtPoint(p, "note") => /\ ~NeedsRetry(judgement) /\ retry.status = "succeeded"
                           /\ summary.judgement = judgement
  /\ p = "runner" => ~AtPoint(p, "summary") /\ ~AtPoint(p, "note")
  /\ p = "tick" /\ AtPoint(p, "panel") => retry.status = "running"

Settles ==
  /\ judgement = NoJudgement => summary.judgement = NoJudgement
  /\ Quiet => torn \/ Sound
  /\ Quiet /\ step \notin {"judging", "publish"} => torn \/ Agrees

FileInv ==
  /\ OneJudge
  /\ Ahead => Untouched
  /\ \A p \in Procs : Holds(p)
  /\ Settles

LEMMA VerdictsJudge == \A v \in Verdicts : v.status \in {"judged", "fallback"}
BY DEF Verdicts, PanelStatus

(* One step of a process that judges, wherever it is.                      *)
LEMMA JudgingHolds ==
  ASSUME TypeInv, NEW p \in Procs, Holds(p), RejudgeStep(p),
         judgement = NoJudgement => summary.judgement = NoJudgement
  PROVE  /\ Holds(p)'
         /\ judgement' = NoJudgement => summary'.judgement = NoJudgement
         /\ AtPoint(p, "idle")' => Sound' /\ (p # "runner" => Agrees')
<1>0. proc[p] \in Process /\ judgement \in Judgement /\ summary \in Summary /\ retry \in Retry
  BY DEF TypeInv, TypeOK
<1>1. CASE Panel(p)
  <2>1. /\ proc'[p].pc = IF p = "runner" THEN "mark" ELSE "summary"
        /\ judgement'.status # "none" /\ UNCHANGED <<retry, summary>>
    <3>1. proc'[p] = [proc[p] EXCEPT !.pc = IF p = "runner" THEN "mark" ELSE "summary"]
      BY <1>1, BecomesOnly DEF Panel
    <3> QED BY <1>0, <1>1, <3>1, VerdictsJudge DEF Panel, Process
  <2> QED BY <1>1, <2>1 DEF Holds, AtPoint, Panel, Untouched, Judged, NoJudgement
<1>2. CASE WriteSummary(p)
  <2>1. /\ proc'[p].pc = "mark" /\ p # "runner"
        /\ summary'.judgement = judgement /\ judgement' = judgement
    <3>1. proc'[p] = [proc[p] EXCEPT !.pc = "mark"]
      BY <1>2, BecomesOnly DEF WriteSummary
    <3>2. p # "runner"
      BY <1>2 DEF WriteSummary, Holds
    <3> QED BY <1>0, <1>2, <3>1, <3>2 DEF WriteSummary, Process, Summary
  <2> QED BY <2>1 DEF Holds, AtPoint
<1>3. CASE MarkDue(p)
  <2> DEFINE next == Attempts + 1
             again == next <= MaxRetries
             mark == [status |-> IF again THEN "due" ELSE "failed", attempts |-> next,
                      fresh |-> FALSE]
             j == [status |-> IF again THEN "deferred" ELSE "failed", transient |-> TRUE]
  <2>1. proc'[p] = [proc[p] EXCEPT !.pc = "defer", !.summary = summary, !.retry = mark,
                                   !.judgement = j]
    <3>1. Become(p, [proc[p] EXCEPT !.pc = "defer", !.summary = summary, !.retry = mark,
                                    !.judgement = j])
      BY <1>3 DEF MarkDue
    <3> QED BY <3>1, BecomesOnly
  <2>2. proc'[p].pc = "defer" /\ proc'[p].judgement = j /\ proc'[p].retry = mark
    BY <1>0, <2>1 DEF Process
  <2>3. retry' = mark /\ judgement' = judgement /\ summary' = summary
    BY <1>3 DEF MarkDue
  <2>4. judgement.status = "fallback"
    BY <1>3 DEF MarkDue, NeedsRetry
  <2> QED BY <2>2, <2>3, <2>4 DEF Holds, AtPoint, Deferred, Judged, NoJudgement
<1>4. CASE Defer(p)
  <2>1. /\ proc'[p].pc = "deferSummary" /\ proc'[p].judgement = proc[p].judgement
        /\ judgement' = proc[p].judgement /\ retry' = retry
    <3>1. proc'[p] = [proc[p] EXCEPT !.pc = "deferSummary"]
      BY <1>4, BecomesOnly DEF Defer
    <3> QED BY <1>0, <1>4, <3>1 DEF Defer, Process
  <2> QED BY <1>4, <2>1 DEF Holds, AtPoint, Deferred, Defer, NoJudgement
<1>5. CASE DeferSummary(p)
  <2>1. /\ proc'[p].pc = "idle" /\ judgement' = judgement /\ retry' = retry
        /\ summary'.judgement = judgement
    BY <1>0, <1>5, BecomesOnly DEF DeferSummary, Idle, Process, Summary
  <2>2. judgement = proc[p].judgement /\ Deferred(p)
    BY <1>5 DEF DeferSummary, Holds
  <2> QED BY <2>1, <2>2 DEF Holds, AtPoint, Deferred, Sound, NeedsRetry, Agrees
<1>6. CASE MarkNothing(p)
  <2>1. AtPoint(p, "mark") /\ ~NeedsRetry(judgement) /\ UNCHANGED <<judgement, summary>>
    BY <1>6 DEF MarkNothing
  <2>2. CASE p # "runner" /\ retry.status # "none"
    <3>1. proc'[p].pc = "note" /\ retry' = Succeeded
      <4>1. proc'[p] = [proc[p] EXCEPT !.pc = "note"]
        BY <1>6, <2>2, BecomesOnly DEF MarkNothing
      <4> QED BY <1>0, <1>6, <2>2, <4>1 DEF MarkNothing, Process
    <3> QED BY <2>1, <2>2, <3>1 DEF Holds, AtPoint, Succeeded, NeedsRetry
  <2>3. CASE ~(p # "runner" /\ retry.status # "none")
    <3>1. proc'[p].pc = "idle" /\ retry' = retry
      BY <1>6, <2>3, BecomesOnly DEF MarkNothing, Idle
    <3>2. retry.status = "none"
      BY <2>1, <2>3 DEF Holds, NoRetry
    <3> QED BY <2>1, <2>3, <3>1, <3>2 DEF Holds, AtPoint, Sound, NeedsRetry, Agrees
  <2> QED BY <2>2, <2>3
<1>7. CASE Note(p)
  <2>1. /\ proc'[p].pc = "idle" /\ judgement' = judgement /\ retry' = retry
        /\ summary'.judgement = summary.judgement
    BY <1>0, <1>7, BecomesOnly DEF Note, Idle, Summary
  <2>2. /\ ~NeedsRetry(judgement) /\ retry.status = "succeeded"
        /\ summary.judgement = judgement
    BY <1>7 DEF Note, Holds
  <2> QED BY <1>7, <2>1, <2>2 DEF Holds, AtPoint, Sound, NeedsRetry, Agrees
<1> QED BY <1>1, <1>2, <1>3, <1>4, <1>5, <1>6, <1>7 DEF RejudgeStep, JudgeStep

LEMMA JudgingIsBusy ==
  ASSUME NEW p, RejudgeStep(p)
  PROVE  ~AtPoint(p, "idle")
BY DEF RejudgeStep, JudgeStep, Panel, MarkDue, Defer, DeferSummary, MarkNothing, WriteSummary,
       Note, AtPoint

LEMMA OverIsNotAhead == Over => ~Ahead
BY DEF Over, Ahead, Undone, Before

LEMMA IdleHolds == ASSUME NEW p, AtPoint(p, "idle") PROVE Holds(p)
BY DEF AtPoint, Holds

LEMMA RefreshFiles ==
  ASSUME Overlap = FALSE, TypeInv, FileInv, Refresh
  PROVE  FileInv'
<1>0. /\ UNCHANGED <<step, terminal>> /\ RefreshStep(~Over, Replaced)
      /\ Over' = Over /\ Ahead' = Ahead
      /\ retry \in Retry
  BY DEF Refresh, runVars, Over, Ahead, TypeInv, TypeOK
<1>1. ASSUME NEW p \in {"tick", "hand"}, RejudgeStep(p)
      PROVE  FileInv'
  <2>1. Over /\ ~AtPoint(p, "idle") /\ \A q \in Procs : q # p => AtPoint(q, "idle")
    BY <1>1, JudgingIsBusy, ThreeProcs DEF FileInv, OneJudge
  <2>2. \A q \in Procs : q # p => proc'[q] = proc[q]
    BY <1>1, ThreeProcs, JudgingMoves
  <2>3. /\ Holds(p)' /\ (judgement' = NoJudgement => summary'.judgement = NoJudgement)
        /\ AtPoint(p, "idle")' => Sound' /\ Agrees'
    BY <1>1, ThreeProcs, JudgingHolds DEF FileInv, Settles
  <2>4. \A q \in Procs : q # p => AtPoint(q, "idle")'
    BY <2>1, <2>2 DEF AtPoint
  <2>5. \A q \in Procs : Holds(q)'
    BY <2>3, <2>4 DEF Holds, AtPoint
  <2>6. OneJudge'
    BY <1>0, <2>1, <2>4, ThreeProcs DEF OneJudge
  <2>7. Settles'
    BY <2>3, ThreeProcs DEF Settles, Quiet
  <2> QED BY <1>0, <2>1, <2>5, <2>6, <2>7, OverIsNotAhead DEF FileInv
<1>2. ASSUME NEW p \in {"tick", "hand"}, MayStart(p, ~Over)
      PROVE  Over /\ Quiet /\ Settles
  BY <1>2 DEF MayStart, Alone, Quiet, FileInv
<1>3. Over => step \notin {"judging", "publish"}
  BY DEF Over
<1>4. CASE TickRecovers(~Over)
  <2>1. /\ Over /\ Quiet /\ Settles /\ retry.status = "running" /\ retry'.status = "due"
        /\ UNCHANGED <<judgement, summary, proc, torn>>
    BY <1>2, <1>4, <1>0 DEF TickRecovers, Retry
  <2>2. Quiet' /\ (Sound => Sound') /\ (Agrees => Agrees')
    BY <2>1 DEF Quiet, AtPoint, Sound, NeedsRetry, Agrees
  <2>3. \A q \in Procs : Holds(q)'
    BY <2>2 DEF Quiet, Holds, AtPoint
  <2>4. Settles' /\ OneJudge'
    BY <1>0, <1>3, <2>1, <2>2, ThreeProcs DEF Settles, OneJudge, Quiet
  <2> QED BY <1>0, <2>1, <2>3, <2>4, OverIsNotAhead DEF FileInv
<1>5. CASE TickSkips(~Over, Replaced)
  <2>1. /\ Over /\ Quiet /\ Settles
        /\ UNCHANGED <<judgement, summary, torn>> /\ retry'.status = "skipped"
    BY <1>0, <1>2, <1>5 DEF TickSkips, Retry
  <2>2. /\ proc'["tick"].pc = "defer" /\ proc'["tick"].judgement.status = "not_judged"
        /\ \A q \in Procs : q # "tick" => proc'[q] = proc[q]
    BY <1>5, ThreeProcs, BecomesOnly DEF TickSkips
  <2>3. Holds("tick")' /\ ~AtPoint("tick", "idle")'
    BY <2>1, <2>2 DEF Holds, AtPoint, Deferred
  <2>4. \A q \in Procs : q # "tick" => AtPoint(q, "idle")'
    BY <2>1, <2>2 DEF Quiet, AtPoint
  <2>5. \A q \in Procs : Holds(q)'
    BY <2>3, <2>4 DEF Holds, AtPoint
  <2>6. Settles' /\ OneJudge'
    BY <1>0, <2>1, <2>3, <2>4, ThreeProcs DEF Settles, OneJudge, Quiet
  <2> QED BY <1>0, <2>1, <2>5, <2>6, OverIsNotAhead DEF FileInv
<1>6. CASE TickStarts(~Over, Replaced)
  <2>1. /\ Over /\ Quiet /\ Settles
        /\ UNCHANGED <<judgement, summary, torn>>
        /\ retry.status = "due" /\ retry'.status = "running"
    BY <1>0, <1>2, <1>6 DEF TickStarts, Due, Retry
  <2>2. /\ proc'["tick"].pc = "panel"
        /\ \A q \in Procs : q # "tick" => proc'[q] = proc[q]
    <3>1. proc'["tick"] = [Idle EXCEPT !.pc = "panel", !.summary = summary,
                                       !.attempts = retry.attempts]
      BY <1>6, ThreeProcs, BecomesOnly DEF TickStarts
    <3>2. proc'["tick"].pc = "panel"
      BY <3>1 DEF Idle
    <3> QED BY <1>6, <3>2, ThreeProcs, BecomesOnly DEF TickStarts
  <2>3. torn' \/ (Sound' /\ Agrees')
    BY <1>3, <2>1 DEF Settles, Sound, NeedsRetry, Agrees
  <2>4. Holds("tick")' /\ ~AtPoint("tick", "idle")'
    BY <2>1, <2>2, <2>3 DEF Holds, AtPoint
  <2>5. \A q \in Procs : q # "tick" => AtPoint(q, "idle")'
    BY <2>1, <2>2 DEF Quiet, AtPoint
  <2>6. \A q \in Procs : Holds(q)'
    BY <2>4, <2>5 DEF Holds, AtPoint
  <2>7. Settles' /\ OneJudge'
    BY <1>0, <2>1, <2>4, <2>5, ThreeProcs DEF Settles, OneJudge, Quiet
  <2> QED BY <1>0, <2>1, <2>6, <2>7, OverIsNotAhead DEF FileInv
<1>7. CASE HandStarts(~Over)
  <2>1. /\ Over /\ Quiet /\ Settles
        /\ UNCHANGED <<judgement, retry, summary, torn>>
    BY <1>2, <1>7 DEF HandStarts
  <2>2. /\ AtPoint("hand", "idle")' \/ AtPoint("hand", "panel")'
        /\ \A q \in Procs : q # "hand" => proc'[q] = proc[q]
    <3>1. CASE proc' = proc
      BY <2>1, <3>1, ThreeProcs DEF Quiet, AtPoint
    <3>2. CASE Become("hand", [Idle EXCEPT !.pc = "panel", !.summary = summary])
      <4>1. proc'["hand"] = [Idle EXCEPT !.pc = "panel", !.summary = summary]
        BY <3>2, ThreeProcs, BecomesOnly
      <4>2. proc'["hand"].pc = "panel"
        BY <4>1 DEF Idle
      <4> QED BY <3>2, <4>2, ThreeProcs, BecomesOnly DEF AtPoint
    <3> QED BY <1>7, <3>1, <3>2 DEF HandStarts
  <2>3. (torn' \/ (Sound' /\ Agrees')) /\ Settles'
    BY <1>0, <1>3, <2>1 DEF Settles, Sound, NeedsRetry, Agrees
  <2>4. Holds("hand")'
    BY <2>2, <2>3 DEF Holds, AtPoint
  <2>5. \A q \in Procs : q # "hand" => AtPoint(q, "idle")'
    BY <2>1, <2>2 DEF Quiet, AtPoint
  <2>6. \A q \in Procs : Holds(q)'
    BY <2>4, <2>5 DEF Holds, AtPoint
  <2>7. OneJudge'
    BY <1>0, <2>1, <2>5, ThreeProcs DEF OneJudge
  <2> QED BY <1>0, <2>1, <2>3, <2>6, <2>7, OverIsNotAhead DEF FileInv
<1>8. CASE TwoHoursPass
  <2>1. /\ UNCHANGED <<judgement, summary, proc, torn>>
        /\ retry.status = "running" /\ retry'.status = "running"
    BY <1>0, <1>8 DEF TwoHoursPass, Retry
  <2>2. (Sound => Sound') /\ (Agrees => Agrees') /\ (Quiet' <=> Quiet)
    BY <2>1 DEF Sound, NeedsRetry, Agrees, Quiet, AtPoint
  <2>3. \A p \in Procs : Holds(p)'
    BY <2>1, <2>2 DEF FileInv, Holds, AtPoint, Untouched, NoRetry, Deferred
  <2>4. OneJudge' /\ Settles'
    BY <1>0, <2>1, <2>2 DEF FileInv, OneJudge, Settles, AtPoint
  <2>5. ~Ahead
    BY <2>1 DEF FileInv, Untouched, NoRetry
  <2> QED BY <1>0, <2>3, <2>4, <2>5 DEF FileInv
<1>9. ASSUME NEW p \in {"tick", "hand"}, ~AtPoint(p, "idle"), Become(p, Idle),
             torn' = (torn \/ ~AtPoint(p, "panel")), UNCHANGED <<judgement, summary>>,
             retry' = retry \/ (p = "tick" /\ retry'.status \in {"due", "failed"})
      PROVE  FileInv'
  <2>1. Over /\ \A q \in Procs : q # p => AtPoint(q, "idle")
    BY <1>9, ThreeProcs DEF FileInv, OneJudge
  <2>2. Quiet'
    BY <1>9, <2>1, ThreeProcs, BecomesOnly DEF Quiet, AtPoint, Idle
  <2>3. torn' \/ (Sound' /\ Agrees')
    <3>1. CASE AtPoint(p, "panel")
      <4>1. torn \/ (Sound /\ Agrees)
        BY <1>9, <3>1, ThreeProcs DEF FileInv, Holds
      <4>2. p = "tick" => retry.status = "running"
        BY <3>1, ThreeProcs DEF FileInv, Holds
      <4> QED BY <1>9, <4>1, <4>2 DEF Sound, NeedsRetry, Agrees
    <3> QED BY <1>9, <3>1
  <2>4. Settles' /\ OneJudge'
    BY <1>9, <2>2, <2>3, ThreeProcs DEF FileInv, Settles, OneJudge, Quiet
  <2>5. \A q \in Procs : Holds(q)'
    BY <2>2 DEF Quiet, Holds, AtPoint
  <2> QED BY <1>0, <2>1, <2>4, <2>5, OverIsNotAhead DEF FileInv
<1>10. CASE TickRaises
  BY <1>9, <1>10 DEF TickRaises
<1>11. ASSUME NEW p \in {"tick", "hand"}, RefreshDies(p) PROVE FileInv'
  BY <1>9, <1>11 DEF RefreshDies
<1> QED
  BY <1>0, <1>1, <1>4, <1>5, <1>6, <1>7, <1>8, <1>10, <1>11 DEF RefreshStep, TickStep

(* A step that writes no file and moves no process that judges.            *)
LEMMA FilesKept ==
  ASSUME FileInv, UNCHANGED retryVars, Ahead' => Ahead, Over => Over',
         step' = step \/ (~Over /\ AtPoint("runner", "idle")),
         step' = step \/ step \notin {"judging", "publish"}
  PROVE  FileInv'
<1>1. OneJudge'
  BY DEF FileInv, OneJudge, retryVars, AtPoint
<1>2. Ahead' => Untouched'
  BY DEF FileInv, Untouched, retryVars
<1>3. \A p \in Procs : Holds(p)'
  BY DEF FileInv, Holds, retryVars, AtPoint, Untouched, Sound, Agrees, Judged, Deferred
<1>4. Settles'
  BY DEF FileInv, Settles, retryVars, Quiet, AtPoint, Sound, Agrees
<1> QED BY <1>1, <1>2, <1>3, <1>4 DEF FileInv

LEMMA BeforeTheEnd ==
  ASSUME FileInv, ~Over
  PROVE  /\ AtPoint("tick", "idle") /\ AtPoint("hand", "idle")
         /\ step # "judging" => AtPoint("runner", "idle") /\ Quiet
         /\ AtPoint("runner", "idle") => Quiet
BY DEF FileInv, OneJudge, Quiet, AtPoint, Procs

(* What the runner leaves behind if it stops: the judgement is not begun,  *)
(* finished, or torn.                                                      *)
LEMMA LeavingHolds ==
  ASSUME TypeInv, FileInv, ~Over, NEW newPath, NEW newStep, Leave(newPath, newStep),
         newStep \notin {"judging", "publish"}, Ahead' => Ahead
  PROVE  FileInv'
<1>1. /\ proc'["runner"].pc = "idle" /\ proc'["tick"] = proc["tick"]
      /\ proc'["hand"] = proc["hand"] /\ step' = newStep
      /\ UNCHANGED <<judgement, retry, summary>>
  BY ThreeProcs, BecomesOnly DEF Leave, Idle
<1>2. Quiet'
  BY <1>1, BeforeTheEnd DEF Quiet, AtPoint, Procs
<1>3. torn' \/ (Sound /\ Agrees)
  <2>1. CASE step \notin {"judging", "publish"}
    BY <2>1, BeforeTheEnd DEF Leave, Tearing, FileInv, Settles
  <2>2. CASE step \in {"judging", "publish"} /\ AtPoint("runner", "panel")
    <3>1. Untouched
      BY <2>2, ThreeProcs DEF FileInv, Holds
    <3> QED BY <3>1 DEF Untouched, Sound, NeedsRetry, Agrees, NoJudgement, NoRetry
  <2>3. CASE step \in {"judging", "publish"} /\ ~AtPoint("runner", "panel")
    <3>1. torn' = (torn \/ judgement # NoJudgement)
      BY <2>3 DEF Leave, Tearing
    <3>2. ASSUME judgement = NoJudgement PROVE torn \/ (Sound /\ Agrees)
      <4>1. ~Judged
        BY <3>2 DEF Judged, NoJudgement
      <4>2. proc["runner"].pc \in {"idle", "panel", "summary", "mark", "defer",
                                   "deferSummary", "note"}
        BY ThreeProcs DEF TypeInv, TypeOK, Process
      <4>3. Holds("runner")
        BY ThreeProcs DEF FileInv
      <4>4. AtPoint("runner", "idle")
        BY <2>3, <4>1, <4>2, <4>3 DEF Holds, AtPoint, Judged, Deferred
      <4> QED BY <3>2, <4>4, BeforeTheEnd DEF FileInv, Settles, Agrees
    <3> QED BY <3>1, <3>2
  <2> QED BY <2>1, <2>2, <2>3
<1>4. Settles'
  BY <1>1, <1>3 DEF FileInv, Settles, Sound, Agrees
<1>5. OneJudge' /\ \A q \in Procs : Holds(q)'
  BY <1>2, ThreeProcs DEF Quiet, OneJudge, Holds, AtPoint
<1>6. Ahead' => Untouched'
  BY <1>1 DEF FileInv, Untouched
<1> QED BY <1>4, <1>5, <1>6 DEF FileInv

(* A failure brings the run no nearer to be judged.                        *)
LEMMA FailuresLeave ==
  ASSUME Raises \/ Interrupted \/ HandlerFails \/ Killed
  PROVE  /\ Ahead' => Ahead
         /\ ~Over
         /\ \E newPath \in {path, "failed", "interrupted", "broken"},
               newStep \in {"terminal", "mark", "finally", "killed"} : Leave(newPath, newStep)
<1>1. CASE Raises
  <2>1. step' = "terminal" /\ Leave("failed", "terminal")
    BY <1>1 DEF Raises, Leave
  <2>2. terminal' \in {Stop("failed", "unknown"), Stop("failed", "workspace")} \/ step = "loop"
    BY <1>1 DEF Raises, Raised
  <2>3. CASE step = "loop"
    BY <1>1, <2>1, <2>3 DEF Ahead, Undone, Over
  <2>4. CASE step # "loop"
    <3>1. ~Judgeable(terminal')
      BY <2>2, <2>4 DEF Stop, Judgeable
    <3>2. ~Over
      BY <1>1 DEF Raises, InTry, Over
    <3> QED BY <2>1, <3>1, <3>2 DEF Ahead, Undone
  <2> QED BY <2>3, <2>4
<1>2. CASE Interrupted
  <2>1. step' = "terminal" /\ Leave("interrupted", "terminal") /\ ~Over
    BY <1>2 DEF Interrupted, Leave, InTry, Over
  <2>2. ~Judgeable(terminal')
    BY <1>2 DEF Interrupted, Stop, Judgeable
  <2> QED BY <2>1, <2>2 DEF Ahead, Undone
<1>3. CASE HandlerFails \/ Killed
  <2>1. PICK newPath \in {path, "interrupted", "broken"},
             newStep \in {"mark", "finally", "killed"} : Leave(newPath, newStep)
    BY <1>3 DEF HandlerFails, Killed
  <2>2. ~Ahead'
    BY <2>1 DEF Leave, Ahead, Before, Undone
  <2>3. ~Over
    BY <1>3 DEF HandlerFails, Killed, Over
  <2> QED BY <2>1, <2>2, <2>3
<1> QED BY <1>1, <1>2, <1>3

LEMMA RunnerFiles ==
  ASSUME Overlap = FALSE, TypeInv, FileInv, [Next]_vars, ~Refresh
  PROVE  FileInv'
<1>1. CASE ToolCall
  BY <1>1, ToolFrame, FilesKept, BeforeTheEnd DEF RunUnchanged, MayCall, Ahead, Undone, Over
<1>2. CASE Begin \/ StartWorkspace \/ Derive
  BY <1>2, FilesKept, BeforeTheEnd DEF Begin, StartWorkspace, Derive, Ahead, Undone, Over
<1>3. ASSUME NEW error \in Errors, Returns(error) PROVE FileInv'
  BY <1>3, FilesKept, BeforeTheEnd DEF Returns, Ahead, Undone, Over
<1>4. ASSUME step \in {"terminal", "replace", "retry", "release", "summary"},
             Proceed, UNCHANGED <<path, terminal>>
      PROVE  /\ Ahead' => Ahead
             /\ ~Over /\ AtPoint("runner", "idle") /\ Quiet
             /\ step \notin {"judging", "publish"}
  <2>1. step' \notin Undone
    BY <1>4, ProceedTyped DEF Undone
  <2>2. step \in Before /\ step \notin {"judging", "publish", "ended", "killed"}
    BY <1>4 DEF Before
  <2>3. Judgeable(terminal') = Judgeable(terminal)
    BY <1>4
  <2> QED BY <2>1, <2>2, <2>3, BeforeTheEnd DEF Ahead, Over
<1>5. CASE WriteTerminal \/ RecordReplacement \/ RecordLiveRetry \/ Release
  <2>1. /\ step \in {"terminal", "replace", "retry", "release", "summary"} /\ Proceed
        /\ UNCHANGED <<path, terminal, retryVars>>
    BY <1>5 DEF WriteTerminal, RecordReplacement, RecordLiveRetry, Release
  <2> QED BY <1>4, <2>1, FilesKept DEF Over
<1>6. CASE Summarise
  <2>1. /\ step = "summary" /\ Proceed
        /\ UNCHANGED <<path, terminal, judgement, retry, proc, torn>>
        /\ summary' = FromFiles
    BY <1>6 DEF Summarise
  <2>2. (Ahead' => Ahead) /\ ~Over /\ Quiet
    BY <1>4, <2>1
  <2>3. Quiet' /\ summary'.judgement = judgement
    BY <2>1, <2>2 DEF Quiet, AtPoint, FromFiles
  <2>4. OneJudge' /\ \A p \in Procs : Holds(p)'
    BY <2>3, ThreeProcs DEF Quiet, OneJudge, Holds, AtPoint
  <2>5. Settles'
    BY <2>1, <2>2, <2>3 DEF FileInv, Settles, Sound, Agrees
  <2>6. Ahead' => Untouched'
    BY <2>1, <2>2, <2>3 DEF FileInv, Untouched
  <2> QED BY <2>4, <2>5, <2>6 DEF FileInv
<1>7. CASE Judge
  <2>1. /\ step = "judge" /\ ~Over /\ Quiet
        /\ UNCHANGED <<judgement, retry, summary, torn>>
    BY <1>7, BeforeTheEnd DEF Judge, Over
  <2>2. CASE Judgeable(terminal)
    <3>1. Untouched
      BY <2>1, <2>2 DEF FileInv, Ahead, Before
    <3>2. /\ proc'["runner"] = [Idle EXCEPT !.pc = "panel"] /\ step' = "judging"
          /\ proc'["tick"] = proc["tick"] /\ proc'["hand"] = proc["hand"]
      BY <1>7, <2>2, ThreeProcs, BecomesOnly DEF Judge
    <3>3. /\ proc'["runner"].pc = "panel" /\ AtPoint("tick", "idle")'
          /\ AtPoint("hand", "idle")'
      BY <2>1, <3>2, ThreeProcs DEF Idle, Quiet, AtPoint
    <3>4. Untouched' /\ ~Quiet'
      BY <2>1, <3>1, <3>3, ThreeProcs DEF Untouched, Quiet, AtPoint
    <3>5. OneJudge' /\ \A p \in Procs : Holds(p)'
      BY <3>2, <3>3, <3>4, ThreeProcs DEF OneJudge, Holds, AtPoint
    <3>6. Settles'
      BY <3>4 DEF Settles, Untouched
    <3> QED BY <3>4, <3>5, <3>6 DEF FileInv
  <2>3. CASE ~Judgeable(terminal)
    <3>1. step' = "publish" /\ UNCHANGED retryVars
      BY <1>7, <2>3 DEF Judge, retryVars
    <3>2. ~Ahead'
      BY <3>1 DEF Ahead, Before, Undone
    <3> QED BY <2>1, <3>1, <3>2, ThreeProcs, FilesKept DEF Quiet
  <2> QED BY <2>2, <2>3
<1>8. CASE Judging
  <2>1. step = "judging" /\ ~Over /\ AtPoint("tick", "idle") /\ AtPoint("hand", "idle")
    BY <1>8, BeforeTheEnd DEF Judging, Over
  <2>2. CASE AtPoint("runner", "idle") /\ step' = "publish" /\ UNCHANGED retryVars
    <3>1. ~Ahead'
      BY <2>2 DEF Ahead, Before, Undone
    <3>2. OneJudge' /\ \A p \in Procs : Holds(p)'
      BY <2>1, <2>2, ThreeProcs DEF OneJudge, Holds, AtPoint, retryVars
    <3>3. Settles'
      BY <2>1, <2>2 DEF FileInv, Settles, retryVars, Quiet, AtPoint, Sound
    <3> QED BY <3>1, <3>2, <3>3 DEF FileInv
  <2>3. CASE JudgeStep("runner") /\ UNCHANGED step
    <3>1. RejudgeStep("runner") /\ ~AtPoint("runner", "idle")
      BY <2>3, JudgingIsBusy DEF RejudgeStep
    <3>2. /\ Holds("runner")'
          /\ (judgement' = NoJudgement => summary'.judgement = NoJudgement)
          /\ AtPoint("runner", "idle")' => Sound'
      BY <3>1, ThreeProcs, JudgingHolds DEF FileInv, Settles
    <3>3. AtPoint("tick", "idle")' /\ AtPoint("hand", "idle")'
      BY <2>1, <3>1, ThreeProcs, JudgingMoves DEF AtPoint
    <3>4. OneJudge' /\ \A p \in Procs : Holds(p)'
      BY <2>1, <2>3, <3>2, <3>3, ThreeProcs DEF OneJudge, Holds, AtPoint
    <3>5. Settles'
      BY <2>1, <2>3, <3>2, ThreeProcs DEF Settles, Quiet
    <3>6. ~Ahead'
      BY <2>1, <2>3 DEF Ahead, Before, Undone
    <3> QED BY <3>4, <3>5, <3>6 DEF FileInv
  <2> QED BY <1>8, <2>2, <2>3 DEF Judging
<1>9. CASE Publish
  <2>1. /\ ~Over /\ AtPoint("runner", "idle") /\ Quiet
        /\ UNCHANGED <<judgement, retry, proc, torn>>
        /\ summary' = FromFiles /\ step' = "finish"
    BY <1>9, BeforeTheEnd DEF Publish, Over
  <2>2. Quiet' /\ summary'.judgement = judgement /\ ~Ahead'
    BY <2>1 DEF Quiet, AtPoint, FromFiles, Ahead, Before, Undone
  <2>3. OneJudge' /\ \A p \in Procs : Holds(p)'
    BY <2>2, ThreeProcs DEF Quiet, OneJudge, Holds, AtPoint
  <2>4. Settles'
    BY <2>1, <2>2 DEF FileInv, Settles, Sound, Agrees
  <2> QED BY <2>2, <2>3, <2>4 DEF FileInv
<1>10. CASE Finish \/ Finally
  <2>1. /\ step \in {"finish", "mark", "finally"} /\ step' \in {"finally", "ended"}
        /\ UNCHANGED retryVars
    BY <1>10 DEF Finish, Finally
  <2>2. ~Over /\ AtPoint("runner", "idle") /\ ~Ahead'
    BY <2>1, BeforeTheEnd DEF Over, Ahead, Before, Undone
  <2> QED BY <2>1, <2>2, FilesKept
<1>11. CASE Raises \/ Interrupted \/ HandlerFails \/ Killed
  BY <1>11, FailuresLeave, LeavingHolds
<1>12. CASE UNCHANGED vars
  <2>1. step' = step /\ (Ahead' <=> Ahead) /\ UNCHANGED retryVars
    BY <1>12 DEF vars, runVars, Ahead, Judgeable, ToBeReplaced
  <2> QED BY <2>1, FilesKept DEF Over
<1> QED
  BY <1>1, <1>2, <1>3, <1>5, <1>6, <1>7, <1>8, <1>9, <1>10, <1>11, <1>12
  DEF Next, Onward, Ending

LEMMA InitFiles == Init => FileInv
<1> SUFFICES ASSUME Init PROVE FileInv
  OBVIOUS
<1>1. /\ Quiet /\ Untouched /\ summary.there = FALSE /\ step = "begin"
  BY DEF Init, RetryInit, Quiet, AtPoint, Idle, Untouched, NoSummary
<1>2. OneJudge /\ \A p \in Procs : Holds(p)
  BY <1>1, ThreeProcs DEF Quiet, OneJudge, Holds, AtPoint
<1>3. Settles
  BY <1>1 DEF Untouched, Settles, Sound, NeedsRetry, Agrees, NoJudgement, NoRetry
<1> QED BY <1>1, <1>2, <1>3 DEF FileInv

LEMMA FilesInductive ==
  /\ Init => TypeInv /\ FileInv
  /\ Overlap = FALSE /\ TypeInv /\ FileInv /\ [Next]_vars => TypeInv' /\ FileInv'
BY InitTyped, NextTyped, InitFiles, RefreshFiles, RunnerFiles

(* Once nobody judges, a judgement that judges out of reach left           *)
(* incomplete carries no score and one to be retried says that it is       *)
(* deferred - after any number of retries, commands and failures of the    *)
(* runner and of refreshes, unless a process was stopped between two of    *)
(* its writes and nobody judged the run since.                             *)
THEOREM TransientIsNotScored ==
  ASSUME Overlap = FALSE
  PROVE  Spec => []TransientNotScored
<1>1. FileInv => TransientNotScored
  BY DEF FileInv, Settles, Sound, TransientNotScored
<1>2. TypeInv /\ FileInv /\ [Next]_vars => TypeInv' /\ FileInv'
  BY FilesInductive
<1> QED BY <1>1, <1>2, FilesInductive, PTL DEF Spec

(* ... and the summary repeats that judgement.                             *)
THEOREM SummaryRepeatsJudgement ==
  ASSUME Overlap = FALSE
  PROVE  Spec => []SummaryAgrees
<1>1. FileInv => SummaryAgrees
  BY DEF FileInv, Settles, Agrees, Over, SummaryAgrees
<1>2. TypeInv /\ FileInv /\ [Next]_vars => TypeInv' /\ FileInv'
  BY FilesInductive
<1> QED BY <1>1, <1>2, FilesInductive, PTL DEF Spec
=============================================================================
