----------------------------- MODULE JudgementRetry -----------------------------
(***************************************************************************)
(* The judgement of one run and its retry: judgement.json,                 *)
(* judgement_retry_state.json and their copies in run_summary.json, which  *)
(* are written by the runner that ends the run, by the season tick that    *)
(* retries a judgement whose judges could not be reached, and by the       *)
(* operator's `judge` command.  AgentRun says when the runner judges.      *)
(*                                                                         *)
(* Each write of a file is a step.  What a process read before and writes  *)
(* back later is in its record.                                            *)
(*                                                                         *)
(* An operator that no other definition uses is a faulty variant of the    *)
(* one that follows it, to show that a property can fail.                  *)
(***************************************************************************)
EXTENDS Naturals

CONSTANTS
  Questions,   \* what the panel is asked: a dimension by each of its judges
  MaxRetries,  \* MAX_JUDGEMENT_RETRY_ATTEMPTS
  MaxHands,    \* bound: `judge` commands
  Overlap,     \* whether a refresh may start while another process judges
  Faults,      \* what may fail
  MaxFaults    \* bound: failures

AllFaults == {"raise",      \* the runner, or a refresh, meets an exception
              "interrupt",  \* SIGINT or sys.exit in the runner
              "kill",       \* the runner, or a refresh, is killed
              "save"}       \* goal_state.json cannot be written

ASSUME RetryConstants ==
  /\ Questions # {}
  /\ MaxRetries \in Nat \ {0}
  /\ MaxHands \in Nat
  /\ Overlap \in BOOLEAN
  /\ Faults \subseteq AllFaults
  /\ MaxFaults \in Nat

VARIABLES
  judgement,  \* judgement.json; status "none" while there is no file
  retry,      \* judgement_retry_state.json; status "none" while there is no file
  summary,    \* run_summary.json's copies of the two, and whether the file exists
  proc,       \* proc[p]: what process p is at
  panels,     \* judge panels held by the runner and the ticks
  hands,      \* `judge` commands issued (bounded by MaxHands)
  torn,       \* a process was stopped between two of its writes
  faults      \* failures so far (bounded by MaxFaults)

retryVars == <<judgement, retry, summary, proc, panels, hands, torn>>

Procs == {"runner", "tick", "hand"}

(* "fallback" stands for partial_fallback too: some dimension was scored   *)
(* by the heuristic because a judge failed.  transient: some judge's error *)
(* is that of a provider out of reach.  Only "judged" and "fallback" carry *)
(* scores.                                                                 *)
Judgement ==
  [status : {"none", "judged", "fallback", "deferred", "failed", "not_judged"},
   transient : BOOLEAN]
Retry ==
  [status : {"none", "due", "running", "succeeded", "failed", "skipped"},
   attempts : Nat, fresh : BOOLEAN]      \* fresh: started less than two hours ago
Summary == [there : BOOLEAN, judgement : Judgement, retry : Retry]

NoJudgement == [status |-> "none", transient |-> FALSE]
NoRetry == [status |-> "none", attempts |-> 0, fresh |-> FALSE]
NoSummary == [there |-> FALSE, judgement |-> NoJudgement, retry |-> NoRetry]

Process ==
  [pc : {"idle", "panel", "summary", "mark", "defer", "deferSummary", "note"},
   summary : Summary,        \* run_summary.json as it was read
   judgement : Judgement,    \* the judgement it is to write
   retry : Retry,            \* the retry state it has written
   attempts : Nat]           \* the attempts when the tick took the run up
Idle == [pc |-> "idle", summary |-> NoSummary, judgement |-> NoJudgement,
         retry |-> NoRetry, attempts |-> 0]

RetryInit ==
  /\ judgement = NoJudgement
  /\ retry = NoRetry
  /\ summary = NoSummary
  /\ proc = [p \in Procs |-> Idle]
  /\ panels = 0
  /\ hands = 0
  /\ torn = FALSE

-----------------------------------------------------------------------------
Fault(f) == f \in Faults /\ faults < MaxFaults /\ faults' = faults + 1

Become(p, r) == proc' = [proc EXCEPT ![p] = r]
AtPoint(p, point) == proc[p].pc = point
Alone(p) == \A q \in Procs : q # p => AtPoint(q, "idle")
Quiet == \A p \in Procs : AtPoint(p, "idle")

Scored(j) == j.status \in {"judged", "fallback"}
NeedsRetry(j) == j.status = "fallback" /\ j.transient

(* The panel.  A judge's model is asked up to three times for its score in *)
(* a dimension; if none comes the heuristic fills it in, and the last      *)
(* error is noted.                                                         *)
Replies == {"score", "transient", "other"}
Asked(replies) ==
  IF \E attempt \in 1..3 : replies[attempt] = "score" THEN "score" ELSE replies[3]

PanelStatus(results) ==
  [status |-> IF \A q \in Questions : results[q] = "score" THEN "judged" ELSE "fallback",
   transient |-> \E q \in Questions : results[q] = "transient"]

Verdicts ==
  {PanelStatus(results) :
     results \in [Questions -> {Asked(replies) : replies \in [1..3 -> Replies]}]}

(* build_run_summary: both copies are taken from the files.                *)
FromFiles == [there |-> TRUE, judgement |-> judgement, retry |-> retry]

-----------------------------------------------------------------------------
(* Judging: the runner goes panel, mark; a refresh also writes the summary *)
(* in between, on what it read before the panel.                           *)

Panel(p) ==
  /\ AtPoint(p, "panel")
  /\ judgement' \in Verdicts
  /\ panels' = panels + (IF p = "hand" THEN 0 ELSE 1)
  /\ Become(p, [proc[p] EXCEPT !.pc = IF p = "runner" THEN "mark" ELSE "summary"])
  /\ UNCHANGED <<retry, summary, hands, torn>>

WriteSummary(p) ==
  /\ AtPoint(p, "summary")
  /\ summary' = [proc[p].summary EXCEPT !.judgement = judgement]
  /\ Become(p, [proc[p] EXCEPT !.pc = "mark"])
  /\ UNCHANGED <<judgement, retry, panels, hands, torn>>

(* mark_transient_judgement_retry_due.  The attempts are those of the      *)
(* retry file, or else of the summary's copy.                              *)
AttemptsOfDue == IF retry.status = "due" THEN retry.attempts ELSE 0
Attempts == IF retry.status = "none" THEN summary.retry.attempts ELSE retry.attempts

MarkDue(p) ==
  /\ AtPoint(p, "mark") /\ NeedsRetry(judgement)
  /\ LET next == Attempts + 1
         again == next <= MaxRetries
         mark == [status |-> IF again THEN "due" ELSE "failed", attempts |-> next,
                  fresh |-> FALSE]
     IN /\ retry' = mark
        /\ Become(p, [proc[p] EXCEPT
                        !.pc = "defer", !.summary = summary, !.retry = mark,
                        !.judgement = [status |-> IF again THEN "deferred" ELSE "failed",
                                       transient |-> TRUE]])
  /\ UNCHANGED <<judgement, summary, panels, hands, torn>>

DeferNot(p) ==
  /\ AtPoint(p, "defer")
  /\ Become(p, [proc[p] EXCEPT !.pc = "deferSummary"])
  /\ UNCHANGED <<judgement, retry, summary, panels, hands, torn>>

Defer(p) ==
  /\ AtPoint(p, "defer")
  /\ judgement' = proc[p].judgement
  /\ Become(p, [proc[p] EXCEPT !.pc = "deferSummary"])
  /\ UNCHANGED <<retry, summary, panels, hands, torn>>

DeferSummaryStale(p) ==
  /\ AtPoint(p, "deferSummary")
  /\ summary' = [proc[p].summary EXCEPT !.retry = proc[p].retry]
  /\ Become(p, Idle)
  /\ torn' = FALSE
  /\ UNCHANGED <<judgement, retry, panels, hands>>

DeferSummary(p) ==
  /\ AtPoint(p, "deferSummary")
  /\ summary' = [proc[p].summary EXCEPT !.judgement = judgement, !.retry = proc[p].retry]
  /\ Become(p, Idle)
  /\ torn' = FALSE
  /\ UNCHANGED <<judgement, retry, panels, hands>>

(* Nothing to retry.  A refresh notes that the retry, if there was one,    *)
(* has succeeded; the attempts are forgotten.                              *)
Succeeded == [status |-> "succeeded", attempts |-> 0, fresh |-> FALSE]

MarkNothing(p) ==
  /\ AtPoint(p, "mark") /\ ~NeedsRetry(judgement)
  /\ IF p # "runner" /\ retry.status # "none"
     THEN /\ retry' = Succeeded
          /\ Become(p, [proc[p] EXCEPT !.pc = "note"])
          /\ UNCHANGED torn
     ELSE /\ Become(p, Idle)
          /\ torn' = FALSE
          /\ UNCHANGED retry
  /\ UNCHANGED <<judgement, summary, panels, hands>>

Note(p) ==
  /\ AtPoint(p, "note")
  /\ summary' = [summary EXCEPT !.retry = Succeeded]
  /\ Become(p, Idle)
  /\ torn' = FALSE
  /\ UNCHANGED <<judgement, retry, panels, hands>>

JudgeStep(p) == Panel(p) \/ MarkDue(p) \/ Defer(p) \/ DeferSummary(p) \/ MarkNothing(p)
RejudgeStep(p) == JudgeStep(p) \/ WriteSummary(p) \/ Note(p)

-----------------------------------------------------------------------------
(* The season tick.  ending: the runner has not ended the run yet.         *)
(* replaced: the run is to be replaced by another one.                     *)

MayStart(p, ending) == AtPoint(p, "idle") /\ (Overlap \/ (Alone(p) /\ ~ending))

TickRecoversSummarised(ending) ==
  /\ MayStart("tick", ending)
  /\ summary.retry.status = "running" /\ ~retry.fresh
  /\ retry' = [retry EXCEPT !.status = "due"]
  /\ UNCHANGED <<judgement, summary, proc, panels, hands, torn>>

(* A retry found running for two hours is due again, no attempt counted.   *)
TickRecovers(ending) ==
  /\ MayStart("tick", ending)
  /\ retry.status = "running" /\ ~retry.fresh
  /\ retry' = [retry EXCEPT !.status = "due"]
  /\ UNCHANGED <<judgement, summary, proc, panels, hands, torn>>

Due == retry.status = "due" /\ summary.there

(* The run is replaced: its judgement, copied from the summary, loses its  *)
(* scores.                                                                 *)
TickSkips(ending, replaced) ==
  /\ MayStart("tick", ending) /\ Due /\ replaced
  /\ LET mark == [retry EXCEPT !.status = "skipped"]
     IN /\ retry' = mark
        /\ Become("tick", [pc |-> "defer", summary |-> summary, retry |-> mark,
                           judgement |-> [status |-> "not_judged", transient |-> FALSE],
                           attempts |-> retry.attempts])
  /\ UNCHANGED <<judgement, summary, panels, hands, torn>>

TickStarts(ending, replaced) ==
  /\ MayStart("tick", ending) /\ Due /\ ~replaced
  /\ retry' = [retry EXCEPT !.status = "running", !.fresh = TRUE]
  /\ Become("tick", [Idle EXCEPT !.pc = "panel", !.summary = summary,
                                 !.attempts = retry.attempts])
  /\ UNCHANGED <<judgement, summary, panels, hands, torn>>

(* The refresh raises, wherever it was.  The tick goes by the state it     *)
(* read before; attempts < MaxRetries here is next <= MaxRetries there.    *)
TickRaises ==
  /\ ~AtPoint("tick", "idle") /\ retry.status # "skipped"
  /\ Fault("raise")
  /\ \E transient \in BOOLEAN :
       LET next == proc["tick"].attempts + 1
       IN retry' = [status |-> IF transient /\ next < MaxRetries THEN "due" ELSE "failed",
                    attempts |-> next, fresh |-> retry.fresh]
  /\ torn' = (torn \/ ~AtPoint("tick", "panel"))
  /\ Become("tick", Idle)
  /\ UNCHANGED <<judgement, summary, panels, hands>>

-----------------------------------------------------------------------------
(* The operator's `judge`, with --force or without.                        *)

HandStarts(ending) ==
  /\ MayStart("hand", ending) /\ summary.there
  /\ hands < MaxHands
  /\ hands' = hands + 1
  /\ \E force \in BOOLEAN :
       IF force \/ ~Scored(summary.judgement)
       THEN Become("hand", [Idle EXCEPT !.pc = "panel", !.summary = summary])
       ELSE UNCHANGED proc
  /\ UNCHANGED <<judgement, retry, summary, panels, torn>>

(* The refresh of p is killed, or raises in the operator's hand.           *)
RefreshDies(p) ==
  /\ ~AtPoint(p, "idle")
  /\ Fault("kill")
  /\ torn' = (torn \/ ~AtPoint(p, "panel"))
  /\ Become(p, Idle)
  /\ UNCHANGED <<judgement, retry, summary, panels, hands>>

TwoHoursPass ==
  /\ retry.status = "running" /\ retry.fresh
  /\ retry' = [retry EXCEPT !.fresh = FALSE]
  /\ UNCHANGED <<judgement, summary, proc, panels, hands, torn>>

TickStep(ending, replaced) ==
  TickRecovers(ending) \/ TickSkips(ending, replaced) \/ TickStarts(ending, replaced)
    \/ RejudgeStep("tick")

RefreshStep(ending, replaced) ==
  \/ (TickStep(ending, replaced) \/ HandStarts(ending) \/ RejudgeStep("hand") \/ TwoHoursPass)
       /\ UNCHANGED faults
  \/ TickRaises \/ RefreshDies("tick") \/ RefreshDies("hand")
=============================================================================
