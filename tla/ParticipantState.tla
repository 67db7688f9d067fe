--------------------------- MODULE ParticipantState ---------------------------
(***************************************************************************)
(* participant_state.json of one season participant, and the functions of  *)
(* src/contribarena/engine/seasons.py that rewrite it.  Every operator     *)
(* Mark...(s, ...) is one load / modify / atomic-replace of the file: it   *)
(* maps the record s that was loaded to the record that is saved.          *)
(*                                                                         *)
(* An operator that no other definition uses is a faulty variant of the    *)
(* one that follows it, kept to show that the properties notice the fault. *)
(*                                                                         *)
(* Instants are abstracted to ages: the code only ever compares            *)
(* "now - instant" with a threshold, so an instant is the number of time   *)
(* units since it, saturating at the threshold that reads it.              *)
(***************************************************************************)
EXTENDS Integers

CONSTANTS
  WakeInterval,            \* wake_interval: age from which last_wake_at is due
  ShortGrace,              \* the 600 s a pending run gets without an artifact
  FullGrace,               \* max_wall_time_seconds + 600
  MaxReplacementAttempts,  \* MAX_REPLACEMENT_ATTEMPTS
  MaxRetryAttempts         \* MAX_LIVE_SUBMISSION_RETRY_ATTEMPTS

ASSUME StateConstants ==
  /\ WakeInterval \in Nat \ {0}
  /\ ShortGrace \in Nat
  /\ FullGrace \in Nat
  /\ ShortGrace <= FullGrace
  /\ MaxReplacementAttempts \in Nat
  /\ MaxRetryAttempts \in Nat

None == -1          \* an instant that is absent ("" or no key)
PendingId == 0      \* the literal run id "pending" the controller writes
RunId == Nat        \* 0 is "pending"; real ids are positive

Sources == {"manual", "auto"}
PendStatus == {"none", "running", "completed", "interrupted", "stale"}
ReplacementStatus == {"none", "due", "running", "replaced", "failed", "exhausted"}
RetryStatus == {"none", "due", "running", "succeeded", "failed", "exhausted"}

WakeAge == 0 .. WakeInterval
Wake == WakeAge \cup {None}

(* pending_run; "term" says that a run_summary.json with that run id       *)
(* exists under the artifact root.                                         *)
Pending == [id : RunId, src : Sources, status : PendStatus,
            age : 0 .. FullGrace, term : BOOLEAN]

State == [active  : Nat,
          pend    : Pending,
          last    : RunId \cup {None},
          wake    : Wake,
          prev    : Wake,
          repl    : [status : ReplacementStatus, attempts : Nat],
          retry   : [status : RetryStatus, attempts : Nat]]

Fresh == [active |-> 0,
          pend   |-> [id |-> PendingId, src |-> "manual", status |-> "none",
                      age |-> 0, term |-> FALSE],
          last   |-> None,
          wake   |-> None,
          prev   |-> None,
          repl   |-> [status |-> "none", attempts |-> 0],
          retry  |-> [status |-> "none", attempts |-> 0]]

Least(a, b) == IF a <= b THEN a ELSE b
LessOneUnfloored(n) == n - 1
LessOne(n) == IF n > 0 THEN n - 1 ELSE 0

-----------------------------------------------------------------------------
(* The questions the scheduler asks of a record.                           *)

ReplacementDue(s) == s.repl.status = "due"
RetryDue(s) == s.retry.status = "due"
ClockDue(s) == s.wake = None \/ s.wake = WakeInterval
IsDue(s) == ReplacementDue(s) \/ RetryDue(s) \/ ClockDue(s)

(* _season_due_priority: 0 before 1 before 2.                              *)
QueueClass(s) == IF ReplacementDue(s) THEN 0 ELSE IF RetryDue(s) THEN 1 ELSE 2

(* _mark_stale_pending_run_if_due and _pending_run_is_stale.               *)
StaleUnlessPrelaunch(s) ==
  /\ s.pend.status = "running"
  /\ s.pend.id # PendingId /\ s.last # s.pend.id
  /\ s.pend.age >= IF s.pend.term THEN FullGrace ELSE ShortGrace

PendingIsStale(s) ==
  /\ s.pend.status = "running"
  /\ ~ (s.pend.id # PendingId /\ s.last = s.pend.id)
  /\ s.pend.age >= IF s.pend.term THEN FullGrace ELSE ShortGrace

-----------------------------------------------------------------------------
(* mark_participant_replacement_due and mark_live_submission_retry_due.    *)

OneReplacementTooMany(s) ==
  [status |-> IF s.repl.attempts <= MaxReplacementAttempts THEN "due" ELSE "exhausted",
   attempts |-> s.repl.attempts + 1]

NextReplacement(s) ==
  [status |-> IF s.repl.attempts + 1 <= MaxReplacementAttempts
                THEN "due" ELSE "exhausted",
   attempts |-> s.repl.attempts + 1]

NextRetry(s) ==
  [status |-> IF s.retry.attempts + 1 <= MaxRetryAttempts
                THEN "due" ELSE "exhausted",
   attempts |-> s.retry.attempts + 1]

MarkReplacementDue(s) == [s EXCEPT !.repl = NextReplacement(s)]
MarkRetryDue(s) == [s EXCEPT !.retry = NextRetry(s)]

(* mark_stale_participant_run_replacement_due: every slot is given back    *)
(* and the interrupted run is replaced.                                    *)
StaleKeepsSlots(s) ==
  [s EXCEPT !.repl = NextReplacement(s), !.pend.status = "stale"]

MarkStale(s) ==
  [s EXCEPT !.repl = NextReplacement(s),
            !.active = 0,
            !.pend.status = "stale"]

RecoverIfStale(s) == IF PendingIsStale(s) THEN MarkStale(s) ELSE s

(* mark_participant_replacement_consumed, ..._retry_consumed.              *)
ConsumedUnguarded(s) == [s EXCEPT !.repl.status = "running"]

MarkReplacementConsumed(s) ==
  IF s.repl.status \in {"due", "running"}
    THEN [s EXCEPT !.repl.status = "running"] ELSE s

MarkRetryConsumed(s) ==
  IF s.retry.status \in {"due", "running"}
    THEN [s EXCEPT !.retry.status = "running"] ELSE s

-----------------------------------------------------------------------------
(* mark_participant_run_started.                                           *)
StartedForgettingClock(s, rid, src, increment) ==
  [s EXCEPT
     !.active = IF increment THEN @ + 1 ELSE @,
     !.pend   = [id |-> rid, src |-> src, status |-> "running",
                 age |-> 0, term |-> FALSE],
     !.prev   = IF src = "auto" THEN s.wake ELSE @,
     !.wake   = IF src = "auto" THEN 0 ELSE @,
     !.retry.status = IF RetryDue(s) THEN "running" ELSE @]

StartedKeepingAge(s, rid, src, increment) ==
  [s EXCEPT
     !.active = IF increment THEN @ + 1 ELSE @,
     !.pend   = [id |-> rid, src |-> src, status |-> "running",
                 age |-> IF s.pend.status = "running" THEN s.pend.age ELSE 0,
                 term |-> FALSE],
     !.prev   = IF src = "auto" /\ s.wake # None /\ @ = None THEN s.wake ELSE @,
     !.wake   = IF src = "auto" THEN 0 ELSE @,
     !.retry.status = IF RetryDue(s) THEN "running" ELSE @]

MarkRunStarted(s, rid, src, increment) ==
  [s EXCEPT
     !.active = IF increment THEN @ + 1 ELSE @,
     !.pend   = [id |-> rid, src |-> src, status |-> "running",
                 age |-> 0, term |-> FALSE],
     !.prev   = IF src = "auto" /\ s.wake # None /\ @ = None THEN s.wake ELSE @,
     !.wake   = IF src = "auto" THEN 0 ELSE @,
     !.retry.status = IF RetryDue(s) THEN "running" ELSE @]

Claims(s, rid) == s.pend.status # "none" /\ s.pend.id \in {rid, PendingId}

ClosePending(s, rid, status) ==
  IF Claims(s, rid) THEN [s.pend EXCEPT !.id = rid, !.status = status] ELSE s.pend

(* mark_participant_run_finished; "suppress" is suppress_wake_cooldown.    *)
MarkRunFinished(s, rid, completed, suppress) ==
  [s EXCEPT
     !.active = LessOne(@),
     !.last   = rid,
     !.pend   = ClosePending(s, rid, "completed"),
     !.wake   = IF suppress /\ s.pend.status # "none" /\ s.pend.src = "auto"
                  THEN s.prev ELSE @,
     !.prev   = None,
     !.repl.status  = IF @ # "running" THEN @
                      ELSE IF completed THEN "replaced" ELSE "failed",
     !.retry.status = IF @ # "running" THEN @
                      ELSE IF completed THEN "succeeded" ELSE "failed"]

(* mark_participant_run_interrupted: it leaves the replacement, the retry  *)
(* and previous_last_wake_at as they are.                                  *)
MarkRunInterrupted(s, rid) ==
  [s EXCEPT !.active = LessOne(@),
            !.last   = rid,
            !.pend   = ClosePending(s, rid, "interrupted")]

(* run_summary.json of run rid appears.                                    *)
ArtifactWritten(s, rid) ==
  IF s.pend.id = rid THEN [s EXCEPT !.pend.term = TRUE] ELSE s

Older(a, cap) == IF a = None THEN None ELSE Least(a + 1, cap)

(* One unit of time passes.                                                *)
Age(s) ==
  [s EXCEPT !.wake = Older(@, WakeInterval),
            !.prev = Older(@, WakeInterval),
            !.pend.age = IF s.pend.status = "running"
                           THEN Least(@ + 1, FullGrace) ELSE @]
=============================================================================
