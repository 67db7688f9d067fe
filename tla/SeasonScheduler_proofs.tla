------------------------ MODULE SeasonScheduler_proofs ------------------------
(***************************************************************************)
(* Proofs about SeasonScheduler for every set of participants and of       *)
(* operator processes and every value of the bounds.                       *)
(***************************************************************************)
EXTENDS SeasonScheduler, TLAPS, FiniteSetTheorems

-----------------------------------------------------------------------------
(* What one rewrite s -> t of participant_state.json can do to the         *)
(* replacement and retry counters.                                         *)

Sound(s) ==
  /\ s.repl.status = "exhausted" => s.repl.attempts > MaxReplacementAttempts
  /\ s.retry.status = "exhausted" => s.retry.attempts > MaxRetryAttempts

Grows(s, t) ==
  /\ t.repl.attempts >= s.repl.attempts
  /\ ReplacementDue(t) =>
       \/ ReplacementDue(s) /\ t.repl.attempts = s.repl.attempts
       \/ /\ t.repl.attempts > s.repl.attempts
          /\ t.repl.attempts <= MaxReplacementAttempts
  /\ s.repl.status = "exhausted" => t.repl.status = "exhausted"
  /\ s.retry.status = "exhausted" => t.retry.status = "exhausted"

Good(s) == s \in State /\ Sound(s)
Rewrite(s, t) == Good(t) /\ Grows(s, t)

LEMMA RewriteRefl == ASSUME NEW s, Good(s) PROVE Rewrite(s, s)
  BY DEF Rewrite, Good, Grows, State

LEMMA RewriteTrans ==
  ASSUME NEW s, NEW t, NEW u, Good(s), Rewrite(s, t), Rewrite(t, u)
  PROVE  Rewrite(s, u)
<1>1. /\ s.repl.attempts \in Nat /\ t.repl.attempts \in Nat
      /\ u.repl.attempts \in Nat /\ MaxReplacementAttempts \in Nat
  BY StateConstants DEF Rewrite, Good, State
<1> QED BY <1>1 DEF Rewrite, Grows, ReplacementDue

LEMMA MarkReplacementDueOK ==
  ASSUME NEW s, Good(s) PROVE Rewrite(s, MarkReplacementDue(s))
  BY StateConstants DEF Good, State, Sound, Rewrite, Grows, MarkReplacementDue,
     NextReplacement, ReplacementDue, ReplacementStatus

LEMMA MarkRetryDueOK ==
  ASSUME NEW s, Good(s) PROVE Rewrite(s, MarkRetryDue(s))
  BY StateConstants DEF Good, State, Sound, Rewrite, Grows, MarkRetryDue,
     NextRetry, ReplacementDue, RetryStatus

LEMMA NextReplacementType ==
  ASSUME NEW s \in State
  PROVE  NextReplacement(s) \in [status : ReplacementStatus, attempts : Nat]
  BY DEF State, NextReplacement, ReplacementStatus

LEMMA MarkStaleOK ==
  ASSUME NEW s, Good(s) PROVE Rewrite(s, MarkStale(s))
<1> DEFINE pend == [s.pend EXCEPT !.status = "stale"]
           t == [s EXCEPT !.repl = NextReplacement(s), !.active = 0, !.pend = pend]
<1>1. pend \in Pending
  BY DEF Good, State, Pending, PendStatus
<1>2. MarkStale(s) = t
  BY DEF MarkStale, Good, State, Pending
<1>3. t \in State
  BY <1>1, NextReplacementType DEF Good, State
<1>4. t.repl = NextReplacement(s) /\ t.retry = s.retry
  BY DEF Good, State
<1> HIDE DEF t
<1> QED
  BY <1>2, <1>3, <1>4, StateConstants DEF Good, State, Sound, Rewrite, Grows,
     NextReplacement, ReplacementDue

LEMMA RecoverIfStaleOK ==
  ASSUME NEW s, Good(s) PROVE Rewrite(s, RecoverIfStale(s))
  BY MarkStaleOK, RewriteRefl DEF RecoverIfStale

LEMMA MarkReplacementConsumedOK ==
  ASSUME NEW s, Good(s) PROVE Rewrite(s, MarkReplacementConsumed(s))
  BY StateConstants DEF Good, State, Sound, Rewrite, Grows, MarkReplacementConsumed,
     ReplacementDue, ReplacementStatus

LEMMA MarkRetryConsumedOK ==
  ASSUME NEW s, Good(s) PROVE Rewrite(s, MarkRetryConsumed(s))
  BY StateConstants DEF Good, State, Sound, Rewrite, Grows, MarkRetryConsumed,
     ReplacementDue, RetryStatus

LEMMA MarkRunStartedOK ==
  ASSUME NEW s, Good(s), NEW rid \in RunId, NEW src \in Sources, NEW inc \in BOOLEAN
  PROVE  Rewrite(s, MarkRunStarted(s, rid, src, inc))
<1> DEFINE t == MarkRunStarted(s, rid, src, inc)
           active == IF inc THEN s.active + 1 ELSE s.active
           pend == [id |-> rid, src |-> src, status |-> "running", age |-> 0, term |-> FALSE]
           prev == IF src = "auto" /\ s.wake # None /\ s.prev = None
                     THEN s.wake ELSE s.prev
           wake == IF src = "auto" THEN 0 ELSE s.wake
           retry == [s.retry EXCEPT !.status = IF RetryDue(s) THEN "running" ELSE @]
<1>1. pend \in Pending
  BY StateConstants DEF Pending, PendStatus
<1>2. retry \in [status : RetryStatus, attempts : Nat]
  BY DEF Good, State, RetryStatus
<1>3. active \in Nat /\ prev \in Wake /\ wake \in Wake
  BY StateConstants DEF Good, State, Wake, WakeAge
<1>4. t = [s EXCEPT !.active = active, !.pend = pend, !.prev = prev,
                    !.wake = wake, !.retry = retry]
  BY DEF MarkRunStarted, Good, State
<1> HIDE DEF t, active, pend, prev, wake
<1>5. t.repl = s.repl /\ t.retry = [s.retry EXCEPT !.status = IF RetryDue(s) THEN "running" ELSE @]
  BY <1>4 DEF Good, State
<1> HIDE DEF retry
<1>6. t \in State
  BY <1>1, <1>2, <1>3, <1>4 DEF Good, State
<1>7. Rewrite(s, t)
  BY <1>5, <1>6, StateConstants DEF Good, State, Sound, Rewrite, Grows, ReplacementDue,
     RetryDue
<1> QED BY <1>7 DEF t

LEMMA ClosePendingOK ==
  ASSUME NEW s \in State, NEW rid \in RunId, NEW status \in PendStatus
  PROVE  ClosePending(s, rid, status) \in Pending
  BY DEF State, ClosePending, Pending

LEMMA LessOneOK == ASSUME NEW n \in Nat PROVE LessOne(n) \in Nat
  BY DEF LessOne

LEMMA MarkRunFinishedOK ==
  ASSUME NEW s, Good(s), NEW rid \in RunId, NEW ok \in BOOLEAN, NEW sup \in BOOLEAN
  PROVE  Rewrite(s, MarkRunFinished(s, rid, ok, sup))
<1> DEFINE t == MarkRunFinished(s, rid, ok, sup)
           repl == [s.repl EXCEPT !.status = IF @ # "running" THEN @
                                             ELSE IF ok THEN "replaced" ELSE "failed"]
           retry == [s.retry EXCEPT !.status = IF @ # "running" THEN @
                                               ELSE IF ok THEN "succeeded" ELSE "failed"]
           restored == IF sup /\ s.pend.status # "none" /\ s.pend.src = "auto"
                         THEN s.prev ELSE s.wake
<1>1. ClosePending(s, rid, "completed") \in Pending
  BY ClosePendingOK DEF Good, PendStatus
<1>2. repl \in [status : ReplacementStatus, attempts : Nat]
  BY DEF Good, State, ReplacementStatus
<1>3. retry \in [status : RetryStatus, attempts : Nat]
  BY DEF Good, State, RetryStatus
<1>4. restored \in Wake /\ None \in Wake
  BY DEF Good, State, Wake
<1>5. t = [s EXCEPT !.active = LessOne(s.active), !.last = rid,
                    !.pend = ClosePending(s, rid, "completed"),
                    !.wake = restored, !.prev = None, !.repl = repl, !.retry = retry]
  BY DEF MarkRunFinished, Good, State
<1>6. LessOne(s.active) \in Nat
  BY LessOneOK DEF Good, State
<1> HIDE DEF restored
<1>7. t \in State
  BY <1>1, <1>2, <1>3, <1>4, <1>5, <1>6 DEF Good, State
<1>8. t.repl = repl /\ t.retry = retry
  BY <1>5 DEF Good, State
<1> HIDE DEF t
<1>9. Rewrite(s, t)
  BY <1>7, <1>8, StateConstants DEF Good, State, Sound, Rewrite, Grows, ReplacementDue
<1> QED BY <1>9 DEF t

LEMMA MarkRunInterruptedOK ==
  ASSUME NEW s, Good(s), NEW rid \in RunId
  PROVE  Rewrite(s, MarkRunInterrupted(s, rid))
<1>1. ClosePending(s, rid, "interrupted") \in Pending
  BY ClosePendingOK DEF Good, PendStatus
<1>2. LessOne(s.active) \in Nat
  BY LessOneOK DEF Good, State
<1> DEFINE t == MarkRunInterrupted(s, rid)
<1>3. t \in State /\ t.repl = s.repl /\ t.retry = s.retry
  BY <1>1, <1>2 DEF Good, State, MarkRunInterrupted
<1> HIDE DEF t
<1>4. Rewrite(s, t)
  BY <1>3, StateConstants DEF Good, State, Sound, Rewrite, Grows, ReplacementDue
<1> QED BY <1>4 DEF t

LEMMA ArtifactWrittenOK ==
  ASSUME NEW s, Good(s), NEW rid \in RunId
  PROVE  Rewrite(s, ArtifactWritten(s, rid))
<1> DEFINE pend == [s.pend EXCEPT !.term = TRUE]
<1>1. pend \in Pending
  BY DEF Good, State, Pending
<1>2. ArtifactWritten(s, rid) = IF s.pend.id = rid THEN [s EXCEPT !.pend = pend] ELSE s
  BY DEF ArtifactWritten, Good, State, Pending
<1> DEFINE t == ArtifactWritten(s, rid)
<1>3. t \in State /\ t.repl = s.repl /\ t.retry = s.retry
  BY <1>1, <1>2 DEF Good, State
<1> HIDE DEF t
<1>4. Rewrite(s, t)
  BY <1>3, StateConstants DEF Good, State, Sound, Rewrite, Grows, ReplacementDue
<1> QED BY <1>4 DEF t

LEMMA AgeOK == ASSUME NEW s, Good(s) PROVE Rewrite(s, Age(s))
<1> DEFINE pend == [s.pend EXCEPT !.age = IF s.pend.status = "running"
                                            THEN Least(@ + 1, FullGrace) ELSE @]
<1>1. Older(s.wake, WakeInterval) \in Wake /\ Older(s.prev, WakeInterval) \in Wake
  BY StateConstants DEF Good, State, Older, Wake, WakeAge, Least, None
<1>2. pend \in Pending
  BY StateConstants DEF Good, State, Pending, Least
<1>3. Age(s) = [s EXCEPT !.wake = Older(s.wake, WakeInterval),
                         !.prev = Older(s.prev, WakeInterval), !.pend = pend]
  BY DEF Age, Good, State, Pending
<1> DEFINE t == Age(s)
<1>4. t \in State /\ t.repl = s.repl /\ t.retry = s.retry
  BY <1>1, <1>2, <1>3 DEF Good, State
<1> HIDE DEF t
<1>5. Rewrite(s, t)
  BY <1>4, StateConstants DEF Good, State, Sound, Rewrite, Grows, ReplacementDue
<1> QED BY <1>5 DEF t

-----------------------------------------------------------------------------
(* Every step rewrites every participant's file soundly.                   *)

LEMMA ConsumeSnapshotOK ==
  ASSUME NEW q, Good(Mine(q)) PROVE Rewrite(Mine(q), ConsumeSnapshot(q))
<1> DEFINE s == Mine(q)
           t == IF proc[q].snapRepl THEN MarkReplacementConsumed(s) ELSE s
           u == IF proc[q].snapRetry THEN MarkRetryConsumed(t) ELSE t
<1>1. ConsumeSnapshot(q) = u
  BY DEF ConsumeSnapshot
<1> HIDE DEF s
<1>2. Good(s)
  BY DEF s
<1>3. Rewrite(s, t)
  BY <1>2, MarkReplacementConsumedOK, RewriteRefl
<1> HIDE DEF t
<1>4. Good(t)
  BY <1>3 DEF Rewrite
<1>5. Rewrite(t, u)
  BY <1>4, MarkRetryConsumedOK, RewriteRefl
<1> HIDE DEF u
<1>6. Rewrite(s, u)
  BY <1>2, <1>3, <1>5, RewriteTrans
<1> QED BY <1>1, <1>6 DEF s

LEMMA RecordedOK ==
  ASSUME NEW s, Good(s), NEW o
  PROVE  Rewrite(s, Recorded(s, o))
<1> DEFINE t == IF o.transient THEN MarkReplacementDue(s) ELSE s
           u == IF o.retryable THEN MarkRetryDue(t) ELSE t
<1>1. Recorded(s, o) = u
  BY DEF Recorded
<1>2. Rewrite(s, t)
  BY MarkReplacementDueOK, RewriteRefl
<1> HIDE DEF t
<1>3. Good(t)
  BY <1>2 DEF Rewrite
<1>4. Rewrite(t, u)
  BY <1>3, MarkRetryDueOK, RewriteRefl
<1> HIDE DEF u
<1> QED BY <1>1, <1>2, <1>4, RewriteTrans

(* The type invariant, strengthened with Sound for every file.             *)
Typed == TypeOK /\ \A p \in Participants : Good(pst[p])

RewritesAll == \A p \in Participants : Rewrite(pst[p], pst'[p])

LEMMA IdleType == Idle \in Process
<1>1. (CHOOSE p \in Participants : TRUE) \in Participants
  BY SchedulerConstants
<1>2. NoOutcome \in Outcomes
  BY DEF NoOutcome, Outcomes, Outcome
<1> QED BY <1>1, <1>2, StateConstants DEF Idle, Process, Control, RunId, Sources

LEMMA SaveOK ==
  ASSUME Typed, NEW q \in Procs, NEW t, Rewrite(Mine(q), t), Save(q, t)
  PROVE  RewritesAll /\ pst' \in [Participants -> State]
<1>1. proc[q].part \in Participants /\ pst \in [Participants -> State]
  BY DEF Typed, TypeOK, Process
<1>2. t \in State
  BY DEF Rewrite, Good
<1>3. ASSUME NEW p \in Participants PROVE Rewrite(pst[p], pst'[p])
  <2>1. CASE p = proc[q].part
    BY <1>1, <2>1 DEF Save, Mine
  <2>2. CASE p # proc[q].part
    BY <1>1, <2>2, RewriteRefl DEF Save, Typed
  <2> QED BY <2>1, <2>2
<1> QED BY <1>1, <1>2, <1>3 DEF Save, RewritesAll

LEMMA SameFiles ==
  ASSUME Typed, UNCHANGED pst
  PROVE  RewritesAll /\ pst' \in [Participants -> State]
  BY RewriteRefl DEF Typed, TypeOK, RewritesAll

LEMMA MineOK ==
  ASSUME Typed, NEW q \in Procs
  PROVE  /\ Good(Mine(q))
         /\ proc[q] \in Process
         /\ proc[q].part \in Participants
         /\ proc[q].rid \in RunId
  BY DEF Typed, TypeOK, Mine, Process

(* What remains of the type invariant once the files are accounted for.    *)
RestOK ==
  /\ season' \in OperatorStatuses
  /\ proc' \in [Procs -> Process]
  /\ nextRun' \in 1 .. MaxRuns + 1
  /\ faults' \in 0 .. MaxFaults

LEMMA GotoOK ==
  ASSUME Typed, NEW q \in Procs, NEW label \in Control, Goto(q, label)
  PROVE  proc' \in [Procs -> Process]
<1>1. [proc[q] EXCEPT !.pc = label] \in Process
  BY MineOK DEF Process
<1> QED BY <1>1 DEF Typed, TypeOK, Goto

LEMMA StopOK ==
  ASSUME Typed, NEW q \in Procs, Stop(q)
  PROVE  proc' \in [Procs -> Process]
  BY IdleType DEF Typed, TypeOK, Stop

LEMMA ControllerProc == Controller \in Procs
  BY DEF Procs

LEMMA RecoveredOK ==
  ASSUME Typed
  PROVE  /\ \A p \in Participants : Rewrite(pst[p], Recovered[p])
         /\ Recovered \in [Participants -> State]
<1>1. ASSUME NEW p \in Participants PROVE Rewrite(pst[p], Recovered[p])
  BY RecoverIfStaleOK DEF Recovered, Typed
<1> QED BY <1>1 DEF Recovered, Rewrite, Good

-----------------------------------------------------------------------------
(* Every action keeps the files sound and the other variables well typed.  *)

FilesOK == RewritesAll /\ pst' \in [Participants -> State]

LEMMA ControllerStepOK ==
  ASSUME Typed, ControllerStep PROVE FilesOK /\ RestOK
<1> USE ControllerProc
<1>1. ASSUME NEW p \in Participants, ScanAndPick(p) PROVE FilesOK /\ RestOK
  <2> DEFINE s == Recovered[p]
             picked == [Idle EXCEPT !.pc = IF ReplacementDue(s) \/ RetryDue(s)
                                             THEN "consume" ELSE "prelaunch",
                                    !.part = p,
                                    !.rid = nextRun,
                                    !.src = "auto",
                                    !.snapRepl = ReplacementDue(s),
                                    !.snapRetry = RetryDue(s),
                                    !.wokenBefore = s.wake = WakeInterval,
                                    !.neverWoken = s.wake = None]
  <2>1. picked \in Process
    <3>1. ReplacementDue(s) \in BOOLEAN /\ RetryDue(s) \in BOOLEAN
      BY DEF ReplacementDue, RetryDue
    <3>2. (s.wake = WakeInterval) \in BOOLEAN /\ (s.wake = None) \in BOOLEAN
      OBVIOUS
    <3>3. nextRun \in RunId
      BY SchedulerConstants DEF Typed, TypeOK, RunId
    <3> HIDE DEF s
    <3> QED BY <3>1, <3>2, <3>3, IdleType DEF Process, Control, Sources
  <2>2. proc' = [proc EXCEPT ![Controller] = picked]
    BY <1>1 DEF ScanAndPick
  <2> HIDE DEF picked
  <2>3. proc' \in [Procs -> Process]
    BY <2>1, <2>2 DEF Typed, TypeOK
  <2>4. nextRun' \in 1 .. MaxRuns + 1
    BY <1>1, SchedulerConstants DEF ScanAndPick, Typed, TypeOK
  <2> QED BY <1>1, <2>3, <2>4, RecoveredOK
          DEF ScanAndPick, Typed, TypeOK, FilesOK, RestOK, RewritesAll
<1>2. CASE ScanAndSkip
  BY <1>2, RecoveredOK DEF ScanAndSkip, Typed, TypeOK, FilesOK, RestOK, RewritesAll
<1>3. CASE Consume
  BY <1>3, MineOK, ConsumeSnapshotOK, SaveOK, GotoOK
     DEF Consume, Typed, TypeOK, FilesOK, RestOK, Control
<1>4. CASE Prelaunch
  <2>1. Rewrite(Mine(Controller), MarkRunStarted(Mine(Controller), PendingId, "auto", FALSE))
    BY MineOK, MarkRunStartedOK DEF PendingId, RunId, Sources
  <2> QED BY <1>4, <2>1, SaveOK, GotoOK
          DEF Prelaunch, Typed, TypeOK, FilesOK, RestOK, Control
<1>5. CASE AfterRun
  BY <1>5, MineOK, ConsumeSnapshotOK, SaveOK, StopOK
     DEF AfterRun, Typed, TypeOK, FilesOK, RestOK
<1> QED BY <1>1, <1>2, <1>3, <1>4, <1>5 DEF ControllerStep

LEMMA EndingOK ==
  ASSUME Typed, NEW q \in Procs, NEW o \in Outcomes, NEW raises \in BOOLEAN,
         NEW label \in Control,
         proc' = [proc EXCEPT ![q].pc = label, ![q].out = o, ![q].raises = raises]
  PROVE  proc' \in [Procs -> Process]
<1> DEFINE r == [proc[q] EXCEPT !.pc = label, !.out = o, !.raises = raises]
<1>1. r \in Process
  BY MineOK DEF Process
<1>2. proc' = [proc EXCEPT ![q] = r]
  BY DEF Typed, TypeOK
<1> QED BY <1>1, <1>2 DEF Typed, TypeOK

LEMMA RunnerStepOK ==
  ASSUME Typed, NEW q \in Procs, RunnerStep(q) PROVE FilesOK /\ RestOK
<1>1. CASE Admit(q)
  BY <1>1, SameFiles, GotoOK DEF Admit, Typed, TypeOK, FilesOK, RestOK, Control
<1>2. CASE Reject(q)
  BY <1>2, SameFiles, StopOK DEF Reject, Typed, TypeOK, FilesOK, RestOK
<1>3. CASE Start(q)
  <2>1. Rewrite(Mine(q), MarkRunStarted(Mine(q), proc[q].rid, proc[q].src, TRUE))
    BY MineOK, MarkRunStartedOK DEF Process
  <2> QED BY <1>3, <2>1, SaveOK, GotoOK
          DEF Start, Typed, TypeOK, FilesOK, RestOK, Control
<1>4. ASSUME NEW o \in Outcomes, NEW raises \in BOOLEAN, Terminal(q, o, raises)
      PROVE  FilesOK /\ RestOK
  <2>1. FilesOK
    BY <1>4, MineOK, RecordedOK, SaveOK DEF Terminal, FilesOK
  <2>2. proc' \in [Procs -> Process]
    BY <1>4, EndingOK DEF Terminal, Control
  <2> QED BY <1>4, <2>1, <2>2 DEF Terminal, Typed, TypeOK, RestOK
<1>5. CASE Finish(q)
  <2>1. proc[q].out \in Outcomes
    BY MineOK DEF Process
  <2>2. proc[q].out.completed \in BOOLEAN /\ proc[q].out.infra \in BOOLEAN
    BY <2>1 DEF Outcomes, Outcome
  <2>3. FilesOK
    BY <1>5, <2>2, MineOK, MarkRunFinishedOK, SaveOK DEF Finish, FilesOK
  <2>4. proc' \in [Procs -> Process]
    BY <1>5, StopOK, GotoOK DEF Finish, Control
  <2> QED BY <1>5, <2>3, <2>4 DEF Finish, Typed, TypeOK, RestOK
<1>6. CASE Summarise(q)
  BY <1>6, MineOK, ArtifactWrittenOK, SaveOK, GotoOK
     DEF Summarise, Typed, TypeOK, FilesOK, RestOK, Control
<1> QED BY <1>1, <1>2, <1>3, <1>4, <1>5, <1>6 DEF RunnerStep

LEMMA FaultyOK ==
  ASSUME Typed, NEW q \in Procs, Faulty(q) PROVE FilesOK /\ RestOK
<1>1. ASSUME Fault PROVE faults' \in 0 .. MaxFaults
  BY <1>1, SchedulerConstants DEF Fault, Typed, TypeOK
<1>2. ASSUME NEW o \in Outcomes, FailAfterTerminal(q, o) PROVE FilesOK /\ RestOK
  <2>1. FilesOK
    BY <1>2, MineOK, RecordedOK, SaveOK DEF FailAfterTerminal, FilesOK
  <2>2. proc' \in [Procs -> Process]
    BY <1>2, EndingOK DEF FailAfterTerminal, Control
  <2> QED BY <1>1, <1>2, <2>1, <2>2 DEF FailAfterTerminal, Typed, TypeOK, RestOK
<1>3. CASE Interrupt(q)
  BY <1>1, <1>3, MineOK, MarkRunInterruptedOK, SaveOK, StopOK
     DEF Interrupt, Typed, TypeOK, FilesOK, RestOK
<1>4. CASE Crash(q)
  BY <1>1, <1>4, SameFiles, StopOK DEF Crash, Typed, TypeOK, FilesOK, RestOK
<1> QED BY <1>2, <1>3, <1>4 DEF Faulty

LEMMA LaunchManualOK ==
  ASSUME Typed, NEW q \in Manual, NEW p \in Participants, NEW src \in ManualSources,
         LaunchManual(q, p, src)
  PROVE  FilesOK /\ RestOK
<1> DEFINE r == [Idle EXCEPT !.pc = "admit", !.part = p, !.rid = nextRun, !.src = src]
<1>1. nextRun \in RunId /\ src \in Sources
  BY SchedulerConstants DEF Typed, TypeOK, RunId
<1>2. r \in Process
  BY <1>1, IdleType DEF Process, Control
<1>3. proc' = [proc EXCEPT ![q] = r] /\ nextRun' = nextRun + 1 /\ nextRun <= MaxRuns
  BY DEF LaunchManual
<1> HIDE DEF r
<1>4. proc' \in [Procs -> Process]
  BY <1>2, <1>3 DEF Typed, TypeOK
<1>5. nextRun' \in 1 .. MaxRuns + 1
  BY <1>3, SchedulerConstants DEF Typed, TypeOK
<1> QED BY <1>4, <1>5, SameFiles DEF LaunchManual, Typed, TypeOK, FilesOK, RestOK

(* Time changes nothing of a process but the age of its run.               *)
LEMMA AgedProcs ==
  ASSUME Typed, TimePasses
  PROVE  /\ proc' \in [Procs -> Process]
         /\ \A q \in Procs : \E age \in 0 .. FullGrace :
              /\ age = Lived(proc[q])
              /\ proc'[q] = [proc[q] EXCEPT !.lived = age]
<1> SUFFICES ASSUME NEW q \in Procs
             PROVE  /\ Lived(proc[q]) \in 0 .. FullGrace
                    /\ [proc[q] EXCEPT !.lived = Lived(proc[q])] \in Process
  BY DEF TimePasses
<1>1. proc[q] \in Process
  BY MineOK
<1>2. Lived(proc[q]) \in 0 .. FullGrace
  BY <1>1, StateConstants DEF Lived, Least, Process
<1> QED BY <1>1, <1>2 DEF Process

LEMMA AgedProc ==
  ASSUME Typed, TimePasses, NEW q \in Procs
  PROVE  /\ proc'[q].pc = proc[q].pc /\ proc'[q].part = proc[q].part
         /\ proc'[q].rid = proc[q].rid /\ proc'[q].src = proc[q].src
         /\ proc'[q].snapRepl = proc[q].snapRepl
         /\ proc'[q].wokenBefore = proc[q].wokenBefore
         /\ proc'[q].lived = Lived(proc[q])
  BY AgedProcs, MineOK DEF Process

LEMMA TimePassesOK ==
  ASSUME Typed, TimePasses PROVE FilesOK /\ RestOK
<1>1. ASSUME NEW p \in Participants PROVE Rewrite(pst[p], Age(pst[p]))
  BY AgeOK DEF Typed
<1>2. \A p \in Participants : pst'[p] = Age(pst[p])
  BY DEF TimePasses
<1>3. pst' \in [Participants -> State]
  BY <1>1 DEF TimePasses, Rewrite, Good
<1> QED BY <1>1, <1>2, <1>3, AgedProcs DEF TimePasses, Typed, TypeOK, FilesOK, RestOK, RewritesAll

LEMMA StepOK ==
  ASSUME Typed, [Next]_vars PROVE FilesOK /\ RestOK
<1>1. CASE ControllerStep
  BY <1>1, ControllerStepOK
<1>2. ASSUME NEW q \in Procs, RunnerStep(q) PROVE FilesOK /\ RestOK
  BY <1>2, RunnerStepOK
<1>3. ASSUME NEW q \in Procs, Faulty(q) PROVE FilesOK /\ RestOK
  BY <1>3, FaultyOK
<1>4. ASSUME NEW q \in Manual, NEW p \in Participants, NEW src \in ManualSources,
             LaunchManual(q, p, src)
      PROVE  FilesOK /\ RestOK
  BY <1>4, LaunchManualOK
<1>5. ASSUME NEW status \in OperatorStatuses, SetSeason(status) PROVE FilesOK /\ RestOK
  BY <1>5, SameFiles, SchedulerConstants
     DEF SetSeason, Fault, Typed, TypeOK, FilesOK, RestOK
<1>6. CASE TimePasses
  BY <1>6, TimePassesOK
<1>7. CASE UNCHANGED vars
  BY <1>7, SameFiles DEF vars, Typed, TypeOK, FilesOK, RestOK
<1> QED BY <1>1, <1>2, <1>3, <1>4, <1>5, <1>6, <1>7 DEF Next

-----------------------------------------------------------------------------
(* How many replacements of p were taken up, and how many more may be.     *)

(* d replacements were taken up; owed says that the controller is about to *)
(* take up one more.                                                       *)
Budget(s, d, owed) ==
  /\ d \in Nat
  /\ d <= s.repl.attempts
  /\ d <= MaxReplacementAttempts
  /\ ReplacementDue(s) \/ owed => d < s.repl.attempts /\ d < MaxReplacementAttempts
  /\ ReplacementDue(s) => s.repl.attempts <= MaxReplacementAttempts

Owed(r, p) == r.pc = "consume" /\ r.snapRepl /\ r.part = p

BudgetInv ==
  \A p \in Participants : Budget(pst[p], dispatched[p], Owed(proc[Controller], p))

LEMMA BudgetKept ==
  ASSUME NEW s, NEW t, NEW d, NEW owed, NEW owedThen,
         Good(s), Rewrite(s, t), Budget(s, d, owed),
         owedThen => owed \/ ReplacementDue(t)
  PROVE  Budget(t, d, owedThen)
<1>1. s.repl.attempts \in Nat /\ t.repl.attempts \in Nat /\ MaxReplacementAttempts \in Nat
  BY StateConstants DEF Good, Rewrite, State
<1>2. /\ t.repl.attempts >= s.repl.attempts
      /\ ReplacementDue(t) =>
           \/ ReplacementDue(s) /\ t.repl.attempts = s.repl.attempts
           \/ /\ t.repl.attempts > s.repl.attempts
              /\ t.repl.attempts <= MaxReplacementAttempts
  BY DEF Rewrite, Grows
<1> QED BY <1>1, <1>2 DEF Budget

(* The steps after which the controller owes no replacement it did not owe *)
(* before, unless the file says it is due.                                 *)
OwesNothingNew ==
  \A p \in Participants :
    Owed(proc'[Controller], p) => Owed(proc[Controller], p) \/ ReplacementDue(pst'[p])

LEMMA OthersKeepBudget ==
  ASSUME Typed, BudgetInv, FilesOK, dispatched' = dispatched, OwesNothingNew
  PROVE  BudgetInv'
<1> SUFFICES ASSUME NEW p \in Participants
             PROVE  Budget(pst'[p], dispatched'[p], Owed(proc'[Controller], p))
  BY DEF BudgetInv
<1>1. Good(pst[p]) /\ Rewrite(pst[p], pst'[p])
  BY DEF Typed, FilesOK, RewritesAll
<1> QED BY <1>1, BudgetKept DEF BudgetInv, OwesNothingNew

(* Taking up the replacement: it is no longer due, and was counted when it *)
(* was booked.                                                             *)
LEMMA ConsumeKeepsBudget ==
  ASSUME Typed, BudgetInv, FilesOK, Consume
  PROVE  BudgetInv'
<1> USE ControllerProc
<1> DEFINE c == proc[Controller]
<1>1. /\ c \in Process /\ c.part \in Participants
      /\ proc' = [proc EXCEPT ![Controller].pc = "prelaunch"]
      /\ proc \in [Procs -> Process]
  BY MineOK DEF Consume, Goto, Typed, TypeOK
<1>2. proc'[Controller].pc = "prelaunch"
  BY <1>1 DEF Process
<1>3. pst'[c.part] = ConsumeSnapshot(Controller)
  BY <1>1 DEF Consume, Save, Typed, TypeOK
<1>4. c.snapRepl => ~ ReplacementDue(pst'[c.part])
  <2> SUFFICES ASSUME c.snapRepl PROVE ~ ReplacementDue(pst'[c.part])
    OBVIOUS
  <2>1. Mine(Controller) \in State
    BY MineOK DEF Good
  <2> DEFINE t == MarkReplacementConsumed(Mine(Controller))
  <2>2. t.repl.status # "due"
    BY <2>1 DEF MarkReplacementConsumed, State
  <2>3. Rewrite(Mine(Controller), t)
    BY MineOK, MarkReplacementConsumedOK
  <2>4. pst'[c.part] = IF c.snapRetry THEN MarkRetryConsumed(t) ELSE t
    BY <1>3 DEF ConsumeSnapshot
  <2> HIDE DEF t
  <2>5. t \in State
    BY <2>3 DEF Rewrite, Good
  <2>6. MarkRetryConsumed(t).repl = t.repl
    BY <2>5 DEF MarkRetryConsumed, State
  <2> QED BY <2>2, <2>4, <2>6 DEF ReplacementDue
<1> SUFFICES ASSUME NEW p \in Participants
             PROVE  Budget(pst'[p], dispatched'[p], Owed(proc'[Controller], p))
  BY DEF BudgetInv
<1>5. Good(pst[p]) /\ Rewrite(pst[p], pst'[p]) /\ Budget(pst[p], dispatched[p], Owed(c, p))
  BY DEF Typed, FilesOK, RewritesAll, BudgetInv
<1>6. ~ Owed(proc'[Controller], p)
  BY <1>2 DEF Owed
<1>7. CASE c.snapRepl /\ p = c.part
  <2>1. dispatched'[p] = dispatched[p] + 1
    BY <1>7 DEF Consume, Typed, TypeOK
  <2>2. Owed(c, p)
    BY <1>7 DEF Owed, Consume
  <2>3. ~ ReplacementDue(pst'[p])
    BY <1>4, <1>7
  <2>4. pst'[p].repl.attempts >= pst[p].repl.attempts
    BY <1>5 DEF Rewrite, Grows
  <2>5. pst'[p].repl.attempts \in Nat /\ pst[p].repl.attempts \in Nat
    BY <1>5 DEF Rewrite, Good, State
  <2> QED BY <1>5, <1>6, <2>1, <2>2, <2>3, <2>4, <2>5, StateConstants DEF Budget
<1>8. CASE ~ (c.snapRepl /\ p = c.part)
  <2>1. dispatched'[p] = dispatched[p]
    BY <1>8 DEF Consume, Typed, TypeOK
  <2> QED BY <1>5, <1>6, <2>1, BudgetKept
<1> QED BY <1>7, <1>8

LEMMA GotoOwes ==
  ASSUME Typed, NEW q \in Procs, NEW label, label # "consume", Goto(q, label)
  PROVE  OwesNothingNew
<1>1. proc[q] \in Process /\ proc \in [Procs -> Process]
  BY DEF Typed, TypeOK
<1>2. CASE q = Controller
  BY <1>1, <1>2 DEF Goto, Process, OwesNothingNew, Owed
<1>3. CASE q # Controller
  BY <1>1, <1>3 DEF Goto, OwesNothingNew
<1> QED BY <1>2, <1>3

LEMMA StopOwes ==
  ASSUME Typed, NEW q \in Procs, Stop(q)
  PROVE  OwesNothingNew
<1>1. Idle.pc = "idle" /\ proc \in [Procs -> Process]
  BY DEF Idle, Typed, TypeOK
<1>2. CASE q = Controller
  BY <1>1, <1>2 DEF Stop, OwesNothingNew, Owed
<1>3. CASE q # Controller
  BY <1>1, <1>3 DEF Stop, OwesNothingNew
<1> QED BY <1>2, <1>3

LEMMA SameProcOwes == ASSUME UNCHANGED proc PROVE OwesNothingNew
  BY DEF OwesNothingNew

LEMMA OtherSteps ==
  ASSUME Typed, [Next]_vars, ~ Consume
  PROVE  dispatched' = dispatched /\ OwesNothingNew
<1> DEFINE Goal == dispatched' = dispatched /\ OwesNothingNew
<1>1. ASSUME NEW p \in Participants, ScanAndPick(p) PROVE Goal
  <2>1. /\ proc'[Controller].snapRepl = ReplacementDue(Recovered[p])
        /\ proc'[Controller].part = p
    BY <1>1, ControllerProc, IdleType DEF ScanAndPick, Typed, TypeOK, Process
  <2> QED BY <1>1, <2>1 DEF ScanAndPick, OwesNothingNew, Owed
<1>2. CASE ScanAndSkip
  BY <1>2, SameProcOwes DEF ScanAndSkip
<1>3. CASE Prelaunch
  BY <1>3, GotoOwes, ControllerProc DEF Prelaunch
<1>4. CASE AfterRun
  BY <1>4, StopOwes, ControllerProc DEF AfterRun
<1>5. ASSUME NEW q \in Procs, RunnerStep(q) PROVE Goal
  <2>1. CASE Admit(q)
    BY <2>1, GotoOwes DEF Admit
  <2>2. CASE Reject(q)
    BY <2>2, StopOwes DEF Reject
  <2>3. CASE Start(q)
    BY <2>3, GotoOwes DEF Start
  <2>4. ASSUME NEW o, NEW raises, Terminal(q, o, raises) PROVE Goal
    <3>1. CASE q = Controller
      <4>1. proc[q] \in Process /\ proc[q].pc # "consume"
        BY <2>4 DEF Terminal, Typed, TypeOK
      <4>2. proc'[Controller].pc # "consume"
        BY <2>4, <3>1, <4>1 DEF Terminal, Typed, TypeOK, Process
      <4> QED BY <2>4, <4>2 DEF Terminal, OwesNothingNew, Owed
    <3>2. CASE q # Controller
      <4>1. proc'[Controller] = proc[Controller]
        BY <2>4, <3>2, ControllerProc DEF Terminal, Typed, TypeOK
      <4> QED BY <2>4, <4>1 DEF Terminal, OwesNothingNew
    <3> QED BY <3>1, <3>2
  <2>5. CASE Finish(q)
    BY <2>5, GotoOwes, StopOwes DEF Finish
  <2>6. CASE Summarise(q)
    BY <2>6, GotoOwes DEF Summarise
  <2> QED BY <1>5, <2>1, <2>2, <2>3, <2>4, <2>5, <2>6 DEF RunnerStep
<1>6. ASSUME NEW q \in Procs, Faulty(q) PROVE Goal
  <2>1. ASSUME NEW o, FailAfterTerminal(q, o) PROVE Goal
    <3>1. CASE q = Controller
      <4>1. proc[q] \in Process /\ proc[q].pc # "consume"
        BY <2>1 DEF FailAfterTerminal, Typed, TypeOK
      <4>2. proc'[Controller].pc # "consume"
        BY <2>1, <3>1, <4>1 DEF FailAfterTerminal, Typed, TypeOK, Process
      <4> QED BY <2>1, <4>2 DEF FailAfterTerminal, OwesNothingNew, Owed
    <3>2. CASE q # Controller
      <4>1. proc'[Controller] = proc[Controller]
        BY <2>1, <3>2, ControllerProc DEF FailAfterTerminal, Typed, TypeOK
      <4> QED BY <2>1, <4>1 DEF FailAfterTerminal, OwesNothingNew
    <3> QED BY <3>1, <3>2
  <2>2. CASE Interrupt(q)
    BY <2>2, StopOwes DEF Interrupt
  <2>3. CASE Crash(q)
    BY <2>3, StopOwes DEF Crash
  <2> QED BY <1>6, <2>1, <2>2, <2>3 DEF Faulty
<1>7. ASSUME NEW q \in Manual, NEW p \in Participants, NEW src \in ManualSources,
             LaunchManual(q, p, src)
      PROVE  Goal
  <2>1. q # Controller /\ proc'[Controller] = proc[Controller]
    BY <1>7, SchedulerConstants, ControllerProc DEF LaunchManual, Typed, TypeOK
  <2> QED BY <1>7, <2>1 DEF LaunchManual, OwesNothingNew
<1>8. ASSUME NEW status \in OperatorStatuses, SetSeason(status) PROVE Goal
  BY <1>8, SameProcOwes DEF SetSeason
<1>9. CASE TimePasses
  BY <1>9, AgedProc, ControllerProc DEF TimePasses, OwesNothingNew, Owed
<1>10. CASE UNCHANGED vars
  BY <1>10, SameProcOwes DEF vars
<1> QED
  BY <1>1, <1>2, <1>3, <1>4, <1>5, <1>6, <1>7, <1>8, <1>9, <1>10 DEF Next, ControllerStep

-----------------------------------------------------------------------------
(* The theorems.                                                           *)

SchedulerInv == Typed /\ BudgetInv

LEMMA InitInv == Init => SchedulerInv
<1> SUFFICES ASSUME Init PROVE SchedulerInv
  OBVIOUS
<1>1. Fresh \in State
  BY StateConstants DEF Fresh, State, Pending, PendingId, RunId, Sources, PendStatus,
     Wake, WakeAge, None, ReplacementStatus, RetryStatus
<1>2. Good(Fresh) /\ Budget(Fresh, 0, FALSE)
  BY <1>1, StateConstants DEF Fresh, Good, Sound, Budget, ReplacementDue
<1>3. TypeOK
  BY <1>1, IdleType, SchedulerConstants DEF Init, TypeOK
<1>4. \A p \in Participants : pst[p] = Fresh /\ dispatched[p] = 0
  BY DEF Init
<1>5. \A p \in Participants : Owed(proc[Controller], p) = FALSE
  BY ControllerProc DEF Init, Owed, Idle
<1> QED BY <1>2, <1>3, <1>4, <1>5 DEF SchedulerInv, Typed, BudgetInv

LEMMA NextInv == SchedulerInv /\ [Next]_vars => SchedulerInv'
<1> SUFFICES ASSUME Typed, BudgetInv, [Next]_vars PROVE SchedulerInv'
  BY DEF SchedulerInv
<1>1. FilesOK /\ RestOK
  BY StepOK
<1>2. BudgetInv'
  BY <1>1, ConsumeKeepsBudget, OtherSteps, OthersKeepBudget
<1>3. dispatched' \in [Participants -> Nat]
  <2>1. \A p \in Participants : dispatched'[p] \in Nat
    BY <1>2 DEF BudgetInv, Budget
  <2>2. dispatched' = [p \in Participants |-> dispatched'[p]]
    <3>1. CASE Consume
      BY <3>1 DEF Consume, Typed, TypeOK
    <3>2. CASE ~ Consume
      BY <3>2, OtherSteps DEF Typed, TypeOK
    <3> QED BY <3>1, <3>2
  <2> QED BY <2>1, <2>2
<1>4. TypeOK'
  BY <1>1, <1>3 DEF TypeOK, FilesOK, RestOK
<1>5. \A p \in Participants : Good(pst'[p])
  BY <1>1 DEF FilesOK, RewritesAll, Rewrite
<1> QED BY <1>2, <1>4, <1>5 DEF SchedulerInv, Typed

LEMMA AlwaysInv == Spec => []SchedulerInv
  BY InitInv, NextInv, PTL DEF Spec

(* Type correctness of the scheduler: among others, active_runs never goes *)
(* below zero although two different writers decrement it.                 *)
THEOREM TypeCorrect == Spec => []TypeOK
<1>1. SchedulerInv => TypeOK
  BY DEF SchedulerInv, Typed
<1> QED BY <1>1, AlwaysInv, PTL

(* A participant is given at most MAX_REPLACEMENT_ATTEMPTS replacement     *)
(* runs in a season, however many processes and crashes there are.         *)
THEOREM ReplacementsBounded == Spec => []ReplacementBudget
<1>1. SchedulerInv => ReplacementBudget
  BY DEF SchedulerInv, BudgetInv, Budget, ReplacementBudget
<1> QED BY <1>1, AlwaysInv, PTL

(* An exhausted replacement or retry stays exhausted: no write of any      *)
(* process revives it.                                                     *)
THEOREM ExhaustionIsFinal == Spec => ExhaustedIsFinal
<1> DEFINE Kept == \A p \in Participants :
             /\ pst[p].repl.status = "exhausted" => pst'[p].repl.status = "exhausted"
             /\ pst[p].retry.status = "exhausted" => pst'[p].retry.status = "exhausted"
<1>1. SchedulerInv /\ [Next]_vars => [Kept]_vars
  BY StepOK DEF SchedulerInv, FilesOK, RewritesAll, Rewrite, Grows
<1> QED BY <1>1, AlwaysInv, PTL DEF Spec, ExhaustedIsFinal

-----------------------------------------------------------------------------
(* The stale check and the runs that are alive, for any number of          *)
(* operators and of slots.                                                 *)

(* The pending run of the file s is no older than the run that r executes. *)
Young(s, r) == r.pc \in Live /\ s.pend.status = "running" => s.pend.age <= r.lived

YoungInv == \A q \in Procs : Young(Mine(q), proc[q])

(* A rewrite that makes no pending run older.                              *)
NotOlder(s, t) ==
  t.pend.status = "running" =>
    \/ t.pend.age = 0
    \/ s.pend.status = "running" /\ t.pend.age = s.pend.age

LEMMA MarksNotOlder ==
  ASSUME NEW s \in State
  PROVE  /\ NotOlder(s, MarkReplacementDue(s))
         /\ NotOlder(s, MarkRetryDue(s))
         /\ NotOlder(s, MarkReplacementConsumed(s))
         /\ NotOlder(s, MarkRetryConsumed(s))
         /\ NotOlder(s, RecoverIfStale(s))
         /\ \A rid, src, inc : /\ NotOlder(s, MarkRunStarted(s, rid, src, inc))
                               /\ MarkRunStarted(s, rid, src, inc).pend.age = 0
         /\ \A rid, ok, sup : NotOlder(s, MarkRunFinished(s, rid, ok, sup))
         /\ \A rid : NotOlder(s, MarkRunInterrupted(s, rid))
         /\ \A rid : NotOlder(s, ArtifactWritten(s, rid))
<1>1. NotOlder(s, MarkReplacementDue(s)) /\ NotOlder(s, MarkRetryDue(s))
  BY DEF NotOlder, MarkReplacementDue, MarkRetryDue, State
<1>2. NotOlder(s, MarkReplacementConsumed(s)) /\ NotOlder(s, MarkRetryConsumed(s))
  BY DEF NotOlder, MarkReplacementConsumed, MarkRetryConsumed, State
<1>3. NotOlder(s, RecoverIfStale(s))
  BY DEF NotOlder, RecoverIfStale, MarkStale, State, Pending
<1>4. ASSUME NEW rid, NEW src, NEW inc
      PROVE  MarkRunStarted(s, rid, src, inc).pend.age = 0
  BY DEF MarkRunStarted, State
<1>5. ASSUME NEW rid, NEW ok, NEW sup PROVE NotOlder(s, MarkRunFinished(s, rid, ok, sup))
  <2>1. MarkRunFinished(s, rid, ok, sup).pend = ClosePending(s, rid, "completed")
    BY DEF MarkRunFinished, State
  <2> QED BY <2>1 DEF NotOlder, ClosePending, State, Pending
<1>6. ASSUME NEW rid PROVE NotOlder(s, MarkRunInterrupted(s, rid))
  <2>1. MarkRunInterrupted(s, rid).pend = ClosePending(s, rid, "interrupted")
    BY DEF MarkRunInterrupted, State
  <2> QED BY <2>1 DEF NotOlder, ClosePending, State, Pending
<1>7. ASSUME NEW rid PROVE NotOlder(s, ArtifactWritten(s, rid))
  BY DEF NotOlder, ArtifactWritten, State, Pending
<1> QED BY <1>1, <1>2, <1>3, <1>4, <1>5, <1>6, <1>7 DEF NotOlder

LEMMA ConsumeSnapshotNotOlder ==
  ASSUME NEW q, Good(Mine(q))
  PROVE  NotOlder(Mine(q), ConsumeSnapshot(q))
<1> DEFINE s == Mine(q)
           t == IF proc[q].snapRepl THEN MarkReplacementConsumed(s) ELSE s
<1>1. ConsumeSnapshot(q) = IF proc[q].snapRetry THEN MarkRetryConsumed(t) ELSE t
  BY DEF ConsumeSnapshot
<1> HIDE DEF s
<1>2. Good(s)
  BY DEF s
<1>3. Rewrite(s, t) /\ NotOlder(s, t)
  BY <1>2, MarkReplacementConsumedOK, RewriteRefl, MarksNotOlder DEF Good, NotOlder
<1> HIDE DEF t
<1>4. NotOlder(t, MarkRetryConsumed(t))
  BY <1>3, MarksNotOlder DEF Rewrite, Good
<1> QED BY <1>1, <1>3, <1>4 DEF NotOlder, s

LEMMA RecordedNotOlder ==
  ASSUME NEW s, Good(s), NEW o
  PROVE  NotOlder(s, Recorded(s, o))
<1> DEFINE t == IF o.transient THEN MarkReplacementDue(s) ELSE s
<1>1. Recorded(s, o) = IF o.retryable THEN MarkRetryDue(t) ELSE t
  BY DEF Recorded
<1>2. Rewrite(s, t) /\ NotOlder(s, t)
  BY MarkReplacementDueOK, RewriteRefl, MarksNotOlder DEF Good, NotOlder
<1> HIDE DEF t
<1>3. NotOlder(t, MarkRetryDue(t))
  BY <1>2, MarksNotOlder DEF Rewrite, Good
<1> QED BY <1>1, <1>2, <1>3 DEF NotOlder

(* A process that is alive after the step went on with its run, or has     *)
(* just written its start.                                                 *)
WentOn(r, n, t) ==
  n.pc \in Live =>
    /\ n.part = r.part /\ n.lived = r.lived
    /\ r.pc \in Live \/ t.pend.age = 0

LEMMA YoungStep ==
  ASSUME Typed, YoungInv, proc' \in [Procs -> Process],
         \A p \in Participants : NotOlder(pst[p], pst'[p]),
         \A q \in Procs : WentOn(proc[q], proc'[q], pst'[proc[q].part])
  PROVE  YoungInv'
<1> SUFFICES ASSUME NEW q \in Procs, proc'[q].pc \in Live,
                    pst'[proc'[q].part].pend.status = "running"
             PROVE  pst'[proc'[q].part].pend.age <= proc'[q].lived
  BY DEF YoungInv, Young, Mine
<1>1. /\ proc'[q].part = proc[q].part /\ proc'[q].lived = proc[q].lived
      /\ proc[q].part \in Participants /\ Young(Mine(q), proc[q])
      /\ proc[q].pc \in Live \/ pst'[proc[q].part].pend.age = 0
  BY MineOK DEF WentOn, YoungInv
<1>2. proc[q].lived \in Nat /\ 0 <= proc[q].lived
  BY MineOK, StateConstants DEF Process
<1> QED BY <1>1, <1>2 DEF NotOlder, Young, Mine

(* A process that saves t and goes on at a label or stops, while the       *)
(* others stay where they are.                                             *)
LEMMA SavedYoung ==
  ASSUME Typed, YoungInv, NEW q \in Procs, NEW t,
         proc' \in [Procs -> Process], Save(q, t), NotOlder(Mine(q), t),
         \A o \in Procs \ {q} : proc'[o] = proc[o],
         WentOn(proc[q], proc'[q], t)
  PROVE  YoungInv'
<1>1. proc[q].part \in Participants /\ pst \in [Participants -> State]
  BY MineOK DEF Typed, TypeOK
<1>2. pst'[proc[q].part] = t
  BY <1>1 DEF Save
<1>3. \A p \in Participants : NotOlder(pst[p], pst'[p])
  BY <1>1 DEF Save, Mine, NotOlder
<1>4. \A o \in Procs : WentOn(proc[o], proc'[o], pst'[proc[o].part])
  BY <1>2 DEF WentOn
<1> QED BY <1>3, <1>4, YoungStep

LEMMA GotoMoves ==
  ASSUME Typed, NEW q \in Procs, NEW label, Goto(q, label)
  PROVE  /\ \A o \in Procs \ {q} : proc'[o] = proc[o]
         /\ proc'[q].pc = label /\ proc'[q].part = proc[q].part
         /\ proc'[q].lived = proc[q].lived
  BY MineOK DEF Goto, Typed, TypeOK, Process

LEMMA StopMoves ==
  ASSUME Typed, NEW q \in Procs, Stop(q)
  PROVE  /\ \A o \in Procs \ {q} : proc'[o] = proc[o]
         /\ proc'[q].pc = "idle"
  BY DEF Stop, Idle, Typed, TypeOK

LEMMA EndingMoves ==
  ASSUME Typed, NEW q \in Procs, NEW o, NEW raises,
         proc' = [proc EXCEPT ![q].pc = "terminal", ![q].out = o, ![q].raises = raises]
  PROVE  /\ \A other \in Procs \ {q} : proc'[other] = proc[other]
         /\ proc'[q].pc = "terminal" /\ proc'[q].part = proc[q].part
         /\ proc'[q].lived = proc[q].lived
  BY MineOK DEF Typed, TypeOK, Process

(* A step that leaves the files alone.                                     *)
LEMMA UnsavedYoung ==
  ASSUME Typed, YoungInv, proc' \in [Procs -> Process], pst' = pst,
         \A q \in Procs : proc'[q] = proc[q] \/ proc'[q].pc \notin Live
  PROVE  YoungInv'
  BY YoungStep DEF NotOlder, WentOn

LEMMA ControllerStepYoung ==
  ASSUME Typed, YoungInv, proc' \in [Procs -> Process], ControllerStep PROVE YoungInv'
<1> USE ControllerProc
<1>1. ASSUME pst' = Recovered,
             \A q \in Procs : proc'[q] = proc[q] \/ proc'[q].pc \notin Live
      PROVE  YoungInv'
  <2>1. \A p \in Participants : NotOlder(pst[p], pst'[p])
    BY <1>1, MarksNotOlder DEF Recovered, Typed, Good
  <2> QED BY <1>1, <2>1, YoungStep DEF WentOn
<1>2. ASSUME NEW p \in Participants, ScanAndPick(p) PROVE YoungInv'
  <2>1. /\ proc'[Controller].pc \in {"consume", "prelaunch"}
        /\ \A q \in Procs \ {Controller} : proc'[q] = proc[q]
    BY <1>2, IdleType DEF ScanAndPick, Typed, TypeOK, Process
  <2> QED BY <1>1, <1>2, <2>1 DEF ScanAndPick, Live
<1>3. CASE ScanAndSkip
  BY <1>1, <1>3 DEF ScanAndSkip
<1>4. CASE Consume
  <2>1. Goto(Controller, "prelaunch") /\ Save(Controller, ConsumeSnapshot(Controller))
    BY <1>4 DEF Consume
  <2> QED BY <2>1, MineOK, ConsumeSnapshotNotOlder, GotoMoves, SavedYoung DEF WentOn, Live
<1>5. CASE Prelaunch
  <2> DEFINE t == MarkRunStarted(Mine(Controller), PendingId, "auto", FALSE)
  <2>1. Goto(Controller, "admit") /\ Save(Controller, t)
    BY <1>5 DEF Prelaunch
  <2>2. NotOlder(Mine(Controller), t)
    BY MineOK, MarksNotOlder DEF Good
  <2> HIDE DEF t
  <2> QED BY <2>1, <2>2, GotoMoves, SavedYoung DEF WentOn, Live
<1>6. CASE AfterRun
  <2>1. Stop(Controller) /\ Save(Controller, ConsumeSnapshot(Controller))
    BY <1>6 DEF AfterRun
  <2> QED BY <2>1, MineOK, ConsumeSnapshotNotOlder, StopMoves, SavedYoung DEF WentOn, Live
<1> QED BY <1>2, <1>3, <1>4, <1>5, <1>6 DEF ControllerStep

LEMMA RunnerStepYoung ==
  ASSUME Typed, YoungInv, proc' \in [Procs -> Process], NEW q \in Procs, RunnerStep(q)
  PROVE  YoungInv'
<1> DEFINE s == Mine(q)
<1>1. s \in State /\ Good(s)
  BY MineOK DEF Good
<1>2. CASE Admit(q)
  BY <1>2, GotoMoves, UnsavedYoung DEF Admit, Live
<1>3. CASE Reject(q)
  BY <1>3, StopMoves, UnsavedYoung DEF Reject, Live
<1>4. CASE Start(q)
  <2> DEFINE t == MarkRunStarted(s, proc[q].rid, proc[q].src, TRUE)
  <2>1. Goto(q, "running") /\ Save(q, t)
    BY <1>4 DEF Start
  <2>2. NotOlder(s, t) /\ t.pend.age = 0
    BY <1>1, MarksNotOlder
  <2> HIDE DEF t
  <2> QED BY <2>1, <2>2, GotoMoves, SavedYoung DEF WentOn
<1>5. ASSUME NEW o \in Outcomes, NEW raises \in BOOLEAN, Terminal(q, o, raises)
      PROVE  YoungInv'
  <2>1. proc[q].pc \in Live /\ Save(q, Recorded(s, o))
    BY <1>5 DEF Terminal, Live
  <2>2. WentOn(proc[q], proc'[q], Recorded(s, o))
    BY <1>5, <2>1, EndingMoves DEF Terminal, WentOn
  <2>3. \A other \in Procs \ {q} : proc'[other] = proc[other]
    BY <1>5, EndingMoves DEF Terminal
  <2> QED BY <1>1, <2>1, <2>2, <2>3, RecordedNotOlder, SavedYoung
<1>6. CASE Summarise(q)
  <2>1. proc[q].pc \in Live /\ Goto(q, "summary") /\ Save(q, ArtifactWritten(s, proc[q].rid))
    BY <1>6 DEF Summarise, Live
  <2> QED BY <1>1, <2>1, MarksNotOlder, GotoMoves, SavedYoung DEF WentOn
<1>7. CASE Finish(q)
  <2> DEFINE t == MarkRunFinished(s, proc[q].rid, proc[q].out.completed, proc[q].out.infra)
  <2>1. Save(q, t) /\ (Goto(q, "after") \/ Stop(q))
    BY <1>7 DEF Finish
  <2>2. NotOlder(s, t)
    BY <1>1, MarksNotOlder
  <2> HIDE DEF t
  <2>3. proc'[q].pc \notin Live /\ \A o \in Procs \ {q} : proc'[o] = proc[o]
    BY <2>1, GotoMoves, StopMoves DEF Live
  <2> QED BY <2>1, <2>2, <2>3, SavedYoung DEF WentOn
<1> QED BY <1>2, <1>3, <1>4, <1>5, <1>6, <1>7 DEF RunnerStep

LEMMA FaultyYoung ==
  ASSUME Typed, YoungInv, proc' \in [Procs -> Process], NEW q \in Procs, Faulty(q)
  PROVE  YoungInv'
<1> DEFINE s == Mine(q)
<1>1. s \in State /\ Good(s)
  BY MineOK DEF Good
<1>2. ASSUME NEW o \in Outcomes, FailAfterTerminal(q, o) PROVE YoungInv'
  <2>1. proc[q].pc \in Live /\ Save(q, Recorded(s, o))
    BY <1>2 DEF FailAfterTerminal, Live
  <2>2. WentOn(proc[q], proc'[q], Recorded(s, o))
    BY <1>2, <2>1, EndingMoves DEF FailAfterTerminal, WentOn
  <2>3. \A other \in Procs \ {q} : proc'[other] = proc[other]
    BY <1>2, EndingMoves DEF FailAfterTerminal
  <2> QED BY <1>1, <2>1, <2>2, <2>3, RecordedNotOlder, SavedYoung
<1>3. CASE Interrupt(q)
  <2>1. Stop(q) /\ Save(q, MarkRunInterrupted(s, proc[q].rid))
    BY <1>3 DEF Interrupt
  <2> QED BY <1>1, <2>1, MarksNotOlder, StopMoves, SavedYoung DEF WentOn, Live
<1>4. CASE Crash(q)
  BY <1>4, StopMoves, UnsavedYoung DEF Crash, Live
<1> QED BY <1>2, <1>3, <1>4 DEF Faulty

(* The pending run and the runs that are alive grow older together.        *)
LEMMA TimePassesYoung ==
  ASSUME Typed, YoungInv, TimePasses PROVE YoungInv'
<1> SUFFICES ASSUME NEW q \in Procs, proc'[q].pc \in Live,
                    pst'[proc'[q].part].pend.status = "running"
             PROVE  pst'[proc'[q].part].pend.age <= proc'[q].lived
  BY DEF YoungInv, Young, Mine
<1> DEFINE s == Mine(q)
<1>1. /\ s \in State /\ proc[q] \in Process
      /\ proc[q].part \in Participants /\ Young(s, proc[q])
  BY MineOK DEF Good, YoungInv
<1>2. /\ proc'[q].pc = proc[q].pc /\ proc'[q].part = proc[q].part
      /\ proc'[q].lived = Lived(proc[q])
  BY AgedProc
<1>3. pst'[proc[q].part] = Age(s)
  BY <1>1 DEF TimePasses, Mine
<1>4. /\ Age(s).pend.status = s.pend.status
      /\ s.pend.status = "running" => Age(s).pend.age = Least(s.pend.age + 1, FullGrace)
  BY <1>1 DEF Age, State, Pending
<1>5. s.pend.age \in Nat /\ proc[q].lived \in Nat /\ FullGrace \in Nat
  BY <1>1, StateConstants DEF State, Pending, Process
<1> QED BY <1>1, <1>2, <1>3, <1>4, <1>5 DEF Young, Lived, Least

LEMMA NextYoung ==
  ASSUME Typed, YoungInv, [Next]_vars PROVE YoungInv'
<1>0. proc' \in [Procs -> Process]
  BY StepOK DEF RestOK
<1>1. CASE ControllerStep
  BY <1>0, <1>1, ControllerStepYoung
<1>2. ASSUME NEW q \in Procs, RunnerStep(q) PROVE YoungInv'
  BY <1>0, <1>2, RunnerStepYoung
<1>3. ASSUME NEW q \in Procs, Faulty(q) PROVE YoungInv'
  BY <1>0, <1>3, FaultyYoung
<1>4. ASSUME NEW q \in Manual, NEW p \in Participants, NEW src \in ManualSources,
             LaunchManual(q, p, src)
      PROVE  YoungInv'
  <2>1. pst' = pst /\ q \in Procs
    BY <1>4 DEF LaunchManual, Procs
  <2>2. proc'[q].pc = "admit" /\ \A o \in Procs \ {q} : proc'[o] = proc[o]
    BY <1>4, <2>1, IdleType DEF LaunchManual, Typed, TypeOK, Process
  <2> QED BY <1>0, <2>1, <2>2, UnsavedYoung DEF Live
<1>5. ASSUME NEW status \in OperatorStatuses, SetSeason(status) PROVE YoungInv'
  BY <1>0, <1>5, UnsavedYoung DEF SetSeason
<1>6. CASE TimePasses
  BY <1>6, TimePassesYoung
<1>7. CASE UNCHANGED vars
  BY <1>0, <1>7, UnsavedYoung DEF vars
<1> QED BY <1>1, <1>2, <1>3, <1>4, <1>5, <1>6, <1>7 DEF Next

(* Whatever operators start beside the controller, and however many slots  *)
(* there are: while a run is alive the stale check waits for its grace,    *)
(* because every write that leaves a running pending run either keeps the  *)
(* instant of an earlier start or notes its own.  It says nothing of what  *)
(* happens after the grace: then a live run is given up (StaleRunsAreDead).*)
THEOREM YoungRunsSpared == Spec => []StaleSparesYoungRuns
<1>1. Init => YoungInv
  BY DEF Init, YoungInv, Young, Mine, Idle, Live
<1>2. SchedulerInv /\ YoungInv /\ [Next]_vars => YoungInv'
  BY NextYoung DEF SchedulerInv
<1>3. SchedulerInv /\ YoungInv => StaleSparesYoungRuns
  <2> SUFFICES ASSUME Typed, YoungInv, NEW q \in Procs,
                      proc[q].pc \in Live, PendingIsStale(Mine(q))
               PROVE  proc[q].lived >= IF Mine(q).pend.term THEN FullGrace ELSE ShortGrace
    BY DEF StaleSparesYoungRuns, SchedulerInv
  <2>1. Mine(q).pend.age <= proc[q].lived
    BY DEF PendingIsStale, YoungInv, Young
  <2>2. Mine(q).pend.age >= IF Mine(q).pend.term THEN FullGrace ELSE ShortGrace
    BY DEF PendingIsStale
  <2>3. /\ Mine(q).pend.age \in Nat /\ proc[q].lived \in Nat
        /\ FullGrace \in Nat /\ ShortGrace \in Nat
    BY MineOK, StateConstants DEF Good, State, Pending, Process
  <2> QED BY <2>1, <2>2, <2>3
<1> QED BY <1>1, <1>2, <1>3, AlwaysInv, PTL DEF Spec

-----------------------------------------------------------------------------
(* One process and one slot: nobody but the controller runs anything, and  *)
(* max_concurrent_runs has its default value 1.                            *)

(* What the file s of p says of p's slot while the controller is at r: a   *)
(* taken slot has a running pending run, and the slot of a live run is     *)
(* taken by that run.                                                      *)
SlotOK(s, r, p) ==
  /\ s.active \in {0, 1}
  /\ s.active = 1 => s.pend.status = "running"
  /\ r.part = p /\ r.pc \in Live => s.active = 1 /\ s.pend.id = r.rid
  /\ r.part = p /\ r.pc = "setup" => s.active = 0

SlotInv == \A p \in Participants : SlotOK(pst[p], proc[Controller], p)

(* A rewrite that does not touch the slot.                                 *)
SameSlot(s, t) ==
  /\ t.active = s.active
  /\ t.pend.status = s.pend.status
  /\ t.pend.id = s.pend.id

(* A rewrite that does not touch the wake clock.                           *)
SameClock(s, t) ==
  /\ t.wake = s.wake /\ t.prev = s.prev
  /\ t.pend.src = s.pend.src
  /\ s.pend.status # "none" => t.pend.status # "none"

LEMMA QuietMarks ==
  ASSUME NEW s \in State
  PROVE  /\ SameSlot(s, MarkReplacementDue(s))
         /\ SameSlot(s, MarkRetryDue(s))
         /\ SameSlot(s, MarkReplacementConsumed(s))
         /\ SameSlot(s, MarkRetryConsumed(s))
         /\ \A rid : SameSlot(s, ArtifactWritten(s, rid))
         /\ SameSlot(s, Age(s))
<1>1. SameSlot(s, MarkReplacementDue(s)) /\ SameSlot(s, MarkRetryDue(s))
  BY DEF SameSlot, MarkReplacementDue, MarkRetryDue, State
<1>2. SameSlot(s, MarkReplacementConsumed(s)) /\ SameSlot(s, MarkRetryConsumed(s))
  BY DEF SameSlot, MarkReplacementConsumed, MarkRetryConsumed, State
<1>3. \A rid : SameSlot(s, ArtifactWritten(s, rid))
  BY DEF SameSlot, ArtifactWritten, State, Pending
<1>4. SameSlot(s, Age(s))
  BY DEF SameSlot, Age, State, Pending
<1> QED BY <1>1, <1>2, <1>3, <1>4

LEMMA ClockMarks ==
  ASSUME NEW s \in State
  PROVE  /\ SameClock(s, MarkReplacementDue(s))
         /\ SameClock(s, MarkRetryDue(s))
         /\ SameClock(s, MarkReplacementConsumed(s))
         /\ SameClock(s, MarkRetryConsumed(s))
         /\ \A rid : SameClock(s, ArtifactWritten(s, rid))
         /\ SameClock(s, RecoverIfStale(s))
         /\ \A rid : SameClock(s, MarkRunInterrupted(s, rid))
<1>1. SameClock(s, MarkReplacementDue(s)) /\ SameClock(s, MarkRetryDue(s))
  BY DEF SameClock, MarkReplacementDue, MarkRetryDue, State
<1>2. SameClock(s, MarkReplacementConsumed(s)) /\ SameClock(s, MarkRetryConsumed(s))
  BY DEF SameClock, MarkReplacementConsumed, MarkRetryConsumed, State
<1>3. ASSUME NEW rid PROVE SameClock(s, ArtifactWritten(s, rid))
  BY DEF SameClock, ArtifactWritten, State, Pending
<1>4. SameClock(s, RecoverIfStale(s))
  BY DEF SameClock, RecoverIfStale, MarkStale, State, Pending
<1>5. ASSUME NEW rid PROVE SameClock(s, MarkRunInterrupted(s, rid))
  BY DEF SameClock, MarkRunInterrupted, ClosePending, Claims, State, Pending
<1> QED BY <1>1, <1>2, <1>3, <1>4, <1>5

LEMMA ConsumeSnapshotQuiet ==
  ASSUME NEW q, Good(Mine(q))
  PROVE  SameSlot(Mine(q), ConsumeSnapshot(q)) /\ SameClock(Mine(q), ConsumeSnapshot(q))
<1> DEFINE s == Mine(q)
           t == IF proc[q].snapRepl THEN MarkReplacementConsumed(s) ELSE s
<1>1. ConsumeSnapshot(q) = IF proc[q].snapRetry THEN MarkRetryConsumed(t) ELSE t
  BY DEF ConsumeSnapshot
<1> HIDE DEF s
<1>2. Good(s)
  BY DEF s
<1>3. Rewrite(s, t) /\ SameSlot(s, t) /\ SameClock(s, t)
  BY <1>2, MarkReplacementConsumedOK, RewriteRefl, QuietMarks, ClockMarks DEF Good, SameSlot, SameClock
<1> HIDE DEF t
<1>4. SameSlot(t, MarkRetryConsumed(t)) /\ SameClock(t, MarkRetryConsumed(t))
  BY <1>3, QuietMarks, ClockMarks DEF Rewrite, Good
<1> QED BY <1>1, <1>3, <1>4 DEF SameSlot, SameClock, s

LEMMA RecordedQuiet ==
  ASSUME NEW s, Good(s), NEW o
  PROVE  SameSlot(s, Recorded(s, o)) /\ SameClock(s, Recorded(s, o))
<1> DEFINE t == IF o.transient THEN MarkReplacementDue(s) ELSE s
<1>1. Recorded(s, o) = IF o.retryable THEN MarkRetryDue(t) ELSE t
  BY DEF Recorded
<1>2. Rewrite(s, t) /\ SameSlot(s, t) /\ SameClock(s, t)
  BY MarkReplacementDueOK, RewriteRefl, QuietMarks, ClockMarks DEF Good, SameSlot, SameClock
<1> HIDE DEF t
<1>3. SameSlot(t, MarkRetryDue(t)) /\ SameClock(t, MarkRetryDue(t))
  BY <1>2, QuietMarks, ClockMarks DEF Rewrite, Good
<1> QED BY <1>1, <1>2, <1>3 DEF SameSlot, SameClock

(* A step of the controller that stays out of, or stays inside, a run and  *)
(* leaves the slots alone.                                                 *)
LEMMA QuietStep ==
  ASSUME Typed, SlotInv,
         \A p \in Participants : SameSlot(pst[p], pst'[p]),
         LET r == proc[Controller]
             n == proc'[Controller]
         IN  \/ n.pc \notin Live \cup {"setup"}
             \/ n.part = r.part /\ n.rid = r.rid /\ n.pc = r.pc
             \/ n.part = r.part /\ n.rid = r.rid /\ n.pc \in Live /\ r.pc \in Live
  PROVE  SlotInv'
<1> SUFFICES ASSUME NEW p \in Participants
             PROVE  SlotOK(pst'[p], proc'[Controller], p)
  BY DEF SlotInv
<1>1. SlotOK(pst[p], proc[Controller], p) /\ SameSlot(pst[p], pst'[p])
  BY DEF SlotInv
<1> QED BY <1>1 DEF SlotOK, SameSlot, Live

(* The same for a step that saves only the controller's participant.       *)
LEMMA SavedQuietly ==
  ASSUME Typed, NEW t, SameSlot(Mine(Controller), t), Save(Controller, t)
  PROVE  \A p \in Participants : SameSlot(pst[p], pst'[p])
<1>1. proc[Controller].part \in Participants
  BY MineOK, ControllerProc
<1> QED BY <1>1 DEF Save, Mine, SameSlot, Typed, TypeOK

LEMMA OneProcess == ASSUME Manual = {} PROVE Procs = {Controller}
  BY DEF Procs

(* A step that saves t for the controller's participant and leaves the     *)
(* other participants' files, and their slots, alone.                      *)
LEMMA SavedStep ==
  ASSUME Typed, SlotInv, NEW t, Save(Controller, t),
         proc'[Controller].part = proc[Controller].part
           \/ proc'[Controller].pc \notin Live \cup {"setup"},
         SlotOK(t, proc'[Controller], proc[Controller].part)
  PROVE  SlotInv'
<1> SUFFICES ASSUME NEW p \in Participants
             PROVE  SlotOK(pst'[p], proc'[Controller], p)
  BY DEF SlotInv
<1>1. pst \in [Participants -> State] /\ SlotOK(pst[p], proc[Controller], p)
  BY DEF Typed, TypeOK, SlotInv
<1>2. CASE p = proc[Controller].part
  BY <1>1, <1>2 DEF Save
<1>3. CASE p # proc[Controller].part
  <2>1. pst'[p] = pst[p]
    BY <1>1, <1>3 DEF Save
  <2> QED BY <1>1, <1>3, <2>1 DEF SlotOK, Live
<1> QED BY <1>2, <1>3

LEMMA ControllerStepSlots ==
  ASSUME Typed, SlotInv, ControllerStep PROVE SlotInv'
<1> USE ControllerProc
<1> DEFINE c == proc[Controller]
<1>1. ASSUME Recovered = pst', proc'[Controller].pc \notin Live \cup {"setup"}
      PROVE  SlotInv'
  <2> SUFFICES ASSUME NEW p \in Participants
               PROVE  SlotOK(pst'[p], proc'[Controller], p)
    BY DEF SlotInv
  <2>1. SlotOK(pst[p], c, p) /\ pst[p] \in State
    BY DEF SlotInv, Typed, Good
  <2>2. pst'[p] = pst[p] \/ pst'[p] = MarkStale(pst[p])
    BY <1>1 DEF Recovered, RecoverIfStale
  <2>3. MarkStale(pst[p]).active = 0
    BY <2>1 DEF MarkStale, State
  <2> QED BY <1>1, <2>1, <2>2, <2>3 DEF SlotOK, Live
<1>2. ASSUME NEW p \in Participants, ScanAndPick(p) PROVE SlotInv'
  <2>1. proc'[Controller].pc \in {"consume", "prelaunch"}
    BY <1>2, IdleType DEF ScanAndPick, Typed, TypeOK, Process
  <2> QED BY <1>1, <1>2, <2>1 DEF ScanAndPick, Live
<1>3. CASE ScanAndSkip
  BY <1>1, <1>3 DEF ScanAndSkip, Live
<1>4. CASE Consume
  <2>1. proc'[Controller].pc = "prelaunch"
    BY <1>4 DEF Consume, Goto, Typed, TypeOK, Process
  <2> QED BY <1>4, <2>1, MineOK, ConsumeSnapshotQuiet, SavedQuietly, QuietStep DEF Consume, Live
<1>5. CASE Prelaunch
  <2> DEFINE t == MarkRunStarted(Mine(Controller), PendingId, "auto", FALSE)
  <2>1. proc'[Controller].pc = "admit"
    BY <1>5 DEF Prelaunch, Goto, Typed, TypeOK, Process
  <2>2. t.active = Mine(Controller).active /\ t.pend.status = "running"
    BY MineOK DEF MarkRunStarted, Good, State
  <2>3. SlotOK(Mine(Controller), c, c.part)
    BY MineOK DEF SlotInv, Mine
  <2>4. Save(Controller, t)
    BY <1>5 DEF Prelaunch
  <2> HIDE DEF t
  <2>5. SlotOK(t, proc'[Controller], c.part)
    BY <2>1, <2>2, <2>3 DEF SlotOK, Live
  <2> QED BY <2>1, <2>4, <2>5, SavedStep DEF Live
<1>6. CASE AfterRun
  <2>1. proc'[Controller].pc = "idle"
    BY <1>6 DEF AfterRun, Stop, Typed, TypeOK, Idle
  <2> QED BY <1>6, <2>1, MineOK, ConsumeSnapshotQuiet, SavedQuietly, QuietStep DEF AfterRun, Live
<1> QED BY <1>2, <1>3, <1>4, <1>5, <1>6 DEF ControllerStep

LEMMA RunnerStepSlots ==
  ASSUME Typed, SlotInv, MaxConcurrent = 1, RunnerStep(Controller) PROVE SlotInv'
<1> USE ControllerProc
<1> DEFINE c == proc[Controller]
           s == Mine(Controller)
<1>1. /\ c \in Process /\ c.part \in Participants /\ c.rid \in RunId
      /\ Good(s) /\ s \in State
      /\ SlotOK(s, c, c.part) /\ proc \in [Procs -> Process]
  BY MineOK DEF SlotInv, Mine, Good, Typed, TypeOK
<1>2. CASE Admit(Controller)
  <2>1. proc'[Controller].pc = "setup" /\ proc'[Controller].part = c.part
    BY <1>1, <1>2 DEF Admit, Goto, Process
  <2>2. s.active < 1 /\ UNCHANGED pst
    BY <1>2 DEF Admit
  <2> SUFFICES ASSUME NEW p \in Participants
               PROVE  SlotOK(pst'[p], proc'[Controller], p)
    BY DEF SlotInv
  <2>3. SlotOK(pst[p], c, p)
    BY DEF SlotInv
  <2>4. c.part = p => pst[p].active = 0
    BY <1>1, <2>2 DEF SlotOK, Mine
  <2> QED BY <2>1, <2>2, <2>3, <2>4 DEF SlotOK, Live
<1>3. CASE Reject(Controller)
  <2>1. proc'[Controller].pc = "idle"
    BY <1>1, <1>3 DEF Reject, Stop, Idle
  <2> QED BY <1>3, <2>1, QuietStep DEF Reject, SameSlot, Live
<1>4. CASE Start(Controller)
  <2> DEFINE t == MarkRunStarted(s, c.rid, c.src, TRUE)
  <2>1. /\ proc'[Controller].pc = "running" /\ proc'[Controller].part = c.part
        /\ proc'[Controller].rid = c.rid
    BY <1>1, <1>4 DEF Start, Goto, Process
  <2>2. c.pc = "setup"
    BY <1>4 DEF Start
  <2>3. t.active = s.active + 1 /\ t.pend.status = "running" /\ t.pend.id = c.rid
    BY <1>1 DEF MarkRunStarted, State
  <2>4. s.active = 0
    BY <1>1, <2>2 DEF SlotOK, Live
  <2>5. Save(Controller, t)
    BY <1>4 DEF Start
  <2> HIDE DEF t
  <2>6. SlotOK(t, proc'[Controller], c.part)
    BY <2>1, <2>3, <2>4 DEF SlotOK, Live
  <2> QED BY <2>1, <2>5, <2>6, SavedStep DEF Live
<1>5. ASSUME NEW o \in Outcomes, NEW raises \in BOOLEAN, Terminal(Controller, o, raises)
      PROVE  SlotInv'
  <2>1. /\ proc'[Controller].pc = "terminal" /\ proc'[Controller].part = c.part
        /\ proc'[Controller].rid = c.rid
    BY <1>1, <1>5 DEF Terminal, Process
  <2>2. c.pc = "running" /\ Save(Controller, Recorded(s, o))
    BY <1>5 DEF Terminal
  <2> QED BY <1>1, <2>1, <2>2, RecordedQuiet, SavedQuietly, QuietStep DEF Live
<1>6. CASE Finish(Controller)
  <2> DEFINE t == MarkRunFinished(s, c.rid, c.out.completed, c.out.infra)
  <2>1. proc'[Controller].pc \in {"after", "idle"}
    BY <1>1, <1>6 DEF Finish, Goto, Stop, Process, Idle
  <2>2. c.pc \in Live /\ Save(Controller, t)
    BY <1>6 DEF Finish, Live
  <2>3. t.active = 0
    BY <1>1, <2>2 DEF MarkRunFinished, LessOne, SlotOK, State
  <2> HIDE DEF t
  <2>4. SlotOK(t, proc'[Controller], c.part)
    BY <2>1, <2>3 DEF SlotOK, Live
  <2> QED BY <2>1, <2>2, <2>4, SavedStep DEF Live
<1>7. CASE Summarise(Controller)
  <2>1. /\ proc'[Controller].pc = "summary" /\ proc'[Controller].part = c.part
        /\ proc'[Controller].rid = c.rid
    BY <1>1, <1>7 DEF Summarise, Goto, Process
  <2>2. c.pc = "terminal" /\ Save(Controller, ArtifactWritten(s, c.rid))
    BY <1>7 DEF Summarise
  <2> QED BY <1>1, <2>1, <2>2, QuietMarks, SavedQuietly, QuietStep DEF Live
<1> QED BY <1>2, <1>3, <1>4, <1>5, <1>6, <1>7 DEF RunnerStep

LEMMA FaultySlots ==
  ASSUME Typed, SlotInv, Faulty(Controller) PROVE SlotInv'
<1> USE ControllerProc
<1> DEFINE c == proc[Controller]
           s == Mine(Controller)
<1>1. /\ c \in Process /\ c.part \in Participants /\ c.rid \in RunId
      /\ Good(s) /\ s \in State
      /\ SlotOK(s, c, c.part) /\ proc \in [Procs -> Process]
  BY MineOK DEF SlotInv, Mine, Good, Typed, TypeOK
<1>2. ASSUME NEW o \in Outcomes, FailAfterTerminal(Controller, o) PROVE SlotInv'
  <2>1. /\ proc'[Controller].pc = "terminal" /\ proc'[Controller].part = c.part
        /\ proc'[Controller].rid = c.rid
    BY <1>1, <1>2 DEF FailAfterTerminal, Process
  <2>2. c.pc \in Live /\ Save(Controller, Recorded(s, o))
    BY <1>2 DEF FailAfterTerminal, Live
  <2> QED BY <1>1, <2>1, <2>2, RecordedQuiet, SavedQuietly, QuietStep DEF Live
<1>3. CASE Interrupt(Controller)
  <2> DEFINE t == MarkRunInterrupted(s, c.rid)
  <2>1. proc'[Controller].pc = "idle"
    BY <1>1, <1>3 DEF Interrupt, Stop, Idle
  <2>2. c.pc \in Live /\ Save(Controller, t)
    BY <1>3 DEF Interrupt
  <2>3. t.active = 0
    BY <1>1, <2>2 DEF MarkRunInterrupted, LessOne, SlotOK, State
  <2> HIDE DEF t
  <2>4. SlotOK(t, proc'[Controller], c.part)
    BY <2>1, <2>3 DEF SlotOK, Live
  <2> QED BY <2>1, <2>2, <2>4, SavedStep DEF Live
<1>4. CASE Crash(Controller)
  <2>1. proc'[Controller].pc = "idle"
    BY <1>1, <1>4 DEF Crash, Stop, Idle
  <2> QED BY <1>4, <2>1, QuietStep DEF Crash, SameSlot, Live
<1> QED BY <1>2, <1>3, <1>4 DEF Faulty

LEMMA NextSlots ==
  ASSUME Manual = {}, MaxConcurrent = 1, Typed, SlotInv, [Next]_vars
  PROVE  SlotInv'
<1>1. CASE ControllerStep
  BY <1>1, ControllerStepSlots
<1>2. ASSUME NEW q \in Procs, RunnerStep(q) PROVE SlotInv'
  BY <1>2, OneProcess, RunnerStepSlots
<1>3. ASSUME NEW q \in Procs, Faulty(q) PROVE SlotInv'
  BY <1>3, OneProcess, FaultySlots
<1>4. ASSUME NEW status \in OperatorStatuses, SetSeason(status) PROVE SlotInv'
  BY <1>4 DEF SetSeason, SlotInv
<1>5. CASE TimePasses
  <2>1. \A p \in Participants : SameSlot(pst[p], pst'[p])
    BY <1>5, QuietMarks DEF TimePasses, Typed, Good
  <2> QED BY <1>5, <2>1, AgedProc, ControllerProc, QuietStep
<1>6. CASE UNCHANGED vars
  BY <1>6 DEF vars, SlotInv
<1> QED BY <1>1, <1>2, <1>3, <1>4, <1>5, <1>6 DEF Next

LEMMA AlwaysSlots ==
  ASSUME Manual = {}, MaxConcurrent = 1
  PROVE  Spec => [](SchedulerInv /\ SlotInv)
<1>1. Init => SlotInv
  BY ControllerProc DEF Init, SlotInv, SlotOK, Fresh, Idle, Live
<1>2. SchedulerInv /\ SlotInv /\ [Next]_vars => SlotInv'
  BY NextSlots DEF SchedulerInv
<1> QED BY <1>1, <1>2, AlwaysInv, PTL DEF Spec

(* Unless operators start runs by hand or max_concurrent_runs is raised,   *)
(* no crash strands a slot for good: a slot no live run holds belongs to a *)
(* pending run the stale check will look at.                               *)
THEOREM SlotsAccounted ==
  ASSUME Manual = {}, MaxConcurrent = 1
  PROVE  Spec => []SlotRecoverable
<1>1. SchedulerInv /\ SlotInv => SlotRecoverable
  <2> SUFFICES ASSUME SlotInv, NEW p \in Participants,
                      pst[p].active > Cardinality(LiveRuns(p))
               PROVE  pst[p].pend.status = "running"
    BY DEF SlotRecoverable
  <2>1. LiveRuns(p) \subseteq {Controller}
    BY OneProcess DEF LiveRuns
  <2>2. IsFiniteSet(LiveRuns(p))
    BY <2>1, FS_Singleton, FS_Subset
  <2>3. Cardinality(LiveRuns(p)) \in Nat
    BY <2>2, FS_CardinalityType
  <2> QED BY <2>3 DEF SlotInv, SlotOK
<1> QED BY <1>1, AlwaysSlots, PTL

-----------------------------------------------------------------------------
(* The wake clock, with one process and any max_concurrent_runs.           *)

(* The wake before the last one is no younger than the last one, also if   *)
(* an interrupted run has left it behind.                                  *)
ClockOrder(s) == s.prev # None => s.wake # None /\ s.prev >= s.wake

(* What the file s of the participant that the controller, at r, is about  *)
(* says of the clock: the age it had at the scan is kept until the         *)
(* controller's own write forgets it, and from then on in the other field. *)
ClockOK(s, r) ==
  /\ r.pc # "idle" => r.src = "auto"
  /\ r.wokenBefore /\ r.pc \in {"consume", "prelaunch"} => s.wake = WakeInterval
  /\ r.wokenBefore /\ r.pc \in {"admit", "setup"} \cup Live =>
       /\ s.prev = WakeInterval
       /\ s.pend.status # "none" /\ s.pend.src = "auto"

ClockInv ==
  /\ \A p \in Participants : ClockOrder(pst[p])
  /\ ClockOK(Mine(Controller), proc[Controller])

(* The controller goes on with the same run, or with none.                 *)
GoesOn(r, n) ==
  \/ n.pc = "idle"
  \/ /\ r.pc # "idle"
     /\ n.part = r.part /\ n.src = r.src /\ n.wokenBefore = r.wokenBefore
     /\ n.pc \in {"consume", "prelaunch"} => r.pc \in {"consume", "prelaunch"}
     /\ n.pc \in {"admit", "setup"} \cup Live => r.pc \in {"admit", "setup"} \cup Live

LEMMA ClockStep ==
  ASSUME Typed, ClockInv,
         \A p \in Participants : SameClock(pst[p], pst'[p]),
         GoesOn(proc[Controller], proc'[Controller])
  PROVE  ClockInv'
<1>1. \A p \in Participants : ClockOrder(pst'[p])
  BY DEF ClockInv, ClockOrder, SameClock
<1>2. proc[Controller].part \in Participants
  BY MineOK, ControllerProc
<1>3. ClockOK(pst'[proc'[Controller].part], proc'[Controller])
  <2>1. CASE proc'[Controller].pc = "idle"
    BY <2>1 DEF ClockOK, Live
  <2>2. CASE proc'[Controller].pc # "idle"
    BY <1>2, <2>2 DEF ClockInv, ClockOK, SameClock, GoesOn, Mine
  <2> QED BY <2>1, <2>2
<1> QED BY <1>1, <1>3 DEF ClockInv, Mine

LEMMA SavedSameClock ==
  ASSUME Typed, NEW t, SameClock(Mine(Controller), t), Save(Controller, t)
  PROVE  \A p \in Participants : SameClock(pst[p], pst'[p])
<1>1. proc[Controller].part \in Participants
  BY MineOK, ControllerProc
<1> QED BY <1>1 DEF Save, Mine, SameClock, Typed, TypeOK

(* A write of the controller that does change the clock.                   *)
LEMMA SavedClock ==
  ASSUME Typed, ClockInv, NEW t, Save(Controller, t), ClockOrder(t),
         proc'[Controller].pc = "idle" \/ proc'[Controller].part = proc[Controller].part,
         ClockOK(t, proc'[Controller])
  PROVE  ClockInv'
<1>1. proc[Controller].part \in Participants /\ pst \in [Participants -> State]
  BY MineOK, ControllerProc DEF Typed, TypeOK
<1>2. \A p \in Participants : pst'[p] = IF p = proc[Controller].part THEN t ELSE pst[p]
  BY <1>1 DEF Save
<1>3. \A p \in Participants : ClockOrder(pst'[p])
  BY <1>2 DEF ClockInv
<1>4. ClockOK(pst'[proc'[Controller].part], proc'[Controller])
  BY <1>1, <1>2 DEF ClockOK, Live
<1> QED BY <1>3, <1>4 DEF ClockInv, Mine

LEMMA ControllerStepClock ==
  ASSUME Typed, ClockInv, ControllerStep PROVE ClockInv'
<1> USE ControllerProc
<1> DEFINE c == proc[Controller]
           n == proc'[Controller]
           s == Mine(Controller)
<1>1. /\ c \in Process /\ c.part \in Participants /\ s \in State /\ Good(s)
      /\ proc \in [Procs -> Process] /\ ClockOrder(s) /\ ClockOK(s, c)
  BY MineOK DEF ClockInv, Mine, Good, Typed, TypeOK
<1>2. ASSUME pst' = Recovered
      PROVE  \A p \in Participants : SameClock(pst[p], pst'[p])
  BY <1>2, ClockMarks DEF Recovered, Typed, Good
<1>3. ASSUME NEW p \in Participants, ScanAndPick(p) PROVE ClockInv'
  <2>1. /\ n.pc \in {"consume", "prelaunch"} /\ n.part = p /\ n.src = "auto"
        /\ n.wokenBefore = (Recovered[p].wake = WakeInterval)
    BY <1>1, <1>3, IdleType DEF ScanAndPick, Process
  <2>2. pst' = Recovered
    BY <1>3 DEF ScanAndPick
  <2>3. \A o \in Participants : ClockOrder(pst'[o])
    BY <1>2, <2>2 DEF ClockInv, ClockOrder, SameClock
  <2>4. ClockOK(pst'[p], n)
    BY <2>1, <2>2 DEF ClockOK, Live
  <2> QED BY <2>1, <2>3, <2>4 DEF ClockInv, Mine
<1>4. CASE ScanAndSkip
  BY <1>2, <1>4, ClockStep DEF ScanAndSkip, GoesOn
<1>5. CASE Consume
  <2>1. /\ n.pc = "prelaunch" /\ n.part = c.part /\ n.src = c.src
        /\ n.wokenBefore = c.wokenBefore
    BY <1>1, <1>5 DEF Consume, Goto, Process
  <2> QED BY <1>1, <1>5, <2>1, ConsumeSnapshotQuiet, SavedSameClock, ClockStep
          DEF Consume, GoesOn, Live
<1>6. CASE Prelaunch
  <2> DEFINE t == MarkRunStarted(s, PendingId, "auto", FALSE)
  <2>1. /\ n.pc = "admit" /\ n.part = c.part /\ n.src = c.src
        /\ n.wokenBefore = c.wokenBefore /\ c.pc = "prelaunch"
    BY <1>1, <1>6 DEF Prelaunch, Goto, Process
  <2>2. /\ t.wake = 0 /\ t.pend.src = "auto" /\ t.pend.status = "running"
        /\ t.prev = IF s.wake # None /\ s.prev = None THEN s.wake ELSE s.prev
    BY <1>1 DEF MarkRunStarted, State
  <2>3. s.wake \in Wake /\ s.prev \in Wake /\ WakeInterval \in Nat \ {0}
    BY <1>1, StateConstants DEF State
  <2>4. Save(Controller, t)
    BY <1>6 DEF Prelaunch
  <2> HIDE DEF t, s
  <2>5. ClockOrder(t)
    BY <2>2, <2>3 DEF ClockOrder, Wake, WakeAge, None
  <2>6. c.wokenBefore => s.wake = WakeInterval
    BY <1>1, <2>1 DEF ClockOK
  <2>7. c.wokenBefore => t.prev = WakeInterval
    BY <1>1, <2>2, <2>3, <2>6 DEF ClockOrder, Wake, WakeAge, None
  <2>8. c.src = "auto"
    BY <1>1, <2>1 DEF ClockOK
  <2>9. ClockOK(t, n)
    BY <2>1, <2>2, <2>7, <2>8 DEF ClockOK
  <2> QED BY <2>1, <2>4, <2>5, <2>9, SavedClock
<1>7. CASE AfterRun
  <2>1. n.pc = "idle"
    BY <1>1, <1>7 DEF AfterRun, Stop, Idle
  <2> QED BY <1>1, <1>7, <2>1, ConsumeSnapshotQuiet, SavedSameClock, ClockStep
          DEF AfterRun, GoesOn
<1> QED BY <1>3, <1>4, <1>5, <1>6, <1>7 DEF ControllerStep

LEMMA RunnerStepClock ==
  ASSUME Typed, ClockInv, RunnerStep(Controller) PROVE ClockInv'
<1> USE ControllerProc
<1> DEFINE c == proc[Controller]
           n == proc'[Controller]
           s == Mine(Controller)
<1>1. /\ c \in Process /\ c.part \in Participants /\ s \in State /\ Good(s)
      /\ proc \in [Procs -> Process] /\ ClockOrder(s) /\ ClockOK(s, c)
  BY MineOK DEF ClockInv, Mine, Good, Typed, TypeOK
<1>2. CASE Admit(Controller)
  <2>1. /\ n.pc = "setup" /\ n.part = c.part /\ n.src = c.src
        /\ n.wokenBefore = c.wokenBefore /\ c.pc = "admit"
    BY <1>1, <1>2 DEF Admit, Goto, Process
  <2> QED BY <1>2, <2>1, ClockStep DEF Admit, GoesOn, SameClock
<1>3. CASE Reject(Controller)
  <2>1. n.pc = "idle"
    BY <1>1, <1>3 DEF Reject, Stop, Idle
  <2> QED BY <1>3, <2>1, ClockStep DEF Reject, GoesOn, SameClock
<1>4. CASE Start(Controller)
  <2> DEFINE t == MarkRunStarted(s, c.rid, c.src, TRUE)
  <2>1. /\ n.pc = "running" /\ n.part = c.part /\ n.src = c.src
        /\ n.wokenBefore = c.wokenBefore /\ c.pc = "setup"
    BY <1>1, <1>4 DEF Start, Goto, Process
  <2>2. c.src = "auto" /\ (c.wokenBefore => s.prev = WakeInterval)
    BY <1>1, <2>1 DEF ClockOK
  <2>3. /\ t.wake = 0 /\ t.pend.src = "auto" /\ t.pend.status = "running"
        /\ t.prev = IF s.wake # None /\ s.prev = None THEN s.wake ELSE s.prev
    BY <1>1, <2>2 DEF MarkRunStarted, State
  <2>4. s.wake \in Wake /\ s.prev \in Wake /\ WakeInterval \in Nat \ {0}
    BY <1>1, StateConstants DEF State
  <2>5. Save(Controller, t)
    BY <1>4 DEF Start
  <2> HIDE DEF t, s
  <2>6. ClockOrder(t)
    BY <2>3, <2>4 DEF ClockOrder, Wake, WakeAge, None
  <2>7. c.wokenBefore => t.prev = WakeInterval
    BY <2>2, <2>3, <2>4 DEF None
  <2>8. ClockOK(t, n)
    BY <2>1, <2>2, <2>3, <2>7 DEF ClockOK
  <2> QED BY <2>1, <2>5, <2>6, <2>8, SavedClock
<1>5. ASSUME NEW o \in Outcomes, NEW raises \in BOOLEAN, Terminal(Controller, o, raises)
      PROVE  ClockInv'
  <2>1. /\ n.pc = "terminal" /\ n.part = c.part /\ n.src = c.src
        /\ n.wokenBefore = c.wokenBefore /\ c.pc = "running"
    BY <1>1, <1>5 DEF Terminal, Process
  <2> QED BY <1>1, <1>5, <2>1, RecordedQuiet, SavedSameClock, ClockStep
          DEF Terminal, GoesOn, Live
<1>6. CASE Summarise(Controller)
  <2>1. /\ n.pc = "summary" /\ n.part = c.part /\ n.src = c.src
        /\ n.wokenBefore = c.wokenBefore /\ c.pc = "terminal"
    BY <1>1, <1>6 DEF Summarise, Goto, Process
  <2> QED BY <1>1, <1>6, <2>1, ClockMarks, SavedSameClock, ClockStep
          DEF Summarise, GoesOn, Live
<1>7. CASE Finish(Controller)
  <2> DEFINE t == MarkRunFinished(s, c.rid, c.out.completed, c.out.infra)
  <2>1. (n.pc = "after" /\ n.part = c.part /\ n.src = c.src) \/ n.pc = "idle"
    BY <1>1, <1>7 DEF Finish, Goto, Stop, Process, Idle
  <2>2. t.prev = None
    BY <1>1 DEF MarkRunFinished, State
  <2>3. Save(Controller, t) /\ c.pc = "summary"
    BY <1>7 DEF Finish
  <2> HIDE DEF t
  <2>4. ClockOrder(t)
    BY <2>2 DEF ClockOrder
  <2>5. c.src = "auto"
    BY <1>1, <2>3 DEF ClockOK
  <2>6. ClockOK(t, n)
    BY <2>1, <2>5 DEF ClockOK, Live
  <2> QED BY <2>1, <2>3, <2>4, <2>6, SavedClock
<1> QED BY <1>2, <1>3, <1>4, <1>5, <1>6, <1>7 DEF RunnerStep

LEMMA FaultyClock ==
  ASSUME Typed, ClockInv, Faulty(Controller) PROVE ClockInv'
<1> USE ControllerProc
<1> DEFINE c == proc[Controller]
           n == proc'[Controller]
           s == Mine(Controller)
<1>1. /\ c \in Process /\ s \in State /\ Good(s) /\ proc \in [Procs -> Process]
  BY MineOK DEF Good, Typed, TypeOK
<1>2. ASSUME NEW o \in Outcomes, FailAfterTerminal(Controller, o) PROVE ClockInv'
  <2>1. /\ n.pc = "terminal" /\ n.part = c.part /\ n.src = c.src
        /\ n.wokenBefore = c.wokenBefore /\ c.pc \in {"terminal", "summary"}
    BY <1>1, <1>2 DEF FailAfterTerminal, Process
  <2> QED BY <1>1, <1>2, <2>1, RecordedQuiet, SavedSameClock, ClockStep
          DEF FailAfterTerminal, GoesOn, Live
<1>3. CASE Interrupt(Controller)
  <2>1. n.pc = "idle"
    BY <1>1, <1>3 DEF Interrupt, Stop, Idle
  <2> QED BY <1>1, <1>3, <2>1, ClockMarks, SavedSameClock, ClockStep DEF Interrupt, GoesOn
<1>4. CASE Crash(Controller)
  <2>1. n.pc = "idle"
    BY <1>1, <1>4 DEF Crash, Stop, Idle
  <2> QED BY <1>4, <2>1, ClockStep DEF Crash, GoesOn, SameClock
<1> QED BY <1>2, <1>3, <1>4 DEF Faulty

(* Both instants age together, so that their order remains.                *)
LEMMA AgeClock ==
  ASSUME NEW s \in State, ClockOrder(s)
  PROVE  /\ ClockOrder(Age(s))
         /\ s.wake = WakeInterval => Age(s).wake = WakeInterval
         /\ s.prev = WakeInterval => Age(s).prev = WakeInterval
         /\ Age(s).pend.status = s.pend.status /\ Age(s).pend.src = s.pend.src
<1>1. /\ Age(s).wake = Older(s.wake, WakeInterval)
      /\ Age(s).prev = Older(s.prev, WakeInterval)
      /\ Age(s).pend.status = s.pend.status /\ Age(s).pend.src = s.pend.src
  BY DEF Age, State, Pending
<1>2. s.wake \in Wake /\ s.prev \in Wake /\ WakeInterval \in Nat \ {0}
  BY StateConstants DEF State
<1> QED BY <1>1, <1>2 DEF ClockOrder, Older, Least, Wake, WakeAge, None

LEMMA NextClock ==
  ASSUME Manual = {}, Typed, ClockInv, [Next]_vars
  PROVE  ClockInv'
<1>1. CASE ControllerStep
  BY <1>1, ControllerStepClock
<1>2. ASSUME NEW q \in Procs, RunnerStep(q) PROVE ClockInv'
  BY <1>2, OneProcess, RunnerStepClock
<1>3. ASSUME NEW q \in Procs, Faulty(q) PROVE ClockInv'
  BY <1>3, OneProcess, FaultyClock
<1>4. ASSUME NEW status \in OperatorStatuses, SetSeason(status) PROVE ClockInv'
  BY <1>4 DEF SetSeason, ClockInv, Mine
<1>5. CASE TimePasses
  <2>1. \A p \in Participants : pst'[p] = Age(pst[p]) /\ pst[p] \in State
    BY <1>5 DEF TimePasses, Typed, Good
  <2>2. /\ proc'[Controller].pc = proc[Controller].pc
        /\ proc'[Controller].part = proc[Controller].part
        /\ proc'[Controller].src = proc[Controller].src
        /\ proc'[Controller].wokenBefore = proc[Controller].wokenBefore
        /\ proc[Controller].part \in Participants
    BY <1>5, AgedProc, MineOK, ControllerProc
  <2>3. \A p \in Participants : ClockOrder(pst'[p])
    BY <2>1, AgeClock DEF ClockInv
  <2>4. ClockOK(pst'[proc[Controller].part], proc'[Controller])
    BY <2>1, <2>2, AgeClock DEF ClockInv, ClockOK, Mine
  <2> QED BY <2>2, <2>3, <2>4 DEF ClockInv, Mine
<1>6. CASE UNCHANGED vars
  BY <1>6 DEF vars, ClockInv, Mine
<1> QED BY <1>1, <1>2, <1>3, <1>4, <1>5, <1>6 DEF Next

(* Unless operators start runs by hand, a run that ends on a provider      *)
(* failure leaves its participant due, if its wake interval had elapsed    *)
(* when it was picked: the clock that two writes of the start overwrite is *)
(* kept through the whole run, also if a run before it was interrupted and *)
(* left its own copy behind.                                               *)
THEOREM ProviderFailureRestoresClock ==
  ASSUME Manual = {}
  PROVE  Spec => InfraRestoresClock
<1> DEFINE Restored == ControllerFinishes /\ proc[Controller].out.infra
                         /\ proc[Controller].wokenBefore
                           => ClockDue(pst'[proc[Controller].part])
<1>1. Init => ClockInv
  BY ControllerProc DEF Init, ClockInv, ClockOK, ClockOrder, Mine, Fresh, Idle, Live
<1>2. SchedulerInv /\ ClockInv /\ [Next]_vars => ClockInv'
  BY NextClock DEF SchedulerInv
<1>3. SchedulerInv /\ ClockInv /\ [Next]_vars => [Restored]_vars
  <2> SUFFICES ASSUME Typed, ClockInv, ControllerFinishes, proc[Controller].out.infra,
                      proc[Controller].wokenBefore
               PROVE  ClockDue(pst'[proc[Controller].part])
    BY DEF SchedulerInv
  <2> DEFINE c == proc[Controller]
             s == Mine(Controller)
             t == MarkRunFinished(s, c.rid, c.out.completed, c.out.infra)
  <2>1. /\ c.part \in Participants /\ s \in State /\ ClockOK(s, c)
        /\ pst \in [Participants -> State]
    BY MineOK, ControllerProc DEF ClockInv, Good, Typed, TypeOK
  <2>2. c.pc = "summary" /\ Save(Controller, t)
    BY DEF ControllerFinishes, Finish
  <2>3. s.prev = WakeInterval /\ s.pend.status # "none" /\ s.pend.src = "auto"
    BY <2>1, <2>2 DEF ClockOK, Live
  <2>4. t.wake = WakeInterval
    BY <2>1, <2>3 DEF MarkRunFinished, State
  <2>5. pst'[c.part] = t
    BY <2>1, <2>2 DEF Save
  <2> QED BY <2>4, <2>5 DEF ClockDue
<1> QED BY <1>1, <1>2, <1>3, AlwaysInv, PTL DEF Spec, InfraRestoresClock
=============================================================================
