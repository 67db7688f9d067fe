----------------------------- MODULE MCReadModel ------------------------------
(* The instance of ReadModel that TLC checks: two participants with a run  *)
(* each.                                                                   *)
EXTENDS ReadModel

SomeRuns == 1..2
Owner == [r \in SomeRuns |-> IF r = 1 THEN "p" ELSE "q"]

(* A run that opened its pull request, one that had none to open, one      *)
(* whose judges were out of reach, and one that lost its model and is to   *)
(* be replaced.                                                            *)
Opened == [status |-> "completed", layer |-> "agent", interrupted |-> FALSE, live |-> TRUE,
           rows |-> {"opened"}, transient |-> FALSE, verdict |-> "judged"]
Quiet == [Opened EXCEPT !.live = FALSE, !.rows = {}]
Deferred == [Quiet EXCEPT !.verdict = "deferred"]
Lost == [Opened EXCEPT !.status = "failed", !.layer = "model_runtime", !.rows = {}, !.transient = TRUE]

Start(first, second, old) ==
  [ending |-> <<first, second>>, old |-> old, panels |-> 0, hands |-> 0, faults |-> 0]

(* The second run ends while the gateway ticks; one is judged again, by    *)
(* the tick or by the operator; one failure of the tick, of a rebuild or   *)
(* of the API; one in the midst of a command of the operator; one of the   *)
(* runner.                                                                 *)
SomeStarts ==
  {Start(Deferred, Opened, {1}),
   [Start(Deferred, Opened, {1, 2}) EXCEPT !.panels = 1],
   [Start(Opened, Quiet, {1, 2}) EXCEPT !.panels = 1, !.hands = 1],
   [Start(Quiet, Lost, {1, 2}) EXCEPT !.panels = 1, !.hands = 1],
   [Start(Deferred, Opened, {1, 2}) EXCEPT !.faults = 1],
   [Start(Deferred, Quiet, {1, 2}) EXCEPT !.hands = 1, !.faults = 1],
   [Start(Quiet, Quiet, {1}) EXCEPT !.faults = 1]}
=============================================================================
