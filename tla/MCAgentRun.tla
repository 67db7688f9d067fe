------------------------------- MODULE MCAgentRun -------------------------------
(* Instances of AgentRun for TLC.                                          *)
EXTENDS AgentRun

Switches == [s \in Switched |-> 1]
Budgets == [scout |-> 2, work |-> 2, review |-> 2]

SomeKinds ==
  {[mode |-> "shadow", issue |-> FALSE], [mode |-> "shadow", issue |-> TRUE],
   [mode |-> "live", issue |-> FALSE]}

(* A contribution to go on with, a finished goal, none.                    *)
Carried == [status |-> "active", scope |-> "contribution"]
FinishedGoal == [status |-> "complete", scope |-> "opportunity"]
SomeGoals ==
  [k \in SomeKinds |->
     IF k.mode = "live" THEN {Carried}
     ELSE IF k.issue THEN {FinishedGoal, NoGoal} ELSE {NoGoal}]
=============================================================================
