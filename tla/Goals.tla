--------------------------------- MODULE Goals ---------------------------------
(***************************************************************************)
(* The short-term goal of a run: what GoalService keeps in memory, the     *)
(* phase that follows from it, and the limits on changing one's mind.      *)
(* Operators only; AgentRun has the tool that calls them.                  *)
(*                                                                         *)
(* The events of the run are kept as what is read of them: whether there   *)
(* is one about the goal (own), whether the last such event is a submitted *)
(* draft, how many goals of each scope were abandoned, how often the       *)
(* strategy changed.                                                       *)
(*                                                                         *)
(* An operator that no other definition uses is a faulty variant of the    *)
(* one that follows it, to show that a property can fail.                  *)
(***************************************************************************)
EXTENDS Naturals

CONSTANTS
  MaxAbandoned,    \* goal.max_abandoned_goals_per_run
  MaxSwitches,     \* run.budget.work.max_repo_switches, max_opportunity_switches
  MaxStrategies    \* run.budget.work.max_strategy_switches_per_opportunity

Scopes == {"repo", "opportunity", "contribution"}
Switched == {"repo", "opportunity"}

ASSUME GoalConstants ==
  /\ MaxAbandoned \in Nat \ {0}
  /\ MaxSwitches \in [Switched -> Nat]
  /\ MaxStrategies \in Nat

Goal == [status : {"none", "active", "complete", "abandoned"}, scope : Scopes]
NoGoal == [status |-> "none", scope |-> "contribution"]
Finished == {"complete", "abandoned"}

Memory ==
  [goal : Goal, own : BOOLEAN, draft : BOOLEAN,
   abandoned : [Scopes -> Nat], strategies : Nat]

(* What a run starts with: the goal that an earlier run saved, or none.    *)
Loaded(goal) ==
  [goal |-> goal, own |-> FALSE, draft |-> FALSE,
   abandoned |-> [s \in Scopes |-> 0], strategies |-> 0]

Abandons(m) == m.abandoned["repo"] + m.abandoned["opportunity"] + m.abandoned["contribution"]

-----------------------------------------------------------------------------
(* The phase.  A finished goal counts only if this run said something      *)
(* about it: one that an earlier run finished leaves the run scouting.     *)

Phases == {"project", "opportunity", "work", "review", "completed"}
Scouting == {"project", "opportunity"}
Working == {"work", "review"}

PhaseOfGoal(goal, draft) ==
  IF goal.status = "none" THEN "project"
  ELSE IF goal.status = "complete" THEN "completed"
  ELSE IF goal.scope = "contribution" THEN IF draft THEN "review" ELSE "work"
  ELSE IF goal.scope = "repo" THEN "project" ELSE "opportunity"

PhaseOf(m) ==
  IF m.goal.status \in Finished /\ ~m.own THEN "project" ELSE PhaseOfGoal(m.goal, m.draft)

-----------------------------------------------------------------------------
(* aci_goal_update: first the limits, then the goal service.               *)

Statuses == {"active", "complete", "abandoned", "superseded"}

SwitchesSpent(m, scope) == scope \in Switched /\ m.abandoned[scope] >= MaxSwitches[scope]

Refusal(m, status, scope) ==
  IF status \in {"active", "abandoned"} /\ SwitchesSpent(m, scope) THEN "switch_limit"
  ELSE IF status = "superseded" /\ scope = "contribution" /\ m.strategies >= MaxStrategies
    THEN "strategy_limit"
  ELSE IF status = "active" /\ Abandons(m) >= MaxAbandoned THEN "goal_abandon_limit"
  ELSE "none"

(* Only an active goal can be completed, abandoned or superseded.          *)
Possible(m, status) == status = "active" \/ m.goal.status = "active"

NewGoal(status, scope) ==
  [status |-> IF status \in Finished THEN status ELSE "active", scope |-> scope]

(* The state file is written before the event is appended: if the write    *)
(* fails the call is an error, and the goal in memory has changed.         *)
Unsaved(m, status, scope) == [m EXCEPT !.goal = NewGoal(status, scope)]

Updated(m, status, scope) ==
  [goal |-> NewGoal(status, scope),
   own |-> TRUE,
   draft |-> FALSE,
   abandoned |-> IF status = "abandoned" THEN [m.abandoned EXCEPT ![scope] = @ + 1]
                 ELSE m.abandoned,
   strategies |-> IF status = "superseded" /\ scope = "contribution" THEN m.strategies + 1
                  ELSE m.strategies]

(* What the last item of this update says to the loop's review.            *)
ItemAfter(m, status, scope) ==
  IF status # "abandoned" THEN "unchanged"
  ELSE IF Abandons(m) + 1 >= MaxAbandoned THEN "goal_abandon_limit"
  ELSE IF scope \in Switched THEN "other" ELSE "unchanged"

(* An accepted aci_submit_patch.                                           *)
DraftSubmitted(m) ==
  IF m.goal = [status |-> "active", scope |-> "contribution"]
    THEN [m EXCEPT !.own = TRUE, !.draft = TRUE] ELSE m

(* The harness proposes the configured issue, unless a goal was loaded.    *)
Seeded(m) == Updated(m, "active", "contribution")
SeedUnsaved(m) == Unsaved(m, "active", "contribution")
=============================================================================
