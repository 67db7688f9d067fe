----------------------------- MODULE LiveSubmission -----------------------------
(***************************************************************************)
(* How a reviewed patch gets from the workspace into a pull request: the   *)
(* live tools github_prepare_branch, github_commit, github_push_branch and *)
(* github_open_pr, which the agent calls in any order and as often as it   *)
(* likes.  None of them asks whether the one before it succeeded.          *)
(*                                                                         *)
(* The patch is its set of files; of each the model keeps where its change *)
(* is.  The target's base has not moved since the workspace was cloned.    *)
(***************************************************************************)

CONSTANTS
  Modified,  \* files of the reviewed patch that the target has
  Added,     \* files of the patch that are new
  Faults     \* what may fail: "fetch", "push", "open"

Patch == Modified \cup Added

VARIABLES
  edits,      \* files modified in the working tree, against HEAD
  untracked,  \* new files that git does not track
  staged,     \* new files in git's index
  head,       \* files changed by HEAD's commits, against the target's base
  pushed,     \* the same of the pushed branch; nothing: not pushed, or the base itself
  opened      \* whether the pull request exists

vars == <<edits, untracked, staged, head, pushed, opened>>

TypeOK ==
  /\ {edits, head, pushed} \subseteq SUBSET Patch
  /\ {untracked, staged} \subseteq SUBSET Patch
  /\ opened \in BOOLEAN

Init ==
  /\ edits = Modified
  /\ untracked = Added
  /\ staged = {}
  /\ head = {}
  /\ pushed = {}
  /\ opened = FALSE

-----------------------------------------------------------------------------
(* github_prepare_branch: one command whose parts go on as long as they    *)
(* succeed.  The change against HEAD is saved, new files are removed, the  *)
(* base is fetched and checked out as the branch, the saved patch applied. *)

Saved == edits \cup untracked \cup staged

(* git keeps local changes of files that the checkout does not touch.      *)
CheckoutRefused == (edits \cup staged) \cap head # {}

(* What was not removed is still there, and the patch applies to nothing   *)
(* that has it already; it applies as a whole or not at all.               *)
ApplyRefused == edits \cup staged # {}

PrepareBranch(fetched) ==
  /\ fetched \/ "fetch" \in Faults
  /\ untracked' = {}
  /\ IF ~fetched \/ CheckoutRefused
     THEN UNCHANGED <<staged, head>>
     ELSE /\ head' = {}
          /\ staged' = IF ApplyRefused THEN staged ELSE Saved
  /\ UNCHANGED <<edits, pushed, opened>>

(* github_commit: git add -A, and a commit if there is something in it.    *)
Commit ==
  /\ Saved # {}
  /\ head' = head \cup Saved
  /\ edits' = {} /\ untracked' = {} /\ staged' = {}
  /\ UNCHANGED <<pushed, opened>>

(* github_push_branch: HEAD becomes the branch, whatever it was.           *)
PushBranch(ok) ==
  /\ IF ok THEN pushed' = head
     ELSE "push" \in Faults /\ UNCHANGED pushed
  /\ UNCHANGED <<edits, untracked, staged, head, opened>>

(* github_open_pr, past the quality gate and governance: GitHub opens no   *)
(* pull request without a commit.                                          *)
OpenPr(ok) ==
  /\ ok \/ "open" \in Faults
  /\ opened' = (opened \/ (ok /\ pushed # {}))
  /\ UNCHANGED <<edits, untracked, staged, head, pushed>>

Next ==
  \/ Commit
  \/ \E ok \in BOOLEAN : PrepareBranch(ok) \/ PushBranch(ok) \/ OpenPr(ok)

Spec == Init /\ [][Next]_vars

-----------------------------------------------------------------------------
(* A pull request that is opened carries the whole of the reviewed patch:  *)
(* preparing the branch resets it to the base "while keeping the current   *)
(* reviewed patch workspace", committing takes "the current reviewed       *)
(* workspace changes", and what is pushed is that commit.                  *)
PrCarriesReviewedPatch ==
  [][~opened /\ opened' => pushed = Patch]_vars
=============================================================================
