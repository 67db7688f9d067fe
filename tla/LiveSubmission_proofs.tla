-------------------------- MODULE LiveSubmission_proofs --------------------------
(***************************************************************************)
(* Proofs about LiveSubmission for every patch and whatever may fail.      *)
(***************************************************************************)
EXTENDS LiveSubmission, TLAPS

(* The files of the patch are wherever they may be, each of them.          *)
THEOREM TypeCorrect == Spec => []TypeOK
<1>1. Init => TypeOK
  BY DEF Init, TypeOK, Patch
<1>2. TypeOK /\ [Next]_vars => TypeOK'
  <2> SUFFICES ASSUME TypeOK, [Next]_vars PROVE TypeOK'
    OBVIOUS
  <2> USE DEF TypeOK, Saved
  <2>1. CASE Commit
    BY <2>1 DEF Commit
  <2>2. ASSUME NEW ok \in BOOLEAN, PrepareBranch(ok) PROVE TypeOK'
    BY <2>2 DEF PrepareBranch
  <2>3. ASSUME NEW ok \in BOOLEAN, PushBranch(ok) PROVE TypeOK'
    BY <2>3 DEF PushBranch
  <2>4. ASSUME NEW ok \in BOOLEAN, OpenPr(ok) PROVE TypeOK'
    BY <2>4 DEF OpenPr
  <2>5. CASE UNCHANGED vars
    BY <2>5 DEF vars
  <2> QED BY <2>1, <2>2, <2>3, <2>4, <2>5 DEF Next
<1> QED BY <1>1, <1>2, PTL DEF Spec

-----------------------------------------------------------------------------
(* A patch that only modifies files, or only adds some, is never divided:  *)
(* wherever a part of it is, all of it is.                                 *)
OneKind == Modified = {} \/ Added = {}

Undivided ==
  /\ edits \in {{}, Patch} /\ untracked \in {{}, Patch} /\ staged \in {{}, Patch}
  /\ head \in {{}, Patch}
  /\ pushed \in {{}, Patch}

LEMMA UndividedKept == Undivided /\ [Next]_vars => Undivided'
<1> SUFFICES ASSUME Undivided, [Next]_vars PROVE Undivided'
  OBVIOUS
<1> USE DEF Undivided
<1>0. Saved \in {{}, Patch}
  BY DEF Saved
<1>1. CASE Commit
  BY <1>0, <1>1 DEF Commit
<1>2. ASSUME NEW ok \in BOOLEAN, PrepareBranch(ok) PROVE Undivided'
  BY <1>0, <1>2 DEF PrepareBranch
<1>3. ASSUME NEW ok \in BOOLEAN, PushBranch(ok) PROVE Undivided'
  BY <1>3 DEF PushBranch
<1>4. ASSUME NEW ok \in BOOLEAN, OpenPr(ok) PROVE Undivided'
  BY <1>4 DEF OpenPr
<1>5. CASE UNCHANGED vars
  BY <1>5 DEF vars
<1> QED BY <1>1, <1>2, <1>3, <1>4, <1>5 DEF Next

(* What the violation of PrCarriesReviewedPatch needs is a patch that both *)
(* modifies and adds files: a patch of one kind arrives whole or not at    *)
(* all, in whatever order the tools are called and whichever of them fail. *)
THEOREM OneKindArrivesWhole ==
  ASSUME OneKind
  PROVE  Spec => PrCarriesReviewedPatch
<1>1. Init => Undivided
  BY DEF OneKind, Init, Undivided, Patch
<1>2. Undivided /\ [Next]_vars => [~opened /\ opened' => pushed = Patch]_vars
  <2> SUFFICES ASSUME Undivided, Next, ~opened, opened' PROVE pushed = Patch
    OBVIOUS
  <2>1. PICK ok \in BOOLEAN : OpenPr(ok)
    BY DEF Next, Commit, PrepareBranch, PushBranch
  <2> QED BY <2>1 DEF OpenPr, Undivided
<1> QED BY <1>1, <1>2, UndividedKept, PTL DEF Spec, PrCarriesReviewedPatch
=============================================================================
