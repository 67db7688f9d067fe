----------------------------- MODULE PrLedger_proofs -----------------------------
(***************************************************************************)
(* Proofs about PrLedger for every finite set of PRs, every set of         *)
(* processes, every choice of faults and every value of the bounds.        *)
(***************************************************************************)
EXTENDS PrLedger, FiniteSetTheorems, SequenceTheorems, TLAPS

-----------------------------------------------------------------------------
(* What the operators on a ledger keep.  g is what GitHub says.            *)

Settled == {"merged", "closed"}

RealRecord(g, pr, r) ==
  /\ r.state \in Settled => g[pr] = r.state
  /\ r.status \in Settled => g[pr] = r.status
  /\ r.state \in Settled => r.status = r.state

RealRefs(g, pr, s) == \A i \in DOMAIN s : s[i] \in Settled => g[pr] = s[i]

Real(g, l) == \A pr \in PRs : RealRecord(g, pr, l.life[pr]) /\ RealRefs(g, pr, l.refs[pr])

GoodLedger(g, l) == l \in Ledger /\ Real(g, l)

LEMMA LifeTypes ==
  /\ Fresh \in LifeRecord
  /\ Fresh # Untracked
  /\ \A r \in LifeRecord : r # Untracked
  /\ Untracked.state = "none" /\ Untracked.status = "none" /\ Untracked.wait = 0
  BY DEF Fresh, Untracked, LifeRecord, PrStates, Statuses

LEMMA EmptyGood == ASSUME NEW g PROVE GoodLedger(g, EmptyLedger)
  BY LifeTypes DEF GoodLedger, EmptyLedger, Ledger, Real, RealRecord, RealRefs, Settled

LEMMA FreshReal == ASSUME NEW g, NEW pr PROVE RealRecord(g, pr, Fresh)
  BY DEF RealRecord, Fresh, Settled

LEMMA UpsertGood ==
  ASSUME NEW g, NEW l, GoodLedger(g, l), NEW pr \in PRs, NEW r \in LifeRecord,
         RealRecord(g, pr, r)
  PROVE  GoodLedger(g, Upsert(l, pr, r))
  BY DEF GoodLedger, Upsert, Ledger, Real

LEMMA RecordPrGood ==
  ASSUME NEW g, NEW l, GoodLedger(g, l), NEW pr \in PRs
  PROVE  GoodLedger(g, RecordPr(l, pr))
<1>1. l.refs[pr] \in Seq(PrStates) /\ RealRefs(g, pr, l.refs[pr])
  BY DEF GoodLedger, Ledger, Real
<1>2. Append(l.refs[pr], "open") \in Seq(PrStates)
  BY <1>1 DEF PrStates
<1>3. RealRefs(g, pr, Append(l.refs[pr], "open"))
  BY <1>1 DEF RealRefs, Settled
<1>4. GoodLedger(g, RecordRef(l, pr))
  BY <1>2, <1>3 DEF RecordRef, GoodLedger, Ledger, Real
<1> QED BY <1>4, UpsertGood, FreshReal, LifeTypes DEF RecordPr

LEMMA UpdateFirstRefGood ==
  ASSUME NEW g, NEW l, GoodLedger(g, l), NEW pr \in PRs, NEW state \in PrStates,
         state \in Settled => g[pr] = state
  PROVE  GoodLedger(g, UpdateFirstRef(l, pr, state))
<1>1. l.refs[pr] \in Seq(PrStates) /\ RealRefs(g, pr, l.refs[pr])
  BY DEF GoodLedger, Ledger, Real
<1>2. CASE l.refs[pr] = <<>>
  BY <1>2 DEF UpdateFirstRef
<1>3. CASE l.refs[pr] # <<>>
  <2> DEFINE s == [l.refs[pr] EXCEPT ![1] = state]
  <2>1. s \in Seq(PrStates) /\ RealRefs(g, pr, s)
    BY <1>1, <1>3 DEF RealRefs
  <2>2. UpdateFirstRef(l, pr, state) = [l EXCEPT !.refs[pr] = s]
    BY <1>3 DEF UpdateFirstRef, GoodLedger, Ledger
  <2> HIDE DEF s
  <2> QED BY <2>1, <2>2 DEF GoodLedger, Ledger, Real
<1> QED BY <1>2, <1>3

LEMMA BackfilledGood ==
  ASSUME NEW g, NEW l, GoodLedger(g, l) PROVE GoodLedger(g, Backfilled(l))
  BY FreshReal, LifeTypes DEF GoodLedger, Backfilled, Ledger, Real

LEMMA PrStateReal ==
  ASSUME NEW g, NEW pr \in PRs, NEW r \in LifeRecord, RealRecord(g, pr, r)
  PROVE  /\ PrStateOf(r) \in PrStates
         /\ PrStateOf(r) \in Settled => g[pr] = PrStateOf(r)
  BY DEF PrStateOf, RealRecord, LifeRecord, PrStates, Statuses, Settled

LEMMA RefsSyncedGood ==
  ASSUME NEW g, NEW l, GoodLedger(g, l) PROVE GoodLedger(g, RefsSynced(l))
<1> DEFINE new(pr) == IF IsTracked(l, pr) /\ IsTerminal(l.life[pr])
                      THEN [i \in DOMAIN l.refs[pr] |-> PrStateOf(l.life[pr])]
                      ELSE l.refs[pr]
<1>1. ASSUME NEW pr \in PRs PROVE new(pr) \in Seq(PrStates) /\ RealRefs(g, pr, new(pr))
  <2>1. l.refs[pr] \in Seq(PrStates) /\ RealRefs(g, pr, l.refs[pr])
        /\ l.life[pr] \in LifeRecord \cup {Untracked} /\ RealRecord(g, pr, l.life[pr])
    BY DEF GoodLedger, Ledger, Real
  <2>2. CASE IsTracked(l, pr) /\ IsTerminal(l.life[pr])
    <3>1. PrStateOf(l.life[pr]) \in PrStates
          /\ (PrStateOf(l.life[pr]) \in Settled => g[pr] = PrStateOf(l.life[pr]))
      BY <2>1, <2>2, PrStateReal DEF IsTracked
    <3>2. DOMAIN l.refs[pr] = 1 .. Len(l.refs[pr]) /\ Len(l.refs[pr]) \in Nat
      BY <2>1
    <3> QED BY <2>2, <3>1, <3>2 DEF RealRefs
  <2>3. CASE ~(IsTracked(l, pr) /\ IsTerminal(l.life[pr]))
    BY <2>1, <2>3
  <2> QED BY <2>2, <2>3
<1>2. RefsSynced(l) = [l EXCEPT !.refs = [pr \in PRs |-> new(pr)]]
  BY DEF RefsSynced
<1> HIDE DEF new
<1> QED BY <1>1, <1>2 DEF GoodLedger, Ledger, Real

LEMMA AgedGood ==
  ASSUME NEW g, NEW l, GoodLedger(g, l) PROVE GoodLedger(g, Aged(l))
<1> DEFINE new(pr) == IF l.life[pr].wait = 0 THEN l.life[pr]
                      ELSE [l.life[pr] EXCEPT !.wait = @ - 1]
<1>1. ASSUME NEW pr \in PRs
      PROVE  new(pr) \in LifeRecord \cup {Untracked} /\ RealRecord(g, pr, new(pr))
  <2>1. l.life[pr] \in LifeRecord \cup {Untracked} /\ RealRecord(g, pr, l.life[pr])
    BY DEF GoodLedger, Ledger, Real
  <2> QED BY <2>1, LifeTypes DEF LifeRecord, RealRecord
<1>2. Aged(l) = [l EXCEPT !.life = [pr \in PRs |-> new(pr)]]
  BY DEF Aged
<1> HIDE DEF new
<1> QED BY <1>1, <1>2 DEF GoodLedger, Ledger, Real

LEMMA ObservedReal ==
  ASSUME NEW g, NEW pr \in PRs, NEW answer \in Answers, NEW changesRequested \in BOOLEAN,
         answer \in Settled => g[pr] = answer
  PROVE  /\ Observed(answer, changesRequested) \in LifeRecord
         /\ RealRecord(g, pr, Observed(answer, changesRequested))
  BY DEF Observed, GithubStateOf, Classify, Answers, PrStates, Statuses, LifeRecord,
     RealRecord, Settled

LEMMA ObservationFailedReal ==
  ASSUME NEW g, NEW pr \in PRs, NEW r \in LifeRecord, RealRecord(g, pr, r)
  PROVE  /\ ObservationFailed(r) \in LifeRecord
         /\ RealRecord(g, pr, ObservationFailed(r))
<1> DEFINE n == IF r.retries < 3 THEN r.retries + 1 ELSE 3
<1>1. n \in 0 .. 3 /\ Backoff(n) \in 0 .. 4
  BY DEF LifeRecord, Backoff
<1>2. ObservationFailed(r) = [r EXCEPT !.retries = n, !.wait = Backoff(n)]
  BY DEF ObservationFailed
<1> HIDE DEF n
<1> QED BY <1>1, <1>2 DEF LifeRecord, RealRecord

LEMMA CountsType == ASSUME NEW l PROVE CountsOf(l) \in [opened : Nat, merged : Nat]
<1> DEFINE O == {pr \in PRs : IsTracked(l, pr) \/ l.refs[pr] # <<>>}
           M == {pr \in PRs : \/ IsTracked(l, pr) /\ PrStateOf(l.life[pr]) = "merged"
                              \/ \E i \in DOMAIN l.refs[pr] : l.refs[pr][i] = "merged"}
<1>1. Cardinality(O) \in Nat /\ Cardinality(M) \in Nat
  <2>1. O \subseteq PRs /\ M \subseteq PRs
    OBVIOUS
  <2> HIDE DEF O, M
  <2> QED BY <2>1, RecordConstants, FS_Subset, FS_CardinalityType
<1>2. CountsOf(l) = [opened |-> Cardinality(O), merged |-> Cardinality(M)]
  BY DEF CountsOf
<1> HIDE DEF O, M
<1> QED BY <1>1, <1>2

(* The two functions that count a participant's pull requests, one for     *)
(* ticks and one for runs that end, give the same counts of every ledger:  *)
(* neither takes back what the other has written.                          *)
THEOREM CountsAgree ==
  ASSUME NEW l \in Ledger
  PROVE  ParticipantPrCounts(l) = CountsOf(l)
<1>1. ASSUME NEW pr \in PRs
      PROVE  Entries(l, pr) # {} <=> (IsTracked(l, pr) \/ l.refs[pr] # <<>>)
  <2>1. l.refs[pr] \in Seq(PrStates)
    BY DEF Ledger
  <2>2. l.refs[pr] # <<>> <=> \E i \in DOMAIN l.refs[pr] : TRUE
    <3> DEFINE s == l.refs[pr]
    <3>1. s \in Seq(PrStates) /\ DOMAIN s = 1..Len(s) /\ Len(s) \in Nat
      BY <2>1
    <3>2. s = <<>> <=> Len(s) = 0
      BY <3>1, EmptySeq
    <3> HIDE DEF s
    <3>3. Len(s) # 0 <=> 1..Len(s) # {}
      <4>1. Len(s) # 0 => 1 \in 1..Len(s)
        BY <3>1
      <4>2. Len(s) = 0 => 1..Len(s) = {}
        BY <3>1
      <4> QED BY <4>1, <4>2
    <3> QED BY <3>1, <3>2, <3>3 DEF s
  <2>3. \A i \in DOMAIN l.refs[pr] :
          [state |-> l.refs[pr][i], status |-> "none"] \in Entries(l, pr)
    BY DEF Entries
  <2>4. IsTracked(l, pr)
          => [state |-> l.life[pr].state, status |-> l.life[pr].status] \in Entries(l, pr)
    BY DEF Entries
  <2>5. ASSUME ~IsTracked(l, pr), l.refs[pr] = <<>> PROVE Entries(l, pr) = {}
    BY <2>2, <2>5 DEF Entries
  <2> QED BY <2>2, <2>3, <2>4, <2>5
<1>2. ASSUME NEW pr \in PRs
      PROVE  (\E e \in Entries(l, pr) : e.state = "merged" \/ e.status = "merged")
               <=> (\/ IsTracked(l, pr) /\ PrStateOf(l.life[pr]) = "merged"
                    \/ \E i \in DOMAIN l.refs[pr] : l.refs[pr][i] = "merged")
  <2>1. PrStateOf(l.life[pr]) = "merged"
          <=> (l.life[pr].state = "merged" \/ l.life[pr].status = "merged")
    BY DEF PrStateOf
  <2>2. ASSUME NEW i \in DOMAIN l.refs[pr], l.refs[pr][i] = "merged"
        PROVE  \E e \in Entries(l, pr) : e.state = "merged"
    <3>1. [state |-> l.refs[pr][i], status |-> "none"] \in Entries(l, pr)
      BY DEF Entries
    <3> QED BY <2>2, <3>1
  <2>3. ASSUME IsTracked(l, pr), PrStateOf(l.life[pr]) = "merged"
        PROVE  \E e \in Entries(l, pr) : e.state = "merged" \/ e.status = "merged"
    <3>1. [state |-> l.life[pr].state, status |-> l.life[pr].status] \in Entries(l, pr)
      BY <2>3 DEF Entries
    <3> QED BY <2>1, <2>3, <3>1
  <2>4. ASSUME NEW e \in Entries(l, pr), e.state = "merged" \/ e.status = "merged"
        PROVE  \/ IsTracked(l, pr) /\ PrStateOf(l.life[pr]) = "merged"
               \/ \E i \in DOMAIN l.refs[pr] : l.refs[pr][i] = "merged"
    <3>1. CASE \E i \in DOMAIN l.refs[pr] : e = [state |-> l.refs[pr][i], status |-> "none"]
      BY <2>4, <3>1
    <3>2. CASE /\ IsTracked(l, pr)
               /\ e = [state |-> l.life[pr].state, status |-> l.life[pr].status]
      BY <2>1, <2>4, <3>2
    <3> QED BY <3>1, <3>2 DEF Entries
  <2> QED BY <2>2, <2>3, <2>4
<1> DEFINE E == {pr \in PRs : Entries(l, pr) # {}}
           O == {pr \in PRs : IsTracked(l, pr) \/ l.refs[pr] # <<>>}
           F == {pr \in PRs : \E e \in Entries(l, pr) :
                                 e.state = "merged" \/ e.status = "merged"}
           M == {pr \in PRs : \/ IsTracked(l, pr) /\ PrStateOf(l.life[pr]) = "merged"
                              \/ \E i \in DOMAIN l.refs[pr] : l.refs[pr][i] = "merged"}
<1>3. E = O /\ F = M
  BY <1>1, <1>2
<1>4. ParticipantPrCounts(l) = [opened |-> Cardinality(E), merged |-> Cardinality(F)]
  BY DEF ParticipantPrCounts
<1>5. CountsOf(l) = [opened |-> Cardinality(O), merged |-> Cardinality(M)]
  BY DEF CountsOf
<1> HIDE DEF E, O, F, M
<1> QED BY <1>3, <1>4, <1>5
-----------------------------------------------------------------------------
(* The inductive invariant.  Every ledger that is kept, or will be saved,  *)
(* is real; whoever opens a PR knows which; records to poll are open ones. *)

Coherent(r) ==
  /\ r.pc \in OpenPoints => r.pr \in PRs
  /\ r.pc \in {"lookup", "create"} => r.tries < LIVE_PR_RETRY_ATTEMPTS
  /\ \A x \in r.due : IsTracked(r.copy, x) /\ r.copy.life[x].state \notin Settled

RealInv ==
  /\ TypeOK
  /\ Real(github, ledger)
  /\ \A p \in Procs : /\ Real(github, proc[p].copy)
                      /\ Coherent(proc[p])
  /\ \A pr \in PRs : /\ summary[pr] \in Settled => github[pr] = summary[pr]
                     /\ \A s \in Statuses : outcomes[pr][s] <= 1
                     /\ \A s \in Settled : outcomes[pr][s] > 0 => github[pr] = s

GoodProcess(g, r) == r \in Process /\ Real(g, r.copy) /\ Coherent(r)

LEMMA IdleIsGood == ASSUME NEW g PROVE GoodProcess(g, Idle)
  BY EmptyGood DEF GoodProcess, Idle, Process, GoodLedger, LIVE_PR_RETRY_ATTEMPTS, OpenPoints, Coherent

LEMMA ProcIsGood == ASSUME RealInv, NEW p \in Procs PROVE GoodProcess(github, proc[p])
  BY DEF RealInv, TypeOK, GoodProcess

LEMMA LedgerIsGood == ASSUME RealInv PROVE GoodLedger(github, ledger)
  BY DEF RealInv, TypeOK, GoodLedger

(* A PR that starts to exist, or an open one that is settled, takes        *)
(* nothing back that a real ledger says.                                   *)
LEMMA GithubMoves ==
  ASSUME NEW g, NEW h, NEW l, Real(g, l),
         \A pr \in PRs : g[pr] \in Settled => h[pr] = g[pr]
  PROVE  Real(h, l)
  BY DEF Real, RealRecord, RealRefs, Settled

(* What is left to show of a step that changes only proc.                  *)
LEMMA BecomeInv ==
  ASSUME RealInv, NEW p \in Procs, NEW r, GoodProcess(github, r), Become(p, r),
         UNCHANGED <<github, ledger, derived, completed, crashes>>
  PROVE  RealInv'
  BY DEF RealInv, TypeOK, GoodProcess, Become, derived

(* ... or saves a ledger as well.                                          *)
LEMMA SaveInv ==
  ASSUME RealInv, NEW p \in Procs, NEW r, GoodProcess(github, r), Become(p, r),
         NEW l, GoodLedger(github, l), ledger' = l,
         summary' \in [PRs -> {"none"} \cup PrStates],
         \A pr \in PRs : summary'[pr] \in Settled => summary'[pr] = summary[pr],
         UNCHANGED <<github, counts, outcomes, completed, crashes>>
  PROVE  RealInv'
  BY DEF RealInv, TypeOK, GoodProcess, GoodLedger, Become

(* The artifacts a tick derives from a real ledger.                        *)
LEMMA DerivedGood ==
  ASSUME RealInv, NEW l, GoodLedger(github, l), NEW S \in SUBSET PRs,
         \A pr \in S : IsTracked(l, pr)
  PROVE  /\ SummariesOf(S, l) \in [PRs -> {"none"} \cup PrStates]
         /\ OutcomesOf(S, l) \in [PRs -> [Statuses -> Nat]]
         /\ \A pr \in PRs :
              /\ SummariesOf(S, l)[pr] \in Settled => github[pr] = SummariesOf(S, l)[pr]
              /\ \A s \in Statuses : OutcomesOf(S, l)[pr][s] <= 1
              /\ \A s \in Settled : OutcomesOf(S, l)[pr][s] > 0 => github[pr] = s
<1>1. ASSUME NEW pr \in PRs
      PROVE  /\ SummariesOf(S, l)[pr] \in {"none"} \cup PrStates
             /\ SummariesOf(S, l)[pr] \in Settled => github[pr] = SummariesOf(S, l)[pr]
  <2>1. CASE pr \in S
    <3>1. l.life[pr] \in LifeRecord /\ RealRecord(github, pr, l.life[pr])
      BY <2>1 DEF GoodLedger, Ledger, Real, IsTracked
    <3> QED BY <3>1, <2>1, PrStateReal DEF SummariesOf, RealInv, TypeOK
  <2>2. CASE pr \notin S
    BY <2>2 DEF SummariesOf, RealInv, TypeOK
  <2> QED BY <2>1, <2>2
<1>2. ASSUME NEW pr \in PRs, NEW s \in Statuses
      PROVE  /\ OutcomesOf(S, l)[pr][s] \in Nat
             /\ OutcomesOf(S, l)[pr][s] <= 1
             /\ s \in Settled /\ OutcomesOf(S, l)[pr][s] > 0 => github[pr] = s
  <2>1. RealRecord(github, pr, l.life[pr])
    BY DEF GoodLedger, Real
  <2>2. /\ outcomes[pr][s] \in Nat
        /\ outcomes[pr][s] <= 1
        /\ s \in Settled /\ outcomes[pr][s] > 0 => github[pr] = s
    BY DEF RealInv, TypeOK
  <2>3. OutcomesOf(S, l)[pr][s] =
          IF pr \in S /\ completed /\ l.life[pr].status = s /\ outcomes[pr][s] = 0
          THEN 1 ELSE outcomes[pr][s]
    BY DEF OutcomesOf
  <2> QED BY <2>1, <2>2, <2>3 DEF RealRecord
<1>3. Settled \subseteq Statuses
  BY DEF Settled, Statuses
<1>4. OutcomesOf(S, l) \in [PRs -> [Statuses -> Nat]]
  BY <1>2 DEF OutcomesOf
<1>5. SummariesOf(S, l) \in [PRs -> {"none"} \cup PrStates]
  BY <1>1 DEF SummariesOf
<1> QED BY <1>1, <1>2, <1>3, <1>4, <1>5

LEMMA TickInv ==
  ASSUME RealInv, NEW p \in Procs, NEW r, GoodProcess(github, r), Become(p, r),
         NEW l, GoodLedger(github, l), NEW S \in SUBSET PRs,
         \A pr \in S : IsTracked(l, pr),
         summary' = SummariesOf(S, l), outcomes' = OutcomesOf(S, l),
         counts' \in [opened : Nat, merged : Nat],
         UNCHANGED <<github, ledger, completed, crashes>>
  PROVE  RealInv'
  BY DerivedGood DEF RealInv, TypeOK, GoodProcess, Become

-----------------------------------------------------------------------------
LEMMA RealInit == Init => RealInv
<1> SUFFICES ASSUME Init PROVE RealInv
  OBVIOUS
<1> PICK old \in SUBSET PRs :
       /\ Cardinality(old) <= MaxOpenPrs
       /\ github = [pr \in PRs |-> IF pr \in old THEN "open" ELSE "none"]
       /\ summary = [pr \in PRs |-> IF pr \in old THEN "open" ELSE "none"]
       /\ ledger = [EmptyLedger EXCEPT !.refs = [pr \in PRs |-> IF pr \in old THEN <<"open">>
                                                                ELSE <<>>]]
       /\ counts = [opened |-> Cardinality(old), merged |-> 0]
  BY DEF Init
<1>1. Cardinality(old) \in Nat
  BY RecordConstants, FS_Subset, FS_CardinalityType
<1>2. <<"open">> \in Seq(PrStates) /\ <<>> \in Seq(PrStates)
      /\ \A pr \in PRs : RealRefs(github, pr, <<"open">>) /\ RealRefs(github, pr, <<>>)
  BY DEF PrStates, RealRefs, Settled
<1>3. ledger \in Ledger /\ Real(github, ledger)
  <2>1. EmptyLedger \in Ledger /\ Real(github, EmptyLedger)
    BY EmptyGood DEF GoodLedger
  <2>2. ledger.life = EmptyLedger.life
        /\ ledger.refs = [pr \in PRs |-> IF pr \in old THEN <<"open">> ELSE <<>>]
        /\ ledger = [refs |-> ledger.refs, life |-> ledger.life]
    BY DEF EmptyLedger
  <2> QED BY <1>2, <2>1, <2>2 DEF Ledger, Real
<1>4. \A p \in Procs : proc[p] = Idle
  BY DEF Init
<1>5. proc \in [Procs -> Process]
  BY IdleIsGood DEF Init, GoodProcess
<1>6. \A p \in Procs : GoodProcess(github, proc[p])
  BY <1>4, IdleIsGood
<1>7. /\ \A pr \in PRs, s \in Statuses : outcomes[pr][s] = 0
      /\ \A pr \in PRs, s \in Settled : outcomes[pr][s] = 0
  BY DEF Init, Settled, Statuses
<1>8. TypeOK
  <2>1. outcomes \in [PRs -> [Statuses -> Nat]] /\ completed \in BOOLEAN /\ crashes \in Nat
    BY DEF Init
  <2>2. github \in [PRs -> {"none"} \cup PrStates] /\ summary \in [PRs -> {"none"} \cup PrStates]
    BY DEF PrStates
  <2> QED BY <1>1, <1>3, <1>5, <2>1, <2>2 DEF TypeOK
<1>9. \A pr \in PRs : summary[pr] \notin Settled
  BY DEF Settled
<1> QED BY <1>3, <1>6, <1>7, <1>8, <1>9 DEF RealInv, GoodProcess
-----------------------------------------------------------------------------
(* A request to GitHub may have made a PR exist.                           *)
LEMMA RequestInv ==
  ASSUME RealInv, NEW p \in Procs, NEW r, GoodProcess(github, r), Become(p, r),
         NEW n \in PRs,
         \/ github' = github
         \/ github[n] = "none" /\ github' = [github EXCEPT ![n] = "open"],
         UNCHANGED <<ledger, derived, completed, crashes>>
  PROVE  RealInv'
<1>1. /\ github' \in [PRs -> {"none"} \cup PrStates]
      /\ \A pr \in PRs : github[pr] \in Settled => github'[pr] = github[pr]
  BY DEF RealInv, TypeOK, PrStates, Settled
<1>2. /\ Real(github', ledger) /\ Real(github', r.copy)
      /\ \A q \in Procs : Real(github', proc[q].copy)
  BY <1>1, GithubMoves DEF RealInv, GoodProcess
<1>3. /\ proc' \in [Procs -> Process]
      /\ \A q \in Procs : Real(github', proc'[q].copy) /\ Coherent(proc'[q])
  BY <1>2 DEF Become, GoodProcess, RealInv, TypeOK
<1>4. TypeOK'
  BY <1>1, <1>3 DEF TypeOK, RealInv, derived
<1> QED BY <1>1, <1>2, <1>3, <1>4 DEF RealInv, derived, Settled

LEMMA OpeningInv == ASSUME RealInv, NEW p \in Procs, Opening(p) PROVE RealInv'
<1>0. /\ GoodProcess(github, proc[p])
      /\ GoodLedger(github, ledger)
      /\ GoodLedger(github, proc[p].copy)
  BY ProcIsGood, LedgerIsGood DEF GoodProcess, GoodLedger, Process
<1>1. ASSUME NEW point \in OpenPoints, proc[p].pc \in OpenPoints,
             point = "create" => proc[p].pc = "lookup", point # "lookup"
      PROVE  GoodProcess(github, [proc[p] EXCEPT !.pc = point])
  BY <1>0, <1>1 DEF GoodProcess, Process, Coherent
<1>2. ASSUME NEW pr \in PRs, StartOpen(p, pr) PROVE RealInv'
  <2>1. PICK point \in {"blocked", "lookup"} :
          Become(p, [Idle EXCEPT !.pc = point, !.pr = pr, !.copy = ledger])
    BY <1>2, Zenon DEF StartOpen
  <2> DEFINE r == [Idle EXCEPT !.pc = point, !.pr = pr, !.copy = ledger]
  <2>2. r \in Process
    <3>1. point \in OpenPoints /\ ledger \in Ledger /\ Idle \in Process
      BY <1>0, IdleIsGood DEF GoodProcess, GoodLedger, OpenPoints
    <3> QED BY <3>1 DEF Process
  <2>3. r.copy = ledger /\ r.pr = pr /\ r.tries = 0 /\ r.due = {}
    BY DEF Idle
  <2>4. GoodProcess(github, r)
    BY <1>0, <2>2, <2>3 DEF GoodProcess, GoodLedger, Coherent, LIVE_PR_RETRY_ATTEMPTS
  <2> QED BY <1>2, <2>1, <2>4, BecomeInv DEF StartOpen
<1>3. CASE SaveAttempt(p)
  BY <1>0, <1>3, IdleIsGood, SaveInv DEF SaveAttempt, GoIdle, derived, RealInv, TypeOK
<1>4. CASE Lookup(p)
  <2>1. Goto(p, "verify") \/ Goto(p, "create")
    BY <1>4 DEF Lookup
  <2>2. proc[p].pc = "lookup"
    BY <1>4 DEF Lookup, At
  <2> QED BY <1>1, <1>4, <2>1, <2>2, BecomeInv DEF Lookup, Goto, OpenPoints
<1>5. CASE Create(p)
  <2>1. /\ proc[p].pc = "create" /\ proc[p].pr \in PRs
        /\ proc[p].tries < LIVE_PR_RETRY_ATTEMPTS
        /\ UNCHANGED <<ledger, derived, completed, crashes>>
    BY <1>0, <1>5 DEF Create, At, GoodProcess, OpenPoints, Coherent
  <2>2. CASE CreateOk(p)
    <3>1. PICK n \in NewNumber(proc[p].pr) :
            /\ github' = [github EXCEPT ![n] = "open"]
            /\ Become(p, [proc[p] EXCEPT !.pc = "verify", !.pr = n])
      BY <2>2 DEF CreateOk
    <3>2. n \in PRs /\ github[n] = "none"
      BY <2>1, <3>1 DEF NewNumber
    <3>3. GoodProcess(github, [proc[p] EXCEPT !.pc = "verify", !.pr = n])
      BY <1>0, <3>2 DEF GoodProcess, Process, OpenPoints, Coherent
    <3> QED BY <2>1, <3>1, <3>2, <3>3, RequestInv
  <2>3. CASE CreateRefused(p)
    <3>1. GoodProcess(github, [proc[p] EXCEPT !.pc = "failed"])
      BY <1>1, <2>1 DEF OpenPoints
    <3> QED BY <2>1, <2>3, <3>1, RequestInv DEF CreateRefused, Goto
  <2>4. CASE CreateTransient(p)
    <3> DEFINE tries == proc[p].tries + 1
               r == [proc[p] EXCEPT !.tries = tries,
                        !.pc = IF tries < LIVE_PR_RETRY_ATTEMPTS THEN "create" ELSE "failed"]
    <3>1. Become(p, r)
      BY <2>4 DEF CreateTransient
    <3>2. proc[p].tries \in 0 .. 3 /\ tries \in 0 .. LIVE_PR_RETRY_ATTEMPTS
      BY <1>0, <2>1 DEF GoodProcess, Process, LIVE_PR_RETRY_ATTEMPTS
    <3>3. r.pr = proc[p].pr /\ r.copy = proc[p].copy /\ r.tries = tries
          /\ r.pc = IF tries < LIVE_PR_RETRY_ATTEMPTS THEN "create" ELSE "failed"
      BY <1>0 DEF GoodProcess, Process
    <3>4. r \in Process
      BY <1>0, <3>2 DEF GoodProcess, Process, OpenPoints
    <3>5. GoodProcess(github, r)
      BY <1>0, <2>1, <3>3, <3>4 DEF GoodProcess, Coherent
    <3>6. \/ github' = github
          \/ github[proc[p].pr] = "none" /\ github' = [github EXCEPT ![proc[p].pr] = "open"]
      BY <2>4 DEF CreateTransient
    <3> HIDE DEF r
    <3> QED BY <2>1, <3>1, <3>5, <3>6, RequestInv
  <2> QED BY <1>5, <2>2, <2>3, <2>4 DEF Create
<1>6. CASE Verify(p)
  <2>1. proc[p].pc = "verify"
    BY <1>6 DEF Verify, At
  <2> QED BY <1>1, <1>6, <2>1, IdleIsGood, BecomeInv DEF Verify, Goto, GoIdle, OpenPoints
<1>7. CASE RecordOpen(p)
  <2>1. proc[p].pr \in PRs
    BY <1>0, <1>7 DEF RecordOpen, At, GoodProcess, OpenPoints, Coherent
  <2>2. GoodLedger(github, RecordPr(proc[p].copy, proc[p].pr))
    BY <1>0, <2>1, RecordPrGood
  <2>3. GoodProcess(github, [Idle EXCEPT !.pc = "summarize", !.pr = proc[p].pr])
    BY <2>1, IdleIsGood DEF GoodProcess, Process, OpenPoints, Idle, Coherent
  <2>4. summary' \in [PRs -> {"none"} \cup PrStates]
        /\ \A pr \in PRs : summary'[pr] \in Settled => summary'[pr] = summary[pr]
    BY <1>7, <2>1 DEF RecordOpen, RealInv, TypeOK, Settled
  <2> QED BY <1>7, <2>2, <2>3, <2>4, SaveInv DEF RecordOpen
<1>8. CASE EndRun(p)
  <2>1. proc[p].pr \in PRs
    BY <1>0, <1>8 DEF EndRun, At, GoodProcess, OpenPoints, Coherent
  <2>2. summary' \in [PRs -> {"none"} \cup PrStates]
        /\ \A pr \in PRs : summary'[pr] \in Settled => github[pr] = summary'[pr]
    BY <1>8, <2>1 DEF EndRun, RealInv, TypeOK, Settled, PrStates
  <2>3. counts' \in [opened : Nat, merged : Nat]
    BY <1>8, CountsType, CountsAgree DEF EndRun, RealInv, TypeOK
  <2> QED BY <1>8, <2>2, <2>3, IdleIsGood
      DEF EndRun, GoIdle, Become, RealInv, TypeOK, GoodProcess
<1> QED BY <1>2, <1>3, <1>4, <1>5, <1>6, <1>7, <1>8 DEF Opening
LEMMA SaveCopyInv ==
  ASSUME RealInv, NEW p \in Procs, NEW r, GoodProcess(github, r), Become(p, r),
         ledger' = proc[p].copy, UNCHANGED <<github, derived, completed, crashes>>
  PROVE  RealInv'
<1>1. GoodLedger(github, proc[p].copy)
  BY ProcIsGood DEF GoodProcess, GoodLedger, Process
<1> QED BY <1>1, SaveInv DEF derived, RealInv, TypeOK

LEMMA TickingInv == ASSUME RealInv, NEW p \in Procs, Ticking(p) PROVE RealInv'
<1>0. /\ GoodProcess(github, proc[p])
      /\ GoodLedger(github, ledger)
      /\ GoodLedger(github, proc[p].copy)
  BY ProcIsGood, LedgerIsGood DEF GoodProcess, GoodLedger, Process
<1>1. ASSUME NEW base \in Process, NEW point \in TickPoints, NEW l, GoodLedger(github, l),
             NEW due \in SUBSET PRs,
             \A x \in due : IsTracked(l, x) /\ l.life[x].state \notin Settled
      PROVE  GoodProcess(github, [base EXCEPT !.pc = point, !.copy = l, !.due = due])
  <2> DEFINE r == [base EXCEPT !.pc = point, !.copy = l, !.due = due]
  <2>1. r \in Process
    BY <1>1 DEF GoodLedger, Process
  <2>2. r.copy = l /\ r.pc = point /\ r.due = due
    BY <1>1 DEF Process
  <2>3. point \notin OpenPoints
    BY <1>1 DEF OpenPoints, TickPoints
  <2>4. Coherent(r)
    BY <1>1, <2>2, <2>3 DEF Coherent, OpenPoints
  <2>5. Real(github, r.copy)
    BY <1>1, <2>2 DEF GoodLedger
  <2>6. GoodProcess(github, r)
    <3> HIDE DEF r
    <3> QED BY <2>1, <2>4, <2>5 DEF GoodProcess
  <2> QED BY <2>6
<1>2. CASE StartTick(p)
  <2> DEFINE l == Backfilled(ledger)
             synced == RefsSynced(l)
             next == CASE l # ledger \/ Synced(l) -> "presave"
                       [] ~(l # ledger \/ Synced(l)) /\ Due(synced) # {} -> "poll"
                       [] OTHER -> "idle"
             r == IF next = "idle" THEN Idle
                  ELSE [Idle EXCEPT !.pc = next, !.copy = synced, !.due = Due(synced)]
  <2>1. GoodLedger(github, l) /\ GoodLedger(github, synced)
    BY <1>0, BackfilledGood, RefsSyncedGood
  <2>2. next = "idle" \/ next \in TickPoints
    BY DEF TickPoints
  <2>3. GoodProcess(github, r)
    <3> HIDE DEF next, synced
    <3>1. Due(synced) \in SUBSET PRs
          /\ \A x \in Due(synced) : IsTracked(synced, x) /\ synced.life[x].state \notin Settled
      BY <2>1 DEF Due, GoodLedger, Real, RealRecord, Settled
    <3>2. Idle \in Process
      BY IdleIsGood DEF GoodProcess
    <3>3. CASE next = "idle"
      BY <3>3, IdleIsGood
    <3>4. CASE next \in TickPoints
      <4>1. next # "idle"
        BY <3>4 DEF TickPoints
      <4> QED BY <1>1, <2>1, <3>1, <3>2, <3>4, <4>1
    <3> QED BY <2>2, <3>3, <3>4
  <2>4. /\ Become(p, r)
        /\ summary' = SummariesOf(Terminal(l), l)
        /\ outcomes' = OutcomesOf(Terminal(l), l)
        /\ counts' = IF Terminal(l) # {} THEN CountsOf(synced) ELSE counts
        /\ UNCHANGED <<github, ledger, completed, crashes>>
    BY <1>2 DEF StartTick
  <2>5. Terminal(l) \in SUBSET PRs /\ \A pr \in Terminal(l) : IsTracked(l, pr)
    BY DEF Terminal
  <2>6. counts' \in [opened : Nat, merged : Nat]
    BY <2>4, CountsType DEF RealInv, TypeOK
  <2> HIDE DEF l, r, synced
  <2> QED BY <2>1, <2>3, <2>4, <2>5, <2>6, TickInv
<1>3. CASE PreSave(p)
  <2>1. GoodProcess(github, [proc[p] EXCEPT !.pc = "poll"])
    <3>1. [proc[p] EXCEPT !.pc = "poll"] \in Process
      BY <1>0 DEF GoodProcess, Process, TickPoints
    <3>2. [proc[p] EXCEPT !.pc = "poll"].pc = "poll"
          /\ [proc[p] EXCEPT !.pc = "poll"].copy = proc[p].copy
          /\ [proc[p] EXCEPT !.pc = "poll"].due = proc[p].due
      BY <1>0 DEF GoodProcess, Process
    <3> QED BY <1>0, <3>1, <3>2 DEF GoodProcess, GoodLedger, Coherent, OpenPoints
  <2> QED BY <1>3, <2>1, IdleIsGood, SaveCopyInv DEF PreSave, GoIdle, Goto
<1>4. ASSUME NEW pr \in PRs, NEW l, GoodLedger(github, l), Polled(p, pr, l),
             \A x \in PRs \ {pr} : l.life[x] = proc[p].copy.life[x]
      PROVE  \E r : GoodProcess(github, r) /\ Become(p, r)
  <2> DEFINE point == IF proc[p].due = {pr} THEN "save" ELSE "poll"
             due == proc[p].due \ {pr}
  <2>1. point \in TickPoints /\ due \in SUBSET PRs /\ proc[p] \in Process
    BY <1>0 DEF TickPoints, GoodProcess, Process
  <2>3. \A x \in due : IsTracked(l, x) /\ l.life[x].state \notin Settled
    BY <1>0, <1>4, <2>1 DEF GoodProcess, Coherent, IsTracked
  <2>2. Become(p, [proc[p] EXCEPT !.pc = point, !.copy = l, !.due = due])
    BY <1>4 DEF Polled
  <2> HIDE DEF point, due
  <2> QED BY <1>1, <1>4, <2>1, <2>2, <2>3
<1>5. ASSUME NEW pr \in PRs, PollRaises(p, pr) PROVE RealInv'
  <2> DEFINE l == Upsert(proc[p].copy, pr, ObservationFailed(proc[p].copy.life[pr]))
  <2>1. GoodLedger(github, l)
    <3>1. proc[p].copy.life[pr] \in LifeRecord
      BY <1>0, <1>5 DEF PollRaises, GoodProcess, GoodLedger, Coherent, IsTracked, Ledger
    <3> QED BY <1>0, <3>1, ObservationFailedReal, UpsertGood DEF GoodLedger, Real
  <2>2. Polled(p, pr, l)
    BY <1>5 DEF PollRaises
  <2>3. \A x \in PRs \ {pr} : l.life[x] = proc[p].copy.life[x]
    BY <1>0 DEF Upsert, GoodLedger, Ledger
  <2> HIDE DEF l
  <2> QED BY <1>4, <1>5, <2>1, <2>2, <2>3, BecomeInv DEF PollRaises
<1>6. ASSUME NEW pr \in PRs, NEW answer \in Answers, NEW changesRequested \in BOOLEAN,
             answer \in Settled => github[pr] = answer,
             PollAnswered(p, pr, answer, changesRequested)
      PROVE  RealInv'
  <2> DEFINE r == Observed(answer, changesRequested)
             u == Upsert(proc[p].copy, pr, r)
             l == UpdateFirstRef(u, pr, r.state)
  <2>1. r \in LifeRecord /\ RealRecord(github, pr, r)
    BY <1>6, ObservedReal
  <2>2. GoodLedger(github, u)
    BY <1>0, <2>1, UpsertGood
  <2>3. r.state \in PrStates /\ (r.state \in Settled => github[pr] = r.state)
    BY <2>1 DEF LifeRecord, RealRecord
  <2>4. GoodLedger(github, l)
    <3> HIDE DEF r, u
    <3> QED BY <2>2, <2>3, UpdateFirstRefGood
  <2>5. IsTracked(l, pr)
    <3>1. l.life = u.life /\ u.life[pr] = r
      BY <1>0, <2>1 DEF UpdateFirstRef, Upsert, GoodLedger, Ledger
    <3> QED BY <2>1, <3>1, LifeTypes DEF IsTracked
  <2>6. /\ Polled(p, pr, l)
        /\ summary' = SummariesOf({pr}, l) /\ outcomes' = OutcomesOf({pr}, l)
        /\ counts' = CountsOf(l)
        /\ UNCHANGED <<github, ledger, completed, crashes>>
    BY <1>6 DEF PollAnswered
  <2>8. \A x \in PRs \ {pr} : l.life[x] = proc[p].copy.life[x]
    <3>1. l.life = u.life /\ \A x \in PRs \ {pr} : u.life[x] = proc[p].copy.life[x]
      BY <1>0 DEF UpdateFirstRef, Upsert, GoodLedger, Ledger
    <3> QED BY <3>1
  <2> HIDE DEF l
  <2>7. PICK q : GoodProcess(github, q) /\ Become(p, q)
    BY <1>4, <2>4, <2>6, <2>8
  <2> QED BY <2>4, <2>5, <2>6, <2>7, CountsType, TickInv
<1>7. ASSUME NEW pr \in PRs, PollOk(p, pr) PROVE RealInv'
  BY <1>6, <1>7 DEF PollOk, Answers
<1>8. ASSUME NEW pr \in PRs, PollNotOk(p, pr) PROVE RealInv'
  BY <1>6, <1>8 DEF PollNotOk, Answers, Settled
<1>9. CASE SaveTick(p)
  BY <1>9, IdleIsGood, SaveCopyInv DEF SaveTick, GoIdle
<1> QED BY <1>2, <1>3, <1>5, <1>7, <1>8, <1>9 DEF Ticking

LEMMA EnvironmentInv ==
  ASSUME RealInv,
         \/ \E p \in Procs : Crash(p)
         \/ \E pr \in PRs, state \in PrStates : Settle(pr, state)
         \/ CompleteSeason
         \/ Interval
  PROVE  RealInv'
<1>1. ASSUME NEW p \in Procs, Crash(p) PROVE RealInv'
  <2>1. proc' \in [Procs -> Process]
        /\ \A q \in Procs : Real(github, proc'[q].copy) /\ Coherent(proc'[q])
    BY <1>1, IdleIsGood DEF Crash, GoIdle, Become, RealInv, TypeOK, GoodProcess
  <2>2. crashes' \in Nat
    BY <1>1 DEF Crash, RealInv, TypeOK
  <2> QED BY <1>1, <2>1, <2>2 DEF Crash, RealInv, TypeOK, derived
<1>2. ASSUME NEW pr \in PRs, NEW state \in PrStates, Settle(pr, state) PROVE RealInv'
  <2>1. /\ github' \in [PRs -> {"none"} \cup PrStates]
        /\ \A x \in PRs : github[x] \in Settled => github'[x] = github[x]
    BY <1>2 DEF Settle, RealInv, TypeOK, Settled
  <2>2. Real(github', ledger) /\ \A q \in Procs : Real(github', proc[q].copy)
    BY <2>1, GithubMoves DEF RealInv
  <2> QED BY <1>2, <2>1, <2>2 DEF Settle, RealInv, TypeOK, derived, Settled
<1>3. CASE CompleteSeason
  BY <1>3 DEF CompleteSeason, RealInv, TypeOK, derived
<1>4. CASE Interval
  <2>1. GoodLedger(github, ledger')
    BY <1>4, LedgerIsGood, AgedGood DEF Interval
  <2>2. ASSUME NEW p \in Procs PROVE GoodProcess(github, [proc[p] EXCEPT !.copy = Aged(@)])
    <3>1. GoodProcess(github, proc[p]) /\ GoodLedger(github, Aged(proc[p].copy))
      BY ProcIsGood, AgedGood DEF GoodProcess, GoodLedger, Process
    <3>2. \A x \in proc[p].due : IsTracked(Aged(proc[p].copy), x)
                               /\ Aged(proc[p].copy).life[x].state \notin Settled
      <4> SUFFICES ASSUME NEW x \in proc[p].due
                   PROVE  /\ IsTracked(Aged(proc[p].copy), x)
                          /\ Aged(proc[p].copy).life[x].state \notin Settled
        OBVIOUS
      <4>1. x \in PRs /\ proc[p].copy.life[x] \in LifeRecord
            /\ proc[p].copy.life[x].state \notin Settled
        BY <3>1 DEF GoodProcess, Coherent, IsTracked, Process, Ledger
      <4>2. Aged(proc[p].copy).life[x] =
              IF proc[p].copy.life[x].wait = 0 THEN proc[p].copy.life[x]
              ELSE [proc[p].copy.life[x] EXCEPT !.wait = @ - 1]
        BY <3>1, <4>1 DEF Aged, GoodProcess, Process, Ledger
      <4> QED BY <4>1, <4>2, LifeTypes DEF IsTracked, LifeRecord
    <3> QED BY <3>1, <3>2 DEF GoodProcess, GoodLedger, Process, Coherent
  <2>3. proc' = [p \in Procs |-> [proc[p] EXCEPT !.copy = Aged(@)]]
    BY <1>4 DEF Interval
  <2>4. proc' \in [Procs -> Process]
        /\ \A q \in Procs : Real(github, proc'[q].copy) /\ Coherent(proc'[q])
    BY <2>2, <2>3 DEF GoodProcess
  <2> QED BY <1>4, <2>1, <2>4 DEF Interval, RealInv, TypeOK, derived, GoodLedger
<1> QED BY <1>1, <1>2, <1>3, <1>4

LEMMA RealNext == ASSUME RealInv, [Next]_vars PROVE RealInv'
<1>1. CASE Next
  BY <1>1, OpeningInv, TickingInv, EnvironmentInv DEF Next
<1>2. CASE UNCHANGED vars
  BY <1>2 DEF vars, RealInv, TypeOK
<1> QED BY <1>1, <1>2

-----------------------------------------------------------------------------
(* RealInv holds whatever overlaps, fails or crashes.                      *)
THEOREM LedgersAreReal == Spec => []RealInv
  BY RealInit, RealNext, PTL DEF Spec

(* Types, for every instance.                                              *)
THEOREM TypeCorrect == Spec => []TypeOK
<1>1. RealInv => TypeOK
  BY DEF RealInv
<1> QED BY <1>1, LedgersAreReal, PTL

(* No ledger, no copy that will be saved, no summary and no post-completion *)
(* row says merged or closed of a PR the maintainers have not settled so.  *)
THEOREM RecordedOutcomesAreReal == Spec => []OutcomesAreReal
<1>1. RealInv => OutcomesAreReal
  BY DEF RealInv, OutcomesAreReal, NeverAheadOf, Real, RealRecord, RealRefs, Settled
<1> QED BY <1>1, LedgersAreReal, PTL

(* A PR's outcome is appended to post_completion_outcomes.jsonl only once. *)
THEOREM OutcomesAppendedOnce == Spec => []OneRowPerOutcome
<1>1. RealInv => OneRowPerOutcome
  BY DEF RealInv, OneRowPerOutcome
<1> QED BY <1>1, LedgersAreReal, PTL
-----------------------------------------------------------------------------
(* What the ledger keeps, when no process loads it while another holds a   *)
(* copy that it will save (Overlap = FALSE): the one process at work holds *)
(* a copy that says all the file says, and more.                           *)

OneAtWork == \A p, q \in Procs : ~At(p, "idle") /\ ~At(q, "idle") => p = q

Extends(a, b) ==
  \A pr \in PRs :
    /\ IsTracked(a, pr) => IsTracked(b, pr)
    /\ a.life[pr].state \in Settled => b.life[pr].state = a.life[pr].state
    /\ Len(b.refs[pr]) >= Len(a.refs[pr])

(* r is a process, l the file.  A PR about to be recorded as fresh is not  *)
(* one whose outcome is known.                                             *)
Faithful(l, r) ==
  /\ r.pc \notin {"idle", "summarize"} => Extends(l, r.copy)
  /\ r.pc \in {"verify", "record"} => r.copy.life[r.pr].state \notin Settled

KeptInv == OneAtWork /\ \A p \in Procs : Faithful(ledger, proc[p])

LEMMA RefLengths ==
  ASSUME NEW l \in Ledger, NEW pr \in PRs
  PROVE  /\ l.refs[pr] \in Seq(PrStates) /\ Len(l.refs[pr]) \in Nat
         /\ l.life[pr] \in LifeRecord \cup {Untracked}
  BY DEF Ledger

LEMMA ExtendsItself == ASSUME NEW l \in Ledger PROVE Extends(l, l)
  BY RefLengths DEF Extends

LEMMA UpsertExtends ==
  ASSUME NEW a, NEW b \in Ledger, Extends(a, b), NEW pr \in PRs, NEW r \in LifeRecord,
         b.life[pr].state \in Settled => r.state = b.life[pr].state
  PROVE  Extends(a, Upsert(b, pr, r))
<1>1. /\ Upsert(b, pr, r).refs = b.refs
      /\ Upsert(b, pr, r).life = [b.life EXCEPT ![pr] = r]
  BY DEF Upsert, Ledger
<1>2. b.life \in [PRs -> LifeRecord \cup {Untracked}] /\ r # Untracked
  BY LifeTypes DEF Ledger
<1> QED BY <1>1, <1>2 DEF Extends, IsTracked

LEMMA RecordExtends ==
  ASSUME NEW a \in Ledger, NEW b \in Ledger, Extends(a, b), NEW pr \in PRs,
         b.life[pr].state \notin Settled
  PROVE  Extends(a, RecordPr(b, pr))
<1> DEFINE s == Append(b.refs[pr], "open")
<1>1. s \in Seq(PrStates) /\ Len(s) = Len(b.refs[pr]) + 1
  BY RefLengths DEF PrStates
<1>2. RecordRef(b, pr).life = b.life /\ RecordRef(b, pr).refs = [b.refs EXCEPT ![pr] = s]
  BY DEF RecordRef, Ledger
<1>3. RecordRef(b, pr) \in Ledger
  BY <1>1 DEF RecordRef, Ledger
<1> HIDE DEF s
<1>4. Extends(a, RecordRef(b, pr))
  <2> SUFFICES ASSUME NEW x \in PRs
               PROVE  /\ IsTracked(a, x) => IsTracked(RecordRef(b, pr), x)
                      /\ a.life[x].state \in Settled
                           => RecordRef(b, pr).life[x].state = a.life[x].state
                      /\ Len(RecordRef(b, pr).refs[x]) >= Len(a.refs[x])
    BY DEF Extends
  <2>1. Len(RecordRef(b, pr).refs[x]) >= Len(b.refs[x])
    BY <1>1, <1>2, RefLengths DEF Ledger
  <2>2. Len(RecordRef(b, pr).refs[x]) \in Nat
    BY <1>3, RefLengths
  <2>3. Len(b.refs[x]) >= Len(a.refs[x])
    BY DEF Extends
  <2>4. Len(RecordRef(b, pr).refs[x]) >= Len(a.refs[x])
    <3> DEFINE n == Len(RecordRef(b, pr).refs[x])
               k == Len(b.refs[x])
               m == Len(a.refs[x])
    <3>1. n \in Nat /\ k \in Nat /\ m \in Nat /\ n >= k /\ k >= m
      BY <2>1, <2>2, <2>3, RefLengths
    <3> HIDE DEF n, k, m
    <3>2. n >= m
      BY <3>1
    <3> QED BY <3>2 DEF n, m
  <2>5. RecordRef(b, pr).life[x] = b.life[x]
    BY <1>2
  <2>6. /\ IsTracked(a, x) => IsTracked(b, x)
        /\ a.life[x].state \in Settled => b.life[x].state = a.life[x].state
    BY DEF Extends
  <2> QED BY <2>4, <2>5, <2>6 DEF IsTracked
<1>5. RecordRef(b, pr).life[pr].state \notin Settled
  BY <1>2
<1> QED BY <1>3, <1>4, <1>5, UpsertExtends, LifeTypes DEF RecordPr

LEMMA FirstRefExtends ==
  ASSUME NEW a, NEW b \in Ledger, Extends(a, b), NEW pr \in PRs, NEW state \in PrStates
  PROVE  Extends(a, UpdateFirstRef(b, pr, state))
<1>1. CASE b.refs[pr] = <<>>
  BY <1>1 DEF UpdateFirstRef
<1>2. CASE b.refs[pr] # <<>>
  <2> DEFINE s == [b.refs[pr] EXCEPT ![1] = state]
  <2>0. b.refs[pr] \in Seq(PrStates)
    BY RefLengths
  <2>1. s \in Seq(PrStates) /\ Len(s) = Len(b.refs[pr])
    BY <1>2, <2>0
  <2>2. UpdateFirstRef(b, pr, state) = [b EXCEPT !.refs[pr] = s]
    BY <1>2 DEF UpdateFirstRef, Ledger
  <2> HIDE DEF s
  <2>3. /\ UpdateFirstRef(b, pr, state).life = b.life
        /\ UpdateFirstRef(b, pr, state).refs = [b.refs EXCEPT ![pr] = s]
    BY <2>2 DEF Ledger
  <2>4. \A x \in PRs : Len(UpdateFirstRef(b, pr, state).refs[x]) = Len(b.refs[x])
    BY <2>1, <2>3 DEF Ledger
  <2> QED BY <2>3, <2>4 DEF Extends, IsTracked
<1> QED BY <1>1, <1>2

LEMMA SyncedExtends ==
  ASSUME NEW l \in Ledger PROVE Extends(l, RefsSynced(Backfilled(l)))
<1> DEFINE b == Backfilled(l)
           r == RefsSynced(b)
<1>1. /\ b.refs = l.refs
      /\ \A pr \in PRs : b.life[pr] = IF l.refs[pr] # <<>> /\ ~IsTracked(l, pr)
                                      THEN Fresh ELSE l.life[pr]
  BY DEF Backfilled, Ledger
<1>2. /\ r.life = b.life
      /\ \A pr \in PRs : r.refs[pr] = IF IsTracked(b, pr) /\ IsTerminal(b.life[pr])
                                      THEN [i \in DOMAIN b.refs[pr] |-> PrStateOf(b.life[pr])]
                                      ELSE b.refs[pr]
  BY DEF RefsSynced, Backfilled, Ledger
<1> HIDE DEF b, r
<1>3. Extends(l, r)
  <2> SUFFICES ASSUME NEW pr \in PRs
               PROVE  /\ IsTracked(l, pr) => IsTracked(r, pr)
                      /\ l.life[pr].state \in Settled => r.life[pr].state = l.life[pr].state
                      /\ Len(r.refs[pr]) >= Len(l.refs[pr])
    BY DEF Extends
  <2>1. IsTracked(l, pr) => r.life[pr] = l.life[pr]
    BY <1>1, <1>2
  <2>2. ~IsTracked(l, pr) => l.life[pr].state \notin Settled
    BY LifeTypes DEF IsTracked, Settled
  <2>3. Len(r.refs[pr]) = Len(l.refs[pr])
    <3>1. /\ l.refs[pr] \in Seq(PrStates) /\ Len(l.refs[pr]) \in Nat
          /\ DOMAIN l.refs[pr] = 1 .. Len(l.refs[pr])
      BY RefLengths
    <3>2. \/ r.refs[pr] = l.refs[pr]
          \/ r.refs[pr] = [i \in 1 .. Len(l.refs[pr]) |-> PrStateOf(b.life[pr])]
      BY <1>1, <1>2, <3>1
    <3> QED BY <3>1, <3>2
  <2> QED BY <2>1, <2>2, <2>3, RefLengths DEF IsTracked
<1> QED BY <1>3 DEF b, r

LEMMA AgedSame ==
  ASSUME NEW l \in Ledger
  PROVE  /\ Aged(l).refs = l.refs
         /\ \A pr \in PRs : /\ IsTracked(Aged(l), pr) <=> IsTracked(l, pr)
                            /\ Aged(l).life[pr].state = l.life[pr].state
<1>1. /\ Aged(l).refs = l.refs
      /\ \A pr \in PRs : Aged(l).life[pr] = IF l.life[pr].wait = 0 THEN l.life[pr]
                                            ELSE [l.life[pr] EXCEPT !.wait = @ - 1]
  BY DEF Aged, Ledger
<1>2. ASSUME NEW pr \in PRs
      PROVE  /\ IsTracked(Aged(l), pr) <=> IsTracked(l, pr)
             /\ Aged(l).life[pr].state = l.life[pr].state
  <2>1. CASE l.life[pr].wait = 0
    BY <1>1, <2>1 DEF IsTracked
  <2>2. CASE l.life[pr].wait # 0
    <3>1. l.life[pr] \in LifeRecord
      BY <2>2, RefLengths, LifeTypes
    <3>2. Aged(l).life[pr] = [l.life[pr] EXCEPT !.wait = @ - 1]
      BY <1>1, <2>2
    <3>3. Aged(l).life[pr].state = l.life[pr].state /\ l.life[pr].state # "none"
      BY <3>1, <3>2 DEF LifeRecord, PrStates
    <3> QED BY <3>1, <3>3, LifeTypes DEF IsTracked
  <2> QED BY <2>1, <2>2
<1> QED BY <1>1, <1>2

LEMMA AgedExtends ==
  ASSUME NEW a \in Ledger, NEW b \in Ledger
  PROVE  Extends(a, Aged(a)) /\ (Extends(a, b) => Extends(Aged(a), Aged(b)))
  BY AgedSame, RefLengths DEF Extends
(* One process goes on, or starts while nobody is at work.                 *)
LEMMA OneStep ==
  ASSUME RealInv, OneAtWork, NEW p \in Procs, NEW r, Become(p, r),
         ~At(p, "idle") \/ \A o \in Procs : At(o, "idle")
  PROVE  /\ OneAtWork'
         /\ proc'[p] = r
         /\ \A o \in Procs \ {p} : proc'[o] = proc[o] /\ proc[o].pc = "idle"
<1>1. proc'[p] = r /\ \A o \in Procs \ {p} : proc'[o] = proc[o]
  BY DEF Become, RealInv, TypeOK
<1>2. \A o \in Procs \ {p} : proc[o].pc = "idle"
  BY DEF OneAtWork, At
<1> QED BY <1>1, <1>2 DEF OneAtWork, At

LEMMA KeptStep ==
  ASSUME RealInv, KeptInv, NEW p \in Procs, NEW r, Become(p, r),
         ~At(p, "idle") \/ \A o \in Procs : At(o, "idle"), Faithful(ledger', r)
  PROVE  KeptInv'
<1>1. /\ OneAtWork' /\ proc'[p] = r
      /\ \A o \in Procs \ {p} : proc'[o] = proc[o] /\ proc[o].pc = "idle"
  BY OneStep DEF KeptInv
<1>2. \A o \in Procs \ {p} : Faithful(ledger', proc'[o])
  BY <1>1 DEF Faithful
<1> QED BY <1>1, <1>2 DEF KeptInv

LEMMA IdleFaithful == \A l : Faithful(l, Idle)
  BY DEF Faithful, Idle

LEMMA NothingLost == ASSUME RealInv, UNCHANGED ledger PROVE Extends(ledger, ledger')
  BY LedgerIsGood, ExtendsItself DEF GoodLedger

(* The process goes on with the copy that it holds, for the PR pr.         *)
LEMMA CopyFaithful ==
  ASSUME RealInv, KeptInv, NEW p \in Procs, proc[p].pc \notin {"idle", "summarize"},
         NEW r, r.copy = proc[p].copy,
         r.pc \in {"verify", "record"} => proc[p].copy.life[r.pr].state \notin Settled
  PROVE  Faithful(ledger, r)
  BY DEF KeptInv, Faithful

LEMMA OpenNotSettled ==
  ASSUME RealInv, NEW p \in Procs, NEW pr \in PRs, github[pr] \in {"none", "open"}
  PROVE  proc[p].copy.life[pr].state \notin Settled
  BY ProcIsGood DEF GoodProcess, Real, RealRecord, Settled

LEMMA OpeningKeeps ==
  ASSUME Overlap = FALSE, RealInv, KeptInv, NEW p \in Procs, Opening(p)
  PROVE  KeptInv' /\ Extends(ledger, ledger')
<1> USE DEF At
<1>0. /\ proc[p] \in Process /\ Real(github, proc[p].copy) /\ Coherent(proc[p])
      /\ ledger \in Ledger /\ proc[p].copy \in Ledger
  BY ProcIsGood, LedgerIsGood DEF GoodProcess, GoodLedger, Process
<1>1. Faithful(ledger, proc[p])
  BY DEF KeptInv
<1>2. ASSUME NEW pr \in PRs, StartOpen(p, pr) PROVE KeptInv' /\ Extends(ledger, ledger')
  <2>1. PICK point \in {"blocked", "lookup"} :
          Become(p, [Idle EXCEPT !.pc = point, !.pr = pr, !.copy = ledger])
    BY <1>2, Zenon DEF StartOpen
  <2> DEFINE r == [Idle EXCEPT !.pc = point, !.pr = pr, !.copy = ledger]
  <2>2. r.copy = ledger /\ r.pc = point
    BY DEF Idle
  <2>3. UNCHANGED ledger /\ \A o \in Procs : At(o, "idle")
    BY <1>2 DEF StartOpen, MayStart
  <2>4. Faithful(ledger', r)
    BY <1>0, <2>2, <2>3, ExtendsItself DEF Faithful
  <2> HIDE DEF r
  <2> QED BY <2>1, <2>3, <2>4, KeptStep, NothingLost DEF r
<1>3. CASE SaveAttempt(p)
  <2>1. ledger' = proc[p].copy /\ Become(p, Idle) /\ proc[p].pc \in {"blocked", "failed"}
    BY <1>3 DEF SaveAttempt, GoIdle
  <2> QED BY <1>1, <2>1, IdleFaithful, KeptStep DEF Faithful
<1>4. CASE Lookup(p)
  <2>0. UNCHANGED ledger /\ proc[p].pc = "lookup" /\ proc[p].pr \in PRs
    BY <1>0, <1>4 DEF Lookup, Coherent, OpenPoints
  <2>1. PICK point \in {"verify", "create"} :
          /\ Become(p, [proc[p] EXCEPT !.pc = point])
          /\ point = "verify" => github[proc[p].pr] = "open"
    BY <1>4 DEF Lookup, Goto, Found
  <2> DEFINE r == [proc[p] EXCEPT !.pc = point]
  <2>2. r.copy = proc[p].copy /\ r.pc = point /\ r.pr = proc[p].pr
    BY <1>0 DEF Process
  <2> HIDE DEF r
  <2>3. Faithful(ledger, r)
    BY <2>0, <2>1, <2>2, CopyFaithful, OpenNotSettled
  <2> QED BY <2>0, <2>1, <2>3, KeptStep, NothingLost DEF r
<1>5. CASE Create(p)
  <2>0. UNCHANGED ledger /\ proc[p].pc = "create" /\ proc[p].pr \in PRs
    BY <1>0, <1>5 DEF Create, Coherent, OpenPoints
  <2>1. PICK r :
          /\ Become(p, r) /\ r.copy = proc[p].copy
          /\ r.pc \in {"verify", "record"} => r.pr \in PRs /\ github[r.pr] = "none"
    <3>1. CASE CreateOk(p)
      <4>1. PICK n \in NewNumber(proc[p].pr) : Become(p, [proc[p] EXCEPT !.pc = "verify", !.pr = n])
        BY <3>1 DEF CreateOk
      <4> DEFINE r == [proc[p] EXCEPT !.pc = "verify", !.pr = n]
      <4>2. r.copy = proc[p].copy /\ r.pr = n
        BY <1>0 DEF Process
      <4>3. n \in PRs /\ github[n] = "none"
        BY <2>0, <4>1 DEF NewNumber
      <4> HIDE DEF r
      <4> QED BY <4>1, <4>2, <4>3 DEF r
    <3>2. CASE CreateRefused(p)
      <4> DEFINE r == [proc[p] EXCEPT !.pc = "failed"]
      <4>1. r.copy = proc[p].copy /\ r.pc = "failed"
        BY <1>0 DEF Process
      <4>2. Become(p, r)
        BY <3>2 DEF CreateRefused, Goto
      <4> HIDE DEF r
      <4> QED BY <4>1, <4>2
    <3>3. CASE CreateTransient(p)
      <4> DEFINE tries == proc[p].tries + 1
                 point == IF tries < LIVE_PR_RETRY_ATTEMPTS THEN "create" ELSE "failed"
                 r == [proc[p] EXCEPT !.tries = tries, !.pc = point]
      <4>1. Become(p, r)
        BY <3>3 DEF CreateTransient
      <4>2. point \notin {"verify", "record"}
        OBVIOUS
      <4> HIDE DEF tries, point
      <4>3. r.copy = proc[p].copy /\ r.pc = point
        BY <1>0 DEF Process
      <4> HIDE DEF r
      <4> QED BY <4>1, <4>2, <4>3
    <3> QED BY <1>5, <3>1, <3>2, <3>3 DEF Create
  <2>2. Faithful(ledger, r)
    BY <2>0, <2>1, CopyFaithful, OpenNotSettled
  <2> QED BY <2>0, <2>1, <2>2, KeptStep, NothingLost
<1>6. CASE Verify(p)
  <2>0. UNCHANGED ledger /\ proc[p].pc = "verify"
    BY <1>6 DEF Verify
  <2>1. CASE Become(p, Idle)
    BY <2>0, <2>1, IdleFaithful, KeptStep, NothingLost
  <2>2. CASE Goto(p, "record")
    <3> DEFINE r == [proc[p] EXCEPT !.pc = "record"]
    <3>1. r.copy = proc[p].copy /\ r.pr = proc[p].pr
      BY <1>0 DEF Process
    <3>2. Become(p, r)
      BY <2>2 DEF Goto
    <3> HIDE DEF r
    <3>3. Faithful(ledger, r)
      BY <1>1, <2>0, <3>1, CopyFaithful DEF Faithful
    <3> QED BY <2>0, <3>2, <3>3, KeptStep, NothingLost
  <2> QED BY <1>6, <2>1, <2>2 DEF Verify, GoIdle
<1>7. CASE RecordOpen(p)
  <2> DEFINE r == [Idle EXCEPT !.pc = "summarize", !.pr = proc[p].pr]
  <2>0. /\ ledger' = RecordPr(proc[p].copy, proc[p].pr) /\ Become(p, r)
        /\ proc[p].pc = "record" /\ proc[p].pr \in PRs
    BY <1>0, <1>7 DEF RecordOpen, Coherent, OpenPoints
  <2>1. Faithful(ledger', r)
    BY DEF Faithful, Idle
  <2>2. Extends(ledger, RecordPr(proc[p].copy, proc[p].pr))
    BY <1>0, <1>1, <2>0, RecordExtends DEF Faithful
  <2> HIDE DEF r
  <2> QED BY <2>0, <2>1, <2>2, KeptStep
<1>8. CASE EndRun(p)
  <2>1. UNCHANGED ledger /\ Become(p, Idle) /\ proc[p].pc = "summarize"
    BY <1>8 DEF EndRun, GoIdle
  <2> QED BY <2>1, IdleFaithful, KeptStep, NothingLost
<1> QED BY <1>2, <1>3, <1>4, <1>5, <1>6, <1>7, <1>8 DEF Opening

LEMMA TickingKeeps ==
  ASSUME Overlap = FALSE, RealInv, KeptInv, NEW p \in Procs, Ticking(p)
  PROVE  KeptInv' /\ Extends(ledger, ledger')
<1> USE DEF At
<1>0. /\ proc[p] \in Process /\ Real(github, proc[p].copy) /\ Coherent(proc[p])
      /\ ledger \in Ledger /\ proc[p].copy \in Ledger
  BY ProcIsGood, LedgerIsGood DEF GoodProcess, GoodLedger, Process
<1>1. Faithful(ledger, proc[p])
  BY DEF KeptInv
<1>2. CASE StartTick(p)
  <2> DEFINE synced == RefsSynced(Backfilled(ledger))
  <2>0. UNCHANGED ledger /\ \A o \in Procs : At(o, "idle")
    BY <1>2 DEF StartTick, MayStart
  <2>1. PICK point \in {"idle", "presave", "poll"} :
          Become(p, IF point = "idle" THEN Idle
                    ELSE [Idle EXCEPT !.pc = point, !.copy = synced, !.due = Due(synced)])
    BY <1>2, Zenon DEF StartTick
  <2>2. CASE point = "idle"
    BY <2>0, <2>1, <2>2, IdleFaithful, KeptStep, NothingLost
  <2>3. CASE point # "idle"
    <3> DEFINE r == [Idle EXCEPT !.pc = point, !.copy = synced, !.due = Due(synced)]
    <3>1. Extends(ledger, synced)
      BY <1>0, SyncedExtends
    <3>2. Become(p, r)
      BY <2>1, <2>3
    <3> HIDE DEF synced
    <3>3. r.copy = synced /\ r.pc = point
      BY DEF Idle
    <3> HIDE DEF r
    <3>4. Faithful(ledger', r)
      BY <2>0, <3>1, <3>3 DEF Faithful
    <3> QED BY <2>0, <3>2, <3>4, KeptStep, NothingLost
  <2> QED BY <2>2, <2>3
<1>3. CASE PreSave(p)
  <2>0. ledger' = proc[p].copy /\ proc[p].pc = "presave" /\ Extends(ledger, ledger')
    BY <1>1, <1>3 DEF PreSave, Faithful
  <2>1. CASE Become(p, Idle)
    BY <2>0, <2>1, IdleFaithful, KeptStep
  <2>2. CASE Goto(p, "poll")
    <3> DEFINE r == [proc[p] EXCEPT !.pc = "poll"]
    <3>1. r.copy = proc[p].copy /\ r.pc = "poll"
      BY <1>0 DEF Process
    <3>2. Become(p, r)
      BY <2>2 DEF Goto
    <3> HIDE DEF r
    <3>3. Faithful(ledger', r)
      BY <1>0, <2>0, <3>1, ExtendsItself DEF Faithful
    <3> QED BY <2>0, <3>2, <3>3, KeptStep
  <2> QED BY <1>3, <2>1, <2>2 DEF PreSave, GoIdle
<1>4. ASSUME NEW pr \in PRs, NEW l, Polled(p, pr, l), proc[p].pc = "poll", UNCHANGED ledger,
             Extends(ledger, l)
      PROVE  KeptInv' /\ Extends(ledger, ledger')
  <2> DEFINE point == IF proc[p].due = {pr} THEN "save" ELSE "poll"
             r == [proc[p] EXCEPT !.copy = l, !.due = @ \ {pr}, !.pc = point]
  <2>1. Become(p, r)
    BY <1>4 DEF Polled
  <2>2. point \in {"save", "poll"}
    OBVIOUS
  <2> HIDE DEF point
  <2>3. r.copy = l /\ r.pc = point
    BY <1>0 DEF Process
  <2> HIDE DEF r
  <2>4. Faithful(ledger', r)
    BY <1>4, <2>2, <2>3 DEF Faithful
  <2> QED BY <1>4, <2>1, <2>4, KeptStep, NothingLost
<1>5. ASSUME proc[p].pc = "poll" PROVE Extends(ledger, proc[p].copy)
  BY <1>1, <1>5 DEF Faithful
<1>6. ASSUME NEW pr \in PRs, PollRaises(p, pr) PROVE KeptInv' /\ Extends(ledger, ledger')
  <2> DEFINE c == proc[p].copy
             r == ObservationFailed(c.life[pr])
  <2>0. /\ proc[p].pc = "poll" /\ pr \in proc[p].due /\ UNCHANGED ledger
        /\ Polled(p, pr, Upsert(c, pr, r))
    BY <1>6 DEF PollRaises
  <2>1. c.life[pr] \in LifeRecord /\ RealRecord(github, pr, c.life[pr])
    BY <1>0, <2>0 DEF Coherent, IsTracked, Ledger, Real
  <2>2. r \in LifeRecord /\ r.state = c.life[pr].state
    <3>1. r \in LifeRecord
      BY <2>1, ObservationFailedReal
    <3>2. r.state = c.life[pr].state
      BY <2>1 DEF ObservationFailed, LifeRecord
    <3> QED BY <3>1, <3>2
  <2> HIDE DEF r
  <2>3. Extends(ledger, Upsert(c, pr, r))
    BY <1>0, <1>5, <2>0, <2>2, UpsertExtends
  <2> QED BY <1>4, <2>0, <2>3
<1>7. ASSUME NEW pr \in PRs, PollOk(p, pr) \/ PollNotOk(p, pr)
      PROVE  KeptInv' /\ Extends(ledger, ledger')
  <2>1. PICK answer \in Answers : \E changesRequested \in BOOLEAN :
          PollAnswered(p, pr, answer, changesRequested)
    BY <1>7 DEF PollOk, PollNotOk, Answers
  <2>2. PICK changesRequested \in BOOLEAN : PollAnswered(p, pr, answer, changesRequested)
    BY <2>1
  <2> DEFINE c == proc[p].copy
             r == Observed(answer, changesRequested)
             u == Upsert(c, pr, r)
             l == UpdateFirstRef(u, pr, r.state)
  <2>3. /\ proc[p].pc = "poll" /\ pr \in proc[p].due /\ UNCHANGED ledger
        /\ Polled(p, pr, l)
    BY <2>2 DEF PollAnswered
  <2>4. r \in LifeRecord /\ r.state \in PrStates
    BY DEF Observed, GithubStateOf, Classify, Answers, PrStates, Statuses, LifeRecord
  <2>5. c.life[pr].state \notin Settled
    BY <1>0, <2>3 DEF Coherent
  <2> HIDE DEF r
  <2>6. Extends(ledger, u)
    BY <1>0, <1>5, <2>3, <2>4, <2>5, UpsertExtends
  <2>7. u \in Ledger
    BY <1>0, <2>4 DEF Upsert, Ledger
  <2> HIDE DEF u
  <2>8. Extends(ledger, l)
    BY <2>4, <2>6, <2>7, FirstRefExtends
  <2> HIDE DEF l
  <2> QED BY <1>4, <2>3, <2>8
<1>8. CASE SaveTick(p)
  <2>1. ledger' = proc[p].copy /\ Become(p, Idle) /\ proc[p].pc = "save"
    BY <1>8 DEF SaveTick, GoIdle
  <2> QED BY <1>1, <2>1, IdleFaithful, KeptStep DEF Faithful
<1> QED BY <1>2, <1>3, <1>6, <1>7, <1>8 DEF Ticking

LEMMA IntervalKeeps ==
  ASSUME RealInv, KeptInv, Interval PROVE KeptInv' /\ Extends(ledger, ledger')
<1>0. ledger \in Ledger /\ \A p \in Procs : proc[p] \in Process /\ proc[p].copy \in Ledger
  BY ProcIsGood, LedgerIsGood DEF GoodProcess, GoodLedger, Process
<1>1. /\ ledger' = Aged(ledger)
      /\ \A p \in Procs : proc'[p] = [proc[p] EXCEPT !.copy = Aged(@)]
  BY DEF Interval
<1>2. \A p \in Procs : /\ proc'[p].pc = proc[p].pc /\ proc'[p].pr = proc[p].pr
                       /\ proc'[p].copy = Aged(proc[p].copy)
  BY <1>0, <1>1 DEF Process
<1>3. OneAtWork'
  BY <1>2 DEF KeptInv, OneAtWork, At
<1>4. ASSUME NEW p \in Procs PROVE Faithful(ledger', proc'[p])
  <2>1. Faithful(ledger, proc[p]) /\ Coherent(proc[p])
    BY ProcIsGood DEF KeptInv, GoodProcess
  <2>2. proc[p].pc \notin {"idle", "summarize"} => Extends(ledger', proc'[p].copy)
    BY <1>0, <1>1, <1>2, <2>1, AgedExtends DEF Faithful
  <2>3. proc[p].pc \in {"verify", "record"}
          => proc'[p].copy.life[proc'[p].pr].state \notin Settled
    BY <1>0, <1>2, <2>1, AgedSame DEF Faithful, Coherent, OpenPoints
  <2> QED BY <1>2, <2>2, <2>3 DEF Faithful
<1> QED BY <1>0, <1>1, <1>3, <1>4, AgedExtends DEF KeptInv

LEMMA NextKeeps ==
  ASSUME Overlap = FALSE, RealInv, KeptInv, [Next]_vars
  PROVE  KeptInv' /\ Extends(ledger, ledger')
<1>1. ASSUME NEW p \in Procs, Crash(p) PROVE KeptInv' /\ Extends(ledger, ledger')
  <2>1. UNCHANGED ledger /\ Become(p, Idle) /\ ~At(p, "idle")
    BY <1>1 DEF Crash, GoIdle
  <2> QED BY <2>1, IdleFaithful, KeptStep, NothingLost
<1>2. CASE UNCHANGED <<ledger, proc>>
  BY <1>2, NothingLost DEF KeptInv, OneAtWork, At
<1>3. CASE Interval
  BY <1>3, IntervalKeeps
<1>4. CASE UNCHANGED vars
  BY <1>2, <1>4 DEF vars
<1>5. ASSUME NEW pr \in PRs, NEW state \in PrStates, Settle(pr, state)
      PROVE  KeptInv' /\ Extends(ledger, ledger')
  BY <1>2, <1>5 DEF Settle
<1>6. CASE CompleteSeason
  BY <1>2, <1>6 DEF CompleteSeason
<1> QED BY <1>1, <1>3, <1>4, <1>5, <1>6, OpeningKeeps, TickingKeeps DEF Next

(* When no process loads a ledger that another will save, every copy that  *)
(* will be saved has kept all that pr_history.json says.                   *)
THEOREM LedgersAreKept == ASSUME Overlap = FALSE PROVE Spec => []KeptInv
<1>1. Init => KeptInv
  <2> SUFFICES ASSUME Init PROVE KeptInv
    OBVIOUS
  <2>1. \A p \in Procs : proc[p] = Idle
    BY DEF Init
  <2>2. \A p \in Procs : At(p, "idle")
    BY <2>1 DEF At, Idle
  <2> QED BY <2>1, <2>2, IdleFaithful DEF KeptInv, OneAtWork
<1>2. RealInv /\ KeptInv /\ [Next]_vars => KeptInv'
  BY NextKeeps
<1> QED BY <1>1, <1>2, LedgersAreReal, PTL DEF Spec

(* ... so that no save ever forgets a PR or takes a recorded outcome back, *)
(* whatever fails or crashes.                                              *)
THEOREM LedgerNeverForgets == ASSUME Overlap = FALSE PROVE Spec => NothingForgotten
<1>1. RealInv /\ KeptInv /\ [Next]_vars
        => [\A pr \in PRs :
              /\ IsTracked(ledger, pr) => IsTracked(ledger, pr)'
              /\ ledger.life[pr].state \in {"merged", "closed"}
                   => ledger'.life[pr].state = ledger.life[pr].state
              /\ Len(ledger'.refs[pr]) >= Len(ledger.refs[pr])]_vars
  BY NextKeeps DEF Extends, Settled, IsTracked
<1> QED BY <1>1, LedgersAreReal, LedgersAreKept, PTL DEF Spec, NothingForgotten
-----------------------------------------------------------------------------
(* The limit.  As long as no process is killed, every PR that is open on   *)
(* GitHub is counted by the ledger, or is in the hands of the process that *)
(* is about to record it; and so it is in the copy that a process holds.   *)

Counted(l) == {pr \in PRs : \E i \in DOMAIN l.refs[pr] : l.refs[pr][i] = "open"}
OpenOn(g) == {pr \in PRs : g[pr] = "open"}
InHand(r) == IF r.pc \in {"verify", "record"} THEN {r.pr} ELSE {}

Covers(g, r) ==
  /\ r.pc \notin {"idle", "summarize"} => OpenOn(g) \subseteq Counted(r.copy) \cup InHand(r)
  /\ r.pc \in {"lookup", "create"} => UnderLimit(r.copy)

Limit ==
  /\ OpenOn(github) \subseteq Counted(ledger) \cup UNION {InHand(proc[p]) : p \in Procs}
  /\ \A p \in Procs : Covers(github, proc[p])
  /\ Cardinality(OpenOn(github)) <= MaxOpenPrs

(* Every PR counted has a reference of its own.                            *)
LEMMA CountedReferences ==
  ASSUME NEW l \in Ledger
  PROVE  /\ IsFiniteSet(Counted(l)) /\ IsFiniteSet(OpenRefs(l))
         /\ Cardinality(Counted(l)) <= Cardinality(OpenRefs(l))
<1> DEFINE domains == {DOMAIN l.refs[pr] : pr \in PRs}
           ref == [pr \in Counted(l) |->
                     <<pr, CHOOSE i \in DOMAIN l.refs[pr] : l.refs[pr][i] = "open">>]
<1>1. IsFiniteSet(domains)
  <2> DEFINE f == [pr \in PRs |-> DOMAIN l.refs[pr]]
  <2>1. f \in Surjection(PRs, domains)
    BY DEF Surjection
  <2> HIDE DEF f, domains
  <2> QED BY <2>1, RecordConstants, FS_Surjection
<1>2. \A d \in domains : IsFiniteSet(d)
  <2> SUFFICES ASSUME NEW pr \in PRs PROVE IsFiniteSet(DOMAIN l.refs[pr])
    OBVIOUS
  <2>1. DOMAIN l.refs[pr] = 1 .. Len(l.refs[pr]) /\ Len(l.refs[pr]) \in Nat
    BY RefLengths
  <2> QED BY <2>1, FS_Interval
<1>3. IsFiniteSet(UNION domains)
  <2> HIDE DEF domains
  <2> QED BY <1>1, <1>2, FS_UNION
<1>4. IsFiniteSet(OpenRefs(l))
  <2>1. OpenRefs(l) \in SUBSET (PRs \X UNION domains)
    BY DEF OpenRefs
  <2> HIDE DEF domains
  <2> QED BY <1>3, <2>1, RecordConstants, FS_Product, FS_Subset
<1>5. IsFiniteSet(Counted(l))
  BY RecordConstants, FS_Subset DEF Counted
<1>6. ref \in Injection(Counted(l), OpenRefs(l))
  <2>1. ASSUME NEW pr \in Counted(l) PROVE ref[pr] \in OpenRefs(l) /\ ref[pr][1] = pr
    <3> DEFINE i == CHOOSE i \in DOMAIN l.refs[pr] : l.refs[pr][i] = "open"
    <3>1. pr \in PRs /\ i \in DOMAIN l.refs[pr] /\ l.refs[pr][i] = "open"
      BY <2>1 DEF Counted
    <3>2. ref[pr] = <<pr, i>>
      BY <2>1
    <3> HIDE DEF i, ref
    <3> QED BY <3>1, <3>2 DEF OpenRefs
  <2>2. ref = [pr \in Counted(l) |-> ref[pr]]
    OBVIOUS
  <2> HIDE DEF ref
  <2>3. ref \in [Counted(l) -> OpenRefs(l)]
    BY <2>1, <2>2
  <2>4. \A a, b \in Counted(l) : ref[a] = ref[b] => a = b
    BY <2>1
  <2> QED BY <2>3, <2>4 DEF Injection, IsInjective
<1> HIDE DEF ref
<1> QED BY <1>4, <1>5, <1>6, FS_Injection

LEMMA SameRefsCounted ==
  ASSUME NEW a, NEW b, a.refs = b.refs
  PROVE  Counted(a) = Counted(b) /\ UnderLimit(a) = UnderLimit(b)
  BY DEF Counted, UnderLimit, OpenRefs

LEMMA RecordCounts ==
  ASSUME NEW l \in Ledger, NEW pr \in PRs
  PROVE  Counted(l) \cup {pr} \subseteq Counted(RecordPr(l, pr))
<1> DEFINE s == Append(l.refs[pr], "open")
<1>0. l.refs[pr] \in Seq(PrStates) /\ Len(l.refs[pr]) \in Nat
  BY RefLengths
<1>1. /\ DOMAIN s = 1 .. Len(l.refs[pr]) + 1 /\ s[Len(l.refs[pr]) + 1] = "open"
      /\ \A i \in 1 .. Len(l.refs[pr]) : s[i] = l.refs[pr][i]
      /\ DOMAIN l.refs[pr] = 1 .. Len(l.refs[pr])
  BY <1>0
<1>2. RecordPr(l, pr).refs = [l.refs EXCEPT ![pr] = s]
  BY DEF RecordPr, RecordRef, Upsert, Ledger
<1> HIDE DEF s
<1>3. RecordPr(l, pr).refs[pr] = s /\ \A x \in PRs \ {pr} : RecordPr(l, pr).refs[x] = l.refs[x]
  BY <1>2 DEF Ledger
<1>4. pr \in Counted(RecordPr(l, pr))
  <2>1. Len(l.refs[pr]) + 1 \in DOMAIN s
    BY <1>0, <1>1
  <2> QED BY <1>1, <1>3, <2>1 DEF Counted
<1> QED BY <1>3, <1>4 DEF Counted

(* The update of a reference takes only that PR out of the count, and none *)
(* if the PR is still open.                                                *)
LEMMA FirstRefCounts ==
  ASSUME NEW l \in Ledger, NEW pr \in PRs, NEW state \in PrStates
  PROVE  /\ Counted(l) \ {pr} \subseteq Counted(UpdateFirstRef(l, pr, state))
         /\ state = "open" => Counted(l) \subseteq Counted(UpdateFirstRef(l, pr, state))
<1>1. CASE l.refs[pr] = <<>>
  BY <1>1 DEF UpdateFirstRef
<1>2. CASE l.refs[pr] # <<>>
  <2> DEFINE s == [l.refs[pr] EXCEPT ![1] = state]
  <2>0. l.refs[pr] \in Seq(PrStates)
    BY RefLengths
  <2>1. /\ DOMAIN s = DOMAIN l.refs[pr]
        /\ \A i \in DOMAIN s : s[i] = IF i = 1 THEN state ELSE l.refs[pr][i]
    BY <1>2, <2>0
  <2>2. UpdateFirstRef(l, pr, state).refs = [l.refs EXCEPT ![pr] = s]
    BY <1>2 DEF UpdateFirstRef, Ledger
  <2> HIDE DEF s
  <2>3. /\ UpdateFirstRef(l, pr, state).refs[pr] = s
        /\ \A x \in PRs \ {pr} : UpdateFirstRef(l, pr, state).refs[x] = l.refs[x]
    BY <2>2 DEF Ledger
  <2> QED BY <2>1, <2>3 DEF Counted
<1> QED BY <1>1, <1>2

(* Bringing references up to date with settled records leaves open PRs     *)
(* counted.                                                                *)
LEMMA SyncedCounts ==
  ASSUME NEW g, NEW l, GoodLedger(g, l)
  PROVE  OpenOn(g) \cap Counted(l) \subseteq Counted(RefsSynced(Backfilled(l)))
<1> DEFINE b == Backfilled(l)
           r == RefsSynced(b)
<1>1. GoodLedger(g, b) /\ b.refs = l.refs
  BY BackfilledGood DEF Backfilled, GoodLedger, Ledger
<1>2. \A pr \in PRs : r.refs[pr] = IF IsTracked(b, pr) /\ IsTerminal(b.life[pr])
                                   THEN [i \in DOMAIN b.refs[pr] |-> PrStateOf(b.life[pr])]
                                   ELSE b.refs[pr]
  BY <1>1 DEF RefsSynced, GoodLedger, Ledger
<1> HIDE DEF b, r
<1>3. ASSUME NEW pr \in PRs, g[pr] = "open", NEW i \in DOMAIN l.refs[pr], l.refs[pr][i] = "open"
      PROVE  i \in DOMAIN r.refs[pr] /\ r.refs[pr][i] = "open"
  <2>1. CASE IsTracked(b, pr) /\ IsTerminal(b.life[pr])
    <3>1. b.life[pr] \in LifeRecord /\ RealRecord(g, pr, b.life[pr])
      BY <1>1, <2>1 DEF GoodLedger, Ledger, Real, IsTracked
    <3>2. PrStateOf(b.life[pr]) = "open"
      BY <1>3, <3>1, PrStateReal DEF PrStates, Settled
    <3> QED BY <1>1, <1>2, <1>3, <2>1, <3>2
  <2>2. CASE ~(IsTracked(b, pr) /\ IsTerminal(b.life[pr]))
    BY <1>1, <1>2, <1>3, <2>2
  <2> QED BY <2>1, <2>2
<1>4. OpenOn(g) \cap Counted(l) \subseteq Counted(r)
  BY <1>3 DEF OpenOn, Counted
<1> QED BY <1>4 DEF b, r

LEMMA OpenFinite == ASSUME NEW g PROVE IsFiniteSet(OpenOn(g)) /\ Cardinality(OpenOn(g)) \in Nat
  BY RecordConstants, FS_Subset, FS_CardinalityType DEF OpenOn

(* One process goes on, or starts while nobody is at work, and leaves all  *)
(* open PRs counted or in its own hands.                                   *)
LEMMA LimitStep ==
  ASSUME RealInv, OneAtWork, NEW p \in Procs, NEW r, Become(p, r),
         ~At(p, "idle") \/ \A o \in Procs : At(o, "idle"),
         Cardinality(OpenOn(github')) <= MaxOpenPrs, Covers(github', r),
         OpenOn(github') \subseteq Counted(ledger') \cup InHand(r)
  PROVE  Limit'
<1>1. proc'[p] = r /\ \A o \in Procs \ {p} : proc'[o] = proc[o] /\ proc[o].pc = "idle"
  BY OneStep
<1>2. \A o \in Procs : Covers(github', proc'[o])
  BY <1>1 DEF Covers
<1>3. OpenOn(github') \subseteq Counted(ledger') \cup UNION {InHand(proc'[o]) : o \in Procs}
  BY <1>1
<1> QED BY <1>1, <1>2, <1>3 DEF Limit

LEMMA OpenAreCounted ==
  ASSUME OneAtWork, Limit, NEW p \in Procs, ~At(p, "idle") \/ \A o \in Procs : At(o, "idle")
  PROVE  OpenOn(github) \subseteq Counted(ledger) \cup InHand(proc[p])
<1>1. \A o \in Procs \ {p} : InHand(proc[o]) = {}
  BY DEF OneAtWork, At, InHand
<1> QED BY <1>1 DEF Limit

LEMMA IdleCovers == \A g : Covers(g, Idle) /\ InHand(Idle) = {}
  BY DEF Covers, InHand, Idle

(* GitHub as before, and the process goes on with a copy that counts every *)
(* open PR: for another reason than to open one, or with room for one.     *)
LEMMA GoOn ==
  ASSUME RealInv, OneAtWork, Limit, NEW p \in Procs, NEW r, Become(p, r),
         UNCHANGED github, OpenOn(github) \subseteq Counted(ledger'),
         ~At(p, "idle") \/ \A o \in Procs : At(o, "idle"),
         r.pc \notin {"idle", "summarize"} => OpenOn(github) \subseteq Counted(r.copy),
         r.pc \in {"lookup", "create"} => UnderLimit(r.copy)
  PROVE  Limit'
<1>1. Covers(github', r) /\ Cardinality(OpenOn(github')) <= MaxOpenPrs
  BY DEF Covers, Limit
<1>2. OpenOn(github') \subseteq Counted(ledger') \cup InHand(r)
  OBVIOUS
<1> QED BY <1>1, <1>2, LimitStep

(* Under the limit there is room for one more.                             *)
LEMMA OneMoreOpen ==
  ASSUME NEW l \in Ledger, UnderLimit(l), NEW g, OpenOn(g) \subseteq Counted(l),
         NEW h, NEW n, OpenOn(h) \subseteq OpenOn(g) \cup {n}
  PROVE  Cardinality(OpenOn(h)) <= MaxOpenPrs
<1> DEFINE more == OpenOn(g) \cup {n}
<1>1. /\ IsFiniteSet(OpenOn(g)) /\ Cardinality(OpenOn(g)) \in Nat
      /\ Cardinality(OpenOn(h)) \in Nat
  BY OpenFinite
<1>2. IsFiniteSet(more) /\ Cardinality(more) \in {Cardinality(OpenOn(g)), Cardinality(OpenOn(g)) + 1}
  BY <1>1, FS_AddElement
<1> HIDE DEF more
<1>3. Cardinality(OpenOn(h)) <= Cardinality(more)
  BY <1>2, FS_Subset DEF more
<1>4. Cardinality(OpenOn(g)) <= Cardinality(Counted(l))
  BY CountedReferences, FS_Subset
<1>5. /\ Cardinality(Counted(l)) <= Cardinality(OpenRefs(l))
      /\ Cardinality(OpenRefs(l)) < MaxOpenPrs
      /\ Cardinality(Counted(l)) \in Nat /\ Cardinality(OpenRefs(l)) \in Nat
  BY CountedReferences, FS_CardinalityType DEF UnderLimit
<1> QED BY <1>1, <1>2, <1>3, <1>4, <1>5, RecordConstants

LEMMA OpeningLimited ==
  ASSUME Overlap = FALSE, Faults \cap {"unverified", "lost"} = {}, RealInv, OneAtWork, Limit,
         NEW p \in Procs, Opening(p)
  PROVE  Limit'
<1> USE DEF At
<1>0. /\ proc[p] \in Process /\ Coherent(proc[p])
      /\ ledger \in Ledger /\ proc[p].copy \in Ledger
  BY ProcIsGood, LedgerIsGood DEF GoodProcess, GoodLedger, Process
<1>1. Covers(github, proc[p]) /\ Cardinality(OpenOn(github)) <= MaxOpenPrs
  BY DEF Limit
<1>2. ASSUME NEW pr \in PRs, StartOpen(p, pr) PROVE Limit'
  <2>1. PICK point \in {"blocked", "lookup"} :
          /\ Become(p, [Idle EXCEPT !.pc = point, !.pr = pr, !.copy = ledger])
          /\ point = "lookup" => UnderLimit(ledger)
    <3>1. PICK consent \in BOOLEAN :
            Become(p, [Idle EXCEPT !.pc = IF MayOpen(ledger, consent) THEN "lookup" ELSE "blocked",
                                   !.pr = pr, !.copy = ledger])
      BY <1>2, Zenon DEF StartOpen
    <3>2. CASE MayOpen(ledger, consent)
      BY <3>1, <3>2 DEF MayOpen
    <3>3. CASE ~MayOpen(ledger, consent)
      BY <3>1, <3>3
    <3> QED BY <3>2, <3>3
  <2> DEFINE r == [Idle EXCEPT !.pc = point, !.pr = pr, !.copy = ledger]
  <2>2. r.copy = ledger /\ r.pc = point
    BY DEF Idle
  <2>3. UNCHANGED <<github, ledger>> /\ \A o \in Procs : At(o, "idle")
    BY <1>2 DEF StartOpen, MayStart
  <2>4. OpenOn(github) \subseteq Counted(ledger)
    BY <2>3, OpenAreCounted DEF InHand
  <2>5. Become(p, r)
    BY <2>1
  <2> HIDE DEF r
  <2>6. r.pc \in {"lookup", "create"} => UnderLimit(r.copy)
    BY <2>1, <2>2
  <2> QED BY <2>2, <2>3, <2>4, <2>5, <2>6, GoOn
<1>3. CASE SaveAttempt(p)
  <2>1. /\ ledger' = proc[p].copy /\ Become(p, Idle) /\ proc[p].pc \in {"blocked", "failed"}
        /\ UNCHANGED github
    BY <1>3 DEF SaveAttempt, GoIdle
  <2>2. OpenOn(github) \subseteq Counted(ledger')
    BY <1>1, <2>1 DEF Covers, InHand
  <2> QED BY <1>1, <2>1, <2>2, IdleCovers, LimitStep
<1>4. CASE Lookup(p)
  <2>0. UNCHANGED <<github, ledger>> /\ proc[p].pc = "lookup"
    BY <1>4 DEF Lookup
  <2>1. PICK point \in {"verify", "create"} : Become(p, [proc[p] EXCEPT !.pc = point])
    BY <1>4 DEF Lookup, Goto
  <2> DEFINE r == [proc[p] EXCEPT !.pc = point]
  <2>2. r.copy = proc[p].copy /\ r.pc = point
    BY <1>0 DEF Process
  <2> HIDE DEF r
  <2>3. OpenOn(github) \subseteq Counted(proc[p].copy) /\ UnderLimit(proc[p].copy)
    BY <1>1, <2>0 DEF Covers, InHand
  <2>4. OpenOn(github) \subseteq Counted(ledger)
    BY <2>0, OpenAreCounted DEF InHand
  <2> QED BY <2>0, <2>1, <2>2, <2>3, <2>4, GoOn DEF r
<1>5. CASE Create(p)
  <2>0. UNCHANGED ledger /\ proc[p].pc = "create"
    BY <1>5 DEF Create
  <2>1. OpenOn(github) \subseteq Counted(proc[p].copy) /\ UnderLimit(proc[p].copy)
    BY <1>1, <2>0 DEF Covers, InHand
  <2>2. OpenOn(github) \subseteq Counted(ledger)
    BY <2>0, OpenAreCounted DEF InHand
  <2>3. CASE CreateOk(p)
    <3>1. PICK n \in NewNumber(proc[p].pr) :
            /\ github' = [github EXCEPT ![n] = "open"]
            /\ Become(p, [proc[p] EXCEPT !.pc = "verify", !.pr = n])
      BY <2>3 DEF CreateOk
    <3> DEFINE r == [proc[p] EXCEPT !.pc = "verify", !.pr = n]
    <3>2. r.copy = proc[p].copy /\ r.pc = "verify" /\ r.pr = n
      BY <1>0 DEF Process
    <3> HIDE DEF r
    <3>3. OpenOn(github') \subseteq OpenOn(github) \cup {n}
      BY <3>1 DEF OpenOn, RealInv, TypeOK
    <3>4. Cardinality(OpenOn(github')) <= MaxOpenPrs
      BY <1>0, <2>1, <3>3, OneMoreOpen
    <3>5. Covers(github', r)
      BY <2>1, <3>2, <3>3 DEF Covers, InHand
    <3>6. OpenOn(github') \subseteq Counted(ledger') \cup InHand(r)
      BY <2>0, <2>2, <3>2, <3>3 DEF InHand
    <3> QED BY <2>0, <3>1, <3>4, <3>5, <3>6, LimitStep DEF r
  <2>4. CASE CreateRefused(p)
    <3> DEFINE r == [proc[p] EXCEPT !.pc = "failed"]
    <3>1. r.copy = proc[p].copy /\ r.pc = "failed"
      BY <1>0 DEF Process
    <3>2. Become(p, r) /\ UNCHANGED github
      BY <2>4 DEF CreateRefused, Goto
    <3> HIDE DEF r
    <3> QED BY <2>0, <2>1, <2>2, <3>1, <3>2, GoOn
  <2>5. CASE CreateTransient(p)
    <3> DEFINE tries == proc[p].tries + 1
               point == IF tries < LIVE_PR_RETRY_ATTEMPTS THEN "create" ELSE "failed"
               r == [proc[p] EXCEPT !.tries = tries, !.pc = point]
    <3>1. Become(p, r) /\ UNCHANGED github
      BY <2>5 DEF CreateTransient
    <3>2. point \in {"create", "failed"}
      OBVIOUS
    <3> HIDE DEF tries, point
    <3>3. r.copy = proc[p].copy /\ r.pc = point
      BY <1>0 DEF Process
    <3> HIDE DEF r
    <3> QED BY <2>0, <2>1, <2>2, <3>1, <3>2, <3>3, GoOn
  <2> QED BY <1>5, <2>3, <2>4, <2>5 DEF Create
<1>6. CASE Verify(p)
  <2> DEFINE r == [proc[p] EXCEPT !.pc = "record"]
  <2>1. UNCHANGED <<github, ledger>> /\ proc[p].pc = "verify" /\ Become(p, r)
    BY <1>6 DEF Verify, Goto
  <2>2. r.copy = proc[p].copy /\ r.pr = proc[p].pr /\ r.pc = "record"
    BY <1>0 DEF Process
  <2> HIDE DEF r
  <2>3. Covers(github', r) /\ Cardinality(OpenOn(github')) <= MaxOpenPrs
    BY <1>1, <2>1, <2>2 DEF Covers, InHand
  <2>4. OpenOn(github') \subseteq Counted(ledger') \cup InHand(r)
    BY <2>1, <2>2, OpenAreCounted DEF InHand
  <2> QED BY <2>1, <2>3, <2>4, LimitStep
<1>7. CASE RecordOpen(p)
  <2> DEFINE r == [Idle EXCEPT !.pc = "summarize", !.pr = proc[p].pr]
  <2>0. /\ ledger' = RecordPr(proc[p].copy, proc[p].pr) /\ Become(p, r) /\ UNCHANGED github
        /\ proc[p].pc = "record" /\ proc[p].pr \in PRs
    BY <1>0, <1>7 DEF RecordOpen, Coherent, OpenPoints
  <2>1. r.pc = "summarize"
    BY DEF Idle
  <2>2. OpenOn(github) \subseteq Counted(ledger')
    BY <1>0, <1>1, <2>0, RecordCounts DEF Covers, InHand
  <2> HIDE DEF r
  <2> QED BY <2>0, <2>1, <2>2, GoOn
<1>8. CASE EndRun(p)
  <2>1. UNCHANGED <<github, ledger>> /\ Become(p, Idle) /\ proc[p].pc = "summarize"
    BY <1>8 DEF EndRun, GoIdle
  <2>2. OpenOn(github) \subseteq Counted(ledger)
    BY <2>1, OpenAreCounted DEF InHand
  <2> QED BY <1>1, <2>1, <2>2, IdleCovers, LimitStep
<1> QED BY <1>2, <1>3, <1>4, <1>5, <1>6, <1>7, <1>8 DEF Opening

LEMMA TickingLimited ==
  ASSUME Overlap = FALSE, RealInv, OneAtWork, Limit, NEW p \in Procs, Ticking(p)
  PROVE  Limit'
<1> USE DEF At
<1>0. /\ proc[p] \in Process /\ Real(github, proc[p].copy) /\ Coherent(proc[p])
      /\ GoodLedger(github, ledger) /\ proc[p].copy \in Ledger
  BY ProcIsGood, LedgerIsGood DEF GoodProcess, GoodLedger, Process
<1>1. Covers(github, proc[p]) /\ Cardinality(OpenOn(github)) <= MaxOpenPrs
  BY DEF Limit
<1>2. CASE StartTick(p)
  <2> DEFINE synced == RefsSynced(Backfilled(ledger))
  <2>0. UNCHANGED <<github, ledger>> /\ \A o \in Procs : At(o, "idle")
    BY <1>2 DEF StartTick, MayStart
  <2>1. PICK point \in {"idle", "presave", "poll"} :
          Become(p, IF point = "idle" THEN Idle
                    ELSE [Idle EXCEPT !.pc = point, !.copy = synced, !.due = Due(synced)])
    BY <1>2, Zenon DEF StartTick
  <2>2. OpenOn(github) \subseteq Counted(ledger)
    BY <2>0, OpenAreCounted DEF InHand
  <2>3. CASE point = "idle"
    BY <1>1, <2>0, <2>1, <2>2, <2>3, IdleCovers, LimitStep
  <2>4. CASE point # "idle"
    <3> DEFINE r == [Idle EXCEPT !.pc = point, !.copy = synced, !.due = Due(synced)]
    <3>1. OpenOn(github) \subseteq Counted(synced)
      BY <1>0, <2>2, SyncedCounts
    <3>2. Become(p, r)
      BY <2>1, <2>4
    <3> HIDE DEF synced
    <3>3. r.copy = synced /\ r.pc = point
      BY DEF Idle
    <3> HIDE DEF r
    <3> QED BY <2>0, <2>1, <2>2, <3>1, <3>2, <3>3, GoOn
  <2> QED BY <2>3, <2>4
<1>3. CASE PreSave(p)
  <2>0. ledger' = proc[p].copy /\ proc[p].pc = "presave" /\ UNCHANGED github
    BY <1>3 DEF PreSave
  <2>1. OpenOn(github) \subseteq Counted(proc[p].copy)
    BY <1>1, <2>0 DEF Covers, InHand
  <2>2. CASE Become(p, Idle)
    BY <1>1, <2>0, <2>1, <2>2, IdleCovers, LimitStep
  <2>3. CASE Goto(p, "poll")
    <3> DEFINE r == [proc[p] EXCEPT !.pc = "poll"]
    <3>1. r.copy = proc[p].copy /\ r.pc = "poll"
      BY <1>0 DEF Process
    <3>2. Become(p, r)
      BY <2>3 DEF Goto
    <3> HIDE DEF r
    <3> QED BY <2>0, <2>1, <3>1, <3>2, GoOn
  <2> QED BY <1>3, <2>2, <2>3 DEF PreSave, GoIdle
<1>4. ASSUME proc[p].pc = "poll"
      PROVE  OpenOn(github) \subseteq Counted(ledger) /\ OpenOn(github) \subseteq Counted(proc[p].copy)
  BY <1>1, <1>4, OpenAreCounted DEF Covers, InHand
<1>5. ASSUME NEW pr \in PRs, NEW l, Polled(p, pr, l), proc[p].pc = "poll",
             UNCHANGED <<github, ledger>>, OpenOn(github) \subseteq Counted(l)
      PROVE  Limit'
  <2> DEFINE point == IF proc[p].due = {pr} THEN "save" ELSE "poll"
             r == [proc[p] EXCEPT !.copy = l, !.due = @ \ {pr}, !.pc = point]
  <2>1. Become(p, r)
    BY <1>5 DEF Polled
  <2>2. point \in {"save", "poll"}
    OBVIOUS
  <2> HIDE DEF point
  <2>3. r.copy = l /\ r.pc = point
    BY <1>0 DEF Process
  <2> HIDE DEF r
  <2> QED BY <1>4, <1>5, <2>1, <2>2, <2>3, GoOn
<1>6. ASSUME NEW pr \in PRs, PollRaises(p, pr) PROVE Limit'
  <2> DEFINE c == proc[p].copy
             l == Upsert(c, pr, ObservationFailed(c.life[pr]))
  <2>0. /\ proc[p].pc = "poll" /\ UNCHANGED <<github, ledger>>
        /\ Polled(p, pr, l)
    BY <1>6 DEF PollRaises
  <2>1. l.refs = c.refs
    BY <1>0 DEF Upsert, Ledger
  <2> HIDE DEF l
  <2>2. OpenOn(github) \subseteq Counted(l)
    BY <1>4, <2>0, <2>1, SameRefsCounted
  <2> QED BY <1>5, <2>0, <2>2
<1>7. ASSUME NEW pr \in PRs, PollOk(p, pr) \/ PollNotOk(p, pr)
      PROVE  Limit'
  <2>1. PICK answer \in Answers : /\ answer \in {github[pr], "not_ok"}
                                  /\ \E changesRequested \in BOOLEAN :
                                       PollAnswered(p, pr, answer, changesRequested)
    BY <1>7 DEF PollOk, PollNotOk, Answers
  <2>2. PICK changesRequested \in BOOLEAN : PollAnswered(p, pr, answer, changesRequested)
    BY <2>1
  <2> DEFINE c == proc[p].copy
             r == Observed(answer, changesRequested)
             u == Upsert(c, pr, r)
             l == UpdateFirstRef(u, pr, r.state)
  <2>3. /\ proc[p].pc = "poll" /\ UNCHANGED <<github, ledger>> /\ Polled(p, pr, l)
    BY <2>2 DEF PollAnswered
  <2>4. r \in LifeRecord /\ r.state \in PrStates
    BY DEF Observed, GithubStateOf, Classify, Answers, PrStates, Statuses, LifeRecord
  <2>5. github[pr] = "open" => r.state = "open"
    BY <2>1 DEF Observed, GithubStateOf
  <2> HIDE DEF r
  <2>6. u \in Ledger /\ u.refs = c.refs
    BY <1>0, <2>4 DEF Upsert, Ledger
  <2> HIDE DEF u
  <2>7. Counted(c) \ {pr} \subseteq Counted(l) /\ (github[pr] = "open" => Counted(c) \subseteq Counted(l))
    BY <2>4, <2>5, <2>6, FirstRefCounts, SameRefsCounted
  <2> HIDE DEF l
  <2>8. OpenOn(github) \subseteq Counted(l)
    BY <1>4, <2>3, <2>7 DEF OpenOn
  <2> QED BY <1>5, <2>3, <2>8
<1>8. CASE SaveTick(p)
  <2>1. ledger' = proc[p].copy /\ Become(p, Idle) /\ proc[p].pc = "save" /\ UNCHANGED github
    BY <1>8 DEF SaveTick, GoIdle
  <2>2. OpenOn(github) \subseteq Counted(ledger')
    BY <1>1, <2>1 DEF Covers, InHand
  <2> QED BY <1>1, <2>1, <2>2, IdleCovers, LimitStep
<1> QED BY <1>2, <1>3, <1>6, <1>7, <1>8 DEF Ticking

(* A PR settled is one fewer that is open; time changes no reference.      *)
LEMMA EnvironmentLimited ==
  ASSUME RealInv, OneAtWork, Limit,
         \/ Interval
         \/ \E pr \in PRs, state \in PrStates : Settle(pr, state)
         \/ UNCHANGED <<github, ledger, proc>>
  PROVE  Limit'
<1>1. CASE Interval
  <2>0. ledger \in Ledger /\ \A p \in Procs : proc[p] \in Process /\ proc[p].copy \in Ledger
    BY ProcIsGood, LedgerIsGood DEF GoodProcess, GoodLedger, Process
  <2>1. /\ ledger' = Aged(ledger) /\ UNCHANGED github
        /\ \A p \in Procs : proc'[p] = [proc[p] EXCEPT !.copy = Aged(@)]
    BY <1>1 DEF Interval
  <2>2. \A p \in Procs : /\ proc'[p].pc = proc[p].pc /\ proc'[p].pr = proc[p].pr
                         /\ proc'[p].copy = Aged(proc[p].copy)
    BY <2>0, <2>1 DEF Process
  <2>3. Counted(ledger') = Counted(ledger)
    BY <2>0, <2>1, AgedSame, SameRefsCounted
  <2>4. \A p \in Procs : /\ Counted(proc'[p].copy) = Counted(proc[p].copy)
                         /\ UnderLimit(proc'[p].copy) = UnderLimit(proc[p].copy)
                         /\ InHand(proc'[p]) = InHand(proc[p])
    <3> SUFFICES ASSUME NEW p \in Procs
                 PROVE  /\ Counted(proc'[p].copy) = Counted(proc[p].copy)
                        /\ UnderLimit(proc'[p].copy) = UnderLimit(proc[p].copy)
                        /\ InHand(proc'[p]) = InHand(proc[p])
      OBVIOUS
    <3>1. proc'[p].copy.refs = proc[p].copy.refs
      BY <2>0, <2>2, AgedSame
    <3>2. InHand(proc'[p]) = InHand(proc[p])
      BY <2>2 DEF InHand
    <3> QED BY <3>1, <3>2, SameRefsCounted
  <2>5. \A p \in Procs : Covers(github', proc'[p])
    BY <2>1, <2>2, <2>4 DEF Limit, Covers
  <2>6. OpenOn(github') \subseteq Counted(ledger') \cup UNION {InHand(proc'[p]) : p \in Procs}
    BY <2>1, <2>3, <2>4 DEF Limit
  <2> QED BY <2>1, <2>5, <2>6 DEF Limit
<1>2. ASSUME NEW pr \in PRs, NEW state \in PrStates, Settle(pr, state)
      PROVE  Limit'
  <2>1. UNCHANGED <<ledger, proc>> /\ github' = [github EXCEPT ![pr] = state] /\ state # "open"
    BY <1>2 DEF Settle
  <2>2. OpenOn(github') \subseteq OpenOn(github)
    BY <2>1 DEF OpenOn, RealInv, TypeOK
  <2>3. Cardinality(OpenOn(github')) <= MaxOpenPrs
    <3>1. Cardinality(OpenOn(github')) <= Cardinality(OpenOn(github))
      BY <2>2, OpenFinite, FS_Subset
    <3>2. Cardinality(OpenOn(github')) \in Nat /\ Cardinality(OpenOn(github)) \in Nat
      BY OpenFinite
    <3> QED BY <3>1, <3>2, RecordConstants DEF Limit
  <2>4. \A p \in Procs : Covers(github', proc'[p])
    BY <2>1, <2>2 DEF Limit, Covers
  <2> QED BY <2>1, <2>2, <2>3, <2>4 DEF Limit
<1>3. CASE UNCHANGED <<github, ledger, proc>>
  BY <1>3 DEF Limit, Covers
<1> QED BY <1>1, <1>2, <1>3

(* max_open_prs_per_repo bounds the PRs open on GitHub: no process loads a *)
(* ledger that another will save, the identity check of an opened PR does  *)
(* not fail, an open request that is answered with an error opened         *)
(* nothing, and no process was killed.                                     *)
THEOREM LimitKept ==
  ASSUME Overlap = FALSE, Faults \cap {"unverified", "lost"} = {}
  PROVE  Spec => []OpenPrsBounded
<1>1. Init => Limit
  <2> SUFFICES ASSUME Init PROVE Limit
    OBVIOUS
  <2>1. PICK old \in SUBSET PRs :
          /\ Cardinality(old) <= MaxOpenPrs
          /\ github = [pr \in PRs |-> IF pr \in old THEN "open" ELSE "none"]
          /\ ledger = [EmptyLedger EXCEPT !.refs = [pr \in PRs |-> IF pr \in old THEN <<"open">>
                                                                   ELSE <<>>]]
    BY DEF Init
  <2>2. \A p \in Procs : proc[p] = Idle
    BY DEF Init
  <2>3. OpenOn(github) = old
    BY <2>1 DEF OpenOn
  <2>4. old \subseteq Counted(ledger)
    <3>1. \A pr \in old : ledger.refs[pr] = <<"open">>
      BY <2>1 DEF EmptyLedger
    <3>2. 1 \in DOMAIN <<"open">> /\ <<"open">>[1] = "open"
      OBVIOUS
    <3> QED BY <3>1, <3>2 DEF Counted
  <2>5. \A p \in Procs : Covers(github, proc[p])
    BY <2>2, IdleCovers
  <2> QED BY <2>1, <2>3, <2>4, <2>5 DEF Limit
<1>2. RealInv /\ KeptInv /\ (crashes = 0 => Limit) /\ [Next]_vars => (crashes = 0 => Limit)'
  <2> SUFFICES ASSUME RealInv, KeptInv, crashes = 0 => Limit, [Next]_vars, crashes' = 0
               PROVE  Limit'
    OBVIOUS
  <2>1. ASSUME NEW p \in Procs, Crash(p) PROVE FALSE
    BY <2>1 DEF Crash, RealInv, TypeOK
  <2>2. CASE UNCHANGED vars \/ CompleteSeason
    <3>1. UNCHANGED <<github, ledger, proc, crashes>>
      BY <2>2 DEF vars, CompleteSeason
    <3> QED BY <3>1, EnvironmentLimited DEF KeptInv
  <2>3. CASE Interval \/ \E pr \in PRs, state \in PrStates : Settle(pr, state)
    <3>1. UNCHANGED crashes
      BY <2>3 DEF Interval, Settle
    <3> QED BY <2>3, <3>1, EnvironmentLimited DEF KeptInv
  <2>4. ASSUME NEW p \in Procs, Opening(p) PROVE Limit'
    <3>1. UNCHANGED crashes
      BY <2>4 DEF Opening, StartOpen, SaveAttempt, Lookup, Create, Verify, RecordOpen, EndRun
    <3> QED BY <2>4, <3>1, OpeningLimited DEF KeptInv
  <2>5. ASSUME NEW p \in Procs, Ticking(p) PROVE Limit'
    <3>1. UNCHANGED crashes
      BY <2>5 DEF Ticking, StartTick, PreSave, SaveTick, PollRaises, PollOk, PollNotOk, PollAnswered
    <3> QED BY <2>5, <3>1, TickingLimited DEF KeptInv
  <2> QED BY <2>1, <2>2, <2>3, <2>4, <2>5 DEF Next
<1>3. (crashes = 0 => Limit) => OpenPrsBounded
  BY DEF Limit, OpenPrsBounded, OpenOn
<1> QED BY <1>1, <1>2, <1>3, LedgersAreReal, LedgersAreKept, PTL DEF Spec
==================================================================================
