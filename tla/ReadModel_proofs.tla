---------------------------- MODULE ReadModel_proofs ----------------------------
(***************************************************************************)
(* Theorems of ReadModel, for any runs and participants and whoever        *)
(* rebuilds the tables while whatever is written.                          *)
(***************************************************************************)
EXTENDS ReadModel, FiniteSetTheorems, WellFoundedInduction, TLAPS

-----------------------------------------------------------------------------
(* Least numbers, and sums over finite sets.  Two functions that satisfy   *)
(* the same recursion agree: among the sets they differ on there would be  *)
(* a smallest one.                                                         *)
LEMMA LeastNatural ==
  ASSUME NEW T \in SUBSET Nat, T # {}
  PROVE  \E n \in T : \A m \in T : n <= m
<1> DEFINE less == {ss \in Nat \X Nat : ss[1] < ss[2]}
<1>1. IsWellFoundedOn(less, Nat)
  BY NatLessThanWellFounded DEF OpToRel
<1> HIDE DEF less
<1>2. PICK n \in T : \A m \in T : <<m, n>> \notin less
  BY <1>1, WFMin
<1>3. \A m \in T : ~(m < n)
  BY <1>2 DEF less
<1> QED BY <1>3

LEMMA LeastIn ==
  ASSUME NEW T \in SUBSET Nat, T # {} PROVE Min(T) \in T /\ \A m \in T : Min(T) <= m
  BY LeastNatural DEF Min

Pick(s) == CHOOSE x \in s : TRUE
SumsUp(f, c, P) ==
  f = [s \in SUBSET P |-> IF s = {} THEN 0 ELSE c[Pick(s)] + f[s \ {Pick(s)}]]

LEMMA OneSum ==
  ASSUME NEW P, IsFiniteSet(P), NEW c, NEW f, NEW g, SumsUp(f, c, P), SumsUp(g, c, P)
  PROVE  f[P] = g[P]
<1> DEFINE differ == {s \in SUBSET P : f[s] # g[s]}
           sizes == {Cardinality(s) : s \in differ}
<1>1. \A s \in differ : IsFiniteSet(s) /\ Cardinality(s) \in Nat
  BY FS_Subset, FS_CardinalityType
<1>2. ASSUME differ # {} PROVE FALSE
  <2>1. sizes # {} /\ sizes \in SUBSET Nat
    BY <1>1, <1>2
  <2>2. PICK n \in sizes : \A m \in sizes : n <= m
    <3> HIDE DEF sizes
    <3> QED BY <2>1, LeastNatural
  <2>3. PICK s \in differ : n = Cardinality(s)
    BY <2>2
  <2>4. s \in SUBSET P /\ f[s] # g[s] /\ IsFiniteSet(s)
    BY <1>1, <2>3
  <2>5. s # {}
    BY <2>4 DEF SumsUp
  <2>6. Pick(s) \in s
    BY <2>5 DEF Pick
  <2> DEFINE less == s \ {Pick(s)}
  <2>7. Cardinality(less) = Cardinality(s) - 1
    BY <2>4, <2>6, FS_RemoveElement
  <2>8. less \notin differ
    <3>1. less \in differ => Cardinality(less) \in sizes
      OBVIOUS
    <3> HIDE DEF sizes, less, differ
    <3> QED BY <1>1, <2>2, <2>3, <2>7, <3>1
  <2>9. f[less] = g[less]
    BY <2>4, <2>8
  <2>10. f[s] = c[Pick(s)] + f[less] /\ g[s] = c[Pick(s)] + g[less]
    BY <2>4, <2>5 DEF SumsUp
  <2> QED BY <2>4, <2>9, <2>10
<1> QED BY <1>2

LEMMA RunsSummed ==
  ASSUME NEW f, IsFiniteSet(DOMAIN f), NEW g,
         SumsUp(g, [p \in DOMAIN f |-> f[p].runs], DOMAIN f)
  PROVE  SumOf(f, LAMBDA w : w.runs) = g[DOMAIN f]
<1> DEFINE iter == CHOOSE iter : iter =
             [s \in SUBSET DOMAIN f |->
                IF s = {} THEN 0
                ELSE f[CHOOSE x \in s : TRUE].runs + iter[s \ {CHOOSE x \in s : TRUE}]]
<1>1. SumOf(f, LAMBDA w : w.runs) = iter[DOMAIN f]
  BY DEF SumOf, MapThenSumSet, MapThenFoldSet
<1>2. g = [s \in SUBSET DOMAIN f |->
               IF s = {} THEN 0
               ELSE f[CHOOSE x \in s : TRUE].runs + g[s \ {CHOOSE x \in s : TRUE}]]
  BY DEF SumsUp, Pick
<1>3. iter = [s \in SUBSET DOMAIN f |->
               IF s = {} THEN 0
               ELSE f[CHOOSE x \in s : TRUE].runs + iter[s \ {CHOOSE x \in s : TRUE}]]
  BY <1>2
<1> HIDE DEF iter
<1>4. SumsUp(iter, [p \in DOMAIN f |-> f[p].runs], DOMAIN f)
  BY <1>3 DEF SumsUp, Pick
<1> QED BY <1>1, <1>4, OneSum

LEMMA MergedSummed ==
  ASSUME NEW f, IsFiniteSet(DOMAIN f), NEW g,
         SumsUp(g, [p \in DOMAIN f |-> f[p].merged], DOMAIN f)
  PROVE  SumOf(f, LAMBDA w : w.merged) = g[DOMAIN f]
<1> DEFINE iter == CHOOSE iter : iter =
             [s \in SUBSET DOMAIN f |->
                IF s = {} THEN 0
                ELSE f[CHOOSE x \in s : TRUE].merged + iter[s \ {CHOOSE x \in s : TRUE}]]
<1>1. SumOf(f, LAMBDA w : w.merged) = iter[DOMAIN f]
  BY DEF SumOf, MapThenSumSet, MapThenFoldSet
<1>2. g = [s \in SUBSET DOMAIN f |->
               IF s = {} THEN 0
               ELSE f[CHOOSE x \in s : TRUE].merged + g[s \ {CHOOSE x \in s : TRUE}]]
  BY DEF SumsUp, Pick
<1>3. iter = [s \in SUBSET DOMAIN f |->
               IF s = {} THEN 0
               ELSE f[CHOOSE x \in s : TRUE].merged + iter[s \ {CHOOSE x \in s : TRUE}]]
  BY <1>2
<1> HIDE DEF iter
<1>4. SumsUp(iter, [p \in DOMAIN f |-> f[p].merged], DOMAIN f)
  BY <1>3 DEF SumsUp, Pick
<1> QED BY <1>1, <1>4, OneSum

(* What the participants' rows count: each run once, by its participant.   *)
LEMMA SplitByParticipant ==
  ASSUME NEW P, IsFiniteSet(P), NEW A, IsFiniteSet(A), \A r \in A : ParticipantOf[r] \in P,
         NEW c, \A p \in P : c[p] = Cardinality({r \in A : ParticipantOf[r] = p})
  PROVE  \E g : SumsUp(g, c, P) /\ g[P] = Cardinality(A)
<1> DEFINE of(s) == {r \in A : ParticipantOf[r] \in s}
           g == [s \in SUBSET P |-> Cardinality(of(s))]
<1>1. ASSUME NEW s \in SUBSET P, s # {}
      PROVE  Cardinality(of(s)) = c[Pick(s)] + Cardinality(of(s \ {Pick(s)}))
  <2> DEFINE p == Pick(s)
             one == {r \in A : ParticipantOf[r] = p}
             rest == of(s \ {p})
  <2>1. p \in s
    BY <1>1 DEF Pick
  <2>2. of(s) = one \cup rest /\ one \cap rest = {}
    BY <2>1
  <2>3. IsFiniteSet(one) /\ IsFiniteSet(rest)
    BY FS_Subset
  <2>4. c[p] = Cardinality(one)
    BY <2>1
  <2> HIDE DEF p, one, rest, of
  <2>5. Cardinality(of(s)) = Cardinality(one) + Cardinality(rest) - Cardinality({})
    BY <2>2, <2>3, FS_Union
  <2>6. Cardinality({}) = 0 /\ Cardinality(one) \in Nat /\ Cardinality(rest) \in Nat
    BY <2>3, FS_EmptySet, FS_CardinalityType
  <2> QED BY <2>4, <2>5, <2>6 DEF p, rest
<1>2. Cardinality(of({})) = 0
  BY FS_EmptySet
<1>3. of(P) = A
  OBVIOUS
<1>4. g = [s \in SUBSET P |-> Cardinality(of(s))]
  OBVIOUS
<1> HIDE DEF g, of
<1>5. g[P] = Cardinality(A)
  BY <1>3, <1>4
<1>6. \A s \in SUBSET P : g[s] = IF s = {} THEN 0 ELSE c[Pick(s)] + g[s \ {Pick(s)}]
  BY <1>1, <1>2, <1>4
<1>7. SumsUp(g, c, P)
  BY <1>4, <1>6 DEF SumsUp
<1> QED BY <1>5, <1>7
-----------------------------------------------------------------------------
(* The tables of one reading of the files.                                 *)

(* What a rebuild has read.                                                *)
Reading(s) ==
  /\ s = [files |-> s.files, logs |-> s.logs, snapshot |-> s.snapshot, state |-> s.state]
  /\ s.files \in [Runs -> File]

(* OneTruth of the tables t.                                               *)
OneStory(t) ==
  /\ SumOf(t.participants, LAMBDA w : w.runs) = t.stats.runs
  /\ SumOf(t.participants, LAMBDA w : w.merged) = t.stats.merged
  /\ Counted(t.runs, LAMBDA s : RankingExclusionReason(s) = "") = t.stats.runs
  /\ t.season.runs = t.stats.runs
  /\ t.season.participants = Cardinality(DOMAIN t.participants)
  /\ ~t.season.frozen =>
       /\ DOMAIN t.leaderboard = DOMAIN t.participants
       /\ \A p \in DOMAIN t.leaderboard : t.leaderboard[p].arena = t.participants[p].arena
  /\ Cardinality(DOMAIN t.runs) <= PageLimit =>
       /\ ApiStats(t) = t.stats
       /\ ~t.season.frozen => ApiLeaderboard(t) = t.leaderboard

(* The list of reasons, with another word for none.                        *)
Reasons(s, none) == <<
  <<~s.eligible, "ineligible">>,
  <<s.replacement = "due", "replacement_due">>,
  <<s.judgement_retry = "due", "judgement_retry_due">>,
  <<s.judgement = "deferred", "judgement_deferred">>,
  <<s.live_retry = "due", "live_submission_retry_due">>,
  <<TRUE, none>> >>
Applying(reasons) == {i \in DOMAIN reasons : reasons[i][1]}

LEMMA FirstReason ==
  ASSUME NEW s \in Summary, NEW none,
         none \notin {"ineligible", "replacement_due", "judgement_retry_due",
                      "judgement_deferred", "live_submission_retry_due"}
  PROVE  Reasons(s, none)[Min(Applying(Reasons(s, none)))][2] = none <=> ~RankingExcluded(s)
<1> DEFINE reasons == Reasons(s, none)
           apply == Applying(reasons)
           first == Min(apply)
<1>0. DOMAIN reasons = 1 .. 6
  BY DEF Reasons
<1>1. /\ reasons[1] = <<~s.eligible, "ineligible">>
      /\ reasons[2] = <<s.replacement = "due", "replacement_due">>
      /\ reasons[3] = <<s.judgement_retry = "due", "judgement_retry_due">>
      /\ reasons[4] = <<s.judgement = "deferred", "judgement_deferred">>
      /\ reasons[5] = <<s.live_retry = "due", "live_submission_retry_due">>
      /\ reasons[6] = <<TRUE, none>>
  BY DEF Reasons
<1> HIDE DEF reasons
<1>2. /\ 1 \in apply <=> ~s.eligible
      /\ 2 \in apply <=> s.replacement = "due"
      /\ 3 \in apply <=> s.judgement_retry = "due"
      /\ 4 \in apply <=> s.judgement = "deferred"
      /\ 5 \in apply <=> s.live_retry = "due"
      /\ 6 \in apply
  <2>1. \A i \in 1 .. 6 : i \in apply <=> reasons[i][1]
    BY <1>0, Zenon DEF Applying
  <2>2. /\ reasons[1][1] = ~s.eligible
        /\ reasons[2][1] = (s.replacement = "due")
        /\ reasons[3][1] = (s.judgement_retry = "due")
        /\ reasons[4][1] = (s.judgement = "deferred")
        /\ reasons[5][1] = (s.live_retry = "due")
        /\ reasons[6][1] = TRUE
    BY <1>1
  <2>3. {1, 2, 3, 4, 5, 6} \subseteq 1 .. 6
    OBVIOUS
  <2> QED BY <2>1, <2>2, <2>3, Zenon
<1>3. apply \in SUBSET (1 .. 6) /\ apply \in SUBSET Nat
  BY <1>0 DEF Applying
<1> HIDE DEF apply
<1>4. first \in apply /\ \A i \in apply : first <= i
  BY <1>2, <1>3, LeastIn
<1> HIDE DEF first
<1>5. RankingExcluded(s) <=> \E i \in 1 .. 5 : i \in apply
  BY <1>2 DEF RankingExcluded
<1>6. reasons[first][2] = none <=> first = 6
  BY <1>1, <1>3, <1>4
<1>7. first = 6 <=> ~\E i \in 1 .. 5 : i \in apply
  <2>1. first \in 1 .. 6
    BY <1>3, <1>4
  <2>2. ASSUME first = 6, NEW i \in 1 .. 5, i \in apply PROVE FALSE
    <3>1. 6 <= i
      BY <1>4, <2>2
    <3> QED BY <3>1
  <2>3. ASSUME first # 6 PROVE first \in 1 .. 5 /\ first \in apply
    BY <1>4, <2>1, <2>3
  <2> QED BY <2>2, <2>3
<1> QED BY <1>5, <1>6, <1>7 DEF first, apply, reasons

(* The three places that decide whether a run is ranked decide the same.   *)
LEMMA ExclusionsAgree ==
  ASSUME NEW s \in Summary
  PROVE  /\ RankingExcludedHere(s) <=> RankingExcluded(s)
         /\ RankingExclusionReason(s) = "" <=> ~RankingExcluded(s)
<1>1. RankingExclusionReason(s) = Reasons(s, "")[Min(Applying(Reasons(s, "")))][2]
  BY Zenon DEF RankingExclusionReason, Reasons, Applying
<1>2. "" \notin {"ineligible", "replacement_due", "judgement_retry_due",
                 "judgement_deferred", "live_submission_retry_due"}
  BY Zenon
<1>3. RankingExclusionReason(s) = "" <=> ~RankingExcluded(s)
  BY <1>1, <1>2, FirstReason, Zenon
<1> QED BY <1>3, Zenon DEF RankingExcluded, RankingExcludedHere

(* The rows of the runs read, and those of them that are ranked.           *)
LEMMA RowsRead ==
  ASSUME NEW seen, Reading(seen)
  PROVE  LET runs == LoadRuns(seen.files)
             rows == Without(runs, RankingExcluded)
         IN  /\ IsFiniteSet(DOMAIN runs) /\ \A r \in DOMAIN runs : runs[r] \in Summary
             /\ runs = [r \in DOMAIN runs |-> runs[r]]
             /\ DOMAIN rows = {r \in DOMAIN runs : ~RankingExcluded(runs[r])}
             /\ \A r \in DOMAIN rows : rows[r] = runs[r]
             /\ IsFiniteSet(DOMAIN rows) /\ IsFiniteSet(Agents(rows))
             /\ Without(runs, RankingExcludedHere) = rows
<1> DEFINE runs == LoadRuns(seen.files)
           rows == Without(runs, RankingExcluded)
<1>1. DOMAIN runs = Readable(seen.files) /\ \A r \in DOMAIN runs : runs[r] = seen.files[r]
  BY DEF LoadRuns
<1>2. runs = [r \in DOMAIN runs |-> runs[r]]
  BY DEF LoadRuns
<1> HIDE DEF runs
<1>3. DOMAIN runs \in SUBSET Runs
  BY <1>1 DEF Readable
<1>4. IsFiniteSet(DOMAIN runs)
  BY <1>3, RunConstants, FS_Subset
<1>5. \A r \in DOMAIN runs : runs[r] \in Summary
  BY <1>1 DEF Readable, Reading, File
<1>6. /\ DOMAIN rows = {r \in DOMAIN runs : ~RankingExcluded(runs[r])}
      /\ \A r \in DOMAIN rows : rows[r] = runs[r]
  BY DEF Without
<1>7. Without(runs, RankingExcludedHere) = rows
  BY DEF Without, RankingExcludedHere, RankingExcluded
<1> HIDE DEF rows
<1>8. IsFiniteSet(DOMAIN rows)
  BY <1>4, <1>6, FS_Subset
<1>9. IsFiniteSet(Agents(rows))
  <2> DEFINE g == [r \in DOMAIN rows |-> ParticipantOf[r]]
  <2>1. g \in Surjection(DOMAIN rows, Agents(rows))
    BY DEF Agents, Surjection
  <2> HIDE DEF g
  <2> QED BY <1>8, <2>1, FS_Surjection
<1> QED BY <1>2, <1>4, <1>5, <1>6, <1>7, <1>8, <1>9 DEF runs, rows

(* The participants' rows add up to the totals.                            *)
LEMMA ParticipantsAddUp ==
  ASSUME NEW rows, IsFiniteSet(DOMAIN rows), IsFiniteSet(Agents(rows))
  PROVE  /\ SumOf(ParticipantRowsOf(rows), LAMBDA w : w.runs) = Cardinality(DOMAIN rows)
         /\ SumOf(ParticipantRowsOf(rows), LAMBDA w : w.merged) = Counted(rows, Merged)
<1> DEFINE P == Agents(rows)
           table == ParticipantRowsOf(rows)
           of(A, p) == {r \in A : ParticipantOf[r] = p}
           merged == {r \in DOMAIN rows : Merged(rows[r])}
<1>1. DOMAIN table = P
  BY DEF ParticipantRowsOf
<1>2. ASSUME NEW p \in P
      PROVE  /\ table[p].runs = Cardinality(of(DOMAIN rows, p))
             /\ table[p].merged = Cardinality(of(merged, p))
  <2> DEFINE own == RowsOf(rows, p)
  <2>1. table[p] = ParticipantRow(own)
    BY DEF ParticipantRowsOf
  <2>2. DOMAIN own = of(DOMAIN rows, p) /\ \A r \in DOMAIN own : own[r] = rows[r]
    BY DEF RowsOf
  <2> HIDE DEF own, table
  <2>3. ParticipantRow(own).runs = Cardinality(DOMAIN own)
    BY DEF ParticipantRow
  <2>4. ParticipantRow(own).merged = Cardinality({r \in DOMAIN own : Merged(own[r])})
    BY DEF ParticipantRow, Counted
  <2>5. {r \in DOMAIN own : Merged(own[r])} = of(merged, p)
    BY <2>2
  <2> QED BY <2>1, <2>2, <2>3, <2>4, <2>5
<1>3. IsFiniteSet(merged)
  BY FS_Subset
<1>4. \A r \in DOMAIN rows : ParticipantOf[r] \in P
  BY DEF Agents
<1>5. Counted(rows, Merged) = Cardinality(merged)
  BY DEF Counted
<1> HIDE DEF table, P, merged
<1>6. SumOf(table, LAMBDA w : w.runs) = Cardinality(DOMAIN rows)
  <2> DEFINE c == [p \in DOMAIN table |-> table[p].runs]
  <2>1. \A p \in P : c[p] = Cardinality({r \in DOMAIN rows : ParticipantOf[r] = p})
    BY <1>1, <1>2
  <2> HIDE DEF c
  <2>2. PICK g : SumsUp(g, c, P) /\ g[P] = Cardinality(DOMAIN rows)
    BY <1>4, <2>1, SplitByParticipant DEF P
  <2> QED BY <1>1, <2>2, RunsSummed DEF c, P
<1>7. SumOf(table, LAMBDA w : w.merged) = Cardinality(merged)
  <2> DEFINE c == [p \in DOMAIN table |-> table[p].merged]
  <2>1. \A p \in P : c[p] = Cardinality({r \in merged : ParticipantOf[r] = p})
    BY <1>1, <1>2
  <2>2. \A r \in merged : ParticipantOf[r] \in P
    BY <1>4 DEF merged
  <2> HIDE DEF c
  <2>3. PICK g : SumsUp(g, c, P) /\ g[P] = Cardinality(merged)
    BY <1>3, <2>1, <2>2, SplitByParticipant DEF P
  <2> QED BY <1>1, <2>3, MergedSummed DEF c, P
<1> QED BY <1>5, <1>6, <1>7 DEF table

(* When they fit on one page, the API works from all the runs.             *)
LEMMA OnePage ==
  ASSUME NEW tables, IsFiniteSet(DOMAIN tables.runs), DOMAIN tables.runs \subseteq Nat,
         tables.runs = [r \in DOMAIN tables.runs |-> tables.runs[r]],
         Cardinality(DOMAIN tables.runs) <= PageLimit
  PROVE  Page(tables) = tables.runs
<1> DEFINE all == DOMAIN tables.runs
           newer(q) == {n \in all : n > q}
<1>1. ASSUME NEW q \in all PROVE Cardinality(newer(q)) < PageLimit
  <2>1. newer(q) \in SUBSET all /\ q \notin newer(q)
    OBVIOUS
  <2>2. /\ IsFiniteSet(newer(q))
        /\ Cardinality(newer(q)) <= Cardinality(all)
        /\ Cardinality(newer(q)) # Cardinality(all)
    <3> HIDE DEF newer
    <3> QED BY <1>1, <2>1, FS_Subset
  <2>3. Cardinality(newer(q)) \in Nat /\ Cardinality(all) \in Nat
    BY <2>2, FS_CardinalityType
  <2> HIDE DEF newer
  <2> QED BY <2>2, <2>3, RunConstants
<1>2. {q \in all : Cardinality(newer(q)) < PageLimit} = all
  BY <1>1
<1>3. Page(tables) = [r \in {q \in all : Cardinality(newer(q)) < PageLimit} |-> tables.runs[r]]
  BY DEF Page
<1> HIDE DEF newer
<1> QED BY <1>2, <1>3

(* The tables and the exported files of one reading tell one story.        *)
LEMMA OneReadingOneStory ==
  ASSUME NEW seen, Reading(seen)
  PROVE  OneStory(Tables(seen)) /\ Exported(seen) = Tables(seen)
<1> DEFINE t == Tables(seen)
           runs == LoadRuns(seen.files)
           rows == Without(runs, RankingExcluded)
<1>1. /\ IsFiniteSet(DOMAIN runs) /\ \A r \in DOMAIN runs : runs[r] \in Summary
      /\ runs = [r \in DOMAIN runs |-> runs[r]]
      /\ DOMAIN rows = {r \in DOMAIN runs : ~RankingExcluded(runs[r])}
      /\ IsFiniteSet(DOMAIN rows) /\ IsFiniteSet(Agents(rows))
      /\ Without(runs, RankingExcludedHere) = rows
  BY RowsRead
<1>2. DOMAIN runs \subseteq Nat
  BY RunConstants DEF LoadRuns, Readable
<1>3. /\ t.runs = runs
      /\ t.leaderboard = ApplyFrozen(seen.snapshot, Leaderboard(runs))
      /\ t.participants = ParticipantRowsOf(rows)
      /\ t.season = MergeSeasonState(SeasonOf(rows), seen)
      /\ t.stats = Stats(runs)
  BY <1>1 DEF Tables, ParticipantRows, SeasonRow
<1>4. Exported(seen) = t
  BY <1>1 DEF Tables, Exported, ParticipantRows, ExportedParticipants, SeasonRow, ExportedSeason
<1> HIDE DEF t
<1>5. Stats(runs).runs = Cardinality(DOMAIN rows) /\ Stats(runs).merged = Counted(rows, Merged)
  BY DEF Stats
<1>6. /\ t.season.runs = Cardinality(DOMAIN rows)
      /\ t.season.participants = Cardinality(Agents(rows))
      /\ ~t.season.frozen => seen.snapshot = NoSnapshot
  BY <1>3 DEF MergeSeasonState, SeasonOf
<1>7. /\ Leaderboard(runs) = [p \in Agents(rows) |-> LeaderboardRow(RowsOf(rows, p))]
      /\ ParticipantRowsOf(rows) = [p \in Agents(rows) |-> ParticipantRow(RowsOf(rows, p))]
  BY DEF Leaderboard, ParticipantRowsOf
<1>8. ~t.season.frozen => t.leaderboard = Leaderboard(runs)
  BY <1>3, <1>6 DEF ApplyFrozen
<1>9. {r \in DOMAIN runs : RankingExclusionReason(runs[r]) = ""} = DOMAIN rows
  <2>1. \A r \in DOMAIN runs : RankingExclusionReason(runs[r]) = "" <=> ~RankingExcluded(runs[r])
    BY <1>1, ExclusionsAgree, Zenon
  <2> HIDE DEF runs, rows
  <2> QED BY <1>1, <2>1, Zenon
<1> HIDE DEF runs, rows
<1>10. /\ SumOf(t.participants, LAMBDA w : w.runs) = t.stats.runs
       /\ SumOf(t.participants, LAMBDA w : w.merged) = t.stats.merged
  BY <1>1, <1>3, <1>5, ParticipantsAddUp
<1>11. Counted(t.runs, LAMBDA s : RankingExclusionReason(s) = "") = t.stats.runs
  BY <1>3, <1>5, <1>9, Zenon DEF Counted
<1>12. DOMAIN t.participants = Agents(rows)
  BY <1>3, <1>7
<1>13. t.season.runs = t.stats.runs /\ t.season.participants = Cardinality(DOMAIN t.participants)
  BY <1>3, <1>5, <1>6, <1>12
<1>14. ~t.season.frozen =>
         /\ DOMAIN t.leaderboard = DOMAIN t.participants
         /\ \A p \in DOMAIN t.leaderboard : t.leaderboard[p].arena = t.participants[p].arena
  <2>1. \A x : LeaderboardRow(x).arena = ParticipantRow(x).arena
    BY DEF LeaderboardRow, ParticipantRow
  <2> QED BY <1>3, <1>7, <1>8, <2>1
<1>15. Cardinality(DOMAIN t.runs) <= PageLimit =>
         /\ ApiStats(t) = t.stats
         /\ ~t.season.frozen => ApiLeaderboard(t) = t.leaderboard
  <2>1. SUFFICES ASSUME Cardinality(DOMAIN t.runs) <= PageLimit PROVE Page(t) = runs
    BY <1>3, <1>8 DEF ApiStats, ApiLeaderboard
  <2> QED BY <1>1, <1>2, <1>3, <2>1, OnePage
<1>16. OneStory(t)
  BY <1>10, <1>11, <1>13, <1>14, <1>15, Zenon DEF OneStory
<1> QED BY <1>4, <1>16 DEF t
-----------------------------------------------------------------------------
(* The invariant.  What the gateway and the judges hold to write back is a *)
(* whole summary; a run that is judged again has ended, and its file stays *)
(* whole; the tables are those of one reading of the files.                *)
Verdicts == {"judged", "fallback", "deferred"}

FilesTyped ==
  /\ ending \in [Runs -> Ending] /\ summary \in [Runs -> File]
  /\ run \in [Runs -> {"running", "writing", "judging", "rewriting", "ended", "dead"}]
  /\ retry \in [Runs -> RetryStates] /\ logs \in [Runs -> PrStates \cup {"unknown"}]
  /\ lifecycle \in [Runs -> PrStates] /\ ledger \in [Runs -> PrStates]
  /\ season \in {"active", "completed"} /\ snapshot.there \in {"absent", "torn", "whole"}

RestTyped ==
  /\ hand \in {"idle", "freezing", "frozen"}
  /\ watcher \in {"starting", "booting", "ready", "watching", "polling", "off"}
  /\ dirty \in BOOLEAN
  /\ panels \in Nat /\ hands \in Nat /\ faults \in Nat

Loop ==
  [at : {"asleep", "sync", "poll", "save", "rejudge", "judged", "rebuild", "rebuilding", "ended"},
   todo : SUBSET Runs, run : Runs \cup {0}, copy : Summary \cup {Absent}, state : PrStates,
   last : BOOLEAN, handler : BOOLEAN]

GatewayTyped ==
  /\ gateway \in Loop
  /\ gateway.copy # Absent \/ gateway.at = "save" => gateway.run \in Runs

JudgingTyped ==
  /\ judging \in [Judges -> [at : {"idle", "panel", "mark"}, run : Runs \cup {0},
                             copy : Summary \cup {Absent}, verdict : Verdicts]]
  /\ \A j \in Judges : judging[j].at = "panel" => judging[j].copy \in Summary

JudgedIsWhole ==
  \A j \in Judges : judging[j].at # "idle" =>
    /\ judging[j].run \in Runs
    /\ run[judging[j].run] \in {"ended", "dead"}
    /\ summary[judging[j].run] \in Summary

Rebuilding(x) ==
  /\ x = [at |-> x.at, left |-> x.left, seen |-> x.seen]
  /\ x.at \in {"idle", "files", "store"} /\ x.left \subseteq Runs /\ Reading(x.seen)

BuildTyped == DOMAIN build = Builders /\ \A b \in Builders : Rebuilding(build[b])

StoreTyped == \E seen : Reading(seen) /\ store = Tables(seen)

Inv ==
  /\ FilesTyped /\ RestTyped /\ GatewayTyped /\ JudgingTyped /\ JudgedIsWhole
  /\ BuildTyped /\ StoreTyped

LEMMA InvTypes == Inv => TypeOK
<1> SUFFICES ASSUME Inv PROVE TypeOK
  OBVIOUS
<1>1. \A r \in Runs : ending[r] \in Ending /\ summary[r] \in File
  BY DEF Inv, FilesTyped
<1>2. gateway.copy \in File
  BY DEF Inv, GatewayTyped, Loop, File
<1>3. \A j \in Judges : judging[j].at \in {"idle", "panel", "mark"} /\ judging[j].copy \in File
  BY DEF Inv, JudgingTyped, File
<1>4. \A b \in Builders : build[b].at \in {"idle", "files", "store"} /\ build[b].left \subseteq Runs
  BY DEF Inv, BuildTyped, Rebuilding
<1> QED BY <1>1, <1>2, <1>3, <1>4 DEF Inv, FilesTyped, RestTyped, GatewayTyped, Loop, TypeOK

LEMMA AbsentIsNoSummary == Absent \notin Summary /\ Torn \notin Summary /\ Absent # Torn
  BY DEF Absent, Torn, Summary

LEMMA NothingRead == Reading(Nothing)
  BY DEF Reading, Nothing, File

LEMMA BuiltSummary ==
  ASSUME NEW e \in Ending, NEW verdict \in Verdicts \cup {"not_judged"}, NEW adjusted \in PrStates
  PROVE  build_run_summary(e, verdict, adjusted) \in Summary
<1> DEFINE eligible == RankingPolicy(SubmissionOutcome(e))
<1>1. eligible \in BOOLEAN
  <2>1. \A x, S : (x \in S) \in BOOLEAN
    OBVIOUS
  <2> QED BY <2>1, Zenon DEF RankingPolicy
<1>2. /\ Replacement(e) \in {"none", "due"} /\ LiveRetry(e) \in {"none", "due"}
      /\ RetryOf(verdict) \in RetryStates /\ PullRequest(e) \in {"none", "open", "merged", "closed"}
  BY DEF Replacement, LiveRetry, RetryOf, RetryStates, PullRequest
<1>3. e.status \in {"completed", "failed", "blocked"}
  BY DEF Ending
<1> HIDE DEF eligible
<1>4. build_run_summary(e, verdict, adjusted) =
        [status |-> e.status, eligible |-> eligible, replacement |-> Replacement(e),
         live_retry |-> LiveRetry(e), judgement_retry |-> RetryOf(verdict), judgement |-> verdict,
         pr |-> PullRequest(e), adjusted |-> adjusted]
  BY DEF build_run_summary, eligible
<1> QED BY <1>1, <1>2, <1>3, <1>4 DEF Summary, Verdicts, PrStates

LEMMA InvInit == ASSUME Init PROVE Inv
<1> USE AbsentIsNoSummary
<1>1. PICK start \in Starts :
        /\ ending = start.ending
        /\ run = [r \in Runs |-> IF r \in start.old THEN "ended" ELSE "running"]
        /\ ledger = [r \in Runs |-> PullRequest(ending[r])]
        /\ lifecycle = [r \in Runs |-> IF r \in start.old THEN ledger[r] ELSE "none"]
        /\ logs = [r \in Runs |-> IF r \in start.old /\ Has(r) THEN "unknown" ELSE "none"]
        /\ summary = [r \in Runs |->
             IF r \in start.old
             THEN build_run_summary(ending[r], FirstVerdict(ending[r]), ledger[r]) ELSE Absent]
        /\ retry = [r \in Runs |->
             IF r \in start.old THEN RetryOf(FirstVerdict(ending[r])) ELSE "none"]
        /\ season = "active" /\ snapshot = NoSnapshot
        /\ gateway = Asleep
        /\ hand = "idle"
        /\ judging = [j \in Judges |-> NotJudging]
        /\ build = [b \in Builders |-> NotBuilding]
        /\ watcher = "starting" /\ dirty = FALSE
        /\ store = NoTables
        /\ panels = start.panels /\ hands = start.hands /\ faults = start.faults
  BY Zenon DEF Init
<1>2. /\ ending \in [Runs -> Ending]
      /\ panels \in Nat /\ hands \in Nat /\ faults \in Nat
  BY <1>1, Constants
<1>3. \A r \in Runs : PullRequest(ending[r]) \in PrStates
  BY DEF PullRequest, PrStates
<1>4. \A r \in Runs : FirstVerdict(ending[r]) \in Verdicts \cup {"not_judged"}
  BY <1>2 DEF FirstVerdict, Ending, Verdicts
<1>5. \A r \in Runs : build_run_summary(ending[r], FirstVerdict(ending[r]), ledger[r]) \in Summary
  BY <1>1, <1>2, <1>3, <1>4, BuiltSummary
<1>6. summary \in [Runs -> File]
  BY <1>1, <1>5 DEF File
<1>7. /\ run \in [Runs -> {"running", "writing", "judging", "rewriting", "ended", "dead"}]
      /\ logs \in [Runs -> PrStates \cup {"unknown"}]
      /\ lifecycle \in [Runs -> PrStates] /\ ledger \in [Runs -> PrStates]
  BY <1>1, <1>3 DEF PrStates
<1>8. retry \in [Runs -> RetryStates]
  BY <1>1 DEF RetryOf, RetryStates
<1>9. FilesTyped
  BY <1>1, <1>2, <1>6, <1>7, <1>8 DEF FilesTyped, NoSnapshot
<1>10. RestTyped
  BY <1>1, <1>2 DEF RestTyped
<1>11. GatewayTyped
  BY <1>1 DEF GatewayTyped, Loop, Asleep, PrStates
<1>12. JudgingTyped /\ JudgedIsWhole
  BY <1>1 DEF JudgingTyped, JudgedIsWhole, NotJudging, Verdicts
<1>13. BuildTyped
  BY <1>1, NothingRead DEF BuildTyped, Rebuilding, NotBuilding
<1>14. StoreTyped
  BY <1>1, NothingRead DEF StoreTyped, NoTables
<1> QED BY <1>9, <1>10, <1>11, <1>12, <1>13, <1>14 DEF Inv

(* What a step leaves alone stays as it is.                                *)
LEMMA Unmoved ==
  ASSUME Inv
  PROVE  /\ UNCHANGED <<ending, run, fileVars>> => FilesTyped'
         /\ UNCHANGED <<hand, apiVars, countVars>> => RestTyped'
         /\ UNCHANGED gateway => GatewayTyped'
         /\ UNCHANGED judging => JudgingTyped'
         /\ UNCHANGED <<judging, run, summary>> => JudgedIsWhole'
         /\ UNCHANGED build => BuildTyped'
         /\ UNCHANGED store => StoreTyped'
<1>1. UNCHANGED <<ending, run, fileVars>> => FilesTyped'
  BY DEF Inv, FilesTyped, fileVars
<1>2. UNCHANGED <<hand, apiVars, countVars>> => RestTyped'
  BY DEF Inv, RestTyped, apiVars, countVars
<1>3. UNCHANGED gateway => GatewayTyped'
  BY DEF Inv, GatewayTyped
<1>4. UNCHANGED judging => JudgingTyped'
  BY DEF Inv, JudgingTyped
<1>5. UNCHANGED <<judging, run, summary>> => JudgedIsWhole'
  BY DEF Inv, JudgedIsWhole
<1>6. UNCHANGED build => BuildTyped'
  BY DEF Inv, BuildTyped
<1>7. UNCHANGED store => StoreTyped'
  BY DEF Inv, StoreTyped
<1> QED BY <1>1, <1>2, <1>3, <1>4, <1>5, <1>6, <1>7

(* A summary is written.                                                   *)
LEMMA SummaryWritten ==
  ASSUME Inv, NEW r \in Runs, NEW s \in File, Summarised(r, s)
  PROVE  /\ summary' \in [Runs -> File] /\ summary'[r] = s
         /\ \A x \in Runs \ {r} : summary'[x] = summary[x]
         /\ dirty' \in BOOLEAN /\ UNCHANGED watcher
<1>1. summary \in [Runs -> File] /\ dirty \in BOOLEAN
  BY DEF Inv, FilesTyped, RestTyped
<1>2. summary' = [summary EXCEPT ![r] = s] /\ UNCHANGED watcher
  BY DEF Summarised
<1>3. dirty' \in BOOLEAN
  <2>1. dirty' = (dirty \/ watcher \in {"watching", "polling"})
    BY Zenon DEF Summarised
  <2>2. \A a, b : (a \/ b) \in BOOLEAN
    OBVIOUS
  <2> QED BY <2>1, <2>2, Zenon
<1> QED BY <1>1, <1>2, <1>3

(* A whole summary, of a run that nobody's judging is spoilt by.           *)
LEMMA WholeStaysWhole ==
  ASSUME Inv, NEW r \in Runs, NEW s \in Summary, Summarised(r, s), UNCHANGED <<run, judging>>
  PROVE  JudgedIsWhole'
<1>1. \A x \in Runs : summary[x] \in Summary => summary'[x] \in Summary
  BY SummaryWritten DEF File
<1> QED BY <1>1 DEF Inv, JudgedIsWhole

(* A panel is held on a run that has ended and whose summary is whole.     *)
LEMMA PanelStarts ==
  ASSUME Inv, NEW j \in Judges, NEW r \in Runs, StartPanel(j, r), UNCHANGED <<run, summary>>
  PROVE  JudgingTyped' /\ JudgedIsWhole' /\ panels' \in Nat
<1> USE AbsentIsNoSummary
<1>0. FilesTyped /\ RestTyped /\ JudgedIsWhole /\ JudgingTyped
  BY DEF Inv
<1>1. /\ judging[j] = NotJudging /\ ~Unreadable(r) /\ run[r] \in {"ended", "dead"}
      /\ panels > 0 /\ panels' = panels - 1
      /\ judging' = [judging EXCEPT ![j] = [@ EXCEPT !.at = "panel", !.run = r, !.copy = summary[r]]]
  BY DEF StartPanel, Refreshable
<1>2. summary[r] \in Summary
  BY <1>0, <1>1 DEF Unreadable, FilesTyped, File
<1>3. /\ judging'[j] = [at |-> "panel", run |-> r, copy |-> summary[r], verdict |-> "judged"]
      /\ \A k \in Judges \ {j} : judging'[k] = judging[k]
      /\ judging' = [k \in Judges |-> judging'[k]]
  <2>1. judging' = [judging EXCEPT ![j] = [NotJudging EXCEPT !.at = "panel", !.run = r,
                                                             !.copy = summary[r]]]
    BY <1>1
  <2>2. [NotJudging EXCEPT !.at = "panel", !.run = r, !.copy = summary[r]] =
          [at |-> "panel", run |-> r, copy |-> summary[r], verdict |-> "judged"]
    <3> DEFINE e == [NotJudging EXCEPT !.at = "panel", !.run = r, !.copy = summary[r]]
    <3>1. e \in [at : {"panel"}, run : {r}, copy : {summary[r]}, verdict : {"judged"}]
      BY DEF NotJudging
    <3> HIDE DEF e
    <3>2. e = [at |-> "panel", run |-> r, copy |-> summary[r], verdict |-> "judged"]
      BY <3>1
    <3> QED BY <3>2 DEF e
  <2>3. judging = [k \in Judges |-> judging[k]]
    BY <1>0 DEF JudgingTyped
  <2> QED BY <2>1, <2>2, <2>3
<1>4. JudgingTyped'
  BY <1>0, <1>2, <1>3 DEF JudgingTyped, Verdicts
<1>5. JudgedIsWhole'
  BY <1>0, <1>1, <1>2, <1>3 DEF JudgedIsWhole
<1> QED BY <1>0, <1>1, <1>4, <1>5 DEF RestTyped

LEMMA BuildStarts == ASSUME Inv, NEW b, StartBuild(b) PROVE BuildTyped'
<1> DEFINE x == [at |-> "files", left |-> Listed, seen |-> Nothing]
<1>1. b \in Builders /\ build' = [build EXCEPT ![b] = x]
  BY DEF StartBuild
<1>2. Rebuilding(x)
  BY NothingRead DEF Rebuilding, Listed
<1> HIDE DEF x
<1> QED BY <1>1, <1>2 DEF Inv, BuildTyped

LEMMA RunnerKeeps == ASSUME Inv, RunnerStep PROVE Inv'
<1> USE AbsentIsNoSummary
<1>0. FilesTyped /\ RestTyped /\ JudgedIsWhole /\ JudgingTyped
  BY DEF Inv
<1>1. ASSUME NEW r \in Runs, BeginSummary(r) PROVE Inv'
  <2>0. /\ run[r] \in {"running", "judging"}
        /\ run' = [run EXCEPT ![r] = IF @ = "running" THEN "writing" ELSE "rewriting"]
        /\ Summarised(r, Torn)
        /\ UNCHANGED <<ending, retry, ledger, season, snapshot, gateway, hand, judging, build,
                       store, countVars>>
    BY <1>1 DEF BeginSummary
  <2>1. /\ summary' \in [Runs -> File] /\ dirty' \in BOOLEAN /\ UNCHANGED watcher
        /\ \A x \in Runs \ {r} : summary'[x] = summary[x]
    BY <2>0, SummaryWritten DEF File
  <2>2. lifecycle' \in [Runs -> PrStates] /\ logs' \in [Runs -> PrStates \cup {"unknown"}]
    BY <1>0, <1>1 DEF BeginSummary, FilesTyped
  <2>3. FilesTyped'
    BY <1>0, <2>0, <2>1, <2>2 DEF FilesTyped
  <2>4. RestTyped'
    BY <1>0, <2>0, <2>1 DEF RestTyped, countVars
  <2>5. JudgedIsWhole'
    BY <1>0, <2>0, <2>1 DEF JudgedIsWhole, FilesTyped, JudgingTyped
  <2> QED BY <2>0, <2>3, <2>4, <2>5, Unmoved DEF Inv
<1>2. ASSUME NEW r \in Runs, EndSummary(r) PROVE Inv'
  <2> DEFINE judged == run[r] = "rewriting" /\ JudgementEligible(ending[r])
             verdict == IF judged THEN ending[r].verdict ELSE "not_judged"
             s == build_run_summary(ending[r], verdict, IF judged THEN lifecycle[r] ELSE "none")
  <2>0. /\ run[r] \in {"writing", "rewriting"}
        /\ run' = [run EXCEPT ![r] = IF @ = "writing" THEN "judging" ELSE "ended"]
        /\ Summarised(r, s)
        /\ retry' = [retry EXCEPT ![r] = RetryOf(verdict)]
        /\ UNCHANGED <<ending, lifecycle, logs, ledger, season, snapshot, gateway, hand, judging,
                       build, store, countVars>>
    BY <1>2 DEF EndSummary
  <2>1. verdict \in Verdicts \cup {"not_judged"}
    BY <1>0 DEF FilesTyped, Ending, Verdicts
  <2>2. s \in Summary
    BY <1>0, <2>1, BuiltSummary DEF FilesTyped, PrStates
  <2>3. RetryOf(verdict) \in RetryStates
    BY DEF RetryOf, RetryStates
  <2> HIDE DEF s, verdict
  <2>4. /\ summary' \in [Runs -> File] /\ dirty' \in BOOLEAN /\ UNCHANGED watcher
        /\ \A x \in Runs \ {r} : summary'[x] = summary[x]
    BY <2>0, <2>2, SummaryWritten DEF File
  <2>5. FilesTyped'
    BY <1>0, <2>0, <2>3, <2>4 DEF FilesTyped
  <2>6. RestTyped'
    BY <1>0, <2>0, <2>4 DEF RestTyped, countVars
  <2>7. JudgedIsWhole'
    BY <1>0, <2>0, <2>4 DEF JudgedIsWhole, FilesTyped, JudgingTyped
  <2> QED BY <2>0, <2>5, <2>6, <2>7, Unmoved DEF Inv
<1>3. ASSUME NEW r \in Runs, RunnerDies(r) PROVE Inv'
  <2>0. /\ run[r] \in {"running", "writing", "judging", "rewriting"}
        /\ run' = [run EXCEPT ![r] = "dead"] /\ faults > 0 /\ faults' = faults - 1
        /\ UNCHANGED <<ending, fileVars, gateway, hand, judging, build, apiVars, store, panels, hands>>
    BY <1>3 DEF RunnerDies, Fail
  <2>1. FilesTyped'
    BY <1>0, <2>0 DEF FilesTyped, fileVars
  <2>2. RestTyped'
    BY <1>0, <2>0 DEF RestTyped, apiVars
  <2>3. JudgedIsWhole'
    BY <1>0, <2>0 DEF JudgedIsWhole, FilesTyped, JudgingTyped, fileVars
  <2> QED BY <2>0, <2>1, <2>2, <2>3, Unmoved DEF Inv
<1> QED BY <1>1, <1>2, <1>3 DEF RunnerStep

LEMMA TickKeeps == ASSUME Inv, TickStep \/ TickRaises PROVE Inv'
<1> USE AbsentIsNoSummary
<1>0. FilesTyped /\ RestTyped /\ GatewayTyped /\ JudgedIsWhole /\ JudgingTyped /\ BuildTyped
  BY DEF Inv
<1>1. ASSUME UNCHANGED <<ending, run, fileVars, hand, judging, build, apiVars, store, countVars>>,
             GatewayTyped'
      PROVE  Inv'
  BY <1>1, Unmoved DEF Inv, fileVars
<1>2. CASE WakeUp
  <2>1. GatewayTyped'
    BY <1>0, <1>2 DEF WakeUp, GatewayTyped, Loop, Asleep, PrStates
  <2> QED BY <1>1, <1>2, <2>1 DEF WakeUp, GatewayOnly
<1>3. CASE Poll
  <2>1. GatewayTyped'
    BY <1>0, <1>3 DEF Poll, GatewayTyped, Loop
  <2> QED BY <1>1, <1>3, <2>1 DEF Poll, GatewayOnly
<1>4. CASE PollDone
  <2>1. GatewayTyped'
    BY <1>0, <1>4 DEF PollDone, GatewayTyped, Loop, Asleep, PrStates
  <2> QED BY <1>1, <1>4, <2>1 DEF PollDone, GatewayOnly
<1>5. CASE RejudgeDone
  <2>1. GatewayTyped'
    BY <1>0, <1>5 DEF RejudgeDone, Rebuilds, GatewayTyped, Loop, Asleep, PrStates
  <2> QED BY <1>1, <1>5, <2>1 DEF RejudgeDone, GatewayOnly
<1>6. CASE TickRaises
  <2>1. GatewayTyped'
    BY <1>0, <1>6 DEF TickRaises, Handler, GatewayTyped, Loop, Asleep, PrStates
  <2>2. RestTyped'
    BY <1>0, <1>6 DEF TickRaises, Fail, RestTyped, apiVars
  <2> QED BY <1>6, <2>1, <2>2, Unmoved DEF Inv, TickRaises, fileVars

(* The files of a run are brought to a state: what is held to be written   *)
(* back is its summary.                                                    *)
<1>7. ASSUME NEW r \in Runs, NEW s \in PrStates, NEW next \in Loop, UpdateRun(r, s, next),
             next.copy = Absent, next.at = "save" => next.run \in Runs
      PROVE  GatewayTyped' /\ lifecycle' \in [Runs -> PrStates]
  <2>1. \/ gateway' = next
        \/ ~Unreadable(r) /\ gateway' = [next EXCEPT !.run = r, !.copy = summary[r]]
    BY <1>7 DEF UpdateRun
  <2>2. ~Unreadable(r) => summary[r] \in Summary
    BY <1>0 DEF Unreadable, FilesTyped, File
  <2>3. GatewayTyped'
    <3>1. CASE gateway' = next
      BY <1>7, <3>1 DEF GatewayTyped
    <3>2. CASE ~Unreadable(r) /\ gateway' = [next EXCEPT !.run = r, !.copy = summary[r]]
      BY <1>7, <2>2, <3>2 DEF GatewayTyped, Loop
    <3> QED BY <2>1, <3>1, <3>2
  <2>4. lifecycle' \in [Runs -> PrStates]
    BY <1>0, <1>7 DEF UpdateRun, FilesTyped
  <2> QED BY <2>3, <2>4
<1>8. CASE SyncTerminal
  <2> DEFINE r == Min(gateway.todo)
             next == [gateway EXCEPT !.todo = @ \ {r}, !.state = ledger[r]]
  <2>0. /\ gateway.at = "sync" /\ gateway.todo # {} /\ gateway.copy = Absent
        /\ UNCHANGED <<ending, run, summary, retry, logs, ledger, season, snapshot, hand, judging,
                       build, apiVars, store, countVars>>
        /\ UpdateRun(r, ledger[r], next) \/ (gateway' = next /\ UNCHANGED lifecycle)
    BY <1>8 DEF SyncTerminal
  <2>1. gateway.todo \in SUBSET Nat /\ gateway.todo \in SUBSET Runs
    BY <1>0, RunConstants DEF GatewayTyped, Loop
  <2>2. r \in Runs
    BY <2>0, <2>1, LeastIn
  <2> HIDE DEF r
  <2>3. ledger[r] \in PrStates
    BY <1>0, <2>2 DEF FilesTyped
  <2>4. next \in Loop /\ next.copy = Absent /\ next.at = "sync"
    BY <1>0, <2>0, <2>3 DEF GatewayTyped, Loop
  <2> HIDE DEF next
  <2>5. GatewayTyped' /\ lifecycle' \in [Runs -> PrStates]
    <3>1. CASE UpdateRun(r, ledger[r], next)
      BY <1>7, <2>2, <2>3, <2>4, <3>1
    <3>2. CASE gateway' = next /\ UNCHANGED lifecycle
      BY <1>0, <2>4, <3>2 DEF GatewayTyped, FilesTyped
    <3> QED BY <2>0, <3>1, <3>2
  <2>6. FilesTyped'
    BY <1>0, <2>0, <2>5 DEF FilesTyped
  <2> QED BY <2>0, <2>5, <2>6, Unmoved DEF Inv
<1>9. CASE WriteOutcome
  <2> DEFINE s == [gateway.copy EXCEPT !.pr = gateway.state, !.adjusted = gateway.state]
  <2>0. /\ gateway.copy # Absent /\ Summarised(gateway.run, s)
        /\ gateway' = [gateway EXCEPT !.copy = Absent]
        /\ UNCHANGED <<ending, run, retry, lifecycle, logs, ledger, season, snapshot, hand,
                       judging, build, store, countVars>>
    BY <1>9 DEF WriteOutcome
  <2>1. gateway.run \in Runs /\ gateway.copy \in Summary /\ gateway.state \in PrStates
    BY <1>0, <2>0 DEF GatewayTyped, Loop
  <2>2. s \in Summary
    BY <2>1 DEF Summary, PrStates
  <2> HIDE DEF s
  <2>3. summary' \in [Runs -> File] /\ dirty' \in BOOLEAN /\ UNCHANGED watcher
    BY <2>0, <2>1, <2>2, SummaryWritten DEF File
  <2>4. JudgedIsWhole'
    BY <2>0, <2>1, <2>2, WholeStaysWhole
  <2>5. FilesTyped'
    BY <1>0, <2>0, <2>3 DEF FilesTyped
  <2>6. RestTyped'
    BY <1>0, <2>0, <2>3 DEF RestTyped, countVars
  <2>7. GatewayTyped'
    BY <1>0, <2>0 DEF GatewayTyped, Loop
  <2> QED BY <2>0, <2>4, <2>5, <2>6, <2>7, Unmoved DEF Inv
<1>10. ASSUME NEW r \in Runs, NEW s \in Outcomes, Observe(r, s) PROVE Inv'
  <2> DEFINE next == [gateway EXCEPT !.at = "save", !.run = r, !.state = s]
  <2>0. /\ gateway.copy = Absent /\ UpdateRun(r, s, next) /\ Logged(r, s)
        /\ UNCHANGED <<ending, run, summary, retry, ledger, season, snapshot, hand, judging, build,
                       store, countVars>>
    BY <1>10 DEF Observe
  <2>1. s \in PrStates
    BY Constants DEF PrStates
  <2>2. next \in Loop /\ next.copy = Absent /\ next.run \in Runs
    BY <1>0, <2>0, <2>1 DEF GatewayTyped, Loop
  <2> HIDE DEF next
  <2>3. GatewayTyped' /\ lifecycle' \in [Runs -> PrStates]
    BY <1>7, <2>0, <2>1, <2>2
  <2>4. logs' \in [Runs -> PrStates \cup {"unknown"}] /\ UNCHANGED watcher
    BY <1>0, <2>0, <2>1 DEF Logged, FilesTyped
  <2>5. dirty' \in BOOLEAN
    <3>1. dirty' = (dirty \/ watcher = "watching")
      BY <2>0, Zenon DEF Logged
    <3>2. \A a, b : (a \/ b) \in BOOLEAN
      OBVIOUS
    <3> QED BY <3>1, <3>2, Zenon
  <2>6. FilesTyped'
    BY <1>0, <2>0, <2>3, <2>4 DEF FilesTyped
  <2>7. RestTyped'
    BY <1>0, <2>0, <2>4, <2>5 DEF RestTyped, countVars
  <2> QED BY <2>0, <2>3, <2>6, <2>7, Unmoved DEF Inv
<1>11. CASE SaveLedger
  <2>0. /\ gateway.at = "save" /\ ledger' = [ledger EXCEPT ![gateway.run] = gateway.state]
        /\ gateway' = [gateway EXCEPT !.at = "poll", !.todo = @ \ {gateway.run}]
        /\ UNCHANGED <<ending, run, summary, retry, lifecycle, logs, season, snapshot, hand,
                       judging, build, apiVars, store, countVars>>
        /\ gateway.copy = Absent
    BY <1>11 DEF SaveLedger
  <2>1. GatewayTyped'
    BY <1>0, <2>0 DEF GatewayTyped, Loop
  <2>2. FilesTyped'
    BY <1>0, <2>0 DEF GatewayTyped, Loop, FilesTyped
  <2> QED BY <2>0, <2>1, <2>2, Unmoved DEF Inv
<1>12. ASSUME NEW r \in Runs, TickJudges(r) PROVE Inv'
  <2>0. /\ StartPanel("tick", r) /\ gateway' = [gateway EXCEPT !.at = "judged"]
        /\ UNCHANGED <<ending, run, fileVars, hand, build, apiVars, store, hands, faults>>
    BY <1>12 DEF TickJudges
  <2>1. JudgingTyped' /\ JudgedIsWhole' /\ panels' \in Nat
    BY <2>0, PanelStarts DEF Judges, fileVars
  <2>2. GatewayTyped'
    BY <1>0, <2>0 DEF GatewayTyped, Loop
  <2>3. RestTyped'
    BY <1>0, <2>0, <2>1 DEF RestTyped, apiVars
  <2> QED BY <2>0, <2>1, <2>2, <2>3, Unmoved DEF Inv
<1>13. ASSUME NEW r \in Runs, TickSkips(r) PROVE Inv'
  <2> DEFINE s == [summary[r] EXCEPT !.judgement = "not_judged", !.judgement_retry = "skipped"]
  <2>0. /\ ~Unreadable(r) /\ retry' = [retry EXCEPT ![r] = "skipped"] /\ Summarised(r, s)
        /\ gateway.at = "rejudge" /\ gateway' = [gateway EXCEPT !.at = "judged"]
        /\ UNCHANGED <<ending, run, lifecycle, logs, ledger, season, snapshot, hand, judging, build,
                       store, countVars>>
    BY <1>13 DEF TickSkips, Refreshable
  <2>1. s \in Summary
    <3>1. summary[r] \in Summary
      BY <1>0, <2>0 DEF Unreadable, FilesTyped, File
    <3> QED BY <3>1 DEF Summary, RetryStates
  <2> HIDE DEF s
  <2>2. summary' \in [Runs -> File] /\ dirty' \in BOOLEAN /\ UNCHANGED watcher
    BY <2>0, <2>1, SummaryWritten DEF File
  <2>3. JudgedIsWhole'
    BY <2>0, <2>1, WholeStaysWhole
  <2>4. FilesTyped'
    BY <1>0, <2>0, <2>2 DEF FilesTyped, RetryStates
  <2>5. RestTyped'
    BY <1>0, <2>0, <2>2 DEF RestTyped, countVars
  <2>6. GatewayTyped'
    BY <1>0, <2>0 DEF GatewayTyped, Loop
  <2> QED BY <2>0, <2>3, <2>4, <2>5, <2>6, Unmoved DEF Inv
<1>14. CASE GatewayRebuilds
  <2>1. GatewayTyped'
    BY <1>0, <1>14 DEF GatewayRebuilds, GatewayTyped, Loop
  <2>2. BuildTyped'
    BY <1>14, BuildStarts DEF GatewayRebuilds
  <2> QED BY <1>14, <2>1, <2>2, Unmoved DEF Inv, GatewayRebuilds, fileVars
<1> QED BY <1>2, <1>3, <1>4, <1>5, <1>6, <1>8, <1>9, <1>10, <1>11, <1>12, <1>13, <1>14 DEF TickStep

LEMMA JudgeKeeps == ASSUME Inv, NEW j \in Judges, JudgeStep(j) PROVE Inv'
<1> USE AbsentIsNoSummary
<1>0. FilesTyped /\ RestTyped /\ JudgedIsWhole /\ JudgingTyped
  BY DEF Inv
<1>1. ASSUME NEW verdict \in Verdicts, WriteJudgement(j, verdict) PROVE Inv'
  <2> DEFINE r == judging[j].run
             s == [judging[j].copy EXCEPT !.adjusted = lifecycle[r],
                     !.judgement = IF verdict = "deferred" THEN "fallback" ELSE verdict]
             x == [judging[j] EXCEPT !.at = "mark", !.copy = Absent, !.verdict = verdict]
  <2>0. /\ judging[j].at = "panel" /\ Summarised(r, s)
        /\ judging' = [judging EXCEPT ![j] = x]
        /\ UNCHANGED <<ending, run, retry, lifecycle, logs, ledger, season, snapshot, gateway, hand,
                       build, store, countVars>>
    BY <1>1 DEF WriteJudgement
  <2>1. r \in Runs /\ judging[j].copy \in Summary /\ lifecycle[r] \in PrStates
    BY <1>0, <2>0 DEF JudgedIsWhole, JudgingTyped, FilesTyped
  <2>2. s \in Summary
    BY <2>1 DEF Summary, PrStates, Verdicts
  <2>3. x.at = "mark" /\ x.run = r /\ x.copy = Absent /\ x.verdict = verdict
        /\ x \in [at : {"idle", "panel", "mark"}, run : Runs \cup {0},
                  copy : Summary \cup {Absent}, verdict : Verdicts]
    BY <1>0, <2>1 DEF JudgingTyped
  <2> HIDE DEF r, s, x
  <2>4. /\ summary' \in [Runs -> File] /\ dirty' \in BOOLEAN /\ UNCHANGED watcher
        /\ summary'[r] = s /\ \A q \in Runs \ {r} : summary'[q] = summary[q]
    BY <2>0, <2>1, <2>2, SummaryWritten DEF File
  <2>5. judging'[j] = x /\ \A k \in Judges \ {j} : judging'[k] = judging[k]
    BY <1>0, <2>0 DEF JudgingTyped
  <2>6. JudgingTyped'
    BY <1>0, <2>0, <2>3, <2>5 DEF JudgingTyped
  <2>7. JudgedIsWhole'
    <3>1. run[r] \in {"ended", "dead"}
      BY <1>0, <2>0 DEF JudgedIsWhole, r
    <3> QED BY <1>0, <2>0, <2>1, <2>2, <2>3, <2>4, <2>5, <3>1 DEF JudgedIsWhole
  <2>8. FilesTyped'
    BY <1>0, <2>0, <2>4 DEF FilesTyped
  <2>9. RestTyped'
    BY <1>0, <2>0, <2>4 DEF RestTyped, countVars
  <2> QED BY <2>0, <2>6, <2>7, <2>8, <2>9, Unmoved DEF Inv
<1>2. ASSUME NEW status \in RetryStates, MarkRetry(j, status) PROVE Inv'
  <2> DEFINE r == judging[j].run
             s == [summary[r] EXCEPT !.judgement_retry = status,
                     !.judgement = CASE status = "due" -> "deferred"
                                     [] status = "failed" -> "failed"
                                     [] OTHER -> @]
  <2>0. /\ judging[j].at = "mark" /\ judging' = [judging EXCEPT ![j] = NotJudging]
        /\ \/ UNCHANGED <<summary, retry, apiVars>>
           \/ retry' = [retry EXCEPT ![r] = status] /\ Summarised(r, s)
        /\ UNCHANGED <<ending, run, lifecycle, logs, ledger, season, snapshot, gateway, hand, build,
                       store, countVars>>
    BY <1>2 DEF MarkRetry
  <2>1. r \in Runs /\ summary[r] \in Summary
    BY <1>0, <2>0 DEF JudgedIsWhole
  <2>2. s \in Summary
    BY <2>1 DEF Summary, RetryStates
  <2> HIDE DEF r, s
  <2>3. /\ summary' \in [Runs -> File] /\ dirty' \in BOOLEAN /\ UNCHANGED watcher
        /\ \A q \in Runs : summary[q] \in Summary => summary'[q] \in Summary
        /\ retry' \in [Runs -> RetryStates]
    <3>1. CASE UNCHANGED <<summary, retry, apiVars>>
      BY <1>0, <3>1 DEF apiVars, FilesTyped, RestTyped
    <3>2. CASE retry' = [retry EXCEPT ![r] = status] /\ Summarised(r, s)
      <4>1. retry' \in [Runs -> RetryStates]
        BY <1>0, <3>2 DEF FilesTyped
      <4>2. /\ summary' \in [Runs -> File] /\ dirty' \in BOOLEAN /\ UNCHANGED watcher
            /\ summary'[r] = s /\ \A q \in Runs \ {r} : summary'[q] = summary[q]
        BY <2>1, <2>2, <3>2, SummaryWritten DEF File
      <4> QED BY <2>2, <4>1, <4>2
    <3> QED BY <2>0, <3>1, <3>2
  <2>4. judging'[j] = NotJudging /\ \A k \in Judges \ {j} : judging'[k] = judging[k]
    BY <1>0, <2>0 DEF JudgingTyped
  <2>5. JudgingTyped' /\ NotJudging.at = "idle"
    BY <1>0, <2>0, <2>4 DEF JudgingTyped, NotJudging, Verdicts
  <2>6. JudgedIsWhole'
    BY <1>0, <2>0, <2>3, <2>4, <2>5 DEF JudgedIsWhole
  <2>7. FilesTyped'
    BY <1>0, <2>0, <2>3 DEF FilesTyped
  <2>8. RestTyped'
    BY <1>0, <2>0, <2>3 DEF RestTyped, countVars
  <2> QED BY <2>0, <2>5, <2>6, <2>7, <2>8, Unmoved DEF Inv
<1> QED BY <1>1, <1>2 DEF JudgeStep, Verdicts

LEMMA BuildKeeps == ASSUME Inv, NEW b \in Builders, BuildStep(b) \/ BuildFails(b) PROVE Inv'
<1>0. /\ FilesTyped /\ RestTyped /\ GatewayTyped /\ BuildTyped
      /\ Rebuilding(build[b]) /\ Reading(build[b].seen)
  BY DEF Inv, BuildTyped, Rebuilding
<1>1. ASSUME NEW x, Rebuilding(x), build' = [build EXCEPT ![b] = x] PROVE BuildTyped'
  BY <1>0, <1>1 DEF BuildTyped
<1>2. CASE ReadSummary(b)
  <2> DEFINE r == Min(build[b].left)
             old == build[b]
             files == [old.seen.files EXCEPT ![r] = summary[r]]
             x == [at |-> old.at, left |-> old.left \ {r},
                   seen |-> [files |-> files, logs |-> old.seen.logs,
                             snapshot |-> old.seen.snapshot, state |-> old.seen.state]]
  <2>0. /\ old.left # {}
        /\ build' = [build EXCEPT ![b].left = @ \ {r}, ![b].seen.files[r] = summary[r]]
        /\ UNCHANGED <<ending, run, fileVars, gateway, hand, judging, apiVars, store, countVars>>
    BY <1>2 DEF ReadSummary
  <2>1. r \in Runs
    <3>1. old.left \in SUBSET Nat /\ old.left \in SUBSET Runs
      BY <1>0, RunConstants DEF Rebuilding
    <3> QED BY <2>0, <3>1, LeastIn
  <2> HIDE DEF r
  <2>2. build' = [build EXCEPT ![b] = x]
    <3>1. /\ old = [at |-> old.at, left |-> old.left, seen |-> old.seen]
          /\ old.seen = [files |-> old.seen.files, logs |-> old.seen.logs,
                         snapshot |-> old.seen.snapshot, state |-> old.seen.state]
      BY <1>0 DEF Rebuilding, Reading
    <3>2. [old EXCEPT !.left = @ \ {r}, !.seen.files[r] = summary[r]] = x
      <4> DEFINE less == [old EXCEPT !.left = @ \ {r}]
                 seen == [less.seen EXCEPT !.files = [@ EXCEPT ![r] = summary[r]]]
      <4> HIDE DEF old
      <4>1. less = [at |-> old.at, left |-> old.left \ {r}, seen |-> old.seen]
        BY <3>1
      <4>2. less.at = old.at /\ less.left = old.left \ {r} /\ less.seen = old.seen
        BY <4>1
      <4>3. seen = [files |-> [old.seen.files EXCEPT ![r] = summary[r]], logs |-> old.seen.logs,
                    snapshot |-> old.seen.snapshot, state |-> old.seen.state]
        <5> HIDE DEF less
        <5> QED BY <3>1, <4>2
      <4>4. [less EXCEPT !.seen = seen] = [at |-> old.at, left |-> old.left \ {r}, seen |-> seen]
        <5> HIDE DEF less, seen
        <5> QED BY <4>1
      <4> QED BY <4>3, <4>4
    <3>3. build' = [build EXCEPT ![b] = [old EXCEPT !.left = @ \ {r}, !.seen.files[r] = summary[r]]]
      BY <1>0, <2>0 DEF BuildTyped
    <3> QED BY <3>2, <3>3
  <2>3. files \in [Runs -> File]
    BY <1>0, <2>1 DEF Reading, FilesTyped
  <2> HIDE DEF files
  <2>4. Rebuilding(x)
    BY <1>0, <2>3 DEF Rebuilding, Reading
  <2> HIDE DEF x
  <2>5. BuildTyped'
    BY <1>1, <2>2, <2>4
  <2> QED BY <2>0, <2>5, Unmoved DEF Inv, fileVars
<1>3. CASE ReadTheRest(b)
  <2> DEFINE old == build[b]
             seen == [old.seen EXCEPT !.logs = logs, !.snapshot = snapshot, !.state = season]
             x == [old EXCEPT !.at = "store", !.seen = seen]
  <2>0. /\ build' = [build EXCEPT ![b] = x]
        /\ UNCHANGED <<ending, run, fileVars, gateway, hand, judging, apiVars, store, countVars>>
    BY <1>3 DEF ReadTheRest
  <2>1. /\ old = [at |-> old.at, left |-> old.left, seen |-> old.seen]
        /\ old.seen = [files |-> old.seen.files, logs |-> old.seen.logs,
                       snapshot |-> old.seen.snapshot, state |-> old.seen.state]
        /\ old.left \subseteq Runs /\ old.seen.files \in [Runs -> File]
    BY <1>0 DEF Rebuilding, Reading
  <2>2. seen = [files |-> old.seen.files, logs |-> logs, snapshot |-> snapshot, state |-> season]
    <3>1. seen \in [files : {old.seen.files}, logs : {logs}, snapshot : {snapshot}, state : {season}]
      BY <2>1
    <3> HIDE DEF seen
    <3> QED BY <3>1
  <2>3. Reading(seen)
    BY <2>1, <2>2 DEF Reading
  <2>4. build' = [build EXCEPT ![b] = x]
    BY <2>0
  <2> HIDE DEF seen
  <2>5. x = [at |-> "store", left |-> old.left, seen |-> seen]
    <3>1. x \in [at : {"store"}, left : {old.left}, seen : {seen}]
      BY <2>1
    <3> HIDE DEF x
    <3> QED BY <3>1
  <2>6. Rebuilding(x)
    BY <2>1, <2>3, <2>5 DEF Rebuilding
  <2> HIDE DEF x
  <2>7. BuildTyped'
    BY <1>1, <2>4, <2>6
  <2> QED BY <2>0, <2>7, Unmoved DEF Inv, fileVars
<1>4. ASSUME NEW ok \in BOOLEAN, Afterwards(b, ok)
      PROVE  /\ GatewayTyped' /\ BuildTyped'
             /\ watcher' \in {"starting", "booting", "ready", "watching", "polling", "off"}
  <2>1. GatewayTyped'
    <3>1. \/ gateway' = gateway \/ gateway' = Handler
          \/ \E at \in {"ended", "asleep"} : gateway' = [Asleep EXCEPT !.at = at]
      BY <1>4 DEF Afterwards
    <3>2. Handler \in Loop /\ Handler.copy = Absent /\ Handler.at = "rebuild"
      BY DEF Handler, Loop, Asleep, PrStates
    <3>3. \A at \in {"ended", "asleep"} :
            LET g == [Asleep EXCEPT !.at = at] IN g \in Loop /\ g.copy = Absent /\ g.at = at
      BY DEF Loop, Asleep, PrStates
    <3> QED BY <1>0, <3>1, <3>2, <3>3 DEF GatewayTyped
  <2>2. BuildTyped'
    <3>1. Rebuilding(NotBuilding)
      BY NothingRead DEF Rebuilding, NotBuilding
    <3> QED BY <1>1, <1>4, <3>1 DEF Afterwards
  <2>3. watcher' \in {"starting", "booting", "ready", "watching", "polling", "off"}
    BY <1>0, <1>4 DEF Afterwards, RestTyped
  <2> QED BY <2>1, <2>2, <2>3
<1>5. CASE StoreTables(b)
  <2>0. /\ store' = Tables(build[b].seen) /\ Afterwards(b, TRUE)
        /\ UNCHANGED <<ending, run, fileVars, hand, judging, dirty, countVars>>
    BY <1>5 DEF StoreTables
  <2>1. StoreTyped'
    BY <1>0, <2>0 DEF StoreTyped, Reading
  <2>2. RestTyped'
    BY <1>0, <1>4, <2>0 DEF RestTyped, countVars
  <2> QED BY <1>4, <2>0, <2>1, <2>2, Unmoved DEF Inv, fileVars
<1>6. CASE BuildFails(b)
  <2>0. /\ faults > 0 /\ faults' = faults - 1 /\ Afterwards(b, FALSE)
        /\ UNCHANGED <<ending, run, fileVars, hand, judging, dirty, store, panels, hands>>
    BY <1>6 DEF BuildFails, Fail
  <2>1. watcher' \in {"starting", "booting", "ready", "watching", "polling", "off"}
    BY <1>4, <2>0
  <2>2. RestTyped'
    BY <1>0, <2>0, <2>1 DEF RestTyped
  <2> QED BY <1>4, <2>0, <2>2, Unmoved DEF Inv, fileVars
<1> QED BY <1>2, <1>3, <1>5, <1>6 DEF BuildStep

LEMMA WatcherKeeps == ASSUME Inv, WatcherStep PROVE Inv'
<1>0. RestTyped /\ BuildTyped
  BY DEF Inv
<1>1. CASE ApiStarts
  <2>1. BuildTyped'
    BY <1>1, BuildStarts DEF ApiStarts
  <2>2. RestTyped'
    BY <1>0, <1>1 DEF ApiStarts, RestTyped, countVars
  <2> QED BY <1>1, <2>1, <2>2, Unmoved DEF ApiStarts, Inv, fileVars
<1>2. CASE WatchBegins
  <2>1. RestTyped'
    BY <1>0, <1>2 DEF WatchBegins, RestTyped, countVars
  <2> QED BY <1>2, <2>1, Unmoved DEF WatchBegins, Inv, fileVars
<1>3. CASE WatchBreaks
  <2>1. RestTyped'
    BY <1>0, <1>3 DEF WatchBreaks, Fail, RestTyped
  <2> QED BY <1>3, <2>1, Unmoved DEF WatchBreaks, Inv, fileVars
<1>4. CASE WatcherRebuilds
  <2>1. BuildTyped'
    BY <1>4, BuildStarts DEF WatcherRebuilds
  <2>2. RestTyped'
    BY <1>0, <1>4 DEF WatcherRebuilds, RestTyped, countVars
  <2> QED BY <1>4, <2>1, <2>2, Unmoved DEF WatcherRebuilds, Inv, fileVars
<1>5. CASE ApiExits
  <2>1. Rebuilding(NotBuilding)
    BY NothingRead DEF Rebuilding, NotBuilding
  <2>2. BuildTyped'
    BY <1>0, <1>5, <2>1 DEF ApiExits, BuildTyped
  <2>3. RestTyped'
    <3>1. /\ watcher' = "starting" /\ dirty' = FALSE /\ faults > 0 /\ faults' = faults - 1
          /\ UNCHANGED <<hand, panels, hands>>
      BY <1>5 DEF ApiExits, Fail
    <3>2. faults' \in Nat
      BY <1>0, <3>1 DEF RestTyped
    <3> QED BY <1>0, <3>1, <3>2, Zenon DEF RestTyped
  <2> QED BY <1>5, <2>2, <2>3, Unmoved DEF ApiExits, Inv, fileVars
<1> QED BY <1>1, <1>2, <1>3, <1>4, <1>5 DEF WatcherStep

LEMMA HandKeeps == ASSUME Inv, HandStep PROVE Inv'
<1>0. FilesTyped /\ RestTyped
  BY DEF Inv
<1>1. ASSUME NEW r \in Runs, HandJudges(r) PROVE Inv'
  <2>1. JudgingTyped' /\ JudgedIsWhole' /\ panels' \in Nat
    BY <1>1, PanelStarts DEF HandJudges, Judges, fileVars
  <2>2. RestTyped'
    BY <1>0, <1>1, <2>1 DEF HandJudges, RestTyped, apiVars
  <2> QED BY <1>1, <2>1, <2>2, Unmoved DEF HandJudges, Inv
<1>2. CASE HandRebuilds
  <2>1. BuildTyped'
    BY <1>2, BuildStarts DEF HandRebuilds
  <2>2. RestTyped'
    BY <1>0, <1>2 DEF HandRebuilds, RestTyped, apiVars
  <2> QED BY <1>2, <2>1, <2>2, Unmoved DEF HandRebuilds, Inv, fileVars
<1>3. CASE SnapshotTorn
  <2>1. FilesTyped'
    BY <1>0, <1>3 DEF SnapshotTorn, FilesTyped, Torn
  <2>2. RestTyped'
    BY <1>0, <1>3 DEF SnapshotTorn, RestTyped, apiVars
  <2> QED BY <1>3, <2>1, <2>2, Unmoved DEF SnapshotTorn, Inv
<1>4. CASE SnapshotWritten
  <2>1. snapshot'.there = "whole"
    BY <1>4 DEF SnapshotWritten, Snapshot
  <2>2. FilesTyped'
    BY <1>0, <1>4, <2>1 DEF SnapshotWritten, FilesTyped
  <2>3. RestTyped'
    BY <1>0, <1>4 DEF SnapshotWritten, RestTyped, apiVars, countVars
  <2> QED BY <1>4, <2>2, <2>3, Unmoved DEF SnapshotWritten, Inv
<1>5. ASSUME NEW force \in BOOLEAN, Complete(force) PROVE Inv'
  <2>1. season' \in {"active", "completed"}
    BY <1>0, <1>5 DEF Complete, FilesTyped
  <2>2. FilesTyped'
    BY <1>0, <1>5, <2>1 DEF Complete, FilesTyped
  <2>3. RestTyped'
    BY <1>0, <1>5 DEF Complete, RestTyped, apiVars, countVars
  <2> QED BY <1>5, <2>2, <2>3, Unmoved DEF Complete, Inv
<1>6. CASE HandDies
  <2>1. RestTyped'
    BY <1>0, <1>6 DEF HandDies, Fail, RestTyped, apiVars
  <2> QED BY <1>6, <2>1, Unmoved DEF HandDies, Inv, fileVars
<1> QED BY <1>1, <1>2, <1>3, <1>4, <1>5, <1>6 DEF HandStep

LEMMA NextKeeps == ASSUME Inv, [Next]_vars PROVE Inv'
<1>1. CASE UNCHANGED vars
  <2>1. /\ UNCHANGED <<ending, run, fileVars>> /\ UNCHANGED <<hand, apiVars, countVars>>
        /\ UNCHANGED gateway /\ UNCHANGED judging /\ UNCHANGED <<judging, run, summary>>
        /\ UNCHANGED build /\ UNCHANGED store
    BY <1>1 DEF vars, fileVars
  <2> QED BY <2>1, Unmoved DEF Inv
<1>2. CASE Next
  BY <1>2, RunnerKeeps, TickKeeps, WatcherKeeps, HandKeeps, JudgeKeeps, BuildKeeps DEF Next
<1> QED BY <1>1, <1>2

(* The invariant is kept.                                                  *)
THEOREM InvAlways == Spec => []Inv
<1>1. Init => Inv
  BY InvInit
<1>2. Inv /\ [Next]_vars => Inv'
  BY NextKeeps
<1> QED BY <1>1, <1>2, PTL DEF Spec

(* Every variable has its type, whoever writes the files while others read *)
(* them: no rebuild reads anything but a whole summary, none, or one that  *)
(* it knows to be torn, and what is held to be written back is whole.      *)
THEOREM TypeCorrect == Spec => []TypeOK
  BY InvAlways, InvTypes, PTL

LEMMA InvTellsOneTruth == Inv => OneTruth
<1> SUFFICES ASSUME Inv PROVE OneTruth
  OBVIOUS
<1>1. OneStory(store)
  BY OneReadingOneStory DEF Inv, StoreTyped
<1>2. \A b \in Builders : build[b].at = "store" => Exported(build[b].seen) = Tables(build[b].seen)
  BY OneReadingOneStory DEF Inv, BuildTyped, Rebuilding
<1> QED BY <1>1, <1>2, Zenon DEF OneStory, OneTruth

(* The tables tell one story: the board, the participants, the season's    *)
(* row, the totals and the exported files count the same runs, for any     *)
(* runs and participants, and at whatever moments between the writes of    *)
(* others each file was read.                                              *)
THEOREM TablesTellOneTruth == Spec => []OneTruth
  BY InvAlways, InvTellsOneTruth, PTL
=================================================================================
