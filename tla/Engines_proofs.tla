----------------------------- MODULE Engines_proofs -----------------------------
(***************************************************************************)
(* Proofs about the engines: the benchmark of the tabular learners         *)
(* (LearningBenchmark), for every number of learners, trials, episodes and *)
(* records; the state store (DurableStateStore), for every number of       *)
(* clients, generations, crashes and damaged files; the champion           *)
(* (ChampionSelection) and the fitted candidate (FittedCandidate), for     *)
(* every ladder and any seeds; the flows of the simulated port             *)
(* (PortFlows), for every sea; the environments of the learners            *)
(* (PortReplay), for every dataset and every noise; and the decisions of   *)
(* the core policy (CorePlans), for every situation and every vote.        *)
(***************************************************************************)
EXTENDS LearningBenchmark, DurableStateStore, LearnerEvidence, PortFlows, PortReplay,
        CorePlans, WellFoundedInduction, TLAPS

----------------------------------------------------------------------------
(* The benchmark.  The records read for a purpose lie in the segment of     *)
(* that purpose, and the segments follow one another; the trials that a     *)
(* learner has been through are those before the present one, and of those  *)
(* it keeps the first best.  That there is a first best of any number of    *)
(* scores needs no induction over them: it is kept while they come in.      *)

Segment(purpose, n) ==
    CASE purpose = "fit" -> TrainRecords(n)
      [] purpose = "tune" -> TuningRecords(n)
      [] purpose = "select" -> SelectionRecords(n)
      [] OTHER -> TestRecords(n)

BenchShape ==
    /\ size \in Nat
    /\ tried \in [Rl -> Seq(Grade)] /\ kept \in [Rl -> Nat] /\ graded \in Seq(Grade)
    /\ reads \in [Purpose -> SUBSET Int]

\* What is read, and until when nothing is.
ReadsInSegments ==
    /\ stage = "queued" => \A p \in Purpose : reads[p] = {}
    /\ stage \notin {"queued", "failed"} => Acceptable(size)
    /\ \A p \in Purpose : reads[p] # {} => Acceptable(size)
    /\ \A p \in Purpose : reads[p] \subseteq Segment(p, size)

\* How many trials a learner has been through.
TrialsGone ==
    /\ stage \in {"queued", "training"} => \A l \in Rl :
        Len(tried[l]) = IF l < turn THEN Trials ELSE IF l = turn THEN trial - 1 ELSE 0
    /\ stage \in {"calibrating", "calibrated", "selecting", "packed"} =>
        \A l \in Rl : Len(tried[l]) = Trials

KeptIsFirst ==
    \A l \in Rl : /\ kept[l] \in 0 .. Len(tried[l])
                  /\ tried[l] # << >> => kept[l] # 0 /\ FirstOfTheBest(kept[l], tried[l])

GradedHasFirst ==
    /\ stage \in {"queued", "training", "calibrating", "calibrated"} => graded = << >>
    /\ graded # << >> => \E i \in DOMAIN graded : FirstOfTheBest(i, graded)
    /\ stage = "packed" => best \in DOMAIN graded /\ FirstOfTheBest(best, graded)

BenchInv ==
    /\ BenchTypeOK /\ BenchShape
    /\ ReadsInSegments /\ TestIsSealed
    /\ TrialsGone /\ KeptIsFirst /\ GradedHasFirst

\* The four segments of an acceptable dataset follow one another in the order of time and
\* lie within it (portTrainingDataset.ts, splitValidationRecords of rlTrainingEngine.ts).
LEMMA SegmentsInOrder ==
    ASSUME NEW n \in Nat, Acceptable(n)
    PROVE  /\ TrainEnd(n) \in Nat /\ TuningEnd(n) \in Nat /\ ValidationEnd(n) \in Nat
           /\ TrainEnd(n) <= TuningEnd(n) /\ TuningEnd(n) <= ValidationEnd(n)
           /\ ValidationEnd(n) <= n
<1>1. TrainEnd(n) \in Nat /\ TrainEnd(n) <= n - 6
    BY DEF Acceptable, TrainEnd, AtLeast
<1>2. /\ ValidationEnd(n) \in Nat /\ ValidationEnd(n) >= TrainEnd(n) + 2
      /\ ValidationEnd(n) <= n
    BY <1>1 DEF Acceptable, ValidationEnd, AtLeast, AtMost
<1>3. /\ TuningEnd(n) \in Nat /\ TrainEnd(n) <= TuningEnd(n)
      /\ TuningEnd(n) <= ValidationEnd(n)
    <2> DEFINE v == ValidationEnd(n) - TrainEnd(n)
    <2>1. v \in Nat /\ v >= 2
        BY <1>1, <1>2
    <2>2. TuningEnd(n) = TrainEnd(n) + AtMost(v - 2, AtLeast(2, (6 * v) \div 10))
        BY DEF TuningEnd
    <2>3. v = ValidationEnd(n) - TrainEnd(n)
        OBVIOUS
    <2> HIDE DEF v
    <2>4. AtMost(v - 2, AtLeast(2, (6 * v) \div 10)) \in 0 .. v - 2
        BY <2>1 DEF AtMost, AtLeast
    <2> QED
        BY <1>1, <1>2, <2>1, <2>2, <2>3, <2>4
<1> QED
    BY <1>1, <1>2, <1>3

\* So records of two purposes are read in the order of the purposes.
LEMMA SegmentsApart ==
    ASSUME NEW n \in Nat, Acceptable(n), NEW a \in 1 .. 4, NEW b \in 1 .. 4, a < b,
           NEW i \in Segment(<<"fit", "tune", "select", "test">>[a], n),
           NEW j \in Segment(<<"fit", "tune", "select", "test">>[b], n)
    PROVE  i < j
<1>1. \/ a = 1 /\ i \in TrainRecords(n) /\ b \in {2, 3, 4}
      \/ a = 2 /\ i \in TuningRecords(n) /\ b \in {3, 4}
      \/ a = 3 /\ i \in SelectionRecords(n) /\ b = 4
    BY DEF Segment
<1>2. \/ b = 2 /\ j \in TuningRecords(n)
      \/ b = 3 /\ j \in SelectionRecords(n)
      \/ b = 4 /\ j \in TestRecords(n)
    BY DEF Segment
<1> QED
    BY <1>1, <1>2, SegmentsInOrder
       DEF TrainRecords, TuningRecords, SelectionRecords, TestRecords

LEMMA SegmentsWithin ==
    ASSUME NEW n \in Nat, Acceptable(n), NEW p \in Purpose
    PROVE  Segment(p, n) \subseteq 0 .. n - 1
BY SegmentsInOrder
   DEF Segment, Purpose, TrainRecords, TuningRecords, SelectionRecords, TestRecords

\* One more score keeps, or changes, the first best.
LEMMA FirstBestGrows ==
    ASSUME NEW s \in Seq(Grade), NEW score \in Grade, NEW i \in DOMAIN s, FirstOfTheBest(i, s)
    PROVE  FirstOfTheBest(IF score > s[i] THEN Len(s) + 1 ELSE i, Append(s, score))
<1> DEFINE t == Append(s, score)
<1>1. /\ Len(t) = Len(s) + 1 /\ t[Len(s) + 1] = score
      /\ \A j \in 1 .. Len(s) : t[j] = s[j]
    OBVIOUS
<1>2. /\ DOMAIN s = 1 .. Len(s) /\ DOMAIN t = 1 .. Len(s) + 1 /\ Len(s) \in Nat
    OBVIOUS
<1>3. score \in Int /\ \A j \in 1 .. Len(s) : s[j] \in Int
    <2>1. Grade \subseteq Int
        BY BenchmarkAssumption
    <2>2. \A j \in 1 .. Len(s) : s[j] \in Grade
        OBVIOUS
    <2> QED
        BY <2>1, <2>2
<1> HIDE DEF t
<1>4. (\A j \in 1 .. Len(s) : s[j] <= s[i]) /\ \A j \in 1 .. i - 1 : s[j] < s[i]
    BY <1>2 DEF FirstOfTheBest
<1>5. CASE score > s[i]
    <2>1. \A j \in 1 .. Len(s) + 1 : t[j] <= t[Len(s) + 1]
        BY <1>1, <1>2, <1>3, <1>4, <1>5
    <2>2. \A j \in 1 .. (Len(s) + 1) - 1 : t[j] < t[Len(s) + 1]
        BY <1>1, <1>2, <1>3, <1>4, <1>5
    <2> QED
        BY <1>2, <1>5, <2>1, <2>2 DEF FirstOfTheBest, t
<1>6. CASE ~(score > s[i])
    <2>1. \A j \in 1 .. Len(s) + 1 : t[j] <= t[i]
        BY <1>1, <1>2, <1>3, <1>4, <1>6
    <2>2. \A j \in 1 .. i - 1 : t[j] < t[i]
        BY <1>1, <1>2, <1>3, <1>4
    <2> QED
        BY <1>2, <1>6, <2>1, <2>2 DEF FirstOfTheBest, t
<1> QED
    BY <1>5, <1>6

LEMMA BenchInitInv == BenchInit => BenchInv
<1> SUFFICES ASSUME BenchInit PROVE BenchInv
    OBVIOUS
<1> USE BenchmarkAssumption
<1>1. /\ size = 0 /\ stage = "queued" /\ turn = 1 /\ trial = 1 /\ episode = 0 /\ best = 0
      /\ graded = << >> /\ halt = FALSE /\ \A p \in Purpose : reads[p] = {}
      /\ \A l \in Rl : tried[l] = << >> /\ kept[l] = 0
    BY DEF BenchInit
<1>2. << >> \in Seq(Grade) /\ Len(<< >>) = 0
    OBVIOUS
<1>3. BenchShape
    <2>1. tried \in [Rl -> Seq(Grade)] /\ kept \in [Rl -> Nat]
        BY <1>2 DEF BenchInit
    <2>2. reads \in [Purpose -> SUBSET Int]
        BY DEF BenchInit
    <2> QED
        BY <1>1, <1>2, <2>1, <2>2 DEF BenchShape
<1>4. BenchTypeOK
    <2>1. turn \in Rl /\ trial \in 1 .. Trials /\ episode \in 0 .. Episodes
        BY <1>1 DEF Rl
    <2>2. \A l \in Rl : tried[l] \in Seq(Grade) /\ kept[l] \in 0 .. Len(tried[l])
        <3> SUFFICES ASSUME NEW l \in Rl
                     PROVE  tried[l] \in Seq(Grade) /\ kept[l] \in 0 .. Len(tried[l])
            OBVIOUS
        <3>1. tried[l] = << >> /\ kept[l] = 0
            BY <1>1
        <3> QED
            BY <1>2, <3>1
    <2>3. size \in Size \cup {0} /\ best \in 0 .. Learners /\ graded \in Seq(Grade)
        BY <1>1, <1>2
    <2> QED
        BY <1>1, <2>1, <2>2, <2>3 DEF BenchTypeOK
<1>5. ReadsInSegments /\ TestIsSealed
    BY <1>1 DEF ReadsInSegments, TestIsSealed, Purpose
<1>6. TrialsGone /\ KeptIsFirst /\ GradedHasFirst
    BY <1>1, <1>2 DEF TrialsGone, KeptIsFirst, GradedHasFirst, Rl
<1> QED
    BY <1>3, <1>4, <1>5, <1>6 DEF BenchInv

\* Reading for a purpose, from the records of its segment, keeps every purpose to its own.
LEMMA ReadingStaysApart ==
    ASSUME BenchInv, NEW purpose \in Purpose, ReadFor(purpose, Segment(purpose, size)),
           stage \notin {"queued", "failed"}, stage' \notin {"queued", "failed"},
           size' = size
    PROVE  /\ reads' \in [Purpose -> SUBSET Int]
           /\ \A p \in Purpose : reads'[p] \subseteq 0 .. size' - 1
           /\ ReadsInSegments'
           /\ purpose # "test" => reads'["test"] = reads["test"]
<1>1. Acceptable(size) /\ size \in Nat
    BY DEF BenchInv, ReadsInSegments, BenchShape
<1>2. Segment(purpose, size) \subseteq 0 .. size - 1
    BY <1>1, SegmentsWithin
<1>3. \A p \in Purpose :
        reads'[p] = IF p = purpose THEN reads[p] \cup Segment(purpose, size) ELSE reads[p]
    BY DEF ReadFor, BenchInv, BenchShape
<1>4. reads' \in [Purpose -> SUBSET Int]
    BY <1>2 DEF ReadFor, BenchInv, BenchShape
<1>5. \A p \in Purpose : reads'[p] \subseteq 0 .. size' - 1
    BY <1>2, <1>3 DEF BenchInv, BenchTypeOK
<1>6. \A p \in Purpose : reads'[p] \subseteq Segment(p, size)
    BY <1>3 DEF BenchInv, ReadsInSegments
<1>7. ReadsInSegments'
    BY <1>1, <1>6 DEF ReadsInSegments
<1> QED
    BY <1>3, <1>4, <1>5, <1>7 DEF Purpose

\* A step that neither reads nor scores, and leaves the learner and the trial alone.
LEMMA QuietStep ==
    ASSUME BenchInv, UNCHANGED <<size, turn, trial, tried, kept, graded, best, reads>>,
           episode' \in 0 .. Episodes, halt' \in BOOLEAN,
           \/ stage' = stage
           \/ stage' \in {"stopped", "failed"} /\ stage # "packed" /\ stage # "queued"
              /\ (stage' = "stopped" => stage # "failed")
           \/ stage = "calibrating" /\ stage' = "calibrated"
           \/ stage = "calibrated" /\ stage' = "selecting"
    PROVE  BenchInv'
<1>1. BenchTypeOK' /\ BenchShape'
    BY DEF BenchInv, BenchTypeOK, BenchShape
<1>2. ReadsInSegments' /\ TestIsSealed'
    BY DEF BenchInv, ReadsInSegments, TestIsSealed
<1>3. TrialsGone' /\ KeptIsFirst' /\ GradedHasFirst'
    BY DEF BenchInv, TrialsGone, KeptIsFirst, GradedHasFirst
<1> QED
    BY <1>1, <1>2, <1>3 DEF BenchInv

LEMMA LoadDatasetInv == ASSUME BenchInv, NEW n \in Size, LoadDataset(n) PROVE BenchInv'
<1> USE BenchmarkAssumption DEF LoadDataset
<1>1. BenchShape' /\ BenchTypeOK'
    BY DEF BenchInv, BenchTypeOK, BenchShape, ReadsInSegments
<1>2. ReadsInSegments' /\ TestIsSealed'
    BY DEF BenchInv, ReadsInSegments, TestIsSealed, Purpose
<1>3. TrialsGone' /\ KeptIsFirst' /\ GradedHasFirst'
    BY DEF BenchInv, TrialsGone, KeptIsFirst, GradedHasFirst
<1> QED
    BY <1>1, <1>2, <1>3 DEF BenchInv

\* A step that reads for a purpose and leaves the scores alone.
LEMMA ReadingStep ==
    ASSUME BenchInv, NEW purpose \in Purpose, ReadFor(purpose, Segment(purpose, size)),
           UNCHANGED <<size, turn, trial, tried, kept, graded, best, halt>>,
           episode' \in 0 .. Episodes, purpose = "test" => stage = "packed",
           \/ stage' = stage /\ stage \notin {"queued", "failed"}
           \/ stage = "calibrating" /\ stage' = "calibrated"
           \/ stage = "calibrated" /\ stage' = "selecting"
    PROVE  BenchInv'
<1>1. /\ reads' \in [Purpose -> SUBSET Int]
      /\ \A p \in Purpose : reads'[p] \subseteq 0 .. size' - 1
      /\ ReadsInSegments'
      /\ purpose # "test" => reads'["test"] = reads["test"]
    BY ReadingStaysApart
<1>2. BenchTypeOK' /\ BenchShape'
    BY <1>1 DEF BenchInv, BenchTypeOK, BenchShape
<1>3. TestIsSealed'
    BY <1>1 DEF BenchInv, TestIsSealed
<1>4. TrialsGone' /\ KeptIsFirst' /\ GradedHasFirst'
    BY DEF BenchInv, TrialsGone, KeptIsFirst, GradedHasFirst
<1> QED
    BY <1>1, <1>2, <1>3, <1>4 DEF BenchInv

LEMMA EndTrialInv == ASSUME BenchInv, NEW score \in Grade, EndTrial(score) PROVE BenchInv'
<1> USE BenchmarkAssumption
<1> DEFINE s == tried[turn]
           t == Append(tried[turn], score)
<1>1. /\ stage = "training" /\ turn \in Rl /\ trial \in 1 .. Trials
      /\ s \in Seq(Grade) /\ Len(s) = trial - 1 /\ Len(s) \in Nat
      /\ kept[turn] \in 0 .. Len(s) /\ (s # << >> => kept[turn] # 0)
      /\ tried \in [Rl -> Seq(Grade)] /\ kept \in [Rl -> Nat]
    <2>1. stage = "training"
        BY DEF EndTrial
    <2>2. /\ turn \in Rl /\ trial \in 1 .. Trials
          /\ tried \in [Rl -> Seq(Grade)] /\ kept \in [Rl -> Nat]
        BY DEF BenchInv, BenchTypeOK, BenchShape
    <2>3. s \in Seq(Grade) /\ Len(s) \in Nat
        BY <2>2
    <2>4. ~(turn < turn)
        BY <2>2 DEF Rl
    <2>5. Len(s) = trial - 1
        BY <2>1, <2>2, <2>4 DEF BenchInv, TrialsGone
    <2>6. kept[turn] \in 0 .. Len(s) /\ (s # << >> => kept[turn] # 0)
        BY <2>2 DEF BenchInv, KeptIsFirst
    <2> QED
        BY <2>1, <2>2, <2>3, <2>5, <2>6
<1>2. t \in Seq(Grade) /\ Len(t) = trial /\ t # << >> /\ t[trial] = score
    <2> HIDE DEF s
    <2>1. t = Append(s, score)
        BY DEF s
    <2> HIDE DEF t
    <2>2. t \in Seq(Grade) /\ Len(t) = Len(s) + 1 /\ t[Len(s) + 1] = score
        BY <1>1, <2>1
    <2>3. Len(s) + 1 = trial
        BY <1>1
    <2>4. t # << >>
        BY <1>1, <2>2
    <2> QED
        BY <2>2, <2>3, <2>4
<1>3. /\ tried' \in [Rl -> Seq(Grade)] /\ tried'[turn] = t
      /\ \A l \in Rl : l # turn => tried'[l] = tried[l]
    BY <1>1, <1>2 DEF EndTrial
<1>4. /\ kept' \in [Rl -> Nat]
      /\ kept'[turn] = (IF Better(turn, score) THEN trial ELSE kept[turn])
      /\ \A l \in Rl : l # turn => kept'[l] = kept[l]
    BY <1>1 DEF EndTrial
<1>5. kept'[turn] \in 1 .. Len(t) /\ FirstOfTheBest(kept'[turn], t)
    <2>1. CASE s = << >>
        <3>1. trial = 1 /\ kept[turn] = 0
            BY <1>1, <2>1
        <3>2. kept'[turn] = 1
            BY <1>4, <3>1 DEF Better
        <3>3. DOMAIN t = {1} /\ t[1] = score /\ score \in Int
            BY <1>2, <3>1
        <3> QED
            BY <1>2, <3>1, <3>2, <3>3 DEF FirstOfTheBest
    <2>2. CASE s # << >>
        <3>1. kept[turn] \in DOMAIN s /\ FirstOfTheBest(kept[turn], s)
            BY <1>1, <2>2 DEF BenchInv, KeptIsFirst
        <3>2. FirstOfTheBest(IF score > s[kept[turn]] THEN Len(s) + 1 ELSE kept[turn], t)
            <4> HIDE DEF s
            <4> QED
                BY <1>1, <3>1, FirstBestGrows DEF s
        <3>3. kept'[turn] = IF score > s[kept[turn]] THEN Len(s) + 1 ELSE kept[turn]
            BY <1>1, <1>4, <2>2 DEF Better
        <3>4. kept'[turn] \in 1 .. Len(t)
            BY <1>1, <1>2, <3>1, <3>3
        <3> QED
            BY <3>2, <3>3, <3>4
    <2> QED
        BY <2>1, <2>2
<1> HIDE DEF s, t
<1>6. KeptIsFirst'
    <2> SUFFICES ASSUME NEW l \in Rl
                 PROVE  /\ kept'[l] \in 0 .. Len(tried'[l])
                        /\ tried'[l] # << >> =>
                            kept'[l] # 0 /\ FirstOfTheBest(kept'[l], tried'[l])
        BY DEF KeptIsFirst, FirstOfTheBest
    <2>1. CASE l = turn
        BY <1>2, <1>3, <1>5, <2>1
    <2>2. CASE l # turn
        BY <1>3, <1>4, <2>2 DEF BenchInv, KeptIsFirst
    <2> QED
        BY <2>1, <2>2
<1>7. TrialsGone'
    <2>1. \A l \in Rl : Len(tried[l]) =
            IF l < turn THEN Trials ELSE IF l = turn THEN trial - 1 ELSE 0
        BY <1>1 DEF BenchInv, TrialsGone
    <2>2. \A l \in Rl : Len(tried'[l]) =
            IF l < turn THEN Trials ELSE IF l = turn THEN trial ELSE 0
        <3> SUFFICES ASSUME NEW l \in Rl
                     PROVE  Len(tried'[l]) =
                            IF l < turn THEN Trials ELSE IF l = turn THEN trial ELSE 0
            OBVIOUS
        <3>1. CASE l = turn
            <4>1. ~(l < turn)
                BY <1>1, <3>1 DEF Rl
            <4> QED
                BY <1>2, <1>3, <3>1, <4>1
        <3>2. CASE l # turn
            BY <1>3, <2>1, <3>2
        <3> QED
            BY <3>1, <3>2
    <2>3. \A l \in Rl : l \in Nat /\ (l < turn \/ l = turn \/ l > turn)
        BY <1>1 DEF Rl
    <2>4. CASE trial < Trials
        <3>1. stage' = "training" /\ turn' = turn /\ trial' = trial + 1
            BY <1>1, <2>4 DEF EndTrial
        <3>2. trial' - 1 = trial
            BY <1>1, <3>1
        <3> QED
            BY <2>2, <3>1, <3>2 DEF TrialsGone
    <2>5. CASE ~(trial < Trials) /\ turn + 1 \in Rl
        <3>1. stage' = "training" /\ turn' = turn + 1 /\ trial' = 1 /\ trial = Trials
            BY <1>1, <2>5 DEF EndTrial
        <3>2. \A l \in Rl : Len(tried'[l]) =
                IF l < turn' THEN Trials ELSE IF l = turn' THEN trial' - 1 ELSE 0
            <4> SUFFICES ASSUME NEW l \in Rl
                         PROVE  Len(tried'[l]) = IF l < turn' THEN Trials
                                                 ELSE IF l = turn' THEN trial' - 1 ELSE 0
                OBVIOUS
            <4>1. l \in Nat /\ turn \in Nat
                BY <1>1 DEF Rl
            <4>2. l < turn' <=> l < turn \/ l = turn
                BY <3>1, <4>1
            <4> QED
                BY <2>2, <3>1, <4>1, <4>2
        <3> QED
            BY <3>1, <3>2 DEF TrialsGone
    <2>6. CASE ~(trial < Trials) /\ turn + 1 \notin Rl
        <3>1. stage' = "calibrating" /\ trial = Trials
            BY <1>1, <2>6 DEF EndTrial
        <3>2. \A l \in Rl : l < turn \/ l = turn
            BY <1>1, <2>6 DEF Rl
        <3> QED
            BY <2>2, <3>1, <3>2 DEF TrialsGone
    <2> QED
        BY <2>4, <2>5, <2>6
<1>8. /\ stage' \in {"training", "calibrating"} /\ turn' \in Rl /\ trial' \in 1 .. Trials
      /\ episode' \in 0 .. Episodes /\ UNCHANGED <<size, graded, best, halt>>
    <2>1. Trials \in Nat \ {0} /\ Episodes \in Nat /\ episode \in 0 .. Episodes
        BY DEF BenchInv, BenchTypeOK
    <2>2. CASE trial < Trials
        BY <1>1, <2>1, <2>2 DEF EndTrial
    <2>3. CASE ~(trial < Trials) /\ turn + 1 \in Rl
        BY <1>1, <2>1, <2>3 DEF EndTrial
    <2>4. CASE ~(trial < Trials) /\ turn + 1 \notin Rl
        BY <1>1, <2>1, <2>4 DEF EndTrial
    <2> QED
        BY <2>2, <2>3, <2>4
<1>9. /\ reads' \in [Purpose -> SUBSET Int]
      /\ \A p \in Purpose : reads'[p] \subseteq 0 .. size' - 1
      /\ ReadsInSegments' /\ reads'["test"] = reads["test"]
    <2>1. "tune" \in Purpose /\ ReadFor("tune", Segment("tune", size))
        BY DEF EndTrial, Segment, Purpose
    <2> QED
        BY <1>1, <1>8, <2>1, ReadingStaysApart
<1>10. GradedHasFirst' /\ TestIsSealed'
    BY <1>1, <1>8, <1>9 DEF BenchInv, GradedHasFirst, TestIsSealed
<1>11. BenchShape' /\ BenchTypeOK'
    BY <1>3, <1>4, <1>6, <1>8, <1>9
       DEF BenchInv, BenchShape, BenchTypeOK, KeptIsFirst
<1> QED
    BY <1>6, <1>7, <1>9, <1>10, <1>11 DEF BenchInv

LEMMA SelectNextInv == ASSUME BenchInv, NEW score \in Grade, SelectNext(score) PROVE BenchInv'
<1>1. stage = "selecting" /\ stage' = stage /\ graded' = Append(graded, score)
    BY DEF SelectNext
<1>2. /\ graded \in Seq(Grade)
      /\ graded # << >> => \E i \in DOMAIN graded : FirstOfTheBest(i, graded)
    BY DEF BenchInv, BenchShape, GradedHasFirst
<1>3. /\ graded' \in Seq(Grade) /\ DOMAIN graded' = 1 .. Len(graded) + 1
      /\ Len(graded) \in Nat /\ DOMAIN graded = 1 .. Len(graded)
    BY <1>1, <1>2
<1>4. \E i \in DOMAIN graded' : FirstOfTheBest(i, graded')
    <2>1. CASE graded = << >>
        <3>1. 1 \in DOMAIN graded' /\ DOMAIN graded' = {1} /\ graded'[1] = score
            BY <1>1, <2>1
        <3>2. score \in Int
            BY BenchmarkAssumption
        <3>3. FirstOfTheBest(1, graded')
            BY <3>1, <3>2 DEF FirstOfTheBest
        <3> QED
            BY <3>1, <3>3
    <2>2. CASE graded # << >>
        <3>1. PICK i \in DOMAIN graded : FirstOfTheBest(i, graded)
            BY <1>2, <2>2
        <3> DEFINE k == IF score > graded[i] THEN Len(graded) + 1 ELSE i
        <3>2. FirstOfTheBest(k, graded')
            BY <1>1, <1>2, <3>1, FirstBestGrows
        <3>3. k \in DOMAIN graded'
            BY <1>3
        <3> QED
            BY <3>2, <3>3
    <2> QED
        BY <2>1, <2>2
<1>5. GradedHasFirst'
    BY <1>1, <1>4 DEF GradedHasFirst, FirstOfTheBest
<1>6. /\ reads' \in [Purpose -> SUBSET Int]
      /\ \A p \in Purpose : reads'[p] \subseteq 0 .. size' - 1
      /\ ReadsInSegments' /\ reads'["test"] = reads["test"]
    <2>1. "select" \in Purpose /\ ReadFor("select", Segment("select", size)) /\ size' = size
        BY DEF SelectNext, Segment, Purpose
    <2> QED
        BY <1>1, <2>1, ReadingStaysApart
<1>7. TrialsGone' /\ KeptIsFirst' /\ TestIsSealed'
    <2>1. UNCHANGED <<turn, trial, tried, kept>>
        BY DEF SelectNext
    <2> QED
        BY <1>1, <1>6, <2>1 DEF BenchInv, TrialsGone, KeptIsFirst, TestIsSealed
<1>8. BenchShape' /\ BenchTypeOK'
    <2>1. UNCHANGED <<size, turn, trial, episode, tried, kept, best, halt>>
        BY DEF SelectNext
    <2> QED
        BY <1>1, <1>3, <1>6, <2>1 DEF BenchInv, BenchShape, BenchTypeOK
<1> QED
    BY <1>5, <1>6, <1>7, <1>8 DEF BenchInv

LEMMA PackInv == ASSUME BenchInv, Pack PROVE BenchInv'
<1>1. /\ stage = "selecting" /\ stage' = "packed" /\ Len(graded) = Learners
      /\ best' = FirstBest(graded)
      /\ UNCHANGED <<size, turn, trial, episode, tried, kept, graded, halt, reads>>
    BY DEF Pack
<1>2. graded \in Seq(Grade) /\ DOMAIN graded = 1 .. Learners /\ graded # << >>
    BY <1>1, BenchmarkAssumption DEF BenchInv, BenchShape
<1>3. \E i \in DOMAIN graded : FirstOfTheBest(i, graded)
    BY <1>2 DEF BenchInv, GradedHasFirst
<1>4. best' \in DOMAIN graded /\ FirstOfTheBest(best', graded)
    <2>1. \E i \in DOMAIN graded : /\ \A j \in DOMAIN graded : graded[j] <= graded[i]
                                  /\ \A j \in 1 .. i - 1 : graded[j] < graded[i]
        BY <1>3 DEF FirstOfTheBest
    <2> QED
        BY <1>1, <2>1 DEF FirstBest, FirstOfTheBest
<1>5. GradedHasFirst'
    BY <1>1, <1>3, <1>4 DEF GradedHasFirst, FirstOfTheBest
<1>6. best' \in 0 .. Learners
    BY <1>2, <1>4, BenchmarkAssumption
<1>7. BenchShape' /\ BenchTypeOK'
    BY <1>1, <1>6 DEF BenchInv, BenchShape, BenchTypeOK
<1>8. ReadsInSegments' /\ TestIsSealed'
    BY <1>1 DEF BenchInv, ReadsInSegments, TestIsSealed
<1>9. TrialsGone' /\ KeptIsFirst'
    BY <1>1 DEF BenchInv, TrialsGone, KeptIsFirst
<1> QED
    BY <1>5, <1>7, <1>8, <1>9 DEF BenchInv

LEMMA BenchStep == ASSUME BenchInv, BenchNext PROVE BenchInv'
<1>1. ASSUME NEW n \in Size, LoadDataset(n) PROVE BenchInv'
    BY <1>1, LoadDatasetInv
<1>2. CASE Halt
    BY <1>2, QuietStep DEF Halt, BenchInv, BenchTypeOK
<1>3. CASE TrainSome
    <2>1. "fit" \in Purpose /\ ReadFor("fit", Segment("fit", size))
        BY <1>3 DEF TrainSome, Segment, Purpose
    <2>2. episode' \in 0 .. Episodes
        <3>1. Episodes \in Nat \ {0} /\ ReportEvery \in Nat \ {0} /\ episode \in 0 .. Episodes
            BY BenchmarkAssumption DEF BenchInv, BenchTypeOK
        <3> DEFINE q == episode \div ReportEvery
        <3>2. q \in Nat
            BY <3>1
        <3> HIDE DEF q
        <3>3. (q + 1) * ReportEvery \in Nat
            BY <3>1, <3>2
        <3>4. episode' = AtMost(Episodes, (q + 1) * ReportEvery)
            BY <1>3 DEF TrainSome, q
        <3> QED
            BY <3>1, <3>3, <3>4 DEF AtMost
    <2>3. /\ stage' = stage /\ stage = "training"
          /\ UNCHANGED <<size, turn, trial, tried, kept, graded, best, halt>>
        BY <1>3 DEF TrainSome
    <2> QED
        BY <2>1, <2>2, <2>3, ReadingStep
<1>4. CASE Stopped
    BY <1>4, QuietStep DEF Stopped, BenchInv, BenchTypeOK
<1>5. CASE TuningFails
    BY <1>5, QuietStep DEF TuningFails, BenchInv, BenchTypeOK
<1>6. ASSUME NEW g \in Grade, EndTrial(g) PROVE BenchInv'
    BY <1>6, EndTrialInv
<1>7. ASSUME NEW g \in Grade, SelectNext(g) PROVE BenchInv'
    BY <1>7, SelectNextInv
<1>8. CASE Calibrate
    <2>1. "fit" \in Purpose /\ ReadFor("fit", Segment("fit", size))
        BY <1>8 DEF Calibrate, Segment, Purpose
    <2> QED
        BY <1>8, <2>1, ReadingStep DEF Calibrate, BenchInv, BenchTypeOK
<1>9. CASE BeginSelection
    <2>1. "tune" \in Purpose /\ ReadFor("tune", Segment("tune", size))
        BY <1>9 DEF BeginSelection, Segment, Purpose
    <2> QED
        BY <1>9, <2>1, ReadingStep DEF BeginSelection, BenchInv, BenchTypeOK
<1>10. CASE Pack
    BY <1>10, PackInv
<1>11. CASE TestPolicy
    <2>1. "test" \in Purpose /\ ReadFor("test", Segment("test", size))
        BY <1>11 DEF TestPolicy, Segment, Purpose
    <2> QED
        BY <1>11, <2>1, ReadingStep DEF TestPolicy, BenchInv, BenchTypeOK
<1> QED
    BY <1>1, <1>2, <1>3, <1>4, <1>5, <1>6, <1>7, <1>8, <1>9, <1>10, <1>11 DEF BenchNext

\* The inductive invariant of a benchmark, for every number of learners and of records.
THEOREM BenchInvariance == BenchSpec => []BenchInv
<1>1. BenchInit => BenchInv
    BY BenchInitInv
<1>2. BenchInv /\ [BenchNext]_benchVars => BenchInv'
    <2> SUFFICES ASSUME BenchInv, [BenchNext]_benchVars PROVE BenchInv'
        OBVIOUS
    <2>1. CASE BenchNext
        BY <2>1, BenchStep
    <2>2. CASE UNCHANGED benchVars
        BY <2>2 DEF benchVars, BenchInv, BenchTypeOK, BenchShape, ReadsInSegments, TestIsSealed,
                    TrialsGone, KeptIsFirst, GradedHasFirst, FirstOfTheBest
    <2> QED
        BY <2>1, <2>2
<1> QED
    BY <1>1, <1>2, PTL DEF BenchSpec

\* A benchmark chooses fairly (trainRlBenchmark): of every acceptable dataset, however long,
\* no record serves two purposes and what is judged lies after what was learnt from; the
\* test records stay closed until the choice stands; and of any number of learners and
\* trials the first of the best is kept.
THEOREM BenchmarkChoosesFairly == BenchSpec => []BenchmarkIsSound
<1>1. BenchInv => BenchmarkIsSound
    <2> SUFFICES ASSUME BenchInv PROVE BenchmarkIsSound
        OBVIOUS
    <2>1. NothingLeaks
        <3> DEFINE inTime == <<"fit", "tune", "select", "test">>
        <3> SUFFICES ASSUME NEW a \in 1 .. 4, NEW b \in 1 .. 4, a < b,
                            NEW i \in reads[inTime[a]], NEW j \in reads[inTime[b]]
                     PROVE  i < j
            BY DEF NothingLeaks
        <3>1. inTime[a] \in Purpose /\ inTime[b] \in Purpose
            BY DEF Purpose
        <3>2. Acceptable(size) /\ size \in Nat
            BY <3>1 DEF BenchInv, ReadsInSegments, BenchShape
        <3>3. i \in Segment(inTime[a], size) /\ j \in Segment(inTime[b], size)
            <4> HIDE DEF inTime
            <4> QED
                BY <3>1 DEF BenchInv, ReadsInSegments
        <3> QED
            BY <3>2, <3>3, SegmentsApart
    <2>2. KeptAreTheBest
        BY DEF BenchInv, KeptIsFirst, GradedHasFirst, TrialsGone, KeptAreTheBest
    <2> QED
        BY <2>1, <2>2 DEF BenchInv, BenchmarkIsSound
<1> QED
    BY <1>1, BenchInvariance, PTL

----------------------------------------------------------------------------
(* The store.  States are sequences that grow by one payload a commit, so   *)
(* "built on" is the prefix relation.  In one event loop the primary, while *)
(* it can be read, was built on everything that was acknowledged and on     *)
(* everything anyone has read; a damaged primary is never committed over,   *)
(* and a commit that was under way replaces it by a state that was built on *)
(* the same.                                                                *)

Before(c) == at[c] \in {"journal", "copy", "copying", "write"}

\* In one event loop at most one commit is under way.
Alone == \A c, d \in Client : at[c] # "idle" /\ at[d] # "idle" => c = d

\* s was built on everything acknowledged and everything anyone has read.
BuiltOnAll(s) ==
    /\ \A e \in acked : IsPrefix(e, s)
    /\ \A d \in Client : IsPrefix(seen[d], s)

StoreShape ==
    /\ journal \in Seq(Seq(StateEnvelope) \cup {Torn})
    /\ ~terminated => journal # <<>>
    /\ seen \in [Client -> StateEnvelope \cup {<<>>}]
    /\ base \in [Client -> StateEnvelope \cup {<<>>}]
    /\ head \in [Client -> Seq(StateEnvelope)]
    /\ crashes \in Nat /\ damage \in Nat

\* What the primary is while nobody writes, and while a commit is under way.
PrimaryIsNewest ==
    /\ damage = 0 => primary # Torn
    /\ Readable(primary) => BuiltOnAll(primary)
    /\ primary = Absent => previous = Absent /\ acked = {} /\ \A d \in Client : seen[d] = <<>>

CommitIsBuiltOnAll ==
    \A c \in Client : at[c] # "idle" =>
        /\ base[c] = seen[c] /\ Len(base[c]) < MaxGeneration
        /\ BuiltOnAll(base[c])
        /\ Before(c) => primary \in {base[c], Torn} \/ (primary = Absent /\ base[c] = <<>>)
        /\ at[c] = "copying" => primary # Absent
        /\ at[c] = "append" => primary \in {New(c), Torn}

\* The previous file holds the state s (nothing, when s is the state before the first).
Behind(s) == IF s = <<>> THEN previous = Absent ELSE previous = s

\* Without a crash, the previous file is one generation behind while the disk is sound, and
\* when the primary is damaged.
PreviousIsBehind ==
    crashes = 0 =>
    /\ damage = 0 =>
        /\ (\A c \in Client : at[c] \in {"idle", "journal", "copy"}) =>
                (Readable(primary) => Behind(Front(primary)))
        /\ \A c \in Client : at[c] \in {"write", "append"} => Behind(base[c])
    /\ damage <= 1 /\ primary = Torn =>
        /\ (\A c \in Client : at[c] \in {"idle", "journal"}) =>
                \E s \in StateEnvelope : Behind(Front(s)) /\ \A e \in acked : IsPrefix(e, s)
        /\ \A c \in Client : at[c] = "append" => Behind(base[c])

\* A line that can be read testifies to a state that s was built on.
Testifies(line, s) ==
    line # Torn => line # <<>> /\ Last(line) \in StateEnvelope /\ IsPrefix(Last(line), s)

JournalInOrder ==
    damage = 0 =>
    /\ \A i \in 1..Len(journal) : Testifies(journal[i], Load)
    /\ \A i \in 2..Len(journal) : journal[i - 1] # Torn /\ journal[i] # Torn =>
            IsStrictPrefix(Last(journal[i - 1]), Last(journal[i]))
    /\ \A c \in Client : at[c] = "append" =>
            \A i \in 1..Len(journal) : Testifies(journal[i], base[c])

StoreInv ==
    /\ StoreTypeOK /\ StoreShape /\ Alone
    /\ PrimaryIsNewest /\ CommitIsBuiltOnAll /\ PreviousIsBehind /\ JournalInOrder

LEMMA StatesAreSequences ==
    /\ StateEnvelope \subseteq Seq(Payload)
    /\ \A s \in StateEnvelope : Len(s) \in 1..MaxGeneration /\ s # <<>>
    /\ \A s \in Seq(Payload) : 0 < Len(s) /\ Len(s) <= MaxGeneration => s \in StateEnvelope
    /\ Absent \notin StateEnvelope /\ Torn \notin StateEnvelope /\ Absent # Torn
    /\ MaxGeneration \in Nat
<1>1. /\ Absent \notin StateEnvelope /\ Torn \notin StateEnvelope /\ Absent # Torn
      /\ MaxGeneration \in Nat
    BY StoreAssumption
<1>2. ASSUME NEW s \in StateEnvelope
      PROVE  s \in Seq(Payload) /\ Len(s) \in 1..MaxGeneration /\ s # <<>>
    <2>1. PICK n \in 1..MaxGeneration : s \in [1..n -> Payload]
        BY DEF StateEnvelope
    <2>2. s \in Seq(Payload) /\ Len(s) = n
        BY <1>1, <2>1
    <2> QED
        BY <2>1, <2>2
<1>3. ASSUME NEW s \in Seq(Payload), 0 < Len(s), Len(s) <= MaxGeneration
      PROVE  s \in StateEnvelope
    <2>1. s \in [1..Len(s) -> Payload] /\ Len(s) \in 1..MaxGeneration
        BY <1>1, <1>3
    <2> QED
        BY <2>1 DEF StateEnvelope
<1> QED
    BY <1>1, <1>2, <1>3

\* Prefixes, one position after the other.
LEMMA PrefixByPosition ==
    ASSUME NEW S, NEW s \in Seq(S), NEW t \in Seq(S)
    PROVE  IsPrefix(s, t) <=> Len(s) <= Len(t) /\ \A i \in 1..Len(s) : s[i] = t[i]
<1>1. Len(s) \in Nat /\ Len(t) \in Nat
    OBVIOUS
<1>2. ASSUME Len(s) <= Len(t)
      PROVE  /\ Len(SubSeq(s, 1, Len(s))) = Len(s) /\ Len(SubSeq(t, 1, Len(s))) = Len(s)
             /\ \A i \in 1..Len(s) : SubSeq(s, 1, Len(s))[i] = s[i] /\ SubSeq(t, 1, Len(s))[i] = t[i]
             /\ SubSeq(s, 1, Len(s)) \in Seq(S) /\ SubSeq(t, 1, Len(s)) \in Seq(S)
    BY <1>1, <1>2
<1>3. ASSUME IsPrefix(s, t)
      PROVE  Len(s) <= Len(t) /\ \A i \in 1..Len(s) : s[i] = t[i]
    BY <1>2, <1>3 DEF IsPrefix
<1>4. ASSUME Len(s) <= Len(t), \A i \in 1..Len(s) : s[i] = t[i]
      PROVE  IsPrefix(s, t)
    <2> DEFINE u == SubSeq(s, 1, Len(s))
               v == SubSeq(t, 1, Len(s))
    <2>1. /\ u \in Seq(S) /\ v \in Seq(S) /\ Len(u) = Len(v)
          /\ \A i \in 1..Len(u) : u[i] = v[i]
        BY <1>2, <1>4
    <2> HIDE DEF u, v
    <2>2. u = v
        BY <2>1
    <2> QED
        BY <1>4, <2>2 DEF IsPrefix, u, v
<1> QED
    BY <1>3, <1>4

LEMMA PrefixTransitive ==
    ASSUME NEW S, NEW s \in Seq(S), NEW t \in Seq(S), NEW u \in Seq(S),
           IsPrefix(s, t), IsPrefix(t, u)
    PROVE  IsPrefix(s, u)
<1>1. Len(s) <= Len(t) /\ \A i \in 1..Len(s) : s[i] = t[i]
    BY PrefixByPosition
<1>2. Len(t) <= Len(u) /\ \A i \in 1..Len(t) : t[i] = u[i]
    BY PrefixByPosition
<1>3. Len(s) \in Nat /\ Len(t) \in Nat /\ Len(u) \in Nat
    OBVIOUS
<1>4. Len(s) <= Len(u) /\ \A i \in 1..Len(s) : s[i] = u[i]
    BY <1>1, <1>2, <1>3
<1> QED
    BY <1>4, PrefixByPosition

LEMMA PrefixOfItself == ASSUME NEW S, NEW s \in Seq(S) PROVE IsPrefix(s, s)
BY PrefixByPosition

LEMMA NothingIsPrefix == ASSUME NEW S, NEW s \in Seq(S) PROVE IsPrefix(<<>>, s)
<1> DEFINE none == <<>>
<1>1. Len(s) \in Nat /\ Len(none) = 0
    OBVIOUS
<1>2. SubSeq(none, 1, 0) = <<>> /\ SubSeq(s, 1, 0) = <<>>
    OBVIOUS
<1> QED
    BY <1>1, <1>2 DEF IsPrefix

\* A state and the state that a commit builds on it.
LEMMA PrefixOfAppend ==
    ASSUME NEW S, NEW s \in Seq(S), NEW v \in S
    PROVE  /\ Append(s, v) \in Seq(S) /\ Len(Append(s, v)) = Len(s) + 1
           /\ IsPrefix(s, Append(s, v)) /\ ~IsPrefix(Append(s, v), s)
           /\ Front(Append(s, v)) = s
<1> DEFINE t == Append(s, v)
<1>1. t \in Seq(S) /\ Len(t) = Len(s) + 1 /\ Len(s) \in Nat /\ \A i \in 1..Len(s) : t[i] = s[i]
    OBVIOUS
<1> HIDE DEF t
<1>2. IsPrefix(s, t) /\ ~IsPrefix(t, s)
    BY <1>1, PrefixByPosition
<1>3. Front(t) = s
    <2>1. Front(t) = SubSeq(t, 1, Len(s))
        BY <1>1 DEF Front
    <2>2. /\ SubSeq(t, 1, Len(s)) \in Seq(S) /\ Len(SubSeq(t, 1, Len(s))) = Len(s)
          /\ \A i \in 1..Len(s) : SubSeq(t, 1, Len(s))[i] = t[i]
        BY <1>1
    <2> HIDE DEF Front
    <2>3. SubSeq(t, 1, Len(s)) = s
        <3> DEFINE u == SubSeq(t, 1, Len(s))
        <3>1. u \in Seq(S) /\ Len(u) = Len(s) /\ \A i \in 1..Len(s) : u[i] = s[i]
            BY <1>1, <2>2
        <3> HIDE DEF u
        <3>2. u = s
            BY <3>1
        <3> QED
            BY <3>2 DEF u
    <2> QED
        BY <2>1, <2>3
<1> QED
    BY <1>1, <1>2, <1>3 DEF t

\* The state before the last.
LEMMA FrontOfState ==
    ASSUME NEW S, NEW s \in Seq(S), s # <<>>
    PROVE  /\ Front(s) \in Seq(S) /\ Len(Front(s)) = Len(s) - 1
           /\ \A i \in 1..Len(s) - 1 : Front(s)[i] = s[i]
           /\ IsPrefix(Front(s), s)
<1>1. Len(s) \in Nat /\ Len(s) > 0
    OBVIOUS
<1>2. /\ Front(s) \in Seq(S) /\ Len(Front(s)) = Len(s) - 1
      /\ \A i \in 1..Len(s) - 1 : Front(s)[i] = s[i]
    <2> DEFINE n == Len(s) - 1
    <2>1. n \in Nat /\ n <= Len(s) /\ Front(s) = SubSeq(s, 1, n)
        BY <1>1 DEF Front
    <2> HIDE DEF n
    <2>2. /\ SubSeq(s, 1, n) \in Seq(S) /\ Len(SubSeq(s, 1, n)) = n
          /\ \A i \in 1..n : SubSeq(s, 1, n)[i] = s[i]
        BY <1>1, <2>1
    <2>3. Front(s) \in Seq(S) /\ Len(Front(s)) = n /\ \A i \in 1..n : Front(s)[i] = s[i]
        BY <2>1, <2>2
    <2> QED
        BY <2>3 DEF n
<1>3. IsPrefix(Front(s), s)
    <2> DEFINE f == Front(s)
    <2>1. f \in Seq(S) /\ Len(f) <= Len(s) /\ \A i \in 1..Len(f) : f[i] = s[i]
        BY <1>1, <1>2
    <2> HIDE DEF f
    <2>2. IsPrefix(f, s)
        BY <2>1, PrefixByPosition
    <2> QED
        BY <2>2 DEF f
<1> QED
    BY <1>2, <1>3

LEMMA PrefixOfFronts ==
    ASSUME NEW S, NEW s \in Seq(S), NEW t \in Seq(S), s # <<>>, t # <<>>, IsPrefix(s, t)
    PROVE  IsPrefix(Front(s), Front(t))
<1> DEFINE f == Front(s)
           g == Front(t)
<1>1. /\ f \in Seq(S) /\ Len(f) = Len(s) - 1 /\ \A i \in 1..Len(s) - 1 : f[i] = s[i]
      /\ g \in Seq(S) /\ Len(g) = Len(t) - 1 /\ \A i \in 1..Len(t) - 1 : g[i] = t[i]
    BY FrontOfState
<1>2. Len(s) <= Len(t) /\ \A i \in 1..Len(s) : s[i] = t[i]
    BY PrefixByPosition
<1>3. Len(s) \in Nat /\ Len(t) \in Nat
    OBVIOUS
<1> HIDE DEF f, g
<1>4. Len(f) <= Len(g) /\ \A i \in 1..Len(f) : f[i] = g[i]
    BY <1>1, <1>2, <1>3
<1>5. IsPrefix(f, g)
    BY <1>1, <1>4, PrefixByPosition
<1> QED
    BY <1>5 DEF f, g

\* A state of the same length, of which it is a prefix, is the state.
LEMMA PrefixOfSameLength ==
    ASSUME NEW S, NEW s \in Seq(S), NEW t \in Seq(S), IsPrefix(s, t), Len(s) = Len(t)
    PROVE  s = t
<1>1. \A i \in 1..Len(s) : s[i] = t[i]
    BY PrefixByPosition
<1> QED
    BY <1>1

\* What the invariant says of the states a commit handles.
LEMMA StoreFacts ==
    ASSUME StoreInv
    PROVE  /\ \A c \in Client : /\ seen[c] \in Seq(Payload) /\ base[c] \in Seq(Payload)
                                /\ payload[c] \in Payload
           /\ acked \subseteq Seq(Payload)
           /\ Readable(primary) => primary \in StateEnvelope
           /\ Readable(previous) => previous \in StateEnvelope
           /\ Load \in StateEnvelope \cup {<<>>} /\ Load \in Seq(Payload)
           /\ <<>> \notin StateEnvelope
<1>1. <<>> \in Seq(Payload) /\ <<>> \notin StateEnvelope
    BY StatesAreSequences
<1>2. \A c \in Client : /\ seen[c] \in Seq(Payload) /\ base[c] \in Seq(Payload)
                        /\ payload[c] \in Payload
    BY <1>1, StatesAreSequences DEF StoreInv, StoreShape, StoreTypeOK
<1>3. acked \subseteq Seq(Payload)
    BY StatesAreSequences DEF StoreInv, StoreTypeOK
<1>4. /\ Readable(primary) => primary \in StateEnvelope
      /\ Readable(previous) => previous \in StateEnvelope
    BY DEF StoreInv, StoreTypeOK, File, Readable
<1>5. Load \in StateEnvelope \cup {<<>>} /\ Load \in Seq(Payload)
    BY <1>1, <1>4, StatesAreSequences DEF Load
<1> QED
    BY <1>1, <1>2, <1>3, <1>4, <1>5

\* The state a commit writes was built on everything its base was built on, and is new.
LEMMA NewFacts ==
    ASSUME StoreInv, NEW c \in Client, at[c] # "idle"
    PROVE  /\ New(c) \in StateEnvelope /\ New(c) \in Seq(Payload) /\ Front(New(c)) = base[c]
           /\ IsPrefix(base[c], New(c)) /\ ~IsPrefix(New(c), base[c])
           /\ BuiltOnAll(New(c)) /\ New(c) # <<>>
           /\ \A s \in Seq(Payload) : IsPrefix(s, base[c]) => IsPrefix(s, New(c)) /\ s # New(c)
<1>1. base[c] \in Seq(Payload) /\ payload[c] \in Payload
    BY StoreFacts
<1>2. /\ New(c) \in Seq(Payload) /\ Len(New(c)) = Len(base[c]) + 1
      /\ IsPrefix(base[c], New(c)) /\ ~IsPrefix(New(c), base[c])
      /\ Front(New(c)) = base[c]
    BY <1>1, PrefixOfAppend DEF New
<1>3. Len(base[c]) < MaxGeneration /\ BuiltOnAll(base[c])
    BY DEF StoreInv, CommitIsBuiltOnAll
<1>4. New(c) \in StateEnvelope /\ New(c) # <<>>
    <2>1. Len(base[c]) \in Nat
        BY <1>1
    <2>2. 0 < Len(New(c)) /\ Len(New(c)) <= MaxGeneration
        BY <1>2, <1>3, <2>1, StatesAreSequences
    <2> QED
        BY <1>2, <2>2, StatesAreSequences
<1>5. \A s \in Seq(Payload) : IsPrefix(s, base[c]) => IsPrefix(s, New(c)) /\ s # New(c)
    BY <1>1, <1>2, PrefixTransitive
<1>6. BuiltOnAll(New(c))
    BY <1>3, <1>5, StoreFacts DEF BuiltOnAll
<1> QED
    BY <1>2, <1>4, <1>5, <1>6

LEMMA StoreInitInv == ASSUME StoreInit PROVE StoreInv
<1>1. StoreTypeOK
    BY StoreAssumption DEF StoreInit, StoreTypeOK, File, CommitStep
<1>2. StoreShape
    BY DEF StoreInit, StoreShape
<1>3. Alone /\ PrimaryIsNewest /\ CommitIsBuiltOnAll
    BY StoreAssumption DEF StoreInit, Alone, PrimaryIsNewest, CommitIsBuiltOnAll, Readable
<1>4. PreviousIsBehind
    BY StoreAssumption DEF StoreInit, PreviousIsBehind, Readable
<1>5. JournalInOrder
    BY DEF StoreInit, JournalInOrder
<1> QED
    BY <1>1, <1>2, <1>3, <1>4, <1>5 DEF StoreInv

\* One client's next step, taken alone.
LEMMA StepAlone ==
    ASSUME StoreInv, OneProcess, NEW c \in Client, NEW step \in CommitStep,
           at' = [at EXCEPT ![c] = step], at[c] # "idle" \/ MayRun(c)
    PROVE  /\ at' \in [Client -> CommitStep] /\ at'[c] = step /\ Alone'
           /\ \A d \in Client : d # c => at[d] = "idle" /\ at'[d] = "idle"
<1>1. at \in [Client -> CommitStep]
    BY DEF StoreInv, StoreTypeOK
<1>2. \A d \in Client : d # c => at[d] = "idle"
    BY DEF StoreInv, Alone, MayRun
<1>3. at' \in [Client -> CommitStep] /\ at'[c] = step /\ \A d \in Client : d # c => at'[d] = at[d]
    BY <1>1
<1> QED
    BY <1>2, <1>3 DEF Alone

LEMMA ReadInv == ASSUME StoreInv, OneProcess, NEW c \in Client, Read(c) PROVE StoreInv'
<1>1. /\ at[c] = "idle" /\ seen' = [seen EXCEPT ![c] = Load]
      /\ UNCHANGED <<primary, previous, journal, terminated, at, base, payload,
                     head, acked, crashes, damage>>
    BY DEF Read
<1>2. \A d \in Client : at[d] = "idle"
    BY DEF StoreInv, Alone, Read, MayRun
<1>3. /\ seen' \in [Client -> StateEnvelope \cup {<<>>}] /\ seen'[c] = Load
      /\ \A d \in Client : d # c => seen'[d] = seen[d]
    BY <1>1, StoreFacts DEF StoreInv, StoreShape
<1>4. StoreTypeOK' /\ StoreShape' /\ Alone'
    BY <1>1, <1>3 DEF StoreInv, StoreTypeOK, StoreShape, Alone
<1>5. PrimaryIsNewest'
    <2>1. CASE Readable(primary)
        <3>1. Load = primary /\ primary \in Seq(Payload)
            BY <2>1, StoreFacts DEF Load
        <3>2. IsPrefix(Load, primary)
            BY <3>1, PrefixOfItself
        <3>3. BuiltOnAll(primary)'
            BY <1>1, <1>3, <2>1, <3>2 DEF StoreInv, PrimaryIsNewest, BuiltOnAll
        <3> QED
            BY <1>1, <2>1, <3>3 DEF PrimaryIsNewest, Readable
    <2>2. CASE primary = Torn
        BY <1>1, <2>2, StatesAreSequences DEF StoreInv, PrimaryIsNewest, Readable
    <2>3. CASE primary = Absent
        <3>1. Load = <<>>
            BY <2>3 DEF StoreInv, PrimaryIsNewest, Load, Readable
        <3> QED
            BY <1>1, <1>3, <2>3, <3>1, StatesAreSequences
               DEF StoreInv, PrimaryIsNewest, Readable
    <2> QED
        BY <2>1, <2>2, <2>3 DEF Readable
<1>6. CommitIsBuiltOnAll'
    BY <1>1, <1>2 DEF CommitIsBuiltOnAll
<1>7. PreviousIsBehind' /\ JournalInOrder'
    BY <1>1 DEF StoreInv, PreviousIsBehind, Behind, JournalInOrder, Load
<1> QED
    BY <1>4, <1>5, <1>6, <1>7 DEF StoreInv

LEMMA LoadStateInv ==
    ASSUME StoreInv, OneProcess, NEW c \in Client, NEW v \in Payload, LoadState(c, v)
    PROVE  StoreInv'
<1>1. /\ at[c] = "idle" /\ MayRun(c) /\ ~RecoveryErrors
      /\ Len(seen[c]) = Len(Load) /\ Len(Load) < MaxGeneration
      /\ base' = [base EXCEPT ![c] = Load] /\ payload' = [payload EXCEPT ![c] = v]
      /\ at' = [at EXCEPT ![c] = "journal"]
      /\ UNCHANGED <<primary, previous, journal, terminated, seen, head, acked, crashes, damage>>
    BY DEF LoadState
<1>2. /\ at' \in [Client -> CommitStep] /\ at'[c] = "journal" /\ Alone'
      /\ \A d \in Client : d # c => at[d] = "idle" /\ at'[d] = "idle"
    BY <1>1, StepAlone DEF CommitStep
<1>3. /\ base' \in [Client -> StateEnvelope \cup {<<>>}] /\ base'[c] = Load
      /\ payload' \in [Client -> Payload]
    BY <1>1, StoreFacts DEF StoreInv, StoreShape, StoreTypeOK
<1>4. StoreTypeOK'
    <2>1. \A d \in Client : {seen'[d], base'[d]} \subseteq StateEnvelope \cup {<<>>}
        BY <1>1, <1>3 DEF StoreInv, StoreTypeOK
    <2> QED
        BY <1>1, <1>2, <1>3, <2>1 DEF StoreInv, StoreTypeOK
<1>5. StoreShape'
    BY <1>1, <1>3 DEF StoreInv, StoreShape
<1>6. PrimaryIsNewest'
    BY <1>1 DEF StoreInv, PrimaryIsNewest, BuiltOnAll
<1>7. /\ seen[c] = Load /\ BuiltOnAll(Load)
      /\ primary = Load \/ (primary = Absent /\ Load = <<>>)
    <2>1. CASE Readable(primary)
        <3>1. Load = primary /\ primary \in Seq(Payload) /\ seen[c] \in Seq(Payload)
            BY <2>1, StoreFacts DEF Load
        <3>2. BuiltOnAll(primary) /\ IsPrefix(seen[c], primary)
            BY <2>1 DEF StoreInv, PrimaryIsNewest, BuiltOnAll
        <3>3. seen[c] = primary
            BY <1>1, <3>1, <3>2, PrefixOfSameLength
        <3> QED
            BY <3>1, <3>2, <3>3 DEF BuiltOnAll
    <2>2. CASE primary = Absent
        <3>1. Load = <<>> /\ acked = {} /\ \A d \in Client : seen[d] = <<>>
            BY <2>2 DEF StoreInv, PrimaryIsNewest, Load, Readable
        <3>2. <<>> \in Seq(Payload)
            OBVIOUS
        <3>3. IsPrefix(<<>>, <<>>)
            BY <3>2, NothingIsPrefix
        <3> QED
            BY <2>2, <3>1, <3>3 DEF BuiltOnAll
    <2> QED
        BY <1>1, <2>1, <2>2 DEF RecoveryErrors, Readable
<1>8. CommitIsBuiltOnAll'
    <2> SUFFICES ASSUME NEW d \in Client, at'[d] # "idle"
                 PROVE  /\ base'[d] = seen'[d] /\ Len(base'[d]) < MaxGeneration
                        /\ BuiltOnAll(base[d])'
                        /\ Before(d)' => \/ primary' \in {base'[d], Torn}
                                         \/ primary' = Absent /\ base'[d] = <<>>
                        /\ at'[d] = "copying" => primary' # Absent
                        /\ at'[d] = "append" => primary' \in {New(d)', Torn}
        BY DEF CommitIsBuiltOnAll
    <2>1. d = c
        BY <1>2
    <2> QED
        BY <1>1, <1>2, <1>3, <1>7, <2>1 DEF BuiltOnAll
<1>9. PreviousIsBehind'
    <2>1. /\ \A d \in Client : at[d] = "idle"
          /\ \A d \in Client : at'[d] \notin {"write", "append"}
        BY <1>1, <1>2
    <2>2. UNCHANGED <<primary, previous, acked, crashes, damage>>
        BY <1>1
    <2>3. /\ crashes = 0 /\ damage = 0 /\ Readable(primary) => Behind(Front(primary))
          /\ crashes = 0 /\ damage <= 1 /\ primary = Torn =>
                \E s \in StateEnvelope : Behind(Front(s)) /\ \A e \in acked : IsPrefix(e, s)
        BY <2>1 DEF StoreInv, PreviousIsBehind
    <2> QED
        BY <2>1, <2>2, <2>3 DEF PreviousIsBehind, Behind
<1>10. JournalInOrder'
    <2>1. \A d \in Client : at'[d] # "append"
        BY <1>2
    <2> QED
        BY <1>1, <2>1 DEF StoreInv, JournalInOrder, Load, Testifies
<1> QED
    BY <1>2, <1>4, <1>5, <1>6, <1>8, <1>9, <1>10 DEF StoreInv

LEMMA LoadJournalInv ==
    ASSUME StoreInv, OneProcess, NEW c \in Client, LoadJournal(c) PROVE StoreInv'
<1> DEFINE step == IF Verified THEN "copy" ELSE "idle"
<1>1. /\ at[c] = "journal" /\ at' = [at EXCEPT ![c] = step] /\ step \in {"copy", "idle"}
      /\ head' = [head EXCEPT ![c] = IF Verified THEN JournalHead ELSE @]
      /\ UNCHANGED <<primary, previous, journal, terminated, seen, base, payload,
                     acked, crashes, damage>>
    BY DEF LoadJournal
<1> HIDE DEF step
<1>2. /\ at' \in [Client -> CommitStep] /\ at'[c] = step /\ Alone'
      /\ \A d \in Client : d # c => at[d] = "idle" /\ at'[d] = "idle"
    BY <1>1, StepAlone DEF CommitStep
<1>3. head' \in [Client -> Seq(StateEnvelope)]
    <2>1. head \in [Client -> Seq(StateEnvelope)]
        BY DEF StoreInv, StoreShape
    <2>2. Verified => JournalHead \in Seq(StateEnvelope)
        <3>1. CASE journal = <<>>
            <4>1. <<>> \in Seq(StateEnvelope)
                OBVIOUS
            <4> QED
                BY <3>1, <4>1 DEF JournalHead
        <3>2. CASE journal # <<>>
            <4>1. journal \in Seq(Seq(StateEnvelope) \cup {Torn})
                BY DEF StoreInv, StoreShape
            <4>2. Len(journal) \in 1..Len(journal) /\ Len(journal) \in Nat
                BY <3>2, <4>1
            <4>3. Verified => journal[Len(journal)] # Torn
                BY <4>2 DEF Verified
            <4>4. journal[Len(journal)] \in Seq(StateEnvelope) \cup {Torn}
                BY <4>1, <4>2
            <4> QED
                BY <3>2, <4>3, <4>4 DEF JournalHead, Last
        <3> QED
            BY <3>1, <3>2
    <2> QED
        BY <1>1, <2>1, <2>2
<1>4. StoreTypeOK' /\ StoreShape'
    <2>1. \A d \in Client : head'[d] \in Seq(StateEnvelope)
        BY <1>3
    <2> QED
        BY <1>1, <1>2, <1>3, <2>1 DEF StoreInv, StoreTypeOK, StoreShape
<1>5. PrimaryIsNewest'
    BY <1>1 DEF StoreInv, PrimaryIsNewest, BuiltOnAll
<1>6. CommitIsBuiltOnAll'
    BY <1>1, <1>2 DEF StoreInv, CommitIsBuiltOnAll, BuiltOnAll, Before, New
<1>7. PreviousIsBehind'
    <2>1. /\ \A d \in Client : at[d] \in {"idle", "journal"}
          /\ \A d \in Client : at'[d] \notin {"write", "append"}
        BY <1>1, <1>2
    <2>2. UNCHANGED <<primary, previous, acked, crashes, damage>>
        BY <1>1
    <2>3. /\ crashes = 0 /\ damage = 0 /\ Readable(primary) => Behind(Front(primary))
          /\ crashes = 0 /\ damage <= 1 /\ primary = Torn =>
                \E s \in StateEnvelope : Behind(Front(s)) /\ \A e \in acked : IsPrefix(e, s)
        BY <2>1 DEF StoreInv, PreviousIsBehind
    <2> QED
        BY <2>1, <2>2, <2>3 DEF PreviousIsBehind, Behind
<1>8. JournalInOrder'
    <2>1. \A d \in Client : at'[d] # "append"
        BY <1>1, <1>2
    <2> QED
        BY <1>1, <2>1 DEF StoreInv, JournalInOrder, Load, Testifies
<1> QED
    BY <1>2, <1>4, <1>5, <1>6, <1>7, <1>8 DEF StoreInv

LEMMA OpenPreviousInv ==
    ASSUME StoreInv, OneProcess, NEW c \in Client, OpenPrevious(c) PROVE StoreInv'
<1> DEFINE step == IF primary = Absent THEN "write" ELSE "copying"
<1>1. /\ at[c] = "copy" /\ at' = [at EXCEPT ![c] = step] /\ step \in {"write", "copying"}
      /\ step = "write" => primary = Absent /\ previous' = previous
      /\ step = "copying" => primary # Absent /\ previous' = Torn
      /\ UNCHANGED <<primary, journal, terminated, seen, base, payload, head, acked,
                     crashes, damage>>
    BY DEF OpenPrevious, commitVars
<1> HIDE DEF step
<1>2. /\ at' \in [Client -> CommitStep] /\ at'[c] = step /\ Alone'
      /\ \A d \in Client : d # c => at[d] = "idle" /\ at'[d] = "idle"
    BY <1>1, StepAlone DEF CommitStep
<1>3. StoreTypeOK' /\ StoreShape'
    BY <1>1, <1>2 DEF StoreInv, StoreTypeOK, StoreShape, File
<1>4. PrimaryIsNewest'
    BY <1>1 DEF StoreInv, PrimaryIsNewest, BuiltOnAll
<1>5. CommitIsBuiltOnAll'
    BY <1>1, <1>2 DEF StoreInv, CommitIsBuiltOnAll, BuiltOnAll, Before, New
<1>6. PreviousIsBehind'
    <2>1. \E d \in Client : at'[d] \notin {"idle", "journal", "copy"}
        BY <1>1, <1>2
    <2>2. \A d \in Client : at'[d] # "append"
        BY <1>1, <1>2
    <2>3. ASSUME NEW d \in Client, at'[d] = "write" PROVE Behind(base[d])'
        <3>1. d = c /\ primary = Absent /\ previous' = previous
            BY <1>1, <1>2, <2>3
        <3>2. base[c] = <<>>
            <4>1. \/ primary \in {base[c], Torn}
                  \/ primary = Absent /\ base[c] = <<>>
                BY <1>1 DEF StoreInv, CommitIsBuiltOnAll, Before
            <4>2. base[c] \in StateEnvelope \cup {<<>>}
                BY DEF StoreInv, StoreShape
            <4> QED
                BY <3>1, <4>1, <4>2, StatesAreSequences
        <3>3. previous = Absent
            BY <3>1 DEF StoreInv, PrimaryIsNewest
        <3> QED
            BY <1>1, <3>1, <3>2, <3>3 DEF Behind
    <2> QED
        BY <2>1, <2>2, <2>3 DEF PreviousIsBehind
<1>7. JournalInOrder'
    <2>1. \A d \in Client : at'[d] # "append"
        BY <1>1, <1>2
    <2>2. damage = 0 => Load' = Load
        BY <1>1, StatesAreSequences DEF StoreInv, PrimaryIsNewest, Load, Readable
    <2> QED
        BY <1>1, <2>1, <2>2 DEF StoreInv, JournalInOrder, Testifies
<1> QED
    BY <1>2, <1>3, <1>4, <1>5, <1>6, <1>7 DEF StoreInv

LEMMA CopyPreviousInv ==
    ASSUME StoreInv, OneProcess, NEW c \in Client, CopyPrevious(c) PROVE StoreInv'
<1>1. /\ at[c] = "copying" /\ at' = [at EXCEPT ![c] = "write"] /\ previous' = primary
      /\ UNCHANGED <<primary, journal, terminated, seen, base, payload, head, acked,
                     crashes, damage>>
    BY DEF CopyPrevious, commitVars
<1>2. /\ at' \in [Client -> CommitStep] /\ at'[c] = "write" /\ Alone'
      /\ \A d \in Client : d # c => at[d] = "idle" /\ at'[d] = "idle"
    BY <1>1, StepAlone DEF CommitStep
<1>3. StoreTypeOK' /\ StoreShape'
    BY <1>1, <1>2 DEF StoreInv, StoreTypeOK, StoreShape
<1>4. primary # Absent /\ primary \in {base[c], Torn} /\ base[c] \in StateEnvelope \cup {<<>>}
    BY <1>1 DEF StoreInv, CommitIsBuiltOnAll, Before, StoreShape
<1>5. PrimaryIsNewest'
    BY <1>1, <1>4 DEF StoreInv, PrimaryIsNewest, BuiltOnAll
<1>6. CommitIsBuiltOnAll'
    BY <1>1, <1>2, <1>4 DEF StoreInv, CommitIsBuiltOnAll, BuiltOnAll, Before, New
<1>7. PreviousIsBehind'
    <2>1. \E d \in Client : at'[d] \notin {"idle", "journal", "copy"}
        BY <1>2
    <2>2. \A d \in Client : at'[d] # "append" /\ (at'[d] = "write" => d = c)
        BY <1>2
    <2>3. damage = 0 => Behind(base[c])'
        <3>1. damage = 0 => primary = base[c] /\ base[c] # <<>>
            <4>1. damage = 0 => primary # Torn
                BY DEF StoreInv, PrimaryIsNewest
            <4>2. primary \in File
                BY DEF StoreInv, StoreTypeOK
            <4>3. <<>> \in File => <<>> \in {Absent, Torn}
                BY StoreFacts DEF File
            <4> QED
                BY <1>4, <4>1, <4>2, <4>3
        <3> QED
            BY <1>1, <3>1 DEF Behind
    <2> QED
        BY <1>1, <2>1, <2>2, <2>3 DEF PreviousIsBehind
<1>8. JournalInOrder'
    <2>1. \A d \in Client : at'[d] # "append"
        BY <1>2
    <2>2. damage = 0 => Load' = Load
        BY <1>1, <1>4 DEF StoreInv, PrimaryIsNewest, Load, Readable
    <2> QED
        BY <1>1, <2>1, <2>2 DEF StoreInv, JournalInOrder, Testifies
<1> QED
    BY <1>2, <1>3, <1>5, <1>6, <1>7, <1>8 DEF StoreInv

LEMMA ReplacePrimaryInv ==
    ASSUME StoreInv, OneProcess, NEW c \in Client, ReplacePrimary(c) PROVE StoreInv'
<1>1. /\ at[c] = "write" /\ at' = [at EXCEPT ![c] = "append"] /\ primary' = New(c)
      /\ UNCHANGED <<previous, journal, terminated, seen, base, payload, head, acked,
                     crashes, damage>>
    BY DEF ReplacePrimary, commitVars
<1>2. /\ at' \in [Client -> CommitStep] /\ at'[c] = "append" /\ Alone'
      /\ \A d \in Client : d # c => at[d] = "idle" /\ at'[d] = "idle"
    BY <1>1, StepAlone DEF CommitStep
<1>3. New(c)' = New(c)
    BY <1>1 DEF New
<1>4. /\ New(c) \in StateEnvelope /\ BuiltOnAll(New(c)) /\ New(c) # Absent /\ New(c) # Torn
      /\ \A s \in Seq(Payload) : IsPrefix(s, base[c]) => IsPrefix(s, New(c))
    BY <1>1, NewFacts, StatesAreSequences
<1>5. StoreTypeOK' /\ StoreShape'
    BY <1>1, <1>2, <1>4 DEF StoreInv, StoreTypeOK, StoreShape, File
<1>6. PrimaryIsNewest'
    BY <1>1, <1>4 DEF PrimaryIsNewest, BuiltOnAll
<1>7. CommitIsBuiltOnAll'
    BY <1>1, <1>2, <1>3 DEF StoreInv, CommitIsBuiltOnAll, BuiltOnAll, Before
<1>8. PreviousIsBehind'
    <2>1. \E d \in Client : at'[d] \notin {"idle", "journal", "copy"}
        BY <1>2
    <2>2. crashes = 0 /\ damage = 0 => Behind(base[c])
        BY <1>1 DEF StoreInv, PreviousIsBehind
    <2>3. crashes = 0 /\ damage = 0 => \A d \in Client :
            at'[d] \in {"write", "append"} => Behind(base[d])'
        BY <1>1, <1>2, <2>2 DEF Behind
    <2> QED
        BY <1>1, <1>4, <2>1, <2>3 DEF PreviousIsBehind
<1>9. JournalInOrder'
    <2> SUFFICES ASSUME damage = 0 PROVE JournalInOrder'
        BY <1>1 DEF JournalInOrder
    <2>1. Load = base[c]
        <3>1. primary # Torn /\ (primary = Absent => previous = Absent)
            BY DEF StoreInv, PrimaryIsNewest
        <3>2. \/ primary \in {base[c], Torn}
              \/ primary = Absent /\ base[c] = <<>>
            BY <1>1 DEF StoreInv, CommitIsBuiltOnAll, Before
        <3>3. primary \in File /\ base[c] \in StateEnvelope \cup {<<>>}
            BY DEF StoreInv, StoreTypeOK, StoreShape
        <3> QED
            BY <3>1, <3>2, <3>3, StatesAreSequences DEF Load, Readable, File
    <2>2. Load' = New(c)
        BY <1>1, <1>4 DEF Load, Readable
    <2>3. ASSUME NEW i \in 1..Len(journal)
          PROVE  Testifies(journal[i], base[c]) /\ Testifies(journal[i], New(c))
        <3>1. Testifies(journal[i], base[c])
            BY <2>1 DEF StoreInv, JournalInOrder
        <3> QED
            BY <1>4, <3>1, StatesAreSequences DEF Testifies
    <2>4. \A i \in 1..Len(journal') : Testifies(journal[i], Load)'
        BY <1>1, <2>2, <2>3 DEF Testifies
    <2>5. \A d \in Client : at'[d] = "append" =>
            \A i \in 1..Len(journal') : Testifies(journal[i], base[d])'
        BY <1>1, <1>2, <2>3 DEF Testifies
    <2>6. \A i \in 2..Len(journal) : journal[i - 1] # Torn /\ journal[i] # Torn =>
            IsStrictPrefix(Last(journal[i - 1]), Last(journal[i]))
        BY DEF StoreInv, JournalInOrder
    <2> QED
        BY <1>1, <2>4, <2>5, <2>6 DEF JournalInOrder
<1> QED
    BY <1>2, <1>5, <1>6, <1>7, <1>8, <1>9 DEF StoreInv

\* A line for the state just written, or what a crash left of it, keeps the journal in order.
LEMMA LineInOrder ==
    ASSUME StoreInv, NEW c \in Client, at[c] = "append",
           NEW line \in Seq(StateEnvelope) \cup {Torn},
           line # Torn => line # <<>> /\ Last(line) = New(c),
           journal' = WithLine(line), UNCHANGED <<primary, previous, damage>>,
           \A d \in Client : at'[d] = "idle"
    PROVE  /\ journal' \in Seq(Seq(StateEnvelope) \cup {Torn}) /\ journal' # <<>>
           /\ JournalInOrder'
<1> DEFINE Line == Seq(StateEnvelope) \cup {Torn}
           old == journal
           rest == IF terminated THEN old ELSE Front(old)
           new == IF terminated THEN line ELSE Torn
           n == Len(rest)
<1>1. old \in Seq(Line) /\ line \in Line /\ (~terminated => old # <<>>)
    BY DEF StoreInv, StoreShape
<1>2. new \in Line /\ (new # Torn => new = line /\ terminated)
    BY <1>1
<1>3. journal' = Append(rest, new)
    BY DEF WithLine
<1> HIDE DEF Line, new
<1>4. /\ rest \in Seq(Line) /\ n \in Nat /\ n <= Len(old)
      /\ \A i \in 1..n : rest[i] = old[i]
      /\ terminated => rest = old
    <2>1. CASE terminated
        BY <1>1, <2>1
    <2>2. CASE ~terminated
        <3>1. /\ Front(old) \in Seq(Line) /\ Len(Front(old)) = Len(old) - 1
              /\ \A i \in 1..Len(old) - 1 : Front(old)[i] = old[i]
            BY <1>1, <2>2, FrontOfState
        <3>2. Len(old) \in Nat /\ Len(old) > 0
            BY <1>1, <2>2
        <3> QED
            BY <2>2, <3>1, <3>2
    <2> QED
        BY <2>1, <2>2
<1> HIDE DEF rest
<1>5. /\ journal' \in Seq(Line) /\ Len(journal') = n + 1 /\ journal'[n + 1] = new
      /\ \A i \in 1..n : journal'[i] = rest[i]
    BY <1>2, <1>3, <1>4
<1>6. journal' # <<>>
    BY <1>4, <1>5
<1>7. ASSUME damage = 0 PROVE JournalInOrder'
    <2>1. primary = New(c)
        BY <1>7 DEF StoreInv, PrimaryIsNewest, CommitIsBuiltOnAll
    <2>2. /\ New(c) \in StateEnvelope /\ IsPrefix(New(c), New(c))
          /\ \A s \in Seq(Payload) : IsPrefix(s, base[c]) => IsPrefix(s, New(c)) /\ s # New(c)
        BY NewFacts, PrefixOfItself
    <2>3. Load = New(c) /\ Load' = New(c)
        BY <2>1, <2>2, StatesAreSequences DEF Load, Readable
    <2>4. \A i \in 1..Len(old) : Testifies(old[i], base[c]) /\ Testifies(old[i], New(c))
        BY <1>7, <2>3 DEF StoreInv, JournalInOrder
    <2>5. Testifies(new, New(c))
        BY <1>2, <2>2 DEF Testifies
    <2>6. ASSUME NEW i \in 1..Len(journal') PROVE Testifies(journal'[i], New(c))
        <3>1. CASE i = n + 1
            BY <1>5, <2>5, <3>1
        <3>2. CASE i # n + 1
            <4>1. i \in 1..n /\ i \in 1..Len(old)
                BY <1>1, <1>4, <1>5, <3>2
            <4>2. journal'[i] = old[i]
                BY <1>4, <1>5, <4>1
            <4> QED
                BY <2>4, <4>1, <4>2
        <3> QED
            BY <3>1, <3>2
    <2>7. ASSUME NEW i \in 2..Len(journal'), journal'[i - 1] # Torn, journal'[i] # Torn
          PROVE  IsStrictPrefix(Last(journal'[i - 1]), Last(journal'[i]))
        <3>1. i - 1 \in 1..n /\ i - 1 \in 1..Len(old) /\ journal'[i - 1] = old[i - 1]
            <4>1. n \in Nat /\ Len(old) \in Nat /\ n <= Len(old) /\ Len(journal') = n + 1
                BY <1>1, <1>4, <1>5
            <4>2. i - 1 \in 1..n /\ i - 1 \in 1..Len(old)
                BY <4>1
            <4> QED
                BY <1>4, <1>5, <4>2
        <3>2. CASE i = n + 1
            <4>1. Last(journal'[i]) = New(c)
                BY <1>2, <1>5, <2>7, <3>2
            <4>2. /\ Last(old[i - 1]) \in StateEnvelope /\ IsPrefix(Last(old[i - 1]), base[c])
                BY <2>4, <2>7, <3>1 DEF Testifies
            <4> QED
                BY <2>2, <3>1, <4>1, <4>2, StatesAreSequences DEF IsStrictPrefix
        <3>3. CASE i # n + 1
            <4>1. i \in 1..n /\ i \in 2..Len(old)
                BY <1>1, <1>4, <1>5, <3>3
            <4>2. journal'[i] = old[i]
                BY <1>4, <1>5, <4>1
            <4> QED
                BY <1>7, <2>7, <3>1, <4>1, <4>2 DEF StoreInv, JournalInOrder
        <3> QED
            BY <3>2, <3>3
    <2>8. \A i \in 1..Len(journal') : Testifies(journal[i], Load)'
        BY <2>3, <2>6 DEF Testifies
    <2> QED
        BY <2>7, <2>8 DEF JournalInOrder
<1>8. JournalInOrder'
    BY <1>7 DEF JournalInOrder
<1> QED
    BY <1>5, <1>6, <1>8 DEF Line

\* While a line is appended, the primary is what the commit wrote, or damaged.
LEMMA AppendingFacts ==
    ASSUME StoreInv, NEW c \in Client, at[c] = "append"
    PROVE  /\ primary \in {New(c), Torn} /\ primary # Absent
           /\ head[c] \in Seq(StateEnvelope)
           /\ Append(head[c], New(c)) \in Seq(StateEnvelope)
           /\ Append(head[c], New(c)) # <<>> /\ Last(Append(head[c], New(c))) = New(c)
<1>1. primary \in {New(c), Torn}
    BY DEF StoreInv, CommitIsBuiltOnAll
<1>2. New(c) \in StateEnvelope /\ New(c) # Absent /\ Torn # Absent
    BY NewFacts, StatesAreSequences
<1>3. head[c] \in Seq(StateEnvelope)
    BY DEF StoreInv, StoreShape
<1> DEFINE state == New(c)
           before == head[c]
<1>4. state \in StateEnvelope /\ before \in Seq(StateEnvelope)
    BY <1>2, <1>3
<1> HIDE DEF state, before
<1>5. /\ Append(before, state) \in Seq(StateEnvelope)
      /\ Append(before, state) # <<>> /\ Last(Append(before, state)) = state
    BY <1>4 DEF Last
<1> QED
    BY <1>1, <1>2, <1>3, <1>5 DEF state, before

LEMMA AppendJournalInv ==
    ASSUME StoreInv, OneProcess, NEW c \in Client, AppendJournal(c) PROVE StoreInv'
<1> DEFINE line == Append(head[c], New(c))
<1>1. /\ at[c] = "append" /\ at' = [at EXCEPT ![c] = "idle"] /\ journal' = WithLine(line)
      /\ terminated' = TRUE /\ acked' = acked \cup {New(c)}
      /\ UNCHANGED <<primary, previous, seen, base, payload, head, crashes, damage>>
    BY DEF AppendJournal, commitVars
<1>2. /\ at' \in [Client -> CommitStep] /\ at'[c] = "idle" /\ Alone'
      /\ \A d \in Client : d # c => at[d] = "idle" /\ at'[d] = "idle"
    BY <1>1, StepAlone DEF CommitStep
<1>3. /\ primary \in {New(c), Torn} /\ primary # Absent
      /\ line \in Seq(StateEnvelope) /\ line # <<>> /\ Last(line) = New(c)
    BY <1>1, AppendingFacts
<1>4. /\ New(c) \in StateEnvelope /\ New(c) \in Seq(Payload) /\ BuiltOnAll(New(c))
      /\ New(c) # Torn /\ IsPrefix(New(c), New(c)) /\ Front(New(c)) = base[c]
    BY <1>1, NewFacts, PrefixOfItself, StatesAreSequences
<1> HIDE DEF line
<1>5. \A d \in Client : at'[d] = "idle"
    BY <1>2
<1>6. /\ journal' \in Seq(Seq(StateEnvelope) \cup {Torn}) /\ journal' # <<>>
      /\ JournalInOrder'
    BY <1>1, <1>3, <1>5, LineInOrder
<1>7. StoreShape'
    BY <1>1, <1>6 DEF StoreInv, StoreShape
<1>8. StoreTypeOK'
    <2>1. \A i \in 1..Len(journal') : journal'[i] = Torn \/ journal'[i] \in Seq(StateEnvelope)
        BY <1>6
    <2>2. acked' \subseteq StateEnvelope
        BY <1>1, <1>4 DEF StoreInv, StoreTypeOK
    <2> QED
        BY <1>1, <1>2, <2>1, <2>2 DEF StoreInv, StoreTypeOK
<1>9. \A e \in acked' : IsPrefix(e, New(c))
    BY <1>1, <1>4 DEF BuiltOnAll
<1>10. PrimaryIsNewest'
    <2>1. \A d \in Client : IsPrefix(seen[d], New(c))
        BY <1>4 DEF BuiltOnAll
    <2> QED
        BY <1>1, <1>3, <1>9, <2>1 DEF StoreInv, PrimaryIsNewest, BuiltOnAll, Readable
<1>11. CommitIsBuiltOnAll'
    BY <1>5 DEF CommitIsBuiltOnAll
<1>12. PreviousIsBehind'
    <2>1. \A d \in Client : at'[d] \notin {"write", "append"}
        BY <1>5
    <2>2. ASSUME crashes = 0, damage = 0, Readable(primary) PROVE Behind(Front(primary))
        <3>1. Behind(base[c]) /\ primary = New(c)
            BY <1>1, <1>3, <2>2 DEF StoreInv, PreviousIsBehind, Readable
        <3> QED
            BY <1>4, <3>1 DEF Behind
    <2>3. ASSUME crashes = 0, damage <= 1, primary = Torn
          PROVE  Behind(Front(New(c)))
        <3>1. Behind(base[c])
            BY <1>1, <2>3 DEF StoreInv, PreviousIsBehind
        <3> QED
            BY <1>4, <3>1 DEF Behind
    <2>4. ASSUME crashes' = 0, damage' = 0, Readable(primary') PROVE Behind(Front(primary))'
        BY <1>1, <2>2, <2>4 DEF Behind
    <2>5. ASSUME crashes' = 0, damage' <= 1, primary' = Torn
          PROVE  \E s \in StateEnvelope : Behind(Front(s))' /\ \A e \in acked' : IsPrefix(e, s)
        <3>1. Behind(Front(New(c)))
            BY <1>1, <2>3, <2>5
        <3> DEFINE s == New(c)
        <3>2. s \in StateEnvelope /\ Behind(Front(s)) /\ \A e \in acked' : IsPrefix(e, s)
            BY <1>4, <1>9, <3>1
        <3> HIDE DEF s
        <3>3. \E w \in StateEnvelope : Behind(Front(w)) /\ \A e \in acked' : IsPrefix(e, w)
            BY <3>2
        <3> QED
            BY <1>1, <3>3 DEF Behind
    <2> QED
        BY <2>1, <2>4, <2>5 DEF PreviousIsBehind
<1> QED
    BY <1>2, <1>6, <1>7, <1>8, <1>10, <1>11, <1>12 DEF StoreInv

LEMMA CrashInv == ASSUME StoreInv, OneProcess, NEW c \in Client, Crash(c) PROVE StoreInv'
<1>1. /\ at[c] # "idle" /\ at' = [at EXCEPT ![c] = "idle"]
      /\ crashes < MaxCrashes /\ crashes' = crashes + 1
      /\ UNCHANGED <<primary, previous, seen, base, payload, head, acked, damage>>
    BY DEF Crash, commitVars
<1>2. /\ at' \in [Client -> CommitStep] /\ at'[c] = "idle" /\ Alone'
      /\ \A d \in Client : d # c => at[d] = "idle" /\ at'[d] = "idle"
    BY <1>1, StepAlone DEF CommitStep
<1>3. \A d \in Client : at'[d] = "idle"
    BY <1>2
<1>4. crashes' \in 0..MaxCrashes /\ crashes' # 0
    BY <1>1, StoreAssumption DEF StoreInv, StoreTypeOK
<1>5. /\ journal' \in Seq(Seq(StateEnvelope) \cup {Torn})
      /\ terminated' \in BOOLEAN /\ (~terminated' => journal' # <<>>)
      /\ JournalInOrder'
    <2>1. CASE UNCHANGED <<journal, terminated>>
        <3>1. JournalInOrder'
            BY <1>1, <1>3, <2>1 DEF StoreInv, JournalInOrder, Load, Testifies
        <3> QED
            BY <2>1, <3>1 DEF StoreInv, StoreShape, StoreTypeOK
    <2>2. CASE /\ at[c] = "append" /\ terminated' = FALSE
               /\ \E line \in {Torn, Append(head[c], New(c))} : journal' = WithLine(line)
        <3>1. PICK line \in {Torn, Append(head[c], New(c))} : journal' = WithLine(line)
            BY <2>2
        <3>2. /\ line \in Seq(StateEnvelope) \cup {Torn}
              /\ line # Torn => line # <<>> /\ Last(line) = New(c)
            BY <2>2, AppendingFacts
        <3>3. /\ journal' \in Seq(Seq(StateEnvelope) \cup {Torn}) /\ journal' # <<>>
              /\ JournalInOrder'
            BY <1>1, <1>3, <2>2, <3>1, <3>2, LineInOrder
        <3> QED
            BY <2>2, <3>3
    <2> QED
        BY <2>1, <2>2 DEF Crash
<1>6. StoreTypeOK' /\ StoreShape'
    <2>1. \A i \in 1..Len(journal') : journal'[i] = Torn \/ journal'[i] \in Seq(StateEnvelope)
        BY <1>5
    <2>2. crashes' \in Nat
        BY <1>4
    <2> QED
        BY <1>1, <1>2, <1>4, <1>5, <2>1, <2>2 DEF StoreInv, StoreTypeOK, StoreShape
<1>7. PrimaryIsNewest'
    BY <1>1 DEF StoreInv, PrimaryIsNewest, BuiltOnAll
<1>8. CommitIsBuiltOnAll' /\ PreviousIsBehind'
    BY <1>3, <1>4 DEF CommitIsBuiltOnAll, PreviousIsBehind
<1> QED
    BY <1>2, <1>5, <1>6, <1>7, <1>8 DEF StoreInv

LEMMA PowerLossInv == ASSUME StoreInv, PowerLoss PROVE StoreInv'
<1>1. /\ at' = [d \in Client |-> "idle"] /\ previous # Absent /\ previous' = Torn
      /\ crashes < MaxCrashes /\ crashes' = crashes + 1
      /\ UNCHANGED <<primary, journal, terminated, seen, base, payload, head, acked, damage>>
    BY DEF PowerLoss, commitVars
<1>2. at' \in [Client -> CommitStep] /\ \A d \in Client : at'[d] = "idle"
    BY <1>1 DEF CommitStep
<1>3. crashes' \in 0..MaxCrashes /\ crashes' # 0 /\ crashes' \in Nat
    BY <1>1, StoreAssumption DEF StoreInv, StoreTypeOK
<1>4. primary # Absent
    BY <1>1 DEF StoreInv, PrimaryIsNewest
<1>5. StoreTypeOK' /\ StoreShape'
    BY <1>1, <1>2, <1>3 DEF StoreInv, StoreTypeOK, StoreShape, File
<1>6. Alone' /\ CommitIsBuiltOnAll' /\ PreviousIsBehind'
    BY <1>2, <1>3 DEF Alone, CommitIsBuiltOnAll, PreviousIsBehind
<1>7. PrimaryIsNewest'
    BY <1>1, <1>4 DEF StoreInv, PrimaryIsNewest, BuiltOnAll
<1>8. JournalInOrder'
    <2>1. damage = 0 => Load' = Load
        BY <1>1, <1>4 DEF StoreInv, PrimaryIsNewest, Load, Readable
    <2> QED
        BY <1>1, <1>2, <2>1 DEF StoreInv, JournalInOrder, Testifies
<1> QED
    BY <1>5, <1>6, <1>7, <1>8 DEF StoreInv

LEMMA DamageFileInv == ASSUME StoreInv, DamageFile PROVE StoreInv'
<1>1. /\ damage < MaxFileDamage /\ damage' = damage + 1
      /\ \/ Readable(primary) /\ primary' = Torn /\ UNCHANGED previous
         \/ Readable(previous) /\ previous' = Torn /\ UNCHANGED primary
      /\ UNCHANGED <<journal, terminated, at, seen, base, payload, head, acked, crashes>>
    BY DEF DamageFile, commitVars
<1>2. damage' \in 0..MaxFileDamage /\ damage' # 0 /\ damage' \in Nat /\ (damage' <= 1 => damage = 0)
    BY <1>1, StoreAssumption DEF StoreInv, StoreTypeOK
<1>3. Torn # Absent /\ primary # Absent /\ primary' # Absent
    BY <1>1, StatesAreSequences DEF StoreInv, PrimaryIsNewest, Readable
<1>4. StoreTypeOK' /\ StoreShape'
    BY <1>1, <1>2 DEF StoreInv, StoreTypeOK, StoreShape, File
<1>5. Alone' /\ JournalInOrder'
    BY <1>1, <1>2 DEF StoreInv, Alone, JournalInOrder
<1>6. PrimaryIsNewest'
    BY <1>1, <1>2, <1>3 DEF StoreInv, PrimaryIsNewest, BuiltOnAll, Readable
<1>7. CommitIsBuiltOnAll'
    BY <1>1, <1>3 DEF StoreInv, CommitIsBuiltOnAll, BuiltOnAll, Before, New
<1>8. PreviousIsBehind'
    <2> SUFFICES ASSUME crashes = 0, damage' <= 1, primary' = Torn
                 PROVE  /\ (\A c \in Client : at[c] \in {"idle", "journal"}) =>
                            \E s \in StateEnvelope :
                                Behind(Front(s))' /\ \A e \in acked : IsPrefix(e, s)
                        /\ \A c \in Client : at[c] = "append" => Behind(base[c])'
        BY <1>1, <1>2 DEF PreviousIsBehind, Behind
    <2>1. damage = 0 /\ primary # Torn
        BY <1>2 DEF StoreInv, PrimaryIsNewest
    <2>2. Readable(primary) /\ previous' = previous
        BY <1>1, <2>1
    <2>3. \A s : Behind(s)' = Behind(s)
        BY <2>2 DEF Behind
    <2>4. ASSUME \A c \in Client : at[c] \in {"idle", "journal"}
          PROVE  \E s \in StateEnvelope :
                    Behind(Front(s))' /\ \A e \in acked : IsPrefix(e, s)
        <3>1. Behind(Front(primary))
            BY <2>1, <2>2, <2>4 DEF StoreInv, PreviousIsBehind
        <3>2. primary \in StateEnvelope /\ \A e \in acked : IsPrefix(e, primary)
            BY <2>2, StoreFacts DEF StoreInv, PrimaryIsNewest, BuiltOnAll
        <3> QED
            BY <2>2, <3>1, <3>2 DEF Behind
    <2>5. \A c \in Client : at[c] = "append" => Behind(base[c])'
        BY <1>1, <2>1, <2>2 DEF StoreInv, PreviousIsBehind, Behind
    <2> QED
        BY <2>4, <2>5
<1> QED
    BY <1>4, <1>5, <1>6, <1>7, <1>8 DEF StoreInv

LEMMA StoreStep == ASSUME OneProcess, StoreInv, StoreNext PROVE StoreInv'
<1>1. ASSUME NEW c \in Client, Read(c) PROVE StoreInv'
    BY <1>1, ReadInv
<1>2. ASSUME NEW c \in Client, NEW v \in Payload, LoadState(c, v) PROVE StoreInv'
    BY <1>2, LoadStateInv
<1>3. ASSUME NEW c \in Client, LoadJournal(c) PROVE StoreInv'
    BY <1>3, LoadJournalInv
<1>4. ASSUME NEW c \in Client, OpenPrevious(c) PROVE StoreInv'
    BY <1>4, OpenPreviousInv
<1>5. ASSUME NEW c \in Client, CopyPrevious(c) PROVE StoreInv'
    BY <1>5, CopyPreviousInv
<1>6. ASSUME NEW c \in Client, ReplacePrimary(c) PROVE StoreInv'
    BY <1>6, ReplacePrimaryInv
<1>7. ASSUME NEW c \in Client, AppendJournal(c) PROVE StoreInv'
    BY <1>7, AppendJournalInv
<1>8. ASSUME NEW c \in Client, Crash(c) PROVE StoreInv'
    BY <1>8, CrashInv
<1>9. CASE PowerLoss
    BY <1>9, PowerLossInv
<1>10. CASE DamageFile
    BY <1>10, DamageFileInv
<1> QED
    BY <1>1, <1>2, <1>3, <1>4, <1>5, <1>6, <1>7, <1>8, <1>9, <1>10 DEF StoreNext, Commit

\* The inductive invariant of the store of one event loop, for every number of clients,
\* payloads, generations, crashes and damaged files.
THEOREM StoreInvariance == ASSUME OneProcess PROVE StoreSpec => []StoreInv
<1>1. StoreInit => StoreInv
    BY StoreInitInv
<1>2. StoreInv /\ [StoreNext]_storeVars => StoreInv'
    <2> SUFFICES ASSUME StoreInv, [StoreNext]_storeVars PROVE StoreInv'
        OBVIOUS
    <2>1. CASE StoreNext
        BY <2>1, StoreStep
    <2>2. CASE UNCHANGED storeVars
        <3> USE <2>2 DEF storeVars, commitVars, StoreInv
        <3>1. StoreTypeOK' /\ StoreShape' /\ Alone'
            BY DEF StoreTypeOK, StoreShape, Alone
        <3>2. PrimaryIsNewest' /\ CommitIsBuiltOnAll'
            BY DEF PrimaryIsNewest, CommitIsBuiltOnAll, BuiltOnAll, Before, New
        <3>3. PreviousIsBehind'
            BY DEF PreviousIsBehind, Behind
        <3>4. JournalInOrder'
            BY DEF JournalInOrder, Testifies, Load
        <3> QED
            BY <3>1, <3>2, <3>3, <3>4
    <2> QED
        BY <2>1, <2>2
<1> QED
    BY <1>1, <1>2, PTL DEF StoreSpec

\* What the store acknowledged is recovered (reliableStateStore.ts, load): after any crashes
\* and power losses while the disk is sound, and but for its last generation after one
\* damaged file; a commit is built on what its caller read; and a journal that verifies tells
\* the generations in their order and nothing that was not saved.
THEOREM StoreIsReliable == ASSUME OneProcess PROVE StoreSpec => []StoreKeepsItsWord
<1>1. StoreInv => StoreKeepsItsWord
    <2> SUFFICES ASSUME StoreInv PROVE StoreKeepsItsWord
        OBVIOUS
    <2>1. AckedSurvives
        <3>1. CASE primary = Absent
            BY <3>1 DEF StoreInv, PrimaryIsNewest, AckedSurvives
        <3>2. CASE primary # Absent
            BY <3>2 DEF StoreInv, PrimaryIsNewest, AckedSurvives, Readable, BuiltOnAll, Load
        <3> QED
            BY <3>1, <3>2
    <2>2. BuiltOnWhatWasRead
        BY DEF StoreInv, CommitIsBuiltOnAll, BuiltOnWhatWasRead
    <2>3. FallsBackOneGeneration
        <3> SUFFICES ASSUME Quiet, crashes = 0, damage <= 1, NEW e \in acked
                     PROVE  IsPrefix(Front(e), Load)
            BY DEF FallsBackOneGeneration
        <3>1. e \in Seq(Payload) /\ e # <<>>
            BY StatesAreSequences DEF StoreInv, StoreTypeOK
        <3>2. Front(e) \in Seq(Payload) /\ IsPrefix(Front(e), e)
            BY <3>1, FrontOfState
        <3>3. CASE Readable(primary)
            <4>1. Load = primary /\ primary \in Seq(Payload) /\ IsPrefix(e, primary)
                BY <3>3, StoreFacts DEF StoreInv, PrimaryIsNewest, BuiltOnAll, Load
            <4> QED
                BY <3>1, <3>2, <4>1, PrefixTransitive
        <3>4. CASE primary = Absent
            BY <3>4 DEF StoreInv, PrimaryIsNewest
        <3>5. CASE primary = Torn
            <4>1. PICK s \in StateEnvelope : Behind(Front(s)) /\ \A a \in acked : IsPrefix(a, s)
                BY <3>5 DEF StoreInv, PreviousIsBehind, Quiet
            <4>2. s \in Seq(Payload) /\ s # <<>>
                BY StatesAreSequences
            <4>3. Front(s) \in Seq(Payload) /\ IsPrefix(Front(e), Front(s))
                BY <3>1, <4>1, <4>2, FrontOfState, PrefixOfFronts
            <4>4. Load = Front(s)
                <5>1. CASE Front(s) = <<>>
                    BY <3>5, <4>1, <5>1 DEF Behind, Load, Readable
                <5>2. CASE Front(s) # <<>>
                    <6>1. previous = Front(s)
                        BY <4>1, <5>2 DEF Behind
                    <6>2. Front(s) \in StateEnvelope
                        <7> DEFINE f == Front(s)
                        <7>1. Len(s) \in 1..MaxGeneration /\ Len(f) = Len(s) - 1 /\ f \in Seq(Payload)
                            BY <4>2, FrontOfState, StatesAreSequences
                        <7>2. MaxGeneration \in Nat
                            BY StatesAreSequences
                        <7> HIDE DEF f
                        <7>3. f # <<>> => 0 < Len(f) /\ Len(f) <= MaxGeneration
                            BY <7>1, <7>2
                        <7>4. f # <<>> => f \in StateEnvelope
                            BY <7>1, <7>3, StatesAreSequences
                        <7> QED
                            BY <5>2, <7>4 DEF f
                    <6> QED
                        BY <3>5, <6>1, <6>2, StatesAreSequences DEF Load, Readable
                <5> QED
                    BY <5>1, <5>2
            <4> QED
                BY <4>3, <4>4
        <3> QED
            BY <3>3, <3>4, <3>5 DEF Readable
    <2>4. JournalTestifies
        <3> SUFFICES ASSUME Verified, damage = 0, NEW i \in 1..Len(journal)
                     PROVE  /\ IsPrefix(Last(journal[i]), Load)
                            /\ i > 1 => IsStrictPrefix(Last(journal[i - 1]), Last(journal[i]))
            BY DEF JournalTestifies
        <3>1. \A j \in 1..Len(journal) : journal[j] # Torn
            BY DEF Verified
        <3>2. IsPrefix(Last(journal[i]), Load)
            BY <3>1 DEF StoreInv, JournalInOrder, Testifies
        <3>3. ASSUME i > 1 PROVE IsStrictPrefix(Last(journal[i - 1]), Last(journal[i]))
            <4>1. Len(journal) \in Nat
                BY DEF StoreInv, StoreShape
            <4>2. i \in 2..Len(journal) /\ i - 1 \in 1..Len(journal)
                BY <3>3, <4>1
            <4> QED
                BY <3>1, <4>2 DEF StoreInv, JournalInOrder
        <3> QED
            BY <3>2, <3>3
    <2> QED
        BY <2>1, <2>2, <2>3, <2>4 DEF StoreKeepsItsWord, LosesNothing, StoreInv
<1> QED
    BY <1>1, StoreInvariance, PTL

\* A fallback is never committed over (commit refuses after a recovery error), so a state
\* that replaces the primary was built on everything that was acknowledged.
THEOREM NothingAckedIsLost == ASSUME OneProcess PROVE StoreSpec => NothingAckedIsReplaced
<1> DEFINE Keeps == primary' # primary /\ Readable(primary') =>
                        \A e \in acked : IsPrefix(e, primary')
<1>1. StoreInv /\ [StoreNext]_storeVars => [Keeps]_storeVars
    <2> SUFFICES ASSUME StoreInv, StoreNext, primary' # primary, Readable(primary')
                 PROVE  \A e \in acked : IsPrefix(e, primary')
        OBVIOUS
    <2>1. PICK c \in Client : ReplacePrimary(c)
        BY StatesAreSequences
           DEF StoreNext, Commit, Read, LoadState, LoadJournal, OpenPrevious, CopyPrevious,
               AppendJournal, Crash, PowerLoss, DamageFile, Readable
    <2>2. at[c] # "idle" /\ primary' = New(c)
        BY <2>1 DEF ReplacePrimary
    <2> QED
        BY <2>2, NewFacts DEF BuiltOnAll
<1> QED
    BY <1>1, StoreInvariance, PTL DEF StoreSpec, NothingAckedIsReplaced

----------------------------------------------------------------------------
(* The champion.  Both engines take the candidate that all candidates      *)
(* together would have chosen; a script's evidence goes to its files in    *)
(* order, and the run it names grows with every script, so that the report *)
(* can be compared with what lies beside it.                               *)

AttemptRecord == [scores : Scores, winner : Candidates, failed : SUBSET Check]
ChampionPolicies == {<< >>} \cup ((1 .. Ladder) \X Candidates)

ScriptRecord ==
    [stage : {"training", "dataset", "attempts", "policies", "report"}, run : Nat \ {0},
     source : Int, attempts : Seq(AttemptRecord), taken : 0 .. Ladder,
     policies : ChampionPolicies, final : SUBSET Check]
ReportRecord ==
    [run : Nat \ {0}, source : Int, attempts : Seq(AttemptRecord), taken : 0 .. Ladder,
     policies : ChampionPolicies, final : SUBSET Check, admitted : BOOLEAN]

ChampionShape ==
    /\ learner \in {"core", "business"}
    /\ script \in ScriptRecord \cup {NoScript}
    /\ evidence \in [dataset : Nat, attempts : Nat, policies : Nat,
                     report : ReportRecord \cup {NoReport}]

Running == script # NoScript

\* What a script s has taken so far, of the attempts it has made.
Earned(s) ==
    /\ \A k \in DOMAIN s.attempts :
          s.attempts[k].winner = Foremost(s.attempts[k].scores, Candidates)
    /\ Len(s.attempts) <= Ladder
    /\ \A k \in DOMAIN s.attempts : k > s.taken => ~Qualified(s.attempts[k])
    /\ s.taken # 0 => s.taken \in DOMAIN s.attempts
                      /\ s.policies = <<s.taken, s.attempts[s.taken].winner>>

ScriptEarns ==
    Running =>
        /\ Earned(script) /\ script.run = runs
        /\ script.stage # "training" => Len(script.attempts) = Ladder /\ script.taken # 0

ReportEarned ==
    evidence.report # NoReport =>
        /\ Earned(evidence.report)
        /\ Len(evidence.report.attempts) = Ladder /\ evidence.report.taken # 0
        /\ evidence.report.admitted => Qualified(evidence.report.attempts[evidence.report.taken])

\* Which files a running script has replaced, and that the report is not newer than they are.
FilesInOrder ==
    /\ evidence.dataset <= runs /\ evidence.attempts <= runs /\ evidence.policies <= runs
    /\ evidence.attempts >= evidence.report.run /\ evidence.policies >= evidence.report.run
    /\ learner = "business" => evidence.dataset >= evidence.report.run
    /\ Running =>
        /\ script.stage \in {"policies", "report"} => evidence.attempts = runs
        /\ script.stage = "report" => evidence.policies = runs
        /\ learner = "business" /\ script.stage \in {"attempts", "policies", "report"} =>
              evidence.dataset = runs

ChampionInv ==
    ChampionTypeOK /\ ChampionShape /\ ScriptEarns /\ ReportEarned /\ FilesInOrder

----------------------------------------------------------------------------
\* The least-number principle.
LEMMA LeastNumber ==
    ASSUME NEW T \in SUBSET Nat, T # {}
    PROVE  \E x \in T : \A y \in T : x <= y
<1> DEFINE R == OpToRel(<, Nat)
<1>1. \A x, y \in Nat : <<x, y>> \in R <=> x < y
    BY DEF OpToRel
<1>2. IsWellFoundedOn(R, Nat)
    BY NatLessThanWellFounded
<1> HIDE DEF R
<1>3. PICK x \in T : \A y \in T : ~ (<<y, x>> \in R)
    BY <1>2, WFMin
<1>4. \A y \in T : ~ (y < x)
    BY <1>1, <1>3
<1> QED
    BY <1>4

\* c stands before d in the order of falling score.
Ahead(scores, c, d) == scores[d] < scores[c] \/ (scores[d] = scores[c] /\ c <= d)

LEMMA HigherIsAhead ==
    ASSUME NEW scores, NEW c, NEW d, NEW e, scores[c] \in Int, scores[d] \in Int,
           scores[e] \in Int, scores[e] > scores[c], Ahead(scores, c, d)
    PROVE  Ahead(scores, e, d)
BY DEF Ahead

\* Of any candidates, scored by integers, one is the first best and no other.
LEMMA ForemostIs ==
    ASSUME NEW n \in Nat, NEW scores \in [1 .. n -> Int],
           NEW among \in SUBSET (1 .. n), among # {}
    PROVE  /\ Foremost(scores, among) \in among
           /\ \A d \in among : Ahead(scores, Foremost(scores, among), d)
<1> DEFINE First(T, c) == c \in T /\ \A d \in T : Ahead(scores, c, d)
           Upto(k) == among \cap (1 .. k)
           Bad == {k \in Nat : Upto(k) # {} /\ ~ \E c \in Upto(k) : First(Upto(k), c)}
<1>1. Bad = {}
    <2> SUFFICES ASSUME Bad # {} PROVE FALSE
        OBVIOUS
    <2>1. PICK m \in Bad : \A k \in Bad : m <= k
        <3>1. Bad \in SUBSET Nat
            OBVIOUS
        <3> HIDE DEF Bad
        <3> QED
            BY <3>1, LeastNumber
    <2>10. \A c \in Upto(m) : ~First(Upto(m), c)
        BY <2>1
    <2>2. m \in Nat /\ m # 0 /\ m - 1 \in Nat
        <3>1. Upto(0) = {}
            OBVIOUS
        <3> QED
            BY <2>1, <3>1
    <2>3. m - 1 \notin Bad
        <3> HIDE DEF Bad
        <3> QED
            BY <2>1, <2>2
    <2>4. Upto(m) \subseteq Upto(m - 1) \cup {m}
        BY <2>2
    <2>5. Upto(m - 1) \subseteq Upto(m)
        BY <2>2
    <2>6. CASE m \notin among
        <3>1. Upto(m) = Upto(m - 1)
            BY <2>4, <2>5, <2>6
        <3> QED
            BY <2>1, <2>2, <2>3, <3>1
    <2>7. CASE m \in among /\ Upto(m - 1) = {}
        <3>1. Upto(m) = {m}
            BY <2>2, <2>4, <2>7
        <3>2. First(Upto(m), m)
            BY <2>2, <2>7, <3>1 DEF Ahead
        <3> QED
            BY <2>1, <3>1, <3>2
    <2>8. CASE m \in among /\ Upto(m - 1) # {}
        <3>1. PICK c \in Upto(m - 1) : First(Upto(m - 1), c)
            BY <2>2, <2>3, <2>8
        <3>2. c \in 1 .. n /\ m \in 1 .. n /\ c < m /\ scores[c] \in Int /\ scores[m] \in Int
            BY <2>2, <2>8, <3>1
        <3>3. \A d \in Upto(m - 1) : d \in 1 .. n /\ scores[d] \in Int /\ d < m
            BY <2>2
        <3>4. CASE scores[m] <= scores[c]
            <4>1. First(Upto(m), c)
                BY <2>4, <2>5, <3>1, <3>2, <3>4 DEF Ahead
            <4> QED
                BY <2>1, <4>1
        <3>5. CASE scores[m] > scores[c]
            <4>1. \A d \in Upto(m - 1) : Ahead(scores, m, d)
                <5> SUFFICES ASSUME NEW d \in Upto(m - 1) PROVE Ahead(scores, m, d)
                    OBVIOUS
                <5>1. scores[d] \in Int /\ Ahead(scores, c, d)
                    BY <3>1, <3>3
                <5> QED
                    BY <3>2, <3>5, <5>1, HigherIsAhead
            <4>2. Ahead(scores, m, m) /\ m \in Upto(m)
                <5>1. m \in 1 .. m /\ m <= m
                    BY <2>2
                <5>2. m \in Upto(m)
                    BY <2>8, <5>1
                <5> QED
                    BY <5>1, <5>2 DEF Ahead
            <4>3. First(Upto(m), m)
                BY <2>4, <4>1, <4>2
            <4> QED
                BY <2>10, <4>2, <4>3
        <3> QED
            BY <3>2, <3>4, <3>5
    <2> QED
        BY <2>6, <2>7, <2>8
<1>2. Upto(n) = among
    OBVIOUS
<1>3. \E c \in among : First(among, c)
    BY <1>1, <1>2
<1>4. \E c \in among : \A d \in among : scores[d] < scores[c] \/ (scores[d] = scores[c] /\ c <= d)
    BY <1>3 DEF Ahead
<1> QED
    BY <1>4 DEF Foremost, Ahead

LEMMA ForemostIsOne ==
    ASSUME NEW n \in Nat, NEW scores \in [1 .. n -> Int],
           NEW among \in SUBSET (1 .. n), NEW c \in among,
           \A d \in among : Ahead(scores, c, d)
    PROVE  Foremost(scores, among) = c
<1> DEFINE f == Foremost(scores, among)
<1>1. f \in among /\ Ahead(scores, f, c) /\ Ahead(scores, c, f)
    BY ForemostIs
<1> HIDE DEF f
<1>2. f \in Nat /\ c \in Nat /\ scores[f] \in Int /\ scores[c] \in Int
    BY <1>1
<1>3. f = c
    BY <1>1, <1>2 DEF Ahead
<1> QED
    BY <1>3 DEF f

\* Candidates are numbered algorithm after algorithm.
LEMMA AlgorithmsHaveCandidates ==
    /\ ChampionAlgorithms * Configurations \in Nat
    /\ \A c \in Candidates : AlgorithmOf(c) \in 1 .. ChampionAlgorithms
    /\ \A a \in 1 .. ChampionAlgorithms : \E c \in Candidates : AlgorithmOf(c) = a
<1>1. ChampionAlgorithms \in Nat \ {0} /\ Configurations \in Nat \ {0}
    BY ChampionAssumption
<1> DEFINE A == ChampionAlgorithms
           C == Configurations
<1>2. \A a, n \in Nat : a * n \in Nat
    OBVIOUS
<1>3. A * C \in Nat /\ A \in Nat /\ C \in Nat /\ A >= 1 /\ C >= 1
    BY <1>1, <1>2
<1>4. ASSUME NEW c \in Candidates PROVE AlgorithmOf(c) \in 1 .. A
    <2>1. c - 1 \in Nat /\ c - 1 < A * C
        BY <1>3, <1>4 DEF Candidates
    <2> DEFINE q == (c - 1) \div C
    <2>2. q \in Int /\ C * q <= c - 1 /\ c - 1 < C * q + C
        BY <1>3, <2>1
    <2> HIDE DEF q
    <2>3. q >= 0
        <3> SUFFICES ASSUME q <= 0 - 1 PROVE FALSE
            BY <2>2
        <3>1. C * q <= C * (0 - 1)
            BY <1>3, <2>2
        <3>2. C * (0 - 1) = 0 - C
            BY <1>3
        <3>3. C * q \in Int
            BY <1>3, <2>2
        <3> QED
            BY <1>3, <2>1, <2>2, <3>1, <3>2, <3>3
    <2>4. q < A
        <3> SUFFICES ASSUME q >= A PROVE FALSE
            BY <1>3, <2>2
        <3>1. C * q >= C * A
            BY <1>3, <2>2, <2>3
        <3>2. C * A = A * C
            BY <1>3
        <3>3. C * q \in Int
            BY <1>3, <2>2
        <3> QED
            BY <1>3, <2>1, <2>2, <3>1, <3>2, <3>3
    <2> QED
        BY <1>3, <2>2, <2>3, <2>4 DEF AlgorithmOf, q
<1>5. ASSUME NEW a \in 1 .. A PROVE \E c \in Candidates : AlgorithmOf(c) = a
    <2> DEFINE c == (a - 1) * C + 1
    <2>1. a - 1 \in Nat /\ a \in Nat /\ a <= A
        BY <1>3
    <2>2. (a - 1) * C \in Nat
        BY <1>2, <1>3, <2>1
    <2>3. (a - 1) * C + C = a * C
        BY <1>3, <2>1
    <2>4. a * C <= A * C
        BY <1>3, <2>1
    <2>5. c \in Candidates
        BY <1>3, <2>1, <2>2, <2>3, <2>4 DEF Candidates
    <2>6. ((a - 1) * C) \div C = a - 1
        BY <1>3, <2>1
    <2>7. AlgorithmOf(c) = a
        BY <2>1, <2>2, <2>6 DEF AlgorithmOf
    <2> QED
        BY <2>5, <2>7
<1> QED
    BY <1>3, <1>4, <1>5

\* Whichever way it sorts, an engine's winner is the first best of all candidates.
LEMMA WinnerIsForemost ==
    ASSUME learner \in {"core", "business"}, NEW scores \in Scores
    PROVE  Winner(scores) \in Candidates /\ Winner(scores) = Foremost(scores, Candidates)
<1> DEFINE n == ChampionAlgorithms * Configurations
           group(a) == {c \in Candidates : AlgorithmOf(c) = a}
           first(a) == Foremost(scores, group(a))
           firsts == {first(a) : a \in 1 .. ChampionAlgorithms}
<1>1. n \in Nat /\ Candidates = 1 .. n /\ scores \in [1 .. n -> Int]
    BY AlgorithmsHaveCandidates, ChampionAssumption DEF Candidates
<1>2. \A a \in 1 .. ChampionAlgorithms : group(a) # {} /\ group(a) \in SUBSET (1 .. n)
    BY <1>1, AlgorithmsHaveCandidates
<1>3. \A a \in 1 .. ChampionAlgorithms :
        first(a) \in group(a) /\ \A d \in group(a) : Ahead(scores, first(a), d)
    BY <1>1, <1>2, ForemostIs
<1>4. \A c \in Candidates : AlgorithmOf(c) \in 1 .. ChampionAlgorithms
    BY AlgorithmsHaveCandidates
<1>5. ChampionAlgorithms >= 1 /\ ChampionAlgorithms \in Nat
    BY ChampionAssumption
<1>6. Winner(scores) = IF learner = "core" THEN Foremost(scores, Candidates)
                       ELSE Foremost(scores, firsts)
    BY DEF Winner
<1>7. 1 \in 1 .. ChampionAlgorithms
    BY <1>5
<1> HIDE DEF n, first
<1>8. firsts # {} /\ firsts \in SUBSET (1 .. n)
    BY <1>1, <1>3, <1>7
<1>9. PICK w : w = Foremost(scores, firsts)
    OBVIOUS
<1>10. w \in firsts /\ \A d \in firsts : Ahead(scores, w, d)
    BY <1>1, <1>8, <1>9, ForemostIs
<1>11. \A d \in Candidates : Ahead(scores, w, d)
    <2> SUFFICES ASSUME NEW d \in Candidates PROVE Ahead(scores, w, d)
        OBVIOUS
    <2>1. PICK a \in 1 .. ChampionAlgorithms : a = AlgorithmOf(d)
        BY <1>4
    <2>2. PICK f : f = first(a)
        OBVIOUS
    <2>3. Ahead(scores, f, d) /\ Ahead(scores, w, f) /\ f \in 1 .. n
        BY <1>1, <1>3, <1>8, <1>10, <2>1, <2>2
    <2>4. w \in 1 .. n /\ d \in 1 .. n
        BY <1>1, <1>8, <1>10
    <2>5. scores[w] \in Int /\ scores[f] \in Int /\ scores[d] \in Int
        BY <1>1, <2>3, <2>4
    <2>6. w \in Int /\ f \in Int /\ d \in Int
        BY <2>3, <2>4
    <2> QED
        BY <2>3, <2>5, <2>6 DEF Ahead
<1>12. w \in Candidates
    BY <1>1, <1>8, <1>10
<1>13. w = Foremost(scores, Candidates)
    BY <1>1, <1>11, <1>12, ForemostIsOne
<1> QED
    BY <1>6, <1>9, <1>12, <1>13

----------------------------------------------------------------------------
LEMMA ChampionInitInv == ChampionInit => ChampionInv
<1> SUFFICES ASSUME ChampionInit PROVE ChampionInv
    OBVIOUS
<1> USE DEF ChampionInit
<1>1. MaxSourceEdits \in Nat /\ MaxRuns \in Nat
    BY ChampionAssumption
<1>2. NoReport.run = 0 /\ evidence.report = NoReport
    BY DEF NoReport
<1>3. ChampionTypeOK
    BY <1>1 DEF ChampionTypeOK
<1>4. ChampionShape
    BY DEF ChampionShape
<1> QED
    BY <1>2, <1>3, <1>4 DEF ChampionInv, ScriptEarns, ReportEarned, FilesInOrder, Running

LEMMA ScriptIsRunning ==
    ASSUME ChampionInv, script.stage \in {"training", "dataset", "attempts", "policies", "report"}
    PROVE  Running /\ script \in ScriptRecord
BY DEF ChampionInv, ChampionShape, Running, NoScript

LEMMA ReportHasRun ==
    ASSUME ChampionInv
    PROVE  /\ evidence.report.run \in Nat /\ evidence.report.run <= runs /\ runs \in Nat
           /\ evidence.report # NoReport =>
                 evidence.report \in ReportRecord /\ evidence.report.run >= 1
<1> USE DEF ChampionInv
<1>1. evidence.report \in ReportRecord \cup {NoReport} /\ evidence.attempts \in Nat
    BY DEF ChampionShape
<1>2. \A r \in ReportRecord : r.run \in Nat /\ r.run >= 1
    BY DEF ReportRecord
<1>3. NoReport.run = 0
    BY DEF NoReport
<1>4. runs \in Nat
    BY ChampionAssumption DEF ChampionTypeOK
<1>5. evidence.report.run \in Nat
    BY <1>1, <1>2, <1>3
<1>6. evidence.attempts <= runs /\ evidence.attempts >= evidence.report.run
    BY DEF FilesInOrder
<1> QED
    BY <1>1, <1>2, <1>4, <1>5, <1>6

LEMMA EditSourcesInv == ASSUME ChampionInv, EditSources PROVE ChampionInv'
<1> USE DEF ChampionInv
<1>1. sources \in Nat /\ sources' \in 1 .. MaxSourceEdits + 1
    BY ChampionAssumption DEF ChampionTypeOK, EditSources
<1> QED
    BY <1>1 DEF EditSources, ChampionTypeOK, ChampionShape, ScriptEarns, ReportEarned,
                FilesInOrder, Running

LEMMA StartScriptInv == ASSUME ChampionInv, StartScript PROVE ChampionInv'
<1> USE DEF ChampionInv
<1>1. runs \in Nat /\ runs < MaxRuns /\ MaxRuns \in Nat /\ runs' = runs + 1 /\ sources \in Int
    BY ReportHasRun, ChampionAssumption DEF StartScript, ChampionTypeOK
<1>2. /\ script' = StartedScript /\ evidence' = evidence /\ learner' = learner
      /\ sources' = sources
    BY DEF StartScript
<1>3. PICK s : s = StartedScript
    OBVIOUS
<1>4. /\ s.stage = "training" /\ s.run = runs + 1 /\ s.attempts = << >> /\ s.taken = 0
      /\ s.policies = << >> /\ s.final = {}
    BY <1>3 DEF StartedScript
<1>5. s \in ScriptRecord
    <2>1. << >> \in Seq(AttemptRecord) /\ << >> \in ChampionPolicies /\ 0 \in 0 .. Ladder
        BY ChampionAssumption DEF ChampionPolicies
    <2> QED
        BY <1>1, <1>3, <2>1 DEF ScriptRecord, StartedScript
<1>6. ChampionTypeOK'
    <2>1. Len(s.attempts) \in 0 .. Ladder /\ s.taken \in 0 .. Ladder
        BY <1>4, ChampionAssumption
    <2>2. \A file \in {"dataset", "attempts", "policies"} : evidence[file] \in 0 .. runs + 1
        BY <1>1 DEF ChampionTypeOK
    <2> QED
        BY <1>1, <1>2, <1>3, <1>4, <2>1, <2>2 DEF ChampionTypeOK
<1>7. ChampionShape'
    BY <1>2, <1>3, <1>5 DEF ChampionShape
<1>8. ScriptEarns'
    <2>1. Earned(s)
        BY <1>4, ChampionAssumption DEF Earned
    <2> QED
        BY <1>1, <1>2, <1>3, <1>4, <2>1 DEF ScriptEarns, Earned
<1>9. ReportEarned'
    BY <1>2 DEF ReportEarned
<1>10. FilesInOrder'
    <2>1. /\ evidence.dataset \in Nat /\ evidence.attempts \in Nat /\ evidence.policies \in Nat
        BY DEF ChampionShape
    <2> QED
        BY <1>1, <1>2, <1>3, <1>4, <2>1 DEF FilesInOrder
<1> QED
    BY <1>6, <1>7, <1>8, <1>9, <1>10

\* One attempt more: it takes an earlier one's place if it qualifies, and only then.
LEMMA AttemptInv ==
    ASSUME ChampionInv, NEW scores \in Scores, NEW failed \in SUBSET Check,
           Attempt(scores, failed)
    PROVE  ChampionInv'
<1> USE DEF ChampionInv
<1>1. /\ Running /\ script \in ScriptRecord /\ script.stage = "training"
      /\ Len(script.attempts) < Ladder
    BY ScriptIsRunning DEF Attempt
<1>2. PICK k : k = Len(script.attempts) + 1
    OBVIOUS
<1>3. PICK attempt : attempt = [scores |-> scores, winner |-> Winner(scores), failed |-> failed]
    OBVIOUS
<1>4. /\ attempt \in AttemptRecord
      /\ attempt.winner = Foremost(attempt.scores, Candidates)
      /\ attempt.winner \in Candidates
    <2>1. learner \in {"core", "business"}
        BY DEF ChampionShape
    <2> QED
        BY <1>3, <2>1, WinnerIsForemost DEF AttemptRecord
<1>5. PICK all : all = Append(script.attempts, attempt)
    OBVIOUS
<1>6. script.attempts \in Seq(AttemptRecord) /\ Ladder \in Nat /\ script.taken \in 0 .. Ladder
      /\ script.policies \in ChampionPolicies
    BY <1>1, ChampionAssumption DEF ScriptRecord
<1>7. /\ all \in Seq(AttemptRecord) /\ Len(all) = k /\ k \in 1 .. Ladder
      /\ all[k] = attempt
      /\ \A i \in DOMAIN all : i \in DOMAIN script.attempts \/ i = k
      /\ \A i \in DOMAIN script.attempts : all[i] = script.attempts[i] /\ i < k /\ i \in DOMAIN all
      /\ k \in DOMAIN all
    BY <1>1, <1>2, <1>4, <1>5, <1>6
<1>8. PICK taken : taken = IF Qualified(attempt) THEN k ELSE script.taken
    OBVIOUS
<1>9. PICK policies : policies = IF Qualified(attempt) THEN <<k, attempt.winner>>
                                 ELSE script.policies
    OBVIOUS
<1>10. taken \in 0 .. Ladder /\ policies \in ChampionPolicies
    BY <1>4, <1>6, <1>7, <1>8, <1>9 DEF ChampionPolicies
<1>11. script' = [[[script EXCEPT !.attempts = all] EXCEPT !.taken = taken]
                    EXCEPT !.policies = policies]
    BY <1>1, <1>2, <1>3, <1>5, <1>8, <1>9 DEF Attempt, ScriptRecord
<1>12. /\ script' \in ScriptRecord
       /\ script'.attempts = all /\ script'.taken = taken /\ script'.policies = policies
       /\ script'.run = script.run /\ script'.stage = "training"
    <2>1. PICK s1 : s1 = [script EXCEPT !.attempts = all]
        OBVIOUS
    <2>2. /\ s1 \in ScriptRecord /\ s1.attempts = all /\ s1.run = script.run
          /\ s1.stage = "training"
        BY <1>1, <1>7, <2>1 DEF ScriptRecord
    <2>3. PICK s2 : s2 = [s1 EXCEPT !.taken = taken]
        OBVIOUS
    <2>4. /\ s2 \in ScriptRecord /\ s2.attempts = all /\ s2.run = script.run
          /\ s2.stage = "training" /\ s2.taken = taken
        BY <1>10, <2>2, <2>3 DEF ScriptRecord
    <2>5. script' = [s2 EXCEPT !.policies = policies]
        BY <1>11, <2>1, <2>3
    <2> QED
        BY <1>10, <2>4, <2>5 DEF ScriptRecord
<1>13. Earned(script)
    BY <1>1 DEF ScriptEarns
<1>14. Earned(script')
    <2>1. \A i \in DOMAIN all : all[i].winner = Foremost(all[i].scores, Candidates)
        BY <1>4, <1>7, <1>13 DEF Earned
    <2>2. \A i \in DOMAIN all : i > taken => ~Qualified(all[i])
        BY <1>6, <1>7, <1>8, <1>13 DEF Earned
    <2>3. taken # 0 => taken \in DOMAIN all /\ policies = <<taken, all[taken].winner>>
        BY <1>6, <1>7, <1>8, <1>9, <1>13 DEF Earned
    <2> QED
        BY <1>7, <1>12, <2>1, <2>2, <2>3 DEF Earned
<1>15. UNCHANGED <<learner, sources, evidence, runs>>
    BY DEF Attempt
<1>16. script' # NoScript
    BY <1>12 DEF NoScript
<1>17. ChampionTypeOK'
    BY <1>7, <1>10, <1>12, <1>15 DEF ChampionTypeOK
<1>18. ChampionShape' /\ ReportEarned'
    BY <1>12, <1>15 DEF ChampionShape, ReportEarned
<1>19. ScriptEarns'
    BY <1>1, <1>12, <1>14, <1>15 DEF ScriptEarns, Earned
<1>20. FilesInOrder'
    BY <1>12, <1>15 DEF FilesInOrder
<1> QED
    BY <1>17, <1>18, <1>19, <1>20

LEMMA TakeLastInv == ASSUME ChampionInv, TakeLast PROVE ChampionInv'
<1> USE DEF ChampionInv
<1>1. /\ Running /\ script \in ScriptRecord /\ script.stage = "training"
      /\ Len(script.attempts) = Ladder /\ script.taken = 0
    BY ScriptIsRunning DEF TakeLast
<1>2. /\ script.attempts \in Seq(AttemptRecord) /\ Ladder \in Nat /\ Ladder >= 1
    BY <1>1, ChampionAssumption DEF ScriptRecord
<1>3. Ladder \in DOMAIN script.attempts /\ script.attempts[Ladder].winner \in Candidates
    <2>1. Ladder \in DOMAIN script.attempts
        BY <1>1, <1>2
    <2>2. script.attempts[Ladder] \in AttemptRecord
        BY <1>2, <2>1
    <2> QED
        BY <2>1, <2>2 DEF AttemptRecord
<1>4. PICK policies : policies = <<Ladder, script.attempts[Ladder].winner>>
    OBVIOUS
<1>5. policies \in ChampionPolicies
    BY <1>2, <1>3, <1>4 DEF ChampionPolicies
<1>6. script' = [[script EXCEPT !.taken = Ladder] EXCEPT !.policies = policies]
    BY <1>1, <1>4 DEF TakeLast, ScriptRecord
<1>7. /\ script' \in ScriptRecord /\ script'.stage = "training"
      /\ script'.attempts = script.attempts /\ script'.run = script.run
      /\ script'.taken = Ladder /\ script'.policies = policies
    <2>1. PICK s1 : s1 = [script EXCEPT !.taken = Ladder]
        OBVIOUS
    <2>2. /\ s1 \in ScriptRecord /\ s1.attempts = script.attempts /\ s1.run = script.run
          /\ s1.stage = "training" /\ s1.taken = Ladder
        BY <1>1, <1>2, <2>1 DEF ScriptRecord
    <2>3. script' = [s1 EXCEPT !.policies = policies]
        BY <1>6, <2>1
    <2> QED
        BY <1>5, <2>2, <2>3 DEF ScriptRecord
<1>8. Earned(script')
    <2>1. Earned(script)
        BY <1>1 DEF ScriptEarns
    <2>2. \A i \in DOMAIN script.attempts : ~ (i > Ladder)
        BY <1>1, <1>2
    <2> QED
        BY <1>1, <1>2, <1>3, <1>4, <1>7, <2>1, <2>2 DEF Earned
<1>9. UNCHANGED <<learner, sources, evidence, runs>>
    BY DEF TakeLast
<1>10. ChampionTypeOK'
    BY <1>1, <1>2, <1>7, <1>9 DEF ChampionTypeOK
<1>11. ChampionShape' /\ ReportEarned'
    BY <1>7, <1>9 DEF ChampionShape, ReportEarned
<1>12. ScriptEarns'
    BY <1>1, <1>7, <1>8, <1>9 DEF ScriptEarns, Earned
<1>13. FilesInOrder'
    BY <1>7, <1>9 DEF FilesInOrder
<1> QED
    BY <1>10, <1>11, <1>12, <1>13

LEMMA OpenTestInv ==
    ASSUME ChampionInv, NEW failed \in SUBSET Check, OpenTest(failed) PROVE ChampionInv'
<1> USE DEF ChampionInv
<1>1. /\ Running /\ script \in ScriptRecord /\ script.stage = "training"
      /\ Len(script.attempts) = Ladder /\ script.taken # 0
    BY ScriptIsRunning DEF OpenTest
<1>2. PICK next \in {"attempts", "dataset"} :
        /\ next = IF learner = "core" THEN "attempts" ELSE "dataset"
        /\ script' = [[script EXCEPT !.stage = next] EXCEPT !.final = failed]
    BY <1>1 DEF OpenTest, ScriptRecord
<1>3. /\ script' \in ScriptRecord /\ script'.stage = next
      /\ script'.attempts = script.attempts /\ script'.run = script.run
      /\ script'.taken = script.taken /\ script'.policies = script.policies
    <2>1. PICK s1 : s1 = [script EXCEPT !.stage = next]
        OBVIOUS
    <2>2. /\ s1 \in ScriptRecord /\ s1.attempts = script.attempts /\ s1.run = script.run
          /\ s1.stage = next /\ s1.taken = script.taken /\ s1.policies = script.policies
        BY <1>1, <1>2, <2>1 DEF ScriptRecord
    <2>3. script' = [s1 EXCEPT !.final = failed]
        BY <1>2, <2>1
    <2> QED
        BY <2>2, <2>3 DEF ScriptRecord
<1>4. Earned(script')
    <2>1. Earned(script)
        BY <1>1 DEF ScriptEarns
    <2> QED
        BY <1>3, <2>1 DEF Earned
<1>5. UNCHANGED <<learner, sources, evidence, runs>>
    BY DEF OpenTest
<1>6. ChampionTypeOK'
    BY <1>1, <1>3, <1>5 DEF ChampionTypeOK, Running
<1>7. ChampionShape' /\ ReportEarned'
    BY <1>3, <1>5 DEF ChampionShape, ReportEarned
<1>8. ScriptEarns'
    BY <1>1, <1>3, <1>4, <1>5 DEF ScriptEarns, Earned
<1>9. FilesInOrder'
    <2>1. learner = "business" => next = "dataset"
        BY <1>2
    <2> QED
        BY <1>2, <1>3, <1>5, <2>1 DEF FilesInOrder
<1> QED
    BY <1>6, <1>7, <1>8, <1>9

\* A file other than the report is replaced, and names the running script.
LEMMA WriteFileInv ==
    ASSUME ChampionInv, WriteEvidence, script.stage # "report" PROVE ChampionInv'
<1> USE DEF ChampionInv
<1>1. /\ Running /\ script \in ScriptRecord
      /\ script.stage \in {"dataset", "attempts", "policies"}
    BY ScriptIsRunning DEF WriteEvidence
<1>2. UNCHANGED <<learner, sources, runs>>
    BY DEF WriteEvidence
<1>3. PICK next \in {"attempts", "policies", "report"} :
        /\ script' = [script EXCEPT !.stage = next]
        /\ script.stage = "dataset" => next = "attempts"
        /\ script.stage = "attempts" => next = "policies"
        /\ script.stage = "policies" => next = "report"
    BY <1>1 DEF WriteEvidence
<1>4. /\ script' \in ScriptRecord /\ script'.stage = next
      /\ script'.attempts = script.attempts /\ script'.run = script.run
      /\ script'.taken = script.taken /\ script'.policies = script.policies
    BY <1>1, <1>3 DEF ScriptRecord
<1>5. Earned(script')
    <2>1. Earned(script)
        BY <1>1 DEF ScriptEarns
    <2> QED
        BY <1>4, <2>1 DEF Earned
<1>6. script.run = runs /\ runs \in Nat
    BY <1>1, ReportHasRun DEF ScriptEarns
<1>7. evidence' = [evidence EXCEPT ![script.stage] = runs]
    BY <1>1, <1>6 DEF WriteEvidence
<1>8. /\ evidence' \in [dataset : Nat, attempts : Nat, policies : Nat,
                        report : ReportRecord \cup {NoReport}]
      /\ evidence'.report = evidence.report
      /\ evidence'.dataset = IF script.stage = "dataset" THEN runs ELSE evidence.dataset
      /\ evidence'.attempts = IF script.stage = "attempts" THEN runs ELSE evidence.attempts
      /\ evidence'.policies = IF script.stage = "policies" THEN runs ELSE evidence.policies
    BY <1>1, <1>6, <1>7 DEF ChampionShape
<1>9. ChampionTypeOK'
    <2>1. \A file \in {"dataset", "attempts", "policies"} :
            evidence'[file] = runs \/ evidence'[file] = evidence[file]
        BY <1>1, <1>8
    <2>2. \A file \in {"dataset", "attempts", "policies"} : evidence'[file] \in 0 .. runs
        BY <1>6, <2>1 DEF ChampionTypeOK
    <2> QED
        BY <1>1, <1>2, <1>4, <2>2 DEF ChampionTypeOK, Running
<1>10. ChampionShape'
    BY <1>2, <1>4, <1>8 DEF ChampionShape
<1>11. ReportEarned'
    BY <1>8 DEF ReportEarned
<1>12. ScriptEarns'
    BY <1>1, <1>2, <1>4, <1>5 DEF ScriptEarns, Earned
<1>13. FilesInOrder'
    <2>1. evidence.report.run \in Nat /\ evidence.report.run <= runs
        BY ReportHasRun
    <2> QED
        BY <1>1, <1>2, <1>3, <1>4, <1>6, <1>8, <2>1 DEF FilesInOrder
<1> QED
    BY <1>9, <1>10, <1>11, <1>12, <1>13

\* The report comes last, beside files of its own run.
LEMMA WriteReportInv ==
    ASSUME ChampionInv, WriteEvidence, script.stage = "report" PROVE ChampionInv'
<1> USE DEF ChampionInv
<1>1. Running /\ script \in ScriptRecord
    BY ScriptIsRunning
<1>2. UNCHANGED <<learner, sources, runs>> /\ script' = NoScript
    BY DEF WriteEvidence
<1>3. /\ Earned(script) /\ script.run = runs /\ Len(script.attempts) = Ladder
      /\ script.taken # 0
    BY <1>1 DEF ScriptEarns
<1>4. PICK r : r = Report(script)
    OBVIOUS
<1>5. /\ r.attempts = script.attempts /\ r.taken = script.taken /\ r.run = runs
      /\ r.policies = script.policies
      /\ r.admitted => Qualified(script.attempts[script.taken])
    BY <1>3, <1>4 DEF Report, Admitted
<1>6. r \in ReportRecord
    <2>1. Admitted(script) \in BOOLEAN
        BY DEF Admitted, Qualified
    <2> QED
        BY <1>1, <1>4, <2>1 DEF Report, ReportRecord, ScriptRecord
<1>7. evidence' = [evidence EXCEPT !["report"] = r]
    BY <1>4 DEF WriteEvidence
<1>8. /\ evidence' \in [dataset : Nat, attempts : Nat, policies : Nat,
                        report : ReportRecord \cup {NoReport}]
      /\ evidence'.report = r
      /\ evidence'.dataset = evidence.dataset /\ evidence'.attempts = evidence.attempts
      /\ evidence'.policies = evidence.policies
    BY <1>6, <1>7 DEF ChampionShape
<1>9. ChampionTypeOK'
    BY <1>2, <1>8 DEF ChampionTypeOK
<1>10. ChampionShape' /\ ScriptEarns'
    BY <1>2, <1>8 DEF ChampionShape, ScriptEarns, Running
<1>11. ReportEarned'
    <2>1. Earned(r)
        BY <1>3, <1>5 DEF Earned
    <2> QED
        BY <1>3, <1>5, <1>8, <2>1 DEF ReportEarned, Earned
<1>12. FilesInOrder'
    <2>1. runs \in Nat
        BY ReportHasRun
    <2>2. evidence.dataset \in Nat /\ evidence.attempts \in Nat /\ evidence.policies \in Nat
        BY DEF ChampionShape
    <2> QED
        BY <1>1, <1>2, <1>5, <1>8, <2>1, <2>2 DEF FilesInOrder, Running
<1> QED
    BY <1>9, <1>10, <1>11, <1>12

LEMMA DieInv == ASSUME ChampionInv, Die PROVE ChampionInv'
BY DEF Die, ChampionInv, ChampionTypeOK, ChampionShape, ScriptEarns, ReportEarned,
       FilesInOrder, Running

LEMMA ChampionStep == ASSUME ChampionInv, ChampionNext PROVE ChampionInv'
<1>1. ASSUME NEW failed \in SUBSET Check, OpenTest(failed) PROVE ChampionInv'
    BY <1>1, OpenTestInv
<1>2. ASSUME NEW failed \in SUBSET Check, NEW scores \in Scores, Attempt(scores, failed)
      PROVE ChampionInv'
    BY <1>2, AttemptInv
<1>3. CASE WriteEvidence
    BY <1>3, WriteFileInv, WriteReportInv
<1> QED
    BY <1>1, <1>2, <1>3, EditSourcesInv, StartScriptInv, TakeLastInv, DieInv DEF ChampionNext

\* The inductive invariant of the champion's script.
THEOREM ChampionInvariance == ChampionSpec => []ChampionInv
<1>1. ChampionInv /\ [ChampionNext]_championVars => ChampionInv'
    <2>1. CASE ChampionNext
        BY <2>1, ChampionStep
    <2>2. CASE UNCHANGED championVars
        BY <2>2 DEF championVars, ChampionInv, ChampionTypeOK, ChampionShape, ScriptEarns,
                    ReportEarned, FilesInOrder, Running
    <2> QED
        BY <2>1, <2>2
<1> QED
    BY <1>1, ChampionInitInv, PTL DEF ChampionSpec

\* With any number of algorithms, configurations and attempts, and whenever the script dies
\* or the sources change: an admitted report names the best candidate of the last attempt
\* that qualified, and lies beside evidence that is at least as new, and its own as long as
\* it verifies (runCoreOperationsChampion.ts, runPortBusinessChampion.ts and their
\* verifiers).
THEOREM ChampionStaysEarned == ChampionSpec => []ChampionIsEarned
<1>1. ChampionInv => ChampionIsEarned
    <2> SUFFICES ASSUME ChampionInv PROVE ChampionIsEarned
        OBVIOUS
    <2> USE DEF ChampionInv
    <2>1. AdmittedIsEarned
        <3> SUFFICES ASSUME evidence.report # NoReport, evidence.report.admitted
                     PROVE  /\ Qualified(evidence.report.attempts[evidence.report.taken])
                            /\ \A k \in evidence.report.taken + 1 .. Ladder :
                                  ~Qualified(evidence.report.attempts[k])
                            /\ evidence.report.policies =
                                  <<evidence.report.taken,
                                    Foremost(evidence.report.attempts[evidence.report.taken].scores,
                                             Candidates)>>
            BY DEF AdmittedIsEarned
        <3>1. evidence.report \in ReportRecord
            BY ReportHasRun
        <3>2. PICK r \in ReportRecord : r = evidence.report
            BY <3>1
        <3>3. /\ Earned(r) /\ Len(r.attempts) = Ladder /\ r.taken # 0
              /\ Qualified(r.attempts[r.taken])
            BY <3>2 DEF ReportEarned
        <3>4. r.attempts \in Seq(AttemptRecord) /\ r.taken \in 0 .. Ladder /\ Ladder \in Nat
            BY ChampionAssumption DEF ReportRecord
        <3>5. DOMAIN r.attempts = 1 .. Ladder
            BY <3>3, <3>4
        <3>6. \A k \in r.taken + 1 .. Ladder : k \in DOMAIN r.attempts /\ k > r.taken
            BY <3>4, <3>5
        <3>7. /\ \A k \in r.taken + 1 .. Ladder : ~Qualified(r.attempts[k])
              /\ r.policies = <<r.taken, Foremost(r.attempts[r.taken].scores, Candidates)>>
            BY <3>3, <3>6 DEF Earned
        <3> QED
            BY <3>2, <3>3, <3>7
    <2>2. ReportComesLast
        <3>1. \A file \in {"attempts", "policies"} : evidence[file] >= evidence.report.run
            BY DEF FilesInOrder
        <3>2. Verifies /\ learner = "business" => evidence.dataset = evidence.report.run
            <4> SUFFICES ASSUME Verifies, learner = "business"
                         PROVE  evidence.dataset = evidence.report.run
                OBVIOUS
            <4>1. evidence.report # NoReport /\ evidence.dataset \in {0, evidence.report.run}
                BY DEF Verifies
            <4>2. evidence.report.run >= 1 /\ evidence.report.run \in Nat
                BY <4>1, ReportHasRun
            <4>3. evidence.dataset >= evidence.report.run
                BY DEF FilesInOrder
            <4> QED
                BY <4>1, <4>2, <4>3
        <3> QED
            BY <3>1, <3>2 DEF ReportComesLast
    <2> QED
        BY <2>1, <2>2 DEF ChampionIsEarned
<1> QED
    BY <1>1, ChampionInvariance, PTL

----------------------------------------------------------------------------
(* The fitted candidate.  The lock is written once, so of all processes    *)
(* that ever finalize one passes it; whatever is tested, published or      *)
(* built later is compared with the lock.                                  *)

ScriptShape ==
    {Ready}
    \cup [script : {"candidate"}, loaded : World, done : SUBSET Seeds]
    \cup [script : {"seed"}, seed : Seeds, loaded : World]
    \cup [script : {"validation", "robust"}, seeds : Policies]
    \cup [script : {"final", "locked", "tested"}, policies : Policies, sources : CodeVersions]
    \cup [script : {"evidence", "copied"}, policies : Policies, sources : CodeVersions]

FittedShape ==
    /\ scripts \in [Process -> ScriptShape]
    /\ published \in [artifacts : [Seeds -> World \cup {NoFile}] \cup {NoFile},
                      report : [policies : Policies, sources : CodeVersions] \cup {NoFile}]

At(p, names) == scripts[p].script \in names

\* What is frozen has passed the validation, and nothing is tested before it.
FrozenFirst ==
    /\ directory.lock # NoFile =>
        /\ directory.robust # NoFile /\ directory.robust.passed
        /\ Converged(directory.lock.policies)
    /\ \A p \in Process : At(p, {"final"}) =>
        /\ directory.protocol # NoFile
        /\ directory.robust # NoFile /\ directory.robust.passed
        /\ Converged(scripts[p].policies)
    /\ directory.lock = NoFile => \A p \in Process : ~At(p, {"locked", "tested"})

\* One process passes the lock, and the test is for what it locked.
OneTest ==
    /\ \A p, q \in Process : At(p, {"locked", "tested"}) /\ At(q, {"locked", "tested"}) => p = q
    /\ \A p \in Process : At(p, {"locked", "tested"}) =>
        /\ scripts[p].policies = directory.lock.policies
        /\ opened = IF At(p, {"locked"}) THEN << >> ELSE <<directory.lock.policies>>
    /\ opened # << >> => directory.lock # NoFile /\ opened = <<directory.lock.policies>>
    /\ directory.final # NoFile =>
        opened # << >> /\ directory.final.policies = directory.lock.policies

\* What is published, or about to be, is what the lock names, and passed its test.
PublishedIsLocked ==
    /\ \A p \in Process : At(p, {"evidence", "copied"}) =>
        /\ directory.final # NoFile /\ directory.final.passed
        /\ scripts[p].policies = directory.lock.policies
        /\ scripts[p].sources = directory.lock.sources
    /\ published.report # NoFile =>
        /\ directory.final # NoFile /\ directory.final.passed
        /\ published.report.policies = directory.lock.policies
        /\ published.report.sources = directory.lock.sources

\* While nothing is edited all that is trained is the same.
Alike == [s \in Seeds |-> world]
UneditedIsAlike ==
    Edits = 0 =>
        /\ \A s \in Seeds : directory.seeds[s] \in {NoFile, world}
        /\ directory.robust # NoFile => directory.robust.seeds = Alike
        /\ directory.lock # NoFile => directory.lock.policies = Alike
        /\ \A p \in Process :
            /\ At(p, {"candidate", "seed"}) => scripts[p].loaded = world
            /\ At(p, {"validation", "robust"}) => scripts[p].seeds = Alike
            /\ At(p, {"final"}) => scripts[p].policies = Alike

FittedInv ==
    /\ FittedTypeOK /\ FittedShape
    /\ FrozenFirst /\ OneTest /\ PublishedIsLocked /\ UneditedIsAlike

LEMMA ScriptsHaveShapes ==
    ASSUME NEW x \in ScriptShape
    PROVE  /\ x.script \in {"none", "candidate", "seed", "validation", "robust", "final",
                            "locked", "tested", "evidence", "copied"}
           /\ x.script = "none" => x = Ready
           /\ x.script = "candidate" =>
                x \in [script : {"candidate"}, loaded : World, done : SUBSET Seeds]
           /\ x.script = "seed" => x \in [script : {"seed"}, seed : Seeds, loaded : World]
           /\ x.script \in {"validation", "robust"} =>
                x \in [script : {"validation", "robust"}, seeds : Policies]
           /\ x.script \in {"final", "locked", "tested"} =>
                x \in [script : {"final", "locked", "tested"}, policies : Policies,
                       sources : CodeVersions]
           /\ x.script \in {"evidence", "copied"} =>
                x \in [script : {"evidence", "copied"}, policies : Policies,
                       sources : CodeVersions]
BY DEF ScriptShape, Ready

\* One process goes on to another piece of work.
LEMMA OneScriptMoves ==
    ASSUME FittedShape, NEW p \in Process, NEW job \in ScriptShape, Run(p, job)
    PROVE  /\ scripts' \in [Process -> ScriptShape]
           /\ scripts'[p] = job
           /\ \A q \in Process : q # p => scripts'[q] = scripts[q]
           /\ \A q \in Process : scripts'[q].script \in
                {"none", "candidate", "seed", "validation", "robust", "final",
                 "locked", "tested", "evidence", "copied"}
<1>1. scripts' = [scripts EXCEPT ![p] = job]
    BY DEF Run
<1>2. scripts' \in [Process -> ScriptShape]
    BY <1>1 DEF FittedShape
<1> QED
    BY <1>1, <1>2, ScriptsHaveShapes DEF FittedShape

LEMMA FittedInitInv == ASSUME FittedInit PROVE FittedInv
<1> USE FittedAssumption DEF FittedInit
<1>1. Ready \in ScriptShape /\ Ready.script = "none"
    BY DEF ScriptShape, Ready
<1>2. \A p \in Process : scripts[p] = Ready
    OBVIOUS
<1>3. FittedTypeOK
    BY <1>1, <1>2 DEF FittedTypeOK, World
<1>4. FittedShape
    BY <1>1, <1>2 DEF FittedShape
<1>5. FrozenFirst /\ OneTest /\ PublishedIsLocked
    BY <1>1, <1>2 DEF FrozenFirst, OneTest, PublishedIsLocked, At
<1>6. UneditedIsAlike
    BY <1>1, <1>2 DEF UneditedIsAlike, At
<1> QED
    BY <1>3, <1>4, <1>5, <1>6 DEF FittedInv

LEMMA EditInv == ASSUME FittedInv, NEW s \in Source, Edit(s) PROVE FittedInv'
<1> USE FittedAssumption DEF FittedInv, Edit
<1>1. /\ world \in World /\ \A t \in Source : world[t] \in 0 .. MaxEdits
    BY DEF FittedTypeOK, World
<1>2. Edits \in Nat /\ world[s] + 1 \in 0 .. MaxEdits
    BY <1>1 DEF Edits, Source
<1>3. world' = [world EXCEPT ![s] = @ + 1]
    OBVIOUS
<1>4. world' \in World
    BY <1>1, <1>2, <1>3 DEF World
<1>5. Edits' # 0
    BY <1>1, <1>2, <1>3 DEF Edits, Source, World
<1>6. FittedTypeOK' /\ FittedShape'
    BY <1>4 DEF FittedTypeOK, FittedShape
<1>7. FrozenFirst' /\ OneTest' /\ PublishedIsLocked'
    BY DEF FrozenFirst, OneTest, PublishedIsLocked, At
<1>8. UneditedIsAlike'
    BY <1>5 DEF UneditedIsAlike
<1> QED
    BY <1>6, <1>7, <1>8

\* Training writes policies of the versions it was loaded with.
LEMMA TrainingInv ==
    ASSUME FittedInv, NEW p \in Process, NEW s \in Seeds, NEW prepareOnly \in BOOLEAN,
           StartCandidate(p, prepareOnly) \/ CandidateSeed(p, s) \/ StartSeed(p, s) \/ EndSeed(p)
    PROVE  FittedInv'
<1> USE FittedAssumption DEF FittedInv
<1>1. /\ world' = world /\ published' = published /\ opened' = opened
      /\ directory'.robust = directory.robust /\ directory'.lock = directory.lock
      /\ directory'.final = directory.final
      /\ directory.protocol # NoFile => directory'.protocol = directory.protocol
    BY DEF StartCandidate, CandidateSeed, StartSeed, EndSeed, Write, FittedTypeOK
<1>2. world \in World /\ \A t \in Source : world[t] \in 0 .. MaxEdits
    BY DEF FittedTypeOK, World
<1>3. \E job \in ScriptShape :
        /\ Run(p, job)
        /\ job.script \in {"none", "candidate", "seed"} \/ job = scripts[p]
        /\ Edits = 0 /\ job.script \in {"candidate", "seed"} => job.loaded = world
    <2>1. CASE \E b \in BOOLEAN : StartCandidate(p, b)
        <3>1. CASE UNCHANGED scripts
            BY <3>1 DEF Run, FittedShape, UneditedIsAlike, At
        <3>2. CASE Run(p, [script |-> "candidate", loaded |-> world, done |-> {}])
            BY <1>2, <3>2 DEF ScriptShape
        <3> QED
            BY <2>1, <3>1, <3>2 DEF StartCandidate
    <2>2. CASE CandidateSeed(p, s)
        <3> DEFINE job == [scripts[p] EXCEPT !.done = @ \cup {s}]
        <3>1. scripts[p] \in [script : {"candidate"}, loaded : World, done : SUBSET Seeds]
            BY <2>2, ScriptsHaveShapes DEF CandidateSeed, FittedShape
        <3>2. /\ job \in [script : {"candidate"}, loaded : World, done : SUBSET Seeds]
              /\ job.script = "candidate" /\ job.loaded = scripts[p].loaded
            BY <3>1
        <3>3. job \in ScriptShape /\ Run(p, job)
            BY <2>2, <3>2 DEF ScriptShape, CandidateSeed
        <3>4. Edits = 0 => job.loaded = world
            BY <3>1, <3>2 DEF UneditedIsAlike, At
        <3> HIDE DEF job
        <3> QED
            BY <3>2, <3>3, <3>4
    <2>3. CASE StartSeed(p, s)
        BY <1>2, <2>3 DEF StartSeed, ScriptShape
    <2>4. CASE EndSeed(p)
        BY <2>4 DEF EndSeed, ScriptShape, Ready
    <2> QED
        BY <2>1, <2>2, <2>3, <2>4
<1>4. PICK job \in ScriptShape :
        /\ Run(p, job)
        /\ job.script \in {"none", "candidate", "seed"} \/ job = scripts[p]
        /\ Edits = 0 /\ job.script \in {"candidate", "seed"} => job.loaded = world
    BY <1>3
<1>5. /\ scripts' \in [Process -> ScriptShape]
      /\ scripts'[p] = job
      /\ \A q \in Process : q # p => scripts'[q] = scripts[q]
      /\ \A q \in Process : scripts'[q].script \in
                {"none", "candidate", "seed", "validation", "robust", "final",
                 "locked", "tested", "evidence", "copied"}
    BY <1>4, OneScriptMoves
<1>6. /\ \A q \in Process : scripts'[q] = scripts[q]
                            \/ scripts'[q].script \in {"none", "candidate", "seed"}
      /\ Edits = 0 => \A q \in Process : At(q, {"candidate", "seed"})' => scripts'[q].loaded = world
    BY <1>4, <1>5 DEF UneditedIsAlike, At
<1>7. /\ directory' \in [protocol : Protocol \cup {NoFile}, seeds : [Seeds -> World \cup {NoFile}],
                      validation : Policies \cup {NoFile}, robust : Robust \cup {NoFile},
                      lock : Lock \cup {NoFile}, final : Final \cup {NoFile}]
      /\ Edits = 0 => \A t \in Seeds : directory'.seeds[t] \in {NoFile, world}
    <2>1. CASE \E b \in BOOLEAN : StartCandidate(p, b)
        <3>1. [training |-> world["training"], dataset |-> world["dataset"]] \in Protocol
            BY <1>2 DEF Protocol, Source
        <3>2. directory' = [directory EXCEPT !.protocol =
                                [training |-> world["training"], dataset |-> world["dataset"]]]
            BY <2>1 DEF StartCandidate, Write
        <3> QED
            BY <3>1, <3>2 DEF FittedTypeOK, UneditedIsAlike
    <2>2. ASSUME NEW t \in Seeds, NEW w \in World, Edits = 0 => w = world,
                 directory' = [directory EXCEPT !.seeds[t] = w]
          PROVE  <1>7!1 /\ <1>7!2
        BY <2>2 DEF FittedTypeOK, UneditedIsAlike
    <2>3. CASE CandidateSeed(p, s)
        <3>1. scripts[p] \in [script : {"candidate"}, loaded : World, done : SUBSET Seeds]
            BY <2>3, ScriptsHaveShapes DEF CandidateSeed, FittedShape
        <3>2. scripts[p].loaded \in World /\ (Edits = 0 => scripts[p].loaded = world)
            BY <3>1 DEF UneditedIsAlike, At
        <3> QED
            BY <2>2, <2>3, <3>2 DEF CandidateSeed, Trained
    <2>4. CASE StartSeed(p, s)
        BY <2>4 DEF StartSeed, FittedTypeOK, UneditedIsAlike
    <2>5. CASE EndSeed(p)
        <3>1. scripts[p] \in [script : {"seed"}, seed : Seeds, loaded : World]
            BY <2>5, ScriptsHaveShapes DEF EndSeed, FittedShape
        <3>2. /\ scripts[p].loaded \in World /\ scripts[p].seed \in Seeds
              /\ Edits = 0 => scripts[p].loaded = world
            BY <3>1 DEF UneditedIsAlike, At
        <3>3. CASE UNCHANGED directory
            BY <3>3 DEF FittedTypeOK, UneditedIsAlike
        <3> QED
            BY <2>2, <2>5, <3>2, <3>3 DEF EndSeed, Trained
    <2> QED
        BY <2>1, <2>3, <2>4, <2>5
<1>8. FittedTypeOK' /\ FittedShape'
    BY <1>1, <1>2, <1>5, <1>7 DEF FittedTypeOK, FittedShape
<1>9. FrozenFirst' /\ OneTest'
    BY <1>1, <1>6 DEF FrozenFirst, OneTest, At
<1>10. PublishedIsLocked'
    BY <1>1, <1>6 DEF PublishedIsLocked, At
<1>11. UneditedIsAlike'
    BY <1>1, <1>6, <1>7 DEF UneditedIsAlike, At, Edits, Alike
<1> QED
    BY <1>8, <1>9, <1>10, <1>11

\* Evaluation reads the seeds at one moment, and its files are written once.
LEMMA ValidationInv ==
    ASSUME FittedInv, NEW p \in Process, NEW passed \in BOOLEAN,
           StartValidation(p) \/ WriteValidation(p) \/ WriteRobust(p, passed)
    PROVE  FittedInv'
<1> USE FittedAssumption DEF FittedInv
<1>1. /\ world' = world /\ published' = published /\ opened' = opened
      /\ directory'.protocol = directory.protocol /\ directory'.seeds = directory.seeds
      /\ directory'.lock = directory.lock /\ directory'.final = directory.final
    BY DEF StartValidation, WriteValidation, WriteRobust, Write, FittedTypeOK
<1>2. \E job \in ScriptShape :
        /\ Run(p, job)
        /\ job.script \in {"none", "validation", "robust"}
        /\ Edits = 0 /\ job.script \in {"validation", "robust"} => job.seeds = Alike
    <2>1. CASE StartValidation(p)
        <3>1. directory.seeds \in Policies
            BY <2>1 DEF StartValidation, Complete, FittedTypeOK, Policies
        <3>2. Edits = 0 => directory.seeds = Alike
            BY <2>1, <3>1 DEF StartValidation, Complete, UneditedIsAlike, Alike, Policies
        <3>3. [script |-> "validation", seeds |-> directory.seeds] \in ScriptShape
            BY <3>1 DEF ScriptShape
        <3> QED
            BY <2>1, <3>2, <3>3 DEF StartValidation
    <2>2. CASE WriteValidation(p) \/ WriteRobust(p, passed)
        <3>1. scripts[p] \in [script : {"validation", "robust"}, seeds : Policies]
            BY <2>2, ScriptsHaveShapes DEF WriteValidation, WriteRobust, FittedShape
        <3>2. Ready \in ScriptShape /\ Ready.script = "none"
            BY DEF ScriptShape, Ready
        <3>3. PICK job : job = [scripts[p] EXCEPT !.script = "robust"]
            OBVIOUS
        <3>4. /\ job \in [script : {"validation", "robust"}, seeds : Policies]
              /\ job.seeds = scripts[p].seeds
            BY <3>1, <3>3
        <3>5. job \in ScriptShape /\ (Edits = 0 => job.seeds = Alike)
            BY <3>1, <3>4 DEF ScriptShape, UneditedIsAlike, At
        <3>6. Run(p, Ready) \/ Run(p, job)
            BY <2>2, <3>3 DEF WriteValidation, WriteRobust
        <3> QED
            BY <3>2, <3>4, <3>5, <3>6
    <2> QED
        BY <2>1, <2>2
<1>3. PICK job \in ScriptShape :
        /\ Run(p, job)
        /\ job.script \in {"none", "validation", "robust"}
        /\ Edits = 0 /\ job.script \in {"validation", "robust"} => job.seeds = Alike
    BY <1>2
<1>4. /\ scripts' \in [Process -> ScriptShape]
      /\ scripts'[p] = job
      /\ \A q \in Process : q # p => scripts'[q] = scripts[q]
      /\ \A q \in Process : scripts'[q].script \in
                {"none", "candidate", "seed", "validation", "robust", "final",
                 "locked", "tested", "evidence", "copied"}
    BY <1>3, OneScriptMoves
<1>5. /\ \A q \in Process : scripts'[q] = scripts[q]
                            \/ scripts'[q].script \in {"none", "validation", "robust"}
      /\ Edits = 0 => \A q \in Process :
            At(q, {"validation", "robust"})' => scripts'[q].seeds = Alike
    BY <1>3, <1>4 DEF UneditedIsAlike, At
<1>6. /\ directory' \in [protocol : Protocol \cup {NoFile}, seeds : [Seeds -> World \cup {NoFile}],
                      validation : Policies \cup {NoFile}, robust : Robust \cup {NoFile},
                      lock : Lock \cup {NoFile}, final : Final \cup {NoFile}]
      /\ directory.robust # NoFile => directory'.robust = directory.robust
      /\ Edits = 0 /\ directory'.robust # NoFile => directory'.robust.seeds = Alike
    <2>1. CASE UNCHANGED directory
        BY <2>1 DEF FittedTypeOK, UneditedIsAlike
    <2>2. scripts[p].script \in {"validation", "robust"} =>
            scripts[p].seeds \in Policies /\ (Edits = 0 => scripts[p].seeds = Alike)
        BY ScriptsHaveShapes DEF FittedShape, UneditedIsAlike, At
    <2>3. CASE directory' = [directory EXCEPT !["validation"] = scripts[p].seeds]
               /\ scripts[p].script = "validation"
        BY <2>2, <2>3 DEF FittedTypeOK, UneditedIsAlike
    <2>4. CASE /\ directory' = [directory EXCEPT !["robust"] =
                                    [seeds |-> scripts[p].seeds, passed |-> passed]]
               /\ directory.robust = NoFile /\ scripts[p].script = "robust"
        <3>1. [seeds |-> scripts[p].seeds, passed |-> passed] \in Robust
            BY <2>2, <2>4 DEF Robust
        <3> QED
            BY <2>2, <2>4, <3>1 DEF FittedTypeOK
    <2> QED
        BY <2>1, <2>3, <2>4 DEF StartValidation, WriteValidation, WriteRobust, Write
<1>7. FittedTypeOK' /\ FittedShape'
    BY <1>1, <1>4, <1>6 DEF FittedTypeOK, FittedShape
<1>8. FrozenFirst' /\ OneTest'
    BY <1>1, <1>5, <1>6 DEF FrozenFirst, OneTest, At
<1>9. PublishedIsLocked'
    BY <1>1, <1>5 DEF PublishedIsLocked, At
<1>10. UneditedIsAlike'
    BY <1>1, <1>5, <1>6 DEF UneditedIsAlike, At, Edits, Alike
<1> QED
    BY <1>7, <1>8, <1>9, <1>10

\* What a finalizing process has read, it carries through the lock and the test.
LEMMA FinalInv ==
    ASSUME FittedInv, NEW p \in Process, NEW passed \in BOOLEAN,
           \/ StartFinal(p) \/ WriteLock(p) \/ OpenTestRecords(p) \/ WriteFinal(p, passed)
    PROVE  FittedInv'
<1> USE FittedAssumption DEF FittedInv
<1>1. world' = world /\ published' = published
    BY DEF StartFinal, WriteLock, OpenTestRecords, WriteFinal
<1>2. Ready \in ScriptShape /\ Ready.script = "none"
    BY DEF ScriptShape, Ready
<1>3. CASE StartFinal(p)
    <2>1. directory.seeds \in Policies /\ (Edits = 0 => directory.seeds = Alike)
        BY <1>3 DEF StartFinal, Complete, FittedTypeOK, UneditedIsAlike, Alike, Policies
    <2>2. SourcesNow \in CodeVersions
        BY DEF SourcesNow, CodeVersions, FittedTypeOK, World, Source
    <2>3. PICK job : job = [script |-> "final", policies |-> directory.seeds, sources |-> SourcesNow]
        OBVIOUS
    <2>4. job \in ScriptShape /\ job.script = "final" /\ job.policies = directory.seeds
        BY <2>1, <2>2, <2>3 DEF ScriptShape
    <2>5. Run(p, job) /\ UNCHANGED <<world, directory, published, opened>>
        BY <1>3, <2>3 DEF StartFinal
    <2>6. /\ scripts' \in [Process -> ScriptShape]
          /\ scripts'[p] = job
          /\ \A q \in Process : q # p => scripts'[q] = scripts[q]
          /\ \A q \in Process : scripts'[q].script \in
                {"none", "candidate", "seed", "validation", "robust", "final",
                 "locked", "tested", "evidence", "copied"}
        BY <2>4, <2>5, OneScriptMoves
    <2>7. FittedTypeOK' /\ FittedShape'
        BY <2>5, <2>6 DEF FittedTypeOK, FittedShape
    <2>8. /\ directory.protocol # NoFile /\ directory.robust # NoFile /\ directory.robust.passed
          /\ Converged(directory.seeds)
        BY <1>3 DEF StartFinal
    <2>9. FrozenFirst'
        BY <2>4, <2>5, <2>6, <2>8 DEF FrozenFirst, At
    <2>10. OneTest'
        BY <2>4, <2>5, <2>6 DEF OneTest, At
    <2>11. PublishedIsLocked'
        BY <2>4, <2>5, <2>6 DEF PublishedIsLocked, At
    <2>12. UneditedIsAlike'
        BY <2>1, <2>4, <2>5, <2>6 DEF UneditedIsAlike, At, Edits, Alike
    <2> QED
        BY <2>7, <2>9, <2>10, <2>11, <2>12
<1>4. CASE WriteLock(p) \/ OpenTestRecords(p) \/ WriteFinal(p, passed)
    <2>1. scripts[p] \in [script : {"final", "locked", "tested"}, policies : Policies,
                         sources : CodeVersions]
        BY <1>4, ScriptsHaveShapes DEF WriteLock, OpenTestRecords, WriteFinal, FittedShape
    <2>2. ASSUME NEW job \in ScriptShape, Run(p, job), job.script = "none",
                 UNCHANGED <<directory, opened>>
          PROVE  FittedInv'
        <3>1. /\ scripts' \in [Process -> ScriptShape]
              /\ scripts'[p] = job
              /\ \A q \in Process : q # p => scripts'[q] = scripts[q]
              /\ \A q \in Process : scripts'[q].script \in
                    {"none", "candidate", "seed", "validation", "robust", "final",
                     "locked", "tested", "evidence", "copied"}
            BY <2>2, OneScriptMoves
        <3>2. FittedTypeOK' /\ FittedShape'
            BY <1>1, <2>2, <3>1 DEF FittedTypeOK, FittedShape
        <3>3. FrozenFirst' /\ OneTest' /\ PublishedIsLocked'
            BY <1>1, <2>2, <3>1 DEF FrozenFirst, OneTest, PublishedIsLocked, At
        <3>4. UneditedIsAlike'
            BY <1>1, <2>2, <3>1 DEF UneditedIsAlike, At, Edits, Alike
        <3> QED
            BY <3>2, <3>3, <3>4
    <2>3. CASE WriteLock(p) /\ directory.lock = NoFile
        <3>1. PICK job : job = [scripts[p] EXCEPT !.script = "locked"]
            OBVIOUS
        <3>2. /\ job \in [script : {"final", "locked", "tested"}, policies : Policies,
                          sources : CodeVersions]
              /\ job.script = "locked" /\ job.policies = scripts[p].policies
            BY <2>1, <3>1
        <3>3. job \in ScriptShape
            BY <3>2 DEF ScriptShape
        <3>4. Run(p, job) /\ opened' = opened
            BY <2>3, <3>1 DEF WriteLock
        <3>5. /\ scripts' \in [Process -> ScriptShape]
              /\ scripts'[p] = job
              /\ \A q \in Process : q # p => scripts'[q] = scripts[q]
              /\ \A q \in Process : scripts'[q].script \in
                    {"none", "candidate", "seed", "validation", "robust", "final",
                     "locked", "tested", "evidence", "copied"}
            BY <3>3, <3>4, OneScriptMoves
        <3>6. PICK frozen : frozen = [policies |-> scripts[p].policies,
                                      sources |-> scripts[p].sources,
                                      dataset |-> directory.protocol.dataset]
            OBVIOUS
        <3>7. directory.protocol.dataset \in 0 .. MaxEdits
            BY <2>3 DEF FittedTypeOK, Protocol, FrozenFirst, At, WriteLock
        <3>8. frozen \in Lock /\ frozen.policies = scripts[p].policies
            BY <2>1, <3>6, <3>7 DEF Lock
        <3>9. directory' = [directory EXCEPT !["lock"] = frozen]
            BY <2>3, <3>6 DEF WriteLock, Write
        <3>10. /\ directory'.lock = frozen /\ directory'.seeds = directory.seeds
               /\ directory'.protocol = directory.protocol
               /\ directory'.robust = directory.robust /\ directory'.final = directory.final
            BY <3>9 DEF FittedTypeOK
        <3>11. FittedTypeOK' /\ FittedShape'
            BY <1>1, <3>5, <3>8, <3>9 DEF FittedTypeOK, FittedShape
        <3>12. opened = << >> /\ directory.final = NoFile
            BY <2>3 DEF OneTest
        <3>13. FrozenFirst'
            BY <2>3, <3>2, <3>5, <3>8, <3>10 DEF FrozenFirst, At, WriteLock
        <3>14. OneTest'
            BY <2>3, <3>2, <3>4, <3>5, <3>8, <3>10, <3>12 DEF OneTest, FrozenFirst, At
        <3>15. PublishedIsLocked'
            BY <1>1, <3>2, <3>5, <3>10, <3>12 DEF PublishedIsLocked, At
        <3>16. UneditedIsAlike'
            BY <1>1, <2>3, <3>2, <3>5, <3>8, <3>10 DEF UneditedIsAlike, At, Edits, Alike, WriteLock
        <3> QED
            BY <3>11, <3>13, <3>14, <3>15, <3>16
    <2>4. CASE OpenTestRecords(p) /\ UNCHANGED directory /\ ~UNCHANGED opened
        <3>1. PICK job : job = [scripts[p] EXCEPT !.script = "tested"]
            OBVIOUS
        <3>2. /\ job \in [script : {"final", "locked", "tested"}, policies : Policies,
                          sources : CodeVersions]
              /\ job.script = "tested" /\ job.policies = scripts[p].policies
            BY <2>1, <3>1
        <3>3. job \in ScriptShape
            BY <3>2 DEF ScriptShape
        <3>4. /\ Run(p, job) /\ opened' = Append(opened, scripts[p].policies)
              /\ scripts[p].script = "locked"
            BY <2>4, <3>1 DEF OpenTestRecords
        <3>5. /\ scripts' \in [Process -> ScriptShape]
              /\ scripts'[p] = job
              /\ \A q \in Process : q # p => scripts'[q] = scripts[q]
              /\ \A q \in Process : scripts'[q].script \in
                    {"none", "candidate", "seed", "validation", "robust", "final",
                     "locked", "tested", "evidence", "copied"}
            BY <3>3, <3>4, OneScriptMoves
        <3>6. opened = << >> /\ scripts[p].policies = directory.lock.policies
            BY <3>4 DEF OneTest, At
        <3>7. opened' = <<directory.lock.policies>> /\ opened' # << >>
            BY <3>4, <3>6
        <3>8. directory.lock # NoFile
            BY <3>4 DEF FrozenFirst, At
        <3>9. FittedTypeOK' /\ FittedShape'
            BY <1>1, <2>4, <3>5 DEF FittedTypeOK, FittedShape
        <3>10. FrozenFirst'
            BY <2>4, <3>2, <3>5, <3>8 DEF FrozenFirst, At
        <3>11. OneTest'
            BY <2>4, <3>2, <3>4, <3>5, <3>6, <3>7, <3>8 DEF OneTest, At
        <3>12. PublishedIsLocked'
            BY <1>1, <2>4, <3>2, <3>5 DEF PublishedIsLocked, At
        <3>13. UneditedIsAlike'
            BY <1>1, <2>4, <3>2, <3>5 DEF UneditedIsAlike, At, Edits, Alike
        <3> QED
            BY <3>9, <3>10, <3>11, <3>12, <3>13
    <2>5. CASE WriteFinal(p, passed) /\ directory.final = NoFile
        <3>1. /\ Run(p, Ready) /\ opened' = opened /\ scripts[p].script = "tested"
            BY <2>5 DEF WriteFinal
        <3>2. /\ scripts' \in [Process -> ScriptShape]
              /\ scripts'[p] = Ready
              /\ \A q \in Process : q # p => scripts'[q] = scripts[q]
              /\ \A q \in Process : scripts'[q].script \in
                    {"none", "candidate", "seed", "validation", "robust", "final",
                     "locked", "tested", "evidence", "copied"}
            BY <1>2, <3>1, OneScriptMoves
        <3>3. PICK result : result = [policies |-> scripts[p].policies, passed |-> passed]
            OBVIOUS
        <3>4. result \in Final /\ result.policies = scripts[p].policies
            BY <2>1, <3>3 DEF Final
        <3>5. directory' = [directory EXCEPT !["final"] = result]
            BY <2>5, <3>3 DEF WriteFinal, Write
        <3>6. /\ directory'.final = result /\ directory'.seeds = directory.seeds
              /\ directory'.protocol = directory.protocol
              /\ directory'.robust = directory.robust /\ directory'.lock = directory.lock
            BY <3>5 DEF FittedTypeOK
        <3>7. /\ opened = <<directory.lock.policies>> /\ opened # << >>
              /\ result.policies = directory.lock.policies
            <4>1. At(p, {"locked", "tested"}) /\ ~At(p, {"locked"})
                BY <3>1 DEF At
            <4>2. /\ scripts[p].policies = directory.lock.policies
                  /\ opened = <<directory.lock.policies>>
                BY <4>1 DEF OneTest
            <4> QED
                BY <3>4, <4>2
        <3>8. FittedTypeOK' /\ FittedShape'
            BY <1>1, <3>2, <3>4, <3>5 DEF FittedTypeOK, FittedShape
        <3>9. FrozenFirst'
            BY <1>2, <3>2, <3>6 DEF FrozenFirst, At
        <3>10. OneTest'
            BY <1>2, <3>1, <3>2, <3>6, <3>7 DEF OneTest, At
        <3>11. PublishedIsLocked'
            BY <1>1, <1>2, <2>5, <3>2, <3>6 DEF PublishedIsLocked, At
        <3>12. UneditedIsAlike'
            BY <1>1, <1>2, <3>2, <3>6 DEF UneditedIsAlike, At, Edits, Alike
        <3> QED
            BY <3>8, <3>9, <3>10, <3>11, <3>12
    <2>6. CASE UNCHANGED <<directory, opened>> /\ Run(p, Ready)
        BY <1>2, <2>2, <2>6
    <2> QED
        BY <1>4, <2>3, <2>4, <2>5, <2>6 DEF WriteLock, OpenTestRecords, WriteFinal
<1> QED
    BY <1>3, <1>4

\* The evidence is built from what the lock, the seeds and the results say at one moment.
LEMMA PublishInv ==
    ASSUME FittedInv, NEW p \in Process,
           StartEvidence(p) \/ CopyArtifacts(p) \/ WriteReport(p) \/ Killed(p)
    PROVE  FittedInv'
<1> USE FittedAssumption DEF FittedInv
<1>1. world' = world /\ directory' = directory /\ opened' = opened
    BY DEF StartEvidence, CopyArtifacts, WriteReport, Killed
<1>2. Ready \in ScriptShape /\ Ready.script = "none"
    BY DEF ScriptShape, Ready
<1>3. \E job \in ScriptShape :
        /\ Run(p, job)
        /\ job.script \in {"none", "evidence", "copied"}
        /\ job.script # "none" =>
            /\ directory.final # NoFile /\ directory.final.passed
            /\ job.policies = directory.lock.policies
            /\ job.sources = directory.lock.sources
    <2>1. CASE StartEvidence(p)
        <3>1. directory.seeds \in Policies
            BY <2>1 DEF StartEvidence, Complete, FittedTypeOK, Policies
        <3>2. SourcesNow \in CodeVersions
            BY DEF SourcesNow, CodeVersions, FittedTypeOK, World, Source
        <3>3. [script |-> "evidence", policies |-> directory.seeds, sources |-> SourcesNow]
                \in ScriptShape
            BY <3>1, <3>2 DEF ScriptShape
        <3> QED
            BY <2>1, <3>3 DEF StartEvidence
    <2>2. CASE CopyArtifacts(p)
        <3>1. scripts[p] \in [script : {"evidence", "copied"}, policies : Policies,
                             sources : CodeVersions]
            BY <2>2, ScriptsHaveShapes DEF CopyArtifacts, FittedShape
        <3>2. PICK job : job = [scripts[p] EXCEPT !.script = "copied"]
            OBVIOUS
        <3>3. /\ job \in [script : {"evidence", "copied"}, policies : Policies,
                          sources : CodeVersions]
              /\ job.policies = scripts[p].policies /\ job.sources = scripts[p].sources
              /\ job.script = "copied"
            BY <3>1, <3>2
        <3>4. job \in ScriptShape
            BY <3>3 DEF ScriptShape
        <3>5. Run(p, Ready) \/ Run(p, job)
            BY <2>2, <3>2 DEF CopyArtifacts
        <3>6. At(p, {"evidence", "copied"})
            BY <2>2 DEF CopyArtifacts, At
        <3> QED
            BY <1>2, <3>3, <3>4, <3>5, <3>6 DEF PublishedIsLocked
    <2>3. CASE WriteReport(p) \/ Killed(p)
        BY <1>2, <2>3 DEF WriteReport, Killed
    <2> QED
        BY <2>1, <2>2, <2>3
<1>4. PICK job \in ScriptShape :
        /\ Run(p, job)
        /\ job.script \in {"none", "evidence", "copied"}
        /\ job.script # "none" =>
            /\ directory.final # NoFile /\ directory.final.passed
            /\ job.policies = directory.lock.policies
            /\ job.sources = directory.lock.sources
    BY <1>3
<1>5. /\ scripts' \in [Process -> ScriptShape]
      /\ scripts'[p] = job
      /\ \A q \in Process : q # p => scripts'[q] = scripts[q]
      /\ \A q \in Process : scripts'[q].script \in
                {"none", "candidate", "seed", "validation", "robust", "final",
                 "locked", "tested", "evidence", "copied"}
    BY <1>4, OneScriptMoves
<1>6. /\ published' \in [artifacts : [Seeds -> World \cup {NoFile}] \cup {NoFile},
                         report : [policies : Policies, sources : CodeVersions] \cup {NoFile}]
      /\ published'.report = published.report
         \/ /\ directory.final # NoFile /\ directory.final.passed
            /\ published'.report.policies = directory.lock.policies
            /\ published'.report.sources = directory.lock.sources
    <2>1. CASE UNCHANGED published
        BY <2>1 DEF FittedShape
    <2>2. CASE CopyArtifacts(p)
        BY <2>2 DEF CopyArtifacts, FittedShape, FittedTypeOK
    <2>3. CASE WriteReport(p)
        <3>1. scripts[p] \in [script : {"evidence", "copied"}, policies : Policies,
                             sources : CodeVersions]
            BY <2>3, ScriptsHaveShapes DEF WriteReport, FittedShape
        <3>2. PICK report : report = [policies |-> scripts[p].policies,
                                      sources |-> scripts[p].sources]
            OBVIOUS
        <3>3. /\ report \in [policies : Policies, sources : CodeVersions]
              /\ report.policies = scripts[p].policies /\ report.sources = scripts[p].sources
            BY <3>1, <3>2
        <3>4. published' = [published EXCEPT !.report = report]
            BY <2>3, <3>2 DEF WriteReport
        <3>5. At(p, {"evidence", "copied"})
            BY <2>3 DEF WriteReport, At
        <3> QED
            BY <3>3, <3>4, <3>5 DEF FittedShape, PublishedIsLocked
    <2> QED
        BY <2>1, <2>2, <2>3 DEF StartEvidence, Killed
<1>7. FittedTypeOK' /\ FittedShape'
    BY <1>1, <1>5, <1>6 DEF FittedTypeOK, FittedShape
<1>8. FrozenFirst' /\ OneTest'
    BY <1>1, <1>4, <1>5 DEF FrozenFirst, OneTest, At
<1>9. PublishedIsLocked'
    BY <1>1, <1>4, <1>5, <1>6 DEF PublishedIsLocked, At
<1>10. UneditedIsAlike'
    BY <1>1, <1>4, <1>5 DEF UneditedIsAlike, At, Edits, Alike
<1> QED
    BY <1>7, <1>8, <1>9, <1>10

LEMMA FittedStep == ASSUME FittedInv, FittedNext PROVE FittedInv'
<1>1. Seeds # {}
    BY FittedAssumption
<1>2. ASSUME NEW s \in Source, Edit(s) PROVE FittedInv'
    BY <1>2, EditInv
<1>3. ASSUME NEW p \in Process,
             \/ \E prepareOnly \in BOOLEAN : StartCandidate(p, prepareOnly)
             \/ \E s \in Seeds : CandidateSeed(p, s) \/ StartSeed(p, s)
             \/ EndSeed(p)
      PROVE FittedInv'
    BY <1>1, <1>3, TrainingInv
<1>4. ASSUME NEW p \in Process, NEW passed \in BOOLEAN,
             StartValidation(p) \/ WriteValidation(p) \/ WriteRobust(p, passed)
      PROVE FittedInv'
    BY <1>4, ValidationInv
<1>5. ASSUME NEW p \in Process, NEW passed \in BOOLEAN,
             \/ StartFinal(p) \/ WriteLock(p) \/ OpenTestRecords(p) \/ WriteFinal(p, passed)
      PROVE FittedInv'
    BY <1>5, FinalInv
<1>6. ASSUME NEW p \in Process,
             StartEvidence(p) \/ CopyArtifacts(p) \/ WriteReport(p) \/ Killed(p)
      PROVE FittedInv'
    BY <1>6, PublishInv
<1> QED
    BY <1>2, <1>3, <1>4, <1>5, <1>6 DEF FittedNext

\* The inductive invariant of the scripts of a fitted candidate.
THEOREM FittedInvariance == FittedSpec => []FittedInv
<1>1. FittedInit => FittedInv
    BY FittedInitInv
<1>2. FittedInv /\ [FittedNext]_fittedVars => FittedInv'
    <2>1. CASE FittedNext
        BY <2>1, FittedStep
    <2>2. CASE UNCHANGED fittedVars
        BY <2>2 DEF fittedVars, FittedInv, FittedTypeOK, FittedShape, FrozenFirst, OneTest,
                    PublishedIsLocked, UneditedIsAlike, At, Edits, Alike
    <2> QED
        BY <2>1, <2>2
<1> QED
    BY <1>1, <1>2, PTL DEF FittedSpec

\* However many processes run the scripts, in any order, whichever die and whatever is
\* edited: the test records are read once, for policies that were locked after they passed
\* the validation, and only what was locked and passed the test is published
\* (finalizeCoreFittedCandidate.ts, buildCoreFittedEvidence.ts).
THEOREM CandidateStaysSealed == FittedSpec => []CandidateIsSealed
<1>1. FittedInv => CandidateIsSealed
    <2> SUFFICES ASSUME FittedInv PROVE CandidateIsSealed
        OBVIOUS
    <2> USE DEF FittedInv
    <2>1. opened = << >> \/ (opened = <<directory.lock.policies>> /\ directory.lock # NoFile)
        BY DEF OneTest
    <2>2. opened # << >> => Len(opened) = 1 /\ opened[1] = directory.lock.policies
        BY <2>1
    <2> HIDE DEF FittedInv
    <2>3. TestedOnce
        <3>1. Len(opened) <= 1
            <4>1. CASE opened = << >>
                <5>1. Len(<< >>) = 0
                    OBVIOUS
                <5> QED
                    BY <4>1, <5>1
            <4>2. CASE opened # << >>
                <5>1. Len(opened) = 1
                    BY <2>2, <4>2
                <5> QED
                    BY <5>1
            <4> QED
                BY <4>1, <4>2
        <3>2. FrozenFirst
            BY DEF FittedInv
        <3>3. opened # << >> =>
                /\ directory.lock # NoFile /\ directory.lock.policies = opened[1]
                /\ directory.robust # NoFile /\ directory.robust.passed
                /\ Converged(opened[1])
            BY <2>1, <2>2, <3>2 DEF FrozenFirst
        <3> QED
            BY <3>1, <3>3 DEF TestedOnce
    <2> USE DEF FittedInv
    <2>4. ReportIsOfTheLocked
        BY <2>1 DEF ReportIsOfTheLocked, PublishedIsLocked, OneTest
    <2>5. ValidatedIsTested
        BY <2>1 DEF ValidatedIsTested, UneditedIsAlike, FrozenFirst
    <2> QED
        BY <2>3, <2>4, <2>5 DEF CandidateIsSealed
<1> QED
    BY <1>1, FittedInvariance, PTL

\* The evidence of both kinds of learner, for every number of seeds, attempts, processes
\* and edits of the sources.
THEOREM EvidenceStaysEarned == ChampionSpec /\ FittedSpec => []EvidenceIsEarned
<1>1. ChampionIsEarned /\ CandidateIsSealed => EvidenceIsEarned
    BY DEF EvidenceIsEarned
<1> QED
    BY <1>1, ChampionStaysEarned, CandidateStaysSealed, PTL

----------------------------------------------------------------------------
(* The flows of the port.  A tick starts from the state it is run on, and  *)
(* the state after it is the tick's, so that the ticks kept stay linked;   *)
(* the counterfactual is run on the same state as the plan and leaves      *)
(* nothing behind.                                                         *)

TickRecord ==
    [seq : Int, before : Int, arrivals : Int, diverted : Int, serviced : Int, relief : Int,
     queue : Nat, teu : Nat, total : Nat, yardBefore : Int, yard : YardFloor .. YardCapacity,
     kW : Int, soc : SocFloor .. SocCeiling]

Slots == {{}} \cup {{c} : c \in ControlEnvelope}
FlowState ==
    [seq : 0 .. LastTick, queue : Nat, yard : YardFloor .. YardCapacity, soc : SocFloor .. SocCeiling, total : Nat,
     control : Slots]

FlowShape ==
    /\ port \in FlowState
    /\ recent \in Seq(TickRecord)
    /\ mode \in [running : BOOLEAN, scenario : Conditions]

FlowInv == FlowTypeOK /\ FlowShape /\ HistoryIsOne /\ PairIsFair

\* The tick u comes right after t; a tick t leaves the state p.
Follows(t, u) ==
    /\ u.seq = t.seq + 1 /\ u.before = t.queue /\ u.yardBefore = t.yard
    /\ u.total = t.total + u.teu
Leaves(t, p) ==
    /\ t.seq = p.seq /\ t.queue = p.queue /\ t.yard = p.yard /\ t.soc = p.soc
    /\ t.total = p.total

----------------------------------------------------------------------------
LEMMA PartIsInt ==
    ASSUME NEW n \in Int, NEW factor \in Int, NEW unit \in Nat \ {0}
    PROVE  Part(n, factor, unit) \in Int
<1>1. PICK m \in Int : m = n * factor
    OBVIOUS
<1>2. m \div unit \in Int
    OBVIOUS
<1> QED
    BY <1>1, <1>2 DEF Part

LEMMA PartIsNat ==
    ASSUME NEW n \in Nat, NEW factor \in Nat, NEW unit \in Nat \ {0}
    PROVE  Part(n, factor, unit) \in Nat
<1>1. PICK m \in Nat : m = n * factor
    OBVIOUS
<1>2. m \div unit \in Nat
    OBVIOUS
<1> QED
    BY <1>1, <1>2 DEF Part

\* The bounds of the yard and of the battery.
LEMMA Bounds ==
    /\ YardFloor \in Nat /\ YardCapacity \in Nat /\ YardFloor <= YardCapacity
    /\ YardTarget \in YardFloor .. YardCapacity /\ YardSaturated \in Nat
    /\ SocFloor \in Nat /\ SocCeiling \in Nat /\ SocFloor <= SocCeiling
    /\ 58 * 100 \in SocFloor .. SocCeiling /\ PowerLimit \in Nat
BY DEF YardFloor, YardCapacity, YardTarget, YardSaturated, SocFloor, SocCeiling, PowerLimit

LEMMA WithinIs ==
    ASSUME NEW low \in Int, NEW high \in Int, NEW n \in Int, low <= high
    PROVE  Within(low, n, high) \in low .. high
BY DEF Within, Upper, Lower

\* The control in force, with what holds of one that is not there.
ControlRecord ==
    [left : Nat, relief : Nat, capacity : Nat, diversion : Nat, yardOut : Nat, bonus : Nat,
     battery : Int]

LEMMA CurrentIs == ASSUME NEW slot \in Slots PROVE Current(slot) \in ControlRecord
<1>1. Neutral \in ControlRecord
    BY DEF Neutral, ControlRecord
<1>2. ASSUME NEW c \in ControlEnvelope PROVE c \in ControlRecord
    <2>1. /\ \A n \in 1 .. 12 : n \in Nat
          /\ \A n \in 0 .. 80 : n \in Nat
          /\ \A n \in 970 .. 1090 : n \in Nat
          /\ \A n \in 0 .. 10 : n \in Nat
          /\ \A n \in 0 .. 2 : n \in Nat
        OBVIOUS
    <2>2. /\ \A n \in 1000 .. 1400 : n \in Nat
          /\ \A n \in 0 .. 1500 : n \in Int
        OBVIOUS
    <2>3. c.left \in Nat /\ c.relief \in Nat /\ c.capacity \in Nat /\ c.diversion \in Nat
        BY <2>1 DEF ControlEnvelope
    <2>4. c.yardOut \in Nat /\ c.bonus \in Nat /\ c.battery \in Int
        BY <2>1, <2>2 DEF ControlEnvelope
    <2>5. c = [left |-> c.left, relief |-> c.relief, capacity |-> c.capacity,
               diversion |-> c.diversion, yardOut |-> c.yardOut, bonus |-> c.bonus,
               battery |-> c.battery]
        BY DEF ControlEnvelope
    <2> QED
        BY <2>3, <2>4, <2>5 DEF ControlRecord
<1>3. ASSUME NEW c \in ControlEnvelope PROVE Current({c}) = c
    BY DEF Current
<1> QED
    BY <1>1, <1>2, <1>3 DEF Slots, Current

LEMMA AgedIs == ASSUME NEW slot \in Slots PROVE AgedOnce(slot) \in Slots
<1>1. CASE slot = {}
    BY <1>1 DEF AgedOnce, Slots
<1>2. ASSUME NEW c \in ControlEnvelope, slot = {c} PROVE AgedOnce(slot) \in Slots
    <2>1. CASE c.left > 1
        <3>1. PICK d : d = [c EXCEPT !.left = @ - 1]
            OBVIOUS
        <3>2. d \in ControlEnvelope
            BY <2>1, <3>1 DEF ControlEnvelope
        <3>3. AgedOnce(slot) = {d}
            BY <1>2, <2>1, <3>1 DEF AgedOnce
        <3> QED
            BY <3>2, <3>3 DEF Slots
    <2>2. CASE ~ (c.left > 1)
        BY <1>2, <2>2 DEF AgedOnce, Slots
    <2> QED
        BY <2>1, <2>2
<1> QED
    BY <1>1, <1>2 DEF Slots

\* Arrivals follow from the row and the scenario alone.
LEMMA ArrivalsIs == ASSUME NEW row \in SeaRow, NEW s PROVE ArrivalsOf(row, s) \in Nat
<1>1. row.arrivals \in Nat
    BY DEF SeaRow
<1>2. PICK m \in {100, 118, 155} : ArrivalsOf(row, s) = (row.arrivals * m + 50) \div 100
    <2>1. CASE s = "peak-arrivals"
        BY <2>1 DEF ArrivalsOf
    <2>2. CASE s = "channel-congestion"
        BY <2>2 DEF ArrivalsOf
    <2>3. CASE s \notin {"peak-arrivals", "channel-congestion"}
        BY <2>3 DEF ArrivalsOf
    <2> QED
        BY <2>1, <2>2, <2>3
<1>3. row.arrivals * m + 50 \in Nat
    BY <1>1
<1>4. \A n \in Nat : n \div 100 \in Nat
    OBVIOUS
<1> QED
    BY <1>2, <1>3, <1>4

LEMMA WeatherIs == ASSUME NEW row \in SeaRow, NEW s PROVE WeatherOf(row, s) \in Nat
<1>1. row.weather \in Nat /\ row.storm \in Nat
    BY DEF SeaRow
<1>2. CASE s = "channel-closure"
    BY <1>2 DEF WeatherOf
<1>3. CASE s = "extreme-weather"
    BY <1>1, <1>3 DEF WeatherOf
<1>4. CASE s \notin {"channel-closure", "extreme-weather"}
    BY <1>1, <1>4 DEF WeatherOf
<1> QED
    BY <1>2, <1>3, <1>4

LEMMA CapacityIs ==
    ASSUME NEW p, p.yard \in Int, NEW row \in SeaRow, NEW s, NEW c \in ControlRecord
    PROVE  CapacityOf(p, row, s, c) \in Nat
<1>1. Cranes(row, s, c) \in Nat
    BY DEF Cranes, Upper, SeaRow, ControlRecord
<1>2. YardBefore(p, s) \in Int
    BY Bounds DEF YardBefore, Upper
<1>3. PICK yardFactor \in {66, 82, 100} :
        yardFactor = IF 100 * YardBefore(p, s) > 92 * YardCapacity THEN 66
                     ELSE IF 100 * YardBefore(p, s) > 85 * YardCapacity THEN 82 ELSE 100
    BY <1>2
<1>4. PICK full : full = 52 * 100 * Cranes(row, s, c)
    OBVIOUS
<1>5. full \in Nat
    BY <1>1, <1>4
<1>6. PICK calm : calm = Part(full, yardFactor, 100)
    OBVIOUS
<1>7. calm \in Nat
    <2>1. yardFactor \in Nat
        OBVIOUS
    <2> QED
        BY <1>5, <1>6, <2>1, PartIsNat
<1>8. PICK weathered : weathered = Part(calm, WeatherOf(row, s), 100)
    OBVIOUS
<1>9. weathered \in Nat
    BY <1>7, <1>8, PartIsNat, WeatherIs
<1>10. PICK tidal : tidal = Part(weathered, row.tide, 100)
    OBVIOUS
<1>11. tidal \in Nat
    <2>1. PICK tide \in Nat : tide = row.tide
        BY DEF SeaRow
    <2>2. Part(weathered, tide, 100) \in Nat
        BY <1>9, PartIsNat
    <2> QED
        BY <1>10, <2>1, <2>2
<1>12. PICK steered : steered = Part(tidal, c.capacity, 1000)
    OBVIOUS
<1>13. steered \in Nat
    <2>1. PICK share \in Nat : share = c.capacity
        BY DEF ControlRecord
    <2>2. Part(tidal, share, 1000) \in Nat
        BY <1>11, PartIsNat
    <2> QED
        BY <1>12, <2>1, <2>2
<1>14. CapacityOf(p, row, s, c) = (steered + 50) \div 100
    BY <1>3, <1>4, <1>6, <1>8, <1>10, <1>12 DEF CapacityOf
<1> QED
    BY <1>13, <1>14

\* What a tick makes of a state: it starts from it, and its quantities stay in their ranges.
LEMMA TickIs ==
    ASSUME NEW p, p.seq + 1 \in 0 .. LastTick, p.seq \in Int, p.queue \in Nat, p.yard \in Int,
           p.soc \in Int, p.total \in Nat, p.control \in Slots, NEW s
    PROVE  /\ Tick(p, s) \in TickRecord
           /\ Tick(p, s).seq = p.seq + 1 /\ Tick(p, s).before = p.queue
           /\ Tick(p, s).yardBefore = p.yard
           /\ Tick(p, s).total = p.total + Tick(p, s).teu
           /\ Tick(p, s).arrivals = ArrivalsOf(Sea[p.seq + 1], s)
<1>1. PICK row \in SeaRow : row = Sea[p.seq + 1]
    BY FlowAssumption
<1>2. PICK c \in ControlRecord : c = Current(p.control)
    BY CurrentIs
<1>3. PICK arrivals \in Nat : arrivals = ArrivalsOf(row, s)
    BY ArrivalsIs
<1>4. /\ c.relief \in Nat /\ c.diversion \in Nat /\ c.yardOut \in Nat /\ c.battery \in Int
      /\ row.outflow \in Nat /\ row.peak \in BOOLEAN
    BY DEF ControlRecord, SeaRow
<1>5. PICK diverted : diverted = Lower(arrivals, (arrivals * c.diversion + 500) \div 1000)
    OBVIOUS
<1>6. diverted \in Int /\ diverted <= arrivals
    <2>1. arrivals * c.diversion \in Int
        BY <1>4
    <2>2. (arrivals * c.diversion + 500) \div 1000 \in Int
        BY <2>1
    <2> QED
        BY <1>5, <2>2 DEF Lower
<1>7. PICK demand : demand = p.queue + 100 * (arrivals - diverted)
    OBVIOUS
<1>8. demand \in Nat
    BY <1>6, <1>7
<1>9. PICK capacity \in Nat : capacity = CapacityOf(p, row, s, c)
    BY CapacityIs
<1>10. PICK serviced : serviced = Lower(demand, 100 * (capacity \div 100))
    OBVIOUS
<1>11. serviced \in Nat
    BY <1>8, <1>9, <1>10 DEF Lower
<1>12. PICK teu : teu = Part(serviced, 680, 100)
    OBVIOUS
<1>13. teu \in Nat
    BY <1>11, <1>12, PartIsNat
<1>14. PICK before : before = YardBefore(p, s)
    OBVIOUS
<1>15. before \in Int
    BY <1>14, Bounds DEF YardBefore, Upper
<1>16. PICK outflow : outflow = Part(row.outflow, c.yardOut, 1000)
                                + Upper(0, before - YardTarget) \div 40
    OBVIOUS
<1>17. outflow \in Int
    <2>1. Part(row.outflow, c.yardOut, 1000) \in Int
        <3>1. PICK out \in Int : out = row.outflow
            BY <1>4
        <3>2. PICK share \in Int : share = c.yardOut
            BY <1>4
        <3>3. Part(out, share, 1000) \in Int
            BY PartIsInt
        <3> QED
            BY <3>1, <3>2, <3>3
    <2>2. Upper(0, before - YardTarget) \div 40 \in Int
        BY <1>15, Bounds DEF Upper
    <2> QED
        BY <1>16, <2>1, <2>2
<1>18. PICK kW : kW = BatteryPower(p, row, c)
    OBVIOUS
<1>19. kW \in Int
    BY <1>4, <1>18 DEF BatteryPower, Within, Upper, Lower
<1>20. Charge(kW) \in Int
    <2>1. Part(kW, 1000, 48 * 94) \in Int /\ Part(0 - kW, 92, 480) \in Int
        <3>1. PICK back \in Int : back = 0 - kW
            BY <1>19
        <3>2. PICK unit \in Nat \ {0} : unit = 48 * 94
            OBVIOUS
        <3>3. Part(kW, 1000, unit) \in Int
            BY <1>19, PartIsInt
        <3>4. Part(back, 92, 480) \in Int
            BY PartIsInt
        <3> QED
            BY <3>1, <3>2, <3>3, <3>4
    <2> QED
        BY <2>1 DEF Charge
<1>21. PICK queue : queue = Upper(0, demand - serviced - c.relief)
    OBVIOUS
<1>22. queue \in Nat
    BY <1>4, <1>8, <1>11, <1>21 DEF Upper
<1>23. PICK yard : yard = Within(YardFloor, before + Part(teu, 18, 100) - outflow, YardCapacity)
    OBVIOUS
<1>24. yard \in YardFloor .. YardCapacity
    <2>1. Part(teu, 18, 100) \in Int
        BY <1>13, PartIsInt
    <2>2. before + Part(teu, 18, 100) - outflow \in Int
        BY <1>15, <1>17, <2>1
    <2> QED
        BY <1>23, <2>2, Bounds, WithinIs
<1>25. PICK soc : soc = Within(SocFloor, p.soc + Charge(kW), SocCeiling)
    OBVIOUS
<1>26. soc \in SocFloor .. SocCeiling
    <2>1. p.soc + Charge(kW) \in Int
        BY <1>20
    <2> QED
        <3>1. SocFloor \in Int /\ SocCeiling \in Int /\ SocFloor <= SocCeiling
            BY Bounds
        <3> QED
            BY <1>25, <2>1, <3>1, WithinIs
<1>27. Tick(p, s) =
        [seq |-> p.seq + 1, before |-> p.queue, arrivals |-> arrivals, diverted |-> diverted,
         serviced |-> serviced, relief |-> c.relief, queue |-> queue, teu |-> teu,
         total |-> p.total + teu, yardBefore |-> p.yard, yard |-> yard, kW |-> kW, soc |-> soc]
    BY <1>1, <1>2, <1>3, <1>5, <1>7, <1>9, <1>10, <1>12, <1>14, <1>16, <1>18, <1>21, <1>23,
       <1>25 DEF Tick
<1>28. /\ Tick(p, s).seq = p.seq + 1 /\ Tick(p, s).before = p.queue
       /\ Tick(p, s).yardBefore = p.yard /\ Tick(p, s).teu = teu
       /\ Tick(p, s).total = p.total + teu /\ Tick(p, s).arrivals = arrivals
    BY <1>27
<1>29. p.total + teu \in Nat
    BY <1>13
<1>30. Tick(p, s) \in TickRecord
    BY <1>4, <1>6, <1>11, <1>13, <1>19, <1>22, <1>24, <1>26, <1>27, <1>29 DEF TickRecord
<1> QED
    BY <1>1, <1>3, <1>28, <1>30

\* The state a tick leaves is the tick's.
LEMMA SteppedIs ==
    ASSUME NEW p, p.control \in Slots, NEW t \in TickRecord, t.seq \in 0 .. LastTick
    PROVE  Stepped(p, t) \in FlowState /\ Leaves(t, Stepped(p, t))
<1>1. PICK slot \in Slots : slot = AgedOnce(p.control)
    BY AgedIs
<1>2. /\ t.queue \in Nat /\ t.yard \in YardFloor .. YardCapacity /\ t.soc \in SocFloor .. SocCeiling
      /\ t.total \in Nat
    BY DEF TickRecord
<1>3. Stepped(p, t) = [seq |-> t.seq, queue |-> t.queue, yard |-> t.yard, soc |-> t.soc,
                       total |-> t.total, control |-> slot]
    BY <1>1 DEF Stepped
<1> QED
    BY <1>1, <1>2, <1>3 DEF FlowState, Leaves

\* A tick more, and the oldest one dropped: the ticks that stay are still linked.
LEMMA KeptIs ==
    ASSUME NEW ticks \in Seq(TickRecord), Len(ticks) \in 1 .. KeptTicks,
           \A i \in 1 .. Len(ticks) - 1 : Follows(ticks[i], ticks[i + 1]),
           NEW t \in TickRecord, Follows(ticks[Len(ticks)], t)
    PROVE  /\ Kept(ticks, t) \in Seq(TickRecord)
           /\ Len(Kept(ticks, t)) \in 1 .. KeptTicks
           /\ \A i \in 1 .. Len(Kept(ticks, t)) - 1 :
                 Follows(Kept(ticks, t)[i], Kept(ticks, t)[i + 1])
           /\ Kept(ticks, t)[Len(Kept(ticks, t))] = t
<1>1. PICK n \in Nat : n = Len(ticks)
    OBVIOUS
<1>2. PICK all : all = Append(ticks, t)
    OBVIOUS
<1>3. /\ all \in Seq(TickRecord) /\ Len(all) = n + 1
      /\ \A i \in 1 .. n : all[i] = ticks[i]
      /\ all[n + 1] = t
    BY <1>1, <1>2
<1>4. n \in 1 .. KeptTicks /\ KeptTicks \in Nat
    BY <1>1, FlowAssumption
<1>5. ASSUME NEW i \in 1 .. n PROVE Follows(all[i], all[i + 1])
    <2>1. CASE i = n
        BY <1>1, <1>3, <1>4, <2>1
    <2>2. CASE i # n
        <3>1. i \in 1 .. n - 1 /\ i + 1 \in 1 .. n
            BY <1>4, <2>2
        <3> QED
            BY <1>1, <1>3, <3>1
    <2> QED
        BY <2>1, <2>2
<1>6. CASE n + 1 > KeptTicks
    <2>1. PICK rest : rest = Tail(all)
        OBVIOUS
    <2>2. /\ rest \in Seq(TickRecord) /\ Len(rest) = n
          /\ \A i \in 1 .. n : rest[i] = all[i + 1]
        BY <1>3, <1>4, <2>1
    <2>3. Kept(ticks, t) = rest
        BY <1>2, <1>3, <1>6, <2>1 DEF Kept
    <2>4. ASSUME NEW i \in 1 .. n - 1 PROVE Follows(rest[i], rest[i + 1])
        <3>1. i \in 1 .. n /\ i + 1 \in 1 .. n
            BY <1>4
        <3>2. rest[i] = all[i + 1] /\ rest[i + 1] = all[i + 1 + 1]
            BY <2>2, <3>1
        <3> QED
            BY <1>5, <3>1, <3>2
    <2>5. rest[n] = t
        BY <1>3, <1>4, <2>2
    <2> QED
        BY <1>4, <2>2, <2>3, <2>4, <2>5
<1>7. CASE ~ (n + 1 > KeptTicks)
    <2>1. Kept(ticks, t) = all
        BY <1>2, <1>3, <1>7 DEF Kept
    <2>2. n + 1 \in 1 .. KeptTicks /\ n + 1 - 1 = n
        BY <1>4, <1>7
    <2> QED
        BY <1>3, <1>5, <2>1, <2>2
<1> QED
    BY <1>6, <1>7

\* Fair pairs.
FairTicks(b, c) ==
    b.seq = c.seq /\ b.before = c.before /\ b.arrivals = c.arrivals
    /\ b.yardBefore = c.yardBefore

\* A tick of the state, whatever control is in its slot, keeps the invariant.
LEMMA TickInv ==
    ASSUME FlowInv, NEW p, p \in FlowState, p.seq = port.seq, p.queue = port.queue,
           p.yard = port.yard, p.soc = port.soc, p.total = port.total, port.seq < LastTick,
           NEW t, t = Tick(p, mode.scenario),
           port' = Stepped(p, t), recent' = Kept(recent, t), UNCHANGED mode, PairIsFair'
    PROVE  FlowInv'
<1> USE DEF FlowInv
<1>1. /\ p.seq \in 0 .. LastTick /\ p.queue \in Nat /\ p.yard \in YardFloor .. YardCapacity
      /\ p.soc \in SocFloor .. SocCeiling /\ p.total \in Nat /\ p.control \in Slots
    BY DEF FlowState
<1>2. p.seq + 1 \in 0 .. LastTick
    BY <1>1, FlowAssumption
<1>3. /\ t \in TickRecord /\ t.seq = p.seq + 1 /\ t.before = p.queue
      /\ t.yardBefore = p.yard /\ t.total = p.total + t.teu
    <2>1. p.seq \in Int /\ p.yard \in Int /\ p.soc \in Int
        BY <1>1
    <2> QED
        BY <1>1, <1>2, <2>1, TickIs
<1>4. port' \in FlowState /\ Leaves(t, port')
    BY <1>1, <1>2, <1>3, SteppedIs
<1>5. /\ recent \in Seq(TickRecord) /\ Len(recent) \in 1 .. KeptTicks
      /\ \A i \in 1 .. Len(recent) - 1 : Follows(recent[i], recent[i + 1])
      /\ Leaves(recent[Len(recent)], port)
    BY DEF FlowShape, FlowTypeOK, HistoryIsOne, Follows, Leaves, Last
<1>6. Follows(recent[Len(recent)], t)
    BY <1>3, <1>5 DEF Follows, Leaves
<1>7. /\ recent' \in Seq(TickRecord) /\ Len(recent') \in 1 .. KeptTicks
      /\ \A i \in 1 .. Len(recent') - 1 : Follows(recent'[i], recent'[i + 1])
      /\ recent'[Len(recent')] = t
    BY <1>3, <1>5, <1>6, KeptIs
<1>8. FlowShape'
    BY <1>4, <1>7 DEF FlowShape
<1>9. FlowTypeOK'
    <2>1. /\ port'.seq \in 0 .. LastTick /\ port'.queue \in Nat /\ port'.total \in Nat
          /\ port'.yard \in YardFloor .. YardCapacity /\ port'.soc \in SocFloor .. SocCeiling
          /\ port'.control \in Slots
        BY <1>4 DEF FlowState
    <2>2. \A c \in port'.control : c.left \in 1 .. 12
        BY <2>1 DEF Slots, ControlEnvelope
    <2> QED
        BY <1>7, <2>1, <2>2 DEF FlowTypeOK
<1>10. HistoryIsOne'
    BY <1>4, <1>7 DEF HistoryIsOne, Follows, Leaves, Last
<1> QED
    BY <1>8, <1>9, <1>10

LEMMA SlotIsReplaced ==
    ASSUME NEW p \in FlowState, NEW c \in Effects, NEW q, q = [p EXCEPT !.control = {c}]
    PROVE  /\ q \in FlowState
           /\ q.seq = p.seq /\ q.queue = p.queue /\ q.yard = p.yard /\ q.soc = p.soc
           /\ q.total = p.total /\ q.control = {c}
<1>1. {c} \in Slots
    BY FlowAssumption DEF Slots
<1> QED
    BY <1>1 DEF FlowState

LEMMA FlowInitInv == FlowInit => FlowInv
<1> SUFFICES ASSUME FlowInit PROVE FlowInv
    OBVIOUS
<1>1. PICK idle : idle = [seq |-> -1, queue |-> 18 * 100, yard |-> YardTarget, soc |-> 58 * 100,
                          total |-> 0, control |-> {}]
    OBVIOUS
<1>2. PICK t : t = Tick(idle, "normal")
    OBVIOUS
<1>3. /\ port = Stepped(idle, t) /\ recent = <<t>> /\ pair = {}
      /\ mode = [running |-> TRUE, scenario |-> "normal"]
    BY <1>1, <1>2 DEF FlowInit
<1>4. /\ idle.seq = -1 /\ idle.queue = 18 * 100 /\ idle.yard = YardTarget /\ idle.soc = 58 * 100
      /\ idle.total = 0 /\ idle.control = {}
    BY <1>1
<1>5. idle.control \in Slots
    BY <1>4 DEF Slots
<1>6. idle.seq + 1 \in 0 .. LastTick /\ idle.seq + 1 = 0
    BY <1>4, FlowAssumption
<1>7. t \in TickRecord /\ t.seq = 0
    <2>1. /\ idle.seq \in Int /\ idle.queue \in Nat /\ idle.yard \in Int /\ idle.soc \in Int
          /\ idle.total \in Nat
        BY <1>4, Bounds
    <2> QED
        BY <1>2, <1>5, <1>6, <2>1, TickIs
<1>8. port \in FlowState /\ Leaves(t, port)
    <2>1. t.seq \in 0 .. LastTick
        BY <1>7, FlowAssumption
    <2> QED
        BY <1>3, <1>5, <1>7, <2>1, SteppedIs
<1>9. recent \in Seq(TickRecord) /\ Len(recent) = 1 /\ recent[1] = t
    BY <1>3, <1>7
<1>10. FlowShape
    BY <1>3, <1>8, <1>9, FlowAssumption DEF FlowShape
<1>11. FlowTypeOK
    <2>1. /\ port.seq \in 0 .. LastTick /\ port.queue \in Nat /\ port.total \in Nat
          /\ port.yard \in YardFloor .. YardCapacity /\ port.soc \in SocFloor .. SocCeiling /\ port.control \in Slots
        BY <1>8 DEF FlowState
    <2>2. \A c \in port.control : c.left \in 1 .. 12
        BY <2>1 DEF Slots, ControlEnvelope
    <2>3. 1 \in 1 .. KeptTicks
        BY FlowAssumption
    <2> QED
        BY <1>3, <1>9, <2>1, <2>2, <2>3, FlowAssumption DEF FlowTypeOK
<1>12. HistoryIsOne
    BY <1>8, <1>9 DEF HistoryIsOne, Leaves, Last
<1>13. PairIsFair
    BY <1>3 DEF PairIsFair
<1> QED
    BY <1>10, <1>11, <1>12, <1>13 DEF FlowInv

LEMMA CatchUpInv == ASSUME FlowInv, CatchUp PROVE FlowInv'
<1>1. PairIsFair'
    BY DEF FlowInv, CatchUp, PairIsFair
<1>2. port \in FlowState
    BY DEF FlowInv, FlowShape
<1>3. PICK t : /\ t = Tick(port, mode.scenario)
               /\ port' = Stepped(port, t) /\ recent' = Kept(recent, t)
               /\ port.seq < LastTick /\ UNCHANGED mode
    BY DEF CatchUp
<1> QED
    BY <1>1, <1>2, <1>3, TickInv

LEMMA ApplyActionInv == ASSUME FlowInv, NEW c \in Effects, ApplyAction(c) PROVE FlowInv'
<1>1. PairIsFair' /\ UNCHANGED mode /\ port.seq < LastTick
    BY DEF FlowInv, ApplyAction, PairIsFair
<1>2. port \in FlowState
    BY DEF FlowInv, FlowShape
<1>3. PICK p : /\ p = [port EXCEPT !.control = {c}]
               /\ IF mode.running
                  THEN \E tick \in {Tick(p, mode.scenario)} :
                          port' = Stepped(p, tick) /\ recent' = Kept(recent, tick)
                  ELSE port' = p /\ UNCHANGED recent
    BY DEF ApplyAction
<1>4. /\ p \in FlowState
      /\ p.seq = port.seq /\ p.queue = port.queue /\ p.yard = port.yard /\ p.soc = port.soc
      /\ p.total = port.total /\ p.control = {c}
    BY <1>2, <1>3, SlotIsReplaced
<1>5. CASE mode.running
    <2>1. PICK t : /\ t = Tick(p, mode.scenario)
                   /\ port' = Stepped(p, t) /\ recent' = Kept(recent, t)
        BY <1>3, <1>5
    <2> QED
        BY <1>1, <1>4, <2>1, TickInv
<1>6. CASE ~mode.running
    <2>1. port' = p /\ recent' = recent
        BY <1>3, <1>6
    <2>2. c.left \in 1 .. 12
        BY FlowAssumption DEF ControlEnvelope
    <2>3. FlowTypeOK'
        BY <1>1, <1>4, <2>1, <2>2 DEF FlowInv, FlowTypeOK
    <2>4. FlowShape'
        BY <1>1, <1>4, <2>1 DEF FlowInv, FlowShape
    <2>5. HistoryIsOne'
        BY <1>4, <2>1 DEF FlowInv, HistoryIsOne
    <2> QED
        BY <1>1, <2>3, <2>4, <2>5 DEF FlowInv
<1> QED
    BY <1>5, <1>6

\* Both sides of the pair are ticks of the same state: the baseline has been taken back.
LEMMA ApplyCoreControlInv ==
    ASSUME FlowInv, NEW c \in Effects, ApplyCoreControl(c) PROVE FlowInv'
<1>1. port \in FlowState /\ UNCHANGED mode /\ port.seq < LastTick
    BY DEF FlowInv, FlowShape, ApplyCoreControl
<1>2. PICK b, back, t :
        /\ b = Tick(port, mode.scenario)
        /\ back = Restore([port |-> port, recent |-> recent], Kept(recent, b))
        /\ t = Tick([back.port EXCEPT !.control = {c}], mode.scenario)
        /\ port' = Stepped([back.port EXCEPT !.control = {c}], t)
        /\ recent' = Kept(back.recent, t)
        /\ pair' = {[baseline |-> b, controlled |-> t]}
    BY DEF ApplyCoreControl
<1>3. back.port = port /\ back.recent = recent
    BY <1>2 DEF Restore
<1>4. PICK p : p = [port EXCEPT !.control = {c}]
    OBVIOUS
<1>5. /\ p \in FlowState
      /\ p.seq = port.seq /\ p.queue = port.queue /\ p.yard = port.yard /\ p.soc = port.soc
      /\ p.total = port.total /\ p.control = {c}
    BY <1>1, <1>4, SlotIsReplaced
<1>6. /\ t = Tick(p, mode.scenario) /\ port' = Stepped(p, t) /\ recent' = Kept(recent, t)
    BY <1>2, <1>3, <1>4
<1>7. /\ port.seq \in 0 .. LastTick /\ port.queue \in Nat /\ port.yard \in YardFloor .. YardCapacity
      /\ port.soc \in SocFloor .. SocCeiling /\ port.total \in Nat /\ port.control \in Slots
      /\ p.control \in Slots
    BY <1>1, <1>5 DEF FlowState
<1>8. /\ port.seq + 1 \in 0 .. LastTick /\ port.seq \in Int /\ port.yard \in Int
      /\ port.soc \in Int
    BY <1>1, <1>7, FlowAssumption
<1>9. /\ b.seq = port.seq + 1 /\ b.before = port.queue /\ b.yardBefore = port.yard
      /\ b.arrivals = ArrivalsOf(Sea[port.seq + 1], mode.scenario)
    BY <1>2, <1>7, <1>8, TickIs
<1>10. /\ t.seq = port.seq + 1 /\ t.before = port.queue /\ t.yardBefore = port.yard
       /\ t.arrivals = ArrivalsOf(Sea[port.seq + 1], mode.scenario)
    <2>1. /\ p.seq + 1 \in 0 .. LastTick /\ p.seq \in Int /\ p.queue \in Nat /\ p.yard \in Int
          /\ p.soc \in Int /\ p.total \in Nat
        BY <1>5, <1>7, <1>8
    <2>2. /\ t.seq = p.seq + 1 /\ t.before = p.queue /\ t.yardBefore = p.yard
          /\ t.arrivals = ArrivalsOf(Sea[p.seq + 1], mode.scenario)
        BY <1>6, <1>7, <2>1, TickIs
    <2> QED
        BY <1>5, <2>2
<1>11. PairIsFair'
    <2>1. PICK two : two = [baseline |-> b, controlled |-> t]
        OBVIOUS
    <2>2. two.baseline = b /\ two.controlled = t /\ pair' = {two}
        BY <1>2, <2>1
    <2>3. \A f \in {"seq", "before", "arrivals", "yardBefore"} : b[f] = t[f]
        BY <1>9, <1>10
    <2> QED
        BY <2>2, <2>3 DEF PairIsFair
<1> QED
    BY <1>1, <1>5, <1>6, <1>11, TickInv

LEMMA SwitchInv ==
    ASSUME FlowInv, SwitchRun \/ \E s \in Conditions : SwitchScenario(s)
    PROVE  FlowInv'
<1> USE DEF FlowInv
<1>1. UNCHANGED <<port, recent, pair>>
    BY DEF SwitchRun, SwitchScenario
<1>2. mode' \in [running : BOOLEAN, scenario : Conditions]
    <2>1. mode \in [running : BOOLEAN, scenario : Conditions]
        BY DEF FlowShape
    <2>2. CASE SwitchRun
        BY <2>1, <2>2 DEF SwitchRun
    <2>3. CASE \E s \in Conditions : SwitchScenario(s)
        BY <2>1, <2>3 DEF SwitchScenario
    <2> QED
        BY <2>2, <2>3
<1> QED
    BY <1>1, <1>2 DEF FlowTypeOK, FlowShape, HistoryIsOne, PairIsFair

\* The inductive invariant of the flows.
THEOREM FlowInvariance == FlowSpec => []FlowInv
<1>1. FlowInv /\ [FlowNext]_flowVars => FlowInv'
    <2> SUFFICES ASSUME FlowInv, [FlowNext]_flowVars PROVE FlowInv'
        OBVIOUS
    <2>1. CASE CatchUp
        BY <2>1, CatchUpInv
    <2>2. ASSUME NEW c \in Effects, ApplyAction(c) \/ ApplyCoreControl(c) PROVE FlowInv'
        BY <2>2, ApplyActionInv, ApplyCoreControlInv
    <2>3. CASE SwitchRun \/ \E s \in Conditions : SwitchScenario(s)
        BY <2>3, SwitchInv
    <2>4. CASE UNCHANGED flowVars
        BY <2>4 DEF flowVars, FlowInv, FlowTypeOK, FlowShape, HistoryIsOne, PairIsFair
    <2> QED
        BY <2>1, <2>2, <2>3, <2>4 DEF FlowNext
<1> QED
    BY <1>1, FlowInitInv, PTL DEF FlowSpec

\* For every sea, scenario and control inside the envelope, however many ticks are kept:
\* the ticks kept are one history that ends in the state, the counterfactual leaves nothing
\* in it, and a receipt compares two ticks of one state (operationalSimulator.ts, step and
\* applyCoreControlWithCounterfactual).
THEOREM FlowsStayOneHistory == FlowSpec => []FlowsAreOneHistory
<1>1. FlowInv => FlowsAreOneHistory
    BY DEF FlowInv, FlowsAreOneHistory
<1> QED
    BY <1>1, FlowInvariance, PTL

----------------------------------------------------------------------------
(* The environments of the learners.  Shares of a number, rounded down.    *)

\* p is a share of x, rounded down.
IsShare(p, x, t) == 1000 * p <= x * t /\ x * t < 1000 * p + 1000

LEMMA PerIs ==
    ASSUME NEW x \in Nat, NEW t \in Nat
    PROVE  Per(x, t) \in Nat /\ IsShare(Per(x, t), x, t)
<1>1. PICK y \in Nat : y = x * t
    OBVIOUS
<1>2. y \div 1000 \in Nat /\ 1000 * (y \div 1000) <= y /\ y < 1000 * (y \div 1000) + 1000
    OBVIOUS
<1> QED
    BY <1>1, <1>2 DEF Per, IsShare

LEMMA PerNat == \A x, t \in Nat : Per(x, t) \in Nat
    BY PerIs

LEMMA ProductGrows ==
    ASSUME NEW x \in Nat, NEW y \in Nat, x <= y, NEW t \in Nat
    PROVE  x * t <= y * t /\ t * x <= t * y
<1>1. PICK d \in Nat : y = x + d
    <2>1. y - x \in Nat /\ y = x + (y - x)
        OBVIOUS
    <2> QED
        BY <2>1
<1>2. y * t = x * t + d * t /\ t * y = t * x + t * d /\ d * t \in Nat /\ t * d \in Nat
    BY <1>1
<1> QED
    BY <1>2

LEMMA PerGrows ==
    ASSUME NEW x \in Nat, NEW y \in Nat, x <= y, NEW t \in Nat, NEW u \in Nat, t <= u
    PROVE  Per(x, t) <= Per(y, u)
<1>1. x * t <= y * u
    <2>1. x * t <= y * t /\ y * t <= y * u
        BY ProductGrows
    <2> QED
        BY <2>1
<1>2. PICK p \in Nat : p = Per(x, t) /\ IsShare(p, x, t)
    BY PerIs
<1>3. PICK q \in Nat : q = Per(y, u) /\ IsShare(q, y, u)
    BY PerIs
<1>4. 1000 * p < 1000 * q + 1000
    BY <1>1, <1>2, <1>3 DEF IsShare
<1> QED
    BY <1>2, <1>3, <1>4

LEMMA PerShares ==
    ASSUME NEW x \in Nat, NEW t \in Nat, NEW u \in Nat, t + u <= 1000
    PROVE  Per(x, t) + Per(x, u) <= x
<1>1. x * t + x * u <= x * 1000
    <2>1. x * t + x * u = x * (t + u)
        OBVIOUS
    <2>2. x * (t + u) <= x * 1000
        BY ProductGrows
    <2> QED
        BY <2>1, <2>2
<1>2. PICK p \in Nat : p = Per(x, t) /\ IsShare(p, x, t)
    BY PerIs
<1>3. PICK q \in Nat : q = Per(x, u) /\ IsShare(q, x, u)
    BY PerIs
<1>4. 1000 * p <= x * t /\ 1000 * q <= x * u
    BY <1>2, <1>3 DEF IsShare
<1>5. x * t \in Nat /\ x * u \in Nat
    OBVIOUS
<1> QED
    BY <1>1, <1>2, <1>3, <1>4, <1>5

LEMMA QuotientNat ==
    ASSUME NEW x \in Nat, NEW y \in Nat, y > 0
    PROVE  (x * 1000) \div y \in Nat
<1>1. PICK z \in Nat : z = x * 1000
    OBVIOUS
<1>2. z \div y \in Nat
    OBVIOUS
<1> QED
    BY <1>1, <1>2

LEMMA PerOfThousand ==
    ASSUME NEW x \in Nat, NEW t \in Nat, 1000 <= t
    PROVE  x <= Per(x, t)
<1>1. PICK p \in Nat : p = Per(x, t) /\ IsShare(p, x, t)
    BY PerIs
<1>2. x * 1000 <= x * t
    BY ProductGrows
<1>3. x * 1000 < 1000 * p + 1000
    BY <1>1, <1>2 DEF IsShare
<1> QED
    BY <1>1, <1>3

----------------------------------------------------------------------------
Action == BusinessAction \cup BenchmarkAction

IsEffect(e) ==
    /\ e.capacity \in Nat /\ e.defer \in 0 .. 20 /\ e.divert \in 0 .. 12 /\ e.yard \in Int
    /\ e.gate \in Nat /\ e.fairness \in Nat /\ e.recovery \in Nat

LEMMA EffectsAre ==
    /\ \A e \in BusinessEffects : IsEffect(e)
    /\ \A e \in BenchmarkEffects : IsEffect(e)
<1>1. ASSUME NEW e \in BusinessEffects PROVE IsEffect(e)
    BY DEF BusinessEffects, ActionEffect, IsEffect
<1>2. ASSUME NEW e \in BenchmarkEffects PROVE IsEffect(e)
    BY DEF BenchmarkEffects, ActionEffect, IsEffect
<1> QED
    BY <1>1, <1>2

LEMMA EffectOfIs ==
    /\ \A a \in BusinessAction : IsEffect(EffectOf(BusinessEffects, a))
    /\ \A a \in BenchmarkAction : IsEffect(EffectOf(BenchmarkEffects, a))
<1>1. ASSUME NEW effects, \A e \in effects : IsEffect(e), NEW a \in {e.action : e \in effects}
      PROVE  IsEffect(EffectOf(effects, a))
    <2>1. \E e \in effects : e.action = a
        OBVIOUS
    <2>2. EffectOf(effects, a) \in effects
        BY <2>1 DEF EffectOf
    <2> QED
        BY <1>1, <2>2
<1> QED
    BY <1>1, EffectsAre DEF BusinessAction, BenchmarkAction

LEMMA HoldIsAction == Hold \in BusinessAction /\ Hold \in BenchmarkAction
<1>1. PICK e \in BusinessEffects : e = ActionEffect("hold-plan", 1000, 0, 0, 0, 0, 0, 1000)
    BY DEF BusinessEffects
<1>2. PICK f \in BenchmarkEffects : f = ActionEffect("hold-plan", 1000, 0, 0, 0, 0, 0, 1000)
    BY DEF BenchmarkEffects
<1>3. e.action = Hold /\ f.action = Hold
    BY <1>1, <1>2 DEF ActionEffect, Hold
<1> QED
    BY <1>3 DEF BusinessAction, BenchmarkAction

----------------------------------------------------------------------------
SimulatorState ==
    [queue : Nat, backlog : Nat, recovery : Nat, yard : Nat, gate : Nat, gap : Nat,
     previous : Action]

MovedShape == [arrivals : Nat, served : Nat, diverted : Nat, queue : Nat, backlog : Nat]

\* What comes back of the backlog is at least this share of it.
IsThird(share) == share \in Nat /\ 300 <= share

MovesAll(s, arrivals, m) ==
    /\ m \in MovedShape /\ m.arrivals = arrivals
    /\ s.queue + s.backlog + arrivals = m.served + m.diverted + m.queue + m.backlog
    /\ 10 * m.backlog <= 7 * s.backlog + 9 + 10 * Per(arrivals, 20)

\* What a transition does with the demand neither makes nor loses a vessel, and takes three
\* tenths from the backlog before it adds what is deferred.
LEMMA MovedIs ==
    ASSUME NEW s \in SimulatorState, NEW arrivals \in Nat, NEW capacity \in Nat,
           NEW effect, IsEffect(effect), NEW share, IsThird(share), NEW least \in Nat,
           NEW divertible \in Nat
    PROVE  MovesAll(s, arrivals, Moved(s, arrivals, capacity, effect, share, least, divertible))
<1>1. /\ s.queue \in Nat /\ s.backlog \in Nat /\ effect.defer \in Nat /\ effect.divert \in Nat
      /\ effect.defer <= 20 /\ effect.divert <= 12 /\ 20 \in Nat /\ 300 \in Nat
      /\ share \in Nat /\ 300 <= share
    BY DEF SimulatorState, IsEffect, IsThird
<1>2. PICK part \in Nat : part = Per(s.backlog, share) /\ 3 * s.backlog <= 10 * part + 9
    <2>1. PICK b \in Nat : b = s.backlog
        BY <1>1
    <2>2. PICK p \in Nat : p = Per(b, 300) /\ IsShare(p, b, 300)
        BY <1>1, <2>1, PerIs
    <2>3. PICK q \in Nat : q = Per(b, share) /\ p <= q
        <3>1. PICK t \in Nat : t = 300 /\ t <= share
            BY <1>1
        <3>2. Per(b, t) <= Per(b, share)
            BY <1>1, <3>1, PerGrows
        <3>3. Per(b, share) \in Nat
            BY <1>1, PerNat
        <3> QED
            BY <2>2, <3>1, <3>2, <3>3
    <2>4. 3 * b <= 10 * p + 9
        BY <2>2 DEF IsShare
    <2>5. 3 * b <= 10 * q + 9
        BY <2>3, <2>4
    <2> QED
        BY <2>1, <2>3, <2>5
<1>3. PICK some \in Nat : some = Per(capacity, least)
    BY PerNat
<1>4. PICK back \in Nat : /\ back = Least(s.backlog, Most(part, some))
                          /\ back <= s.backlog
                          /\ back = s.backlog \/ back >= part
    BY <1>1, <1>2, <1>3 DEF Least, Most
<1>5. PICK deferred \in Nat : deferred = Per(arrivals, effect.defer) /\ deferred <= Per(arrivals, 20)
    <2>1. Per(arrivals, effect.defer) <= Per(arrivals, 20)
        BY <1>1, PerGrows
    <2>2. Per(arrivals, effect.defer) \in Nat
        BY <1>1, PerNat
    <2> QED
        BY <2>1, <2>2
<1>6. PICK turned \in Nat : turned = Per(arrivals, effect.divert) /\ deferred + turned <= arrivals
    <2>1. effect.defer + effect.divert <= 1000
        BY <1>1
    <2>2. Per(arrivals, effect.defer) + Per(arrivals, effect.divert) <= arrivals
        BY <1>1, <2>1, PerShares
    <2>3. Per(arrivals, effect.divert) \in Nat
        BY <1>1, PerNat
    <2> QED
        BY <1>5, <2>2, <2>3
<1>7. PICK diverted \in Nat : diverted = Least(turned, divertible) /\ deferred + diverted <= arrivals
    BY <1>5, <1>6 DEF Least
<1>8. PICK waiting \in Nat : /\ waiting = s.queue + Most(0, arrivals - deferred - diverted + back)
                             /\ waiting = s.queue + (arrivals - deferred - diverted + back)
    BY <1>1, <1>4, <1>5, <1>7 DEF Most
<1>9. PICK served \in Nat : served = Least(waiting, capacity) /\ served <= waiting
    BY <1>8 DEF Least
<1>10. PICK backlog \in Nat : /\ backlog = Most(0, s.backlog - back + deferred)
                              /\ backlog = s.backlog - back + deferred
    BY <1>1, <1>4, <1>5 DEF Most
<1>11. PICK m : /\ m = [arrivals |-> arrivals, served |-> served, diverted |-> diverted,
                         queue |-> waiting - served, backlog |-> backlog]
                /\ m = Moved(s, arrivals, capacity, effect, share, least, divertible)
    BY <1>2, <1>3, <1>4, <1>5, <1>6, <1>7, <1>8, <1>9, <1>10 DEF Moved
<1>12. m \in MovedShape
    BY <1>9, <1>11 DEF MovedShape
<1>13. s.queue + s.backlog + arrivals = m.served + m.diverted + m.queue + m.backlog
    BY <1>1, <1>4, <1>5, <1>7, <1>8, <1>9, <1>10, <1>11
<1>14. 10 * backlog <= 7 * s.backlog + 9 + 10 * Per(arrivals, 20)
    <2>1. PICK most \in Nat : most = Per(arrivals, 20)
        BY PerNat
    <2>2. deferred <= most
        BY <1>5, <2>1
    <2>3. 10 * backlog <= 7 * s.backlog + 9 + 10 * most
        BY <1>1, <1>2, <1>4, <1>10, <2>2
    <2> QED
        BY <2>1, <2>3
<1> QED
    BY <1>11, <1>12, <1>13, <1>14 DEF MovesAll

\* What a step of either engine does to the vessels.
Transition(s, arrivals, a, step) ==
    /\ step.now \in SimulatorState /\ step.now.previous = a
    /\ step.moved.served \in Nat /\ step.moved.diverted \in Nat
    /\ s.queue + s.backlog + arrivals
            = step.moved.served + step.moved.diverted + step.now.queue + step.now.backlog
    /\ 10 * step.now.backlog <= 7 * s.backlog + 9 + 10 * Per(arrivals, 20)

LEMMA CapacityUnderIs ==
    ASSUME NEW r \in MonthRecord, NEW effect, IsEffect(effect)
    PROVE  CapacityUnder(r, effect) \in Nat /\ CapacityUnder(r, effect) > 0
<1>1. r.capacity \in Nat /\ r.productivity \in Nat /\ effect.capacity \in Nat
    BY DEF MonthRecord, IsEffect
<1>2. Per(r.productivity, 120) \in Nat
    BY <1>1, PerNat
<1>3. PICK productive \in Nat : productive = Clamp(880 + Per(r.productivity, 120), 880, 1040)
    BY <1>2 DEF Clamp, Least, Most
<1>4. Per(Per(r.capacity, effect.capacity), productive) \in Nat
    BY <1>1, PerNat
<1> QED
    BY <1>3, <1>4 DEF CapacityUnder, Most

LEMMA YardIs ==
    ASSUME NEW s \in SimulatorState, NEW r \in MonthRecord, NEW used \in Nat, NEW effect, IsEffect(effect)
    PROVE  NextYard(s, r, used, effect) \in Nat
<1>1. s.yard \in Nat /\ r.yard \in Nat /\ effect.yard \in Int
    BY DEF SimulatorState, MonthRecord, IsEffect
<1>2. PICK over \in Nat : over = Most(0, used - 840)
    BY DEF Most
<1>3. Per(s.yard, 640) \in Nat
    <2>1. PICK x \in Nat, t \in Nat : x = s.yard /\ t = 640
        BY <1>1
    <2>2. Per(x, t) \in Nat
        BY PerNat, Zenon
    <2> QED
        BY <2>1, <2>2
<1>4. Per(r.yard, 360) \in Nat
    <2>1. PICK x \in Nat, t \in Nat : x = r.yard /\ t = 360
        BY <1>1
    <2>2. Per(x, t) \in Nat
        BY PerNat, Zenon
    <2> QED
        BY <2>1, <2>2
<1>5. Per(over, 50) \in Nat
    BY PerNat
<1> QED
    BY <1>1, <1>2, <1>3, <1>4, <1>5 DEF NextYard, Clamp, Least, Most

LEMMA GateIs ==
    ASSUME NEW s \in SimulatorState, NEW r \in MonthRecord, NEW yard \in Nat, NEW effect, IsEffect(effect)
    PROVE  NextGate(s, r, yard, effect) \in Nat
<1>1. s.gate \in Nat /\ r.gate \in Nat /\ effect.gate \in Nat
    BY DEF SimulatorState, MonthRecord, IsEffect
<1>2. PICK over \in Nat : over = Most(0, yard - 780)
    BY DEF Most
<1>3. Per(s.gate, 550) \in Nat
    <2>1. PICK x \in Nat, t \in Nat : x = s.gate /\ t = 550
        BY <1>1
    <2>2. Per(x, t) \in Nat
        BY PerNat, Zenon
    <2> QED
        BY <2>1, <2>2
<1>4. Per(r.gate, 450) \in Nat
    <2>1. PICK x \in Nat, t \in Nat : x = r.gate /\ t = 450
        BY <1>1
    <2>2. Per(x, t) \in Nat
        BY PerNat, Zenon
    <2> QED
        BY <2>1, <2>2
<1>5. Per(over, 320) \in Nat
    BY PerNat
<1> QED
    BY <1>1, <1>2, <1>3, <1>4, <1>5 DEF NextGate, Clamp, Least, Most

LEMMA RecoveryIs ==
    ASSUME NEW s \in SimulatorState, NEW r \in MonthRecord, NEW m \in MovedShape,
           NEW capacity \in Nat, NEW effect, IsEffect(effect)
    PROVE  NextRecovery(s, r, m, capacity, effect) \in Nat
<1>1. /\ s.recovery \in Nat /\ r.loss \in Nat /\ effect.recovery \in Nat
      /\ m.arrivals \in Nat /\ m.served \in Nat
    BY DEF SimulatorState, MonthRecord, IsEffect, MovedShape
<1>2. PICK idle \in Nat : idle = Most(0, capacity - m.served)
    BY <1>1 DEF Most
<1>3. Per(idle, 120) \in Nat
    BY PerNat
<1>4. Per(capacity, 12) \in Nat
    BY PerNat
<1>5. Per(Per(capacity, 12), effect.recovery) \in Nat
    BY <1>1, <1>4, PerNat
<1>6. Per(m.arrivals, r.loss) \in Nat
    BY <1>1, PerNat
<1>7. Per(Per(m.arrivals, r.loss), 70) \in Nat
    BY <1>6, PerNat
<1> QED
    BY <1>1, <1>2, <1>3, <1>5, <1>7 DEF NextRecovery, Least, Most

LEMMA BusinessStepIs ==
    ASSUME NEW s \in SimulatorState, NEW a \in BusinessAction, NEW r \in MonthRecord,
           NEW arrivals \in Nat
    PROVE  Transition(s, arrivals, a, BusinessStep(s, a, r, arrivals))
<1>1. PICK effect : effect = EffectOf(BusinessEffects, a) /\ IsEffect(effect)
    BY EffectOfIs
<1>2. PICK capacity \in Nat : capacity = CapacityUnder(r, effect) /\ capacity > 0
    BY <1>1, CapacityUnderIs
<1>3. PICK divertible \in Nat : divertible = Per(r.transfer, 80)
    <2>1. r.transfer \in Nat
        BY DEF MonthRecord
    <2> QED
        BY <2>1, PerNat
<1>4. PICK m : m = Moved(s, arrivals, capacity, effect, 300, 18, divertible)
    OBVIOUS
<1>5. MovesAll(s, arrivals, m)
    <2>1. PICK share, least \in Nat : share = 300 /\ least = 18
        OBVIOUS
    <2>2. IsThird(share)
        BY <2>1 DEF IsThird
    <2>3. MovesAll(s, arrivals, Moved(s, arrivals, capacity, effect, share, least, divertible))
        BY <1>1, <2>2, MovedIs, Zenon
    <2> QED
        BY <1>4, <2>1, <2>3
<1>6. m \in MovedShape /\ m.queue \in Nat /\ m.backlog \in Nat /\ m.served \in Nat /\ m.diverted \in Nat
    BY <1>5 DEF MovesAll, MovedShape
<1>7. PICK load \in Nat : load = ((m.queue + m.backlog) * 1000) \div capacity
    BY <1>2, <1>6, QuotientNat
<1>8. PICK used \in Nat : used = (m.served * 1000) \div capacity
    BY <1>2, <1>6, QuotientNat
<1>9. PICK yard \in Nat : yard = NextYard(s, r, used, effect)
    BY <1>1, YardIs
<1>10. PICK gate \in Nat : gate = NextGate(s, r, yard, effect)
    BY <1>1, GateIs
<1>11. PICK recovery \in Nat : recovery = NextRecovery(s, r, m, capacity, effect)
    BY <1>1, <1>6, RecoveryIs
<1>12. PICK gap \in Nat : gap = Clamp(r.skew + Per(load, 90) - effect.fairness, 0, 1000)
    <2>1. Per(load, 90) \in Nat
        BY PerNat
    <2>2. r.skew \in Nat /\ effect.fairness \in Nat
        BY <1>1 DEF MonthRecord, IsEffect
    <2> QED
        BY <2>1, <2>2 DEF Clamp, Least, Most
<1>13. PICK next : next = [queue |-> m.queue, backlog |-> m.backlog, recovery |-> recovery,
                           yard |-> yard, gate |-> gate, gap |-> gap, previous |-> a]
    OBVIOUS
<1>14. BusinessStep(s, a, r, arrivals) = [moved |-> m, now |-> next]
    BY <1>1, <1>2, <1>3, <1>4, <1>7, <1>8, <1>9, <1>10, <1>11, <1>12, <1>13 DEF BusinessStep
<1>15. next \in SimulatorState
    BY <1>6, <1>13 DEF SimulatorState, Action
<1> QED
    BY <1>5, <1>6, <1>13, <1>14, <1>15 DEF Transition, MovesAll

LEMMA BenchmarkStepIs ==
    ASSUME NEW s \in SimulatorState, NEW a \in BenchmarkAction, NEW r \in MonthRecord,
           NEW arrivals \in Nat
    PROVE  Transition(s, arrivals, a, BenchmarkStep(s, a, r, arrivals))
<1>1. PICK effect : effect = EffectOf(BenchmarkEffects, a) /\ IsEffect(effect)
    BY EffectOfIs
<1>2. PICK capacity \in Nat : capacity = Per(r.capacity, effect.capacity)
    <2>1. r.capacity \in Nat /\ effect.capacity \in Nat
        BY <1>1 DEF MonthRecord, IsEffect
    <2> QED
        BY <2>1, PerNat
<1>3. PICK m : m = Moved(s, arrivals, capacity, effect, 350, 15, arrivals)
    OBVIOUS
<1>4. MovesAll(s, arrivals, m)
    <2>1. PICK share, least \in Nat : share = 350 /\ least = 15
        OBVIOUS
    <2>2. IsThird(share)
        BY <2>1 DEF IsThird
    <2>3. MovesAll(s, arrivals, Moved(s, arrivals, capacity, effect, share, least, arrivals))
        BY <1>1, <2>2, MovedIs, Zenon
    <2> QED
        BY <1>3, <2>1, <2>3
<1>5. m \in MovedShape /\ m.queue \in Nat /\ m.backlog \in Nat /\ m.served \in Nat /\ m.diverted \in Nat
    BY <1>4 DEF MovesAll, MovedShape
<1>6. PICK one \in SimulatorState : one = [s EXCEPT !.queue = m.queue]
    BY <1>5 DEF SimulatorState
<1>7. PICK two \in SimulatorState : two = [one EXCEPT !.backlog = m.backlog]
    BY <1>5 DEF SimulatorState
<1>8. PICK next \in SimulatorState : next = [two EXCEPT !.previous = a]
    BY DEF SimulatorState, Action
<1>9. next.queue = m.queue /\ next.backlog = m.backlog /\ next.previous = a
    BY <1>6, <1>7, <1>8 DEF SimulatorState
<1>10. BenchmarkStep(s, a, r, arrivals) = [moved |-> m, now |-> next]
    BY <1>1, <1>2, <1>3, <1>6, <1>7, <1>8 DEF BenchmarkStep
<1> QED
    BY <1>4, <1>5, <1>9, <1>10 DEF Transition, MovesAll

----------------------------------------------------------------------------
(* The records of an episode.                                              *)

\* r is a month of the dataset as a scenario may leave it: its arrivals are those of a
\* record, surged at most.
IsMonth(r) ==
    /\ r \in MonthRecord
    /\ \E k \in DOMAIN records : r.arrivals <= Per(records[k].arrivals, 1080)

LEMMA ScenarioIs ==
    ASSUME NEW r \in MonthRecord, NEW scenario, NEW i \in Nat
    PROVE  /\ InScenario(scenario, r, i) \in MonthRecord
           /\ InScenario(scenario, r, i).arrivals <= Per(r.arrivals, 1080)
<1>1. r.arrivals \in Nat /\ r.capacity \in Nat /\ r.loss \in Nat /\ r.safety \in Nat
    BY DEF MonthRecord
<1>2. PICK x \in Nat : x = r.arrivals
    BY <1>1
<1>3. x <= Per(x, 1080) /\ Per(x, 1080) \in Nat
    <2>1. PICK t \in Nat : t = 1080 /\ 1000 <= t
        OBVIOUS
    <2>2. x <= Per(x, t)
        BY <2>1, PerOfThousand
    <2> QED
        BY <2>1, <2>2, PerNat
<1>4. Surge(r, 1080) \in MonthRecord /\ Surge(r, 1080).arrivals = Per(x, 1080)
    BY <1>2, <1>3 DEF Surge, MonthRecord
<1>5. Surge(r, 1050) \in MonthRecord /\ Surge(r, 1050).arrivals <= Per(x, 1080)
    <2>1. Per(x, 1050) \in Nat
        BY PerNat
    <2>2. Per(x, 1050) <= Per(x, 1080)
        <3>1. PICK t \in Nat, u \in Nat : t = 1050 /\ u = 1080 /\ t <= u
            OBVIOUS
        <3>2. Per(x, t) <= Per(x, u)
            BY <3>1, PerGrows
        <3> QED
            BY <3>1, <3>2
    <2> QED
        BY <1>2, <2>1, <2>2 DEF Surge, MonthRecord
<1>6. ASSUME NEW q \in MonthRecord, NEW t \in Nat
      PROVE  [q EXCEPT !.capacity = Per(@, t)] \in MonthRecord
             /\ [q EXCEPT !.capacity = Per(@, t)].arrivals = q.arrivals
    <2>1. PICK y \in Nat : y = q.capacity
        BY DEF MonthRecord
    <2>2. Per(y, t) \in Nat
        BY PerNat
    <2> QED
        BY <2>1, <2>2 DEF MonthRecord
<1>7. ASSUME NEW lost \in {35, 120}
      PROVE  Disrupted(r, lost) \in MonthRecord /\ Disrupted(r, lost).arrivals = x
    <2>1. PICK t \in Nat : t = 1000 - lost
        BY <1>7
    <2>2. /\ [r EXCEPT !.capacity = Per(@, t)] \in MonthRecord
          /\ [r EXCEPT !.capacity = Per(@, t)].arrivals = r.arrivals
        BY <1>6, Zenon
    <2>3. PICK q \in MonthRecord : q = [r EXCEPT !.capacity = Per(@, t)] /\ q.arrivals = r.arrivals
        BY <2>2, Zenon
    <2>4. PICK y \in Nat : y = Clamp(r.loss + lost, 0, 650)
        BY <1>1 DEF Clamp, Least, Most
    <2>5. Disrupted(r, lost) = [q EXCEPT !.loss = y]
        BY <2>1, <2>3, <2>4 DEF Disrupted, MonthRecord
    <2>6. [q EXCEPT !.loss = y] \in MonthRecord /\ [q EXCEPT !.loss = y].arrivals = q.arrivals
        BY DEF MonthRecord
    <2> QED
        BY <1>2, <2>3, <2>5, <2>6, Zenon
<1>8. PICK y \in Nat : y = Clamp(r.safety + 220, 0, 1000)
    BY <1>1 DEF Clamp, Least, Most
<1>9. [r EXCEPT !.safety = Clamp(@ + 220, 0, 1000)] \in MonthRecord
      /\ [r EXCEPT !.safety = Clamp(@ + 220, 0, 1000)].arrivals = x
    BY <1>2, <1>8 DEF MonthRecord
<1>10. [Surge(r, 1050) EXCEPT !.capacity = Per(@, 980)] \in MonthRecord
       /\ [Surge(r, 1050) EXCEPT !.capacity = Per(@, 980)].arrivals <= Per(x, 1080)
    <2>1. PICK t \in Nat : t = 980
        OBVIOUS
    <2> QED
        BY <1>5, <1>6, <2>1
<1> QED
    BY <1>2, <1>3, <1>4, <1>5, <1>7, <1>9, <1>10 DEF InScenario

LEMMA RecordIs ==
    ASSUME NEW k \in Nat, records \in [1 .. Months -> PortRecord],
           ~Training => k < Months
    PROVE  IsMonth(RecordAt(k))
<1>1. Months \in Nat /\ Months > 0
    BY ReplayAssumption DEF ReplayAssumption
<1>2. ASSUME NEW j \in 1 .. Months
      PROVE  records[j] \in MonthRecord /\ records[j].arrivals \in Nat /\ j \in DOMAIN records
    BY <1>2, ReplayAssumption DEF ReplayAssumption, MonthRecord
<1>3. ASSUME NEW j \in 1 .. Months
      PROVE  records[j].arrivals <= Per(records[j].arrivals, 1080)
    <2>1. PICK x \in Nat, t \in Nat : x = records[j].arrivals /\ t = 1080 /\ 1000 <= t
        BY <1>2, <1>3
    <2>2. x <= Per(x, t)
        BY <2>1, PerOfThousand
    <2> QED
        BY <2>1, <2>2
<1>4. ASSUME NEW j \in 1 .. Months
      PROVE  IsMonth(records[j])
    BY <1>2, <1>3, <1>4 DEF IsMonth
<1>5. CASE ~Training
    <2>1. k + 1 \in 1 .. Months
        BY <1>1, <1>5
    <2>2. /\ InScenario(setting, records[k + 1], k) \in MonthRecord
          /\ InScenario(setting, records[k + 1], k).arrivals <= Per(records[k + 1].arrivals, 1080)
        BY <1>2, <2>1, ScenarioIs
    <2> QED
        BY <1>2, <1>5, <2>1, <2>2 DEF RecordAt, IsMonth
<1>6. CASE Training /\ engine = "business"
    <2>1. Least(Months, k + 1) \in 1 .. Months
        BY <1>1 DEF Least
    <2> QED
        BY <1>4, <1>6, <2>1 DEF RecordAt
<1>7. CASE Training /\ engine # "business"
    <2>1. k % Months \in 0 .. Months - 1
        BY <1>1
    <2>2. (k % Months) + 1 \in 1 .. Months
        BY <1>1, <2>1
    <2> QED
        BY <1>4, <1>7, <2>2 DEF RecordAt
<1> QED
    BY <1>5, <1>6, <1>7

\* The share of what arrives that is deferred at most, of the arrivals of any month.
MostDeferred(k, noise) == Per(MostArrivals(records[k], noise), 20)

LEMMA RecordArrivals ==
    ASSUME records \in [1 .. Months -> PortRecord], NEW k \in DOMAIN records
    PROVE  records[k].arrivals \in Nat /\ Per(records[k].arrivals, 1080) \in Nat
<1>1. records[k] \in PortRecord
    OBVIOUS
<1>2. records[k] \in MonthRecord
    BY <1>1, ReplayAssumption DEF ReplayAssumption
<1>3. PICK x \in Nat, t \in Nat : x = records[k].arrivals /\ t = 1080
    BY <1>2 DEF MonthRecord
<1>4. Per(x, t) \in Nat
    BY PerNat, Zenon
<1> QED
    BY <1>3, <1>4

LEMMA MostDeferredNat ==
    ASSUME records \in [1 .. Months -> PortRecord],
           NEW k \in DOMAIN records, NEW noise \in Residual \cup {0}
    PROVE  MostDeferred(k, noise) \in Nat
<1>1. PICK share \in Nat, twenty \in Nat : share = 1000 + noise /\ twenty = 20
    BY ReplayAssumption DEF ReplayAssumption
<1>2. PICK x \in Nat : x = Per(records[k].arrivals, 1080)
    BY RecordArrivals
<1>3. Per(Per(x, share), twenty) \in Nat
    BY PerNat, Zenon
<1> QED
    BY <1>1, <1>2, <1>3 DEF MostDeferred, MostArrivals

LEMMA ArrivalsAre ==
    ASSUME records \in [1 .. Months -> PortRecord],
           NEW r, IsMonth(r), NEW noise \in Residual \cup {0}
    PROVE  /\ Most(0, Per(r.arrivals, 1000 + noise)) \in Nat
           /\ \E k \in DOMAIN records :
                  Per(Most(0, Per(r.arrivals, 1000 + noise)), 20) <= MostDeferred(k, noise)
<1>1. PICK share \in Nat : share = 1000 + noise
    BY ReplayAssumption DEF ReplayAssumption
<1>2. PICK x \in Nat : x = r.arrivals
    BY DEF IsMonth, MonthRecord
<1>3. PICK k \in DOMAIN records : x <= Per(records[k].arrivals, 1080)
    BY <1>2 DEF IsMonth
<1>4. PICK z \in Nat : z = Per(records[k].arrivals, 1080)
    BY RecordArrivals
<1>5. PICK arrivals \in Nat : arrivals = Most(0, Per(r.arrivals, 1000 + noise))
                              /\ arrivals = Per(x, share)
    <2>1. Per(x, share) \in Nat
        BY PerNat, Zenon
    <2> QED
        BY <1>1, <1>2, <2>1 DEF Most
<1>6. PICK most \in Nat : most = MostArrivals(records[k], noise) /\ arrivals <= most
    <2>1. Per(x, share) <= Per(z, share)
        BY <1>3, <1>4, PerGrows
    <2>2. Per(z, share) \in Nat
        BY PerNat, Zenon
    <2> QED
        BY <1>1, <1>4, <1>5, <2>1, <2>2 DEF MostArrivals
<1>7. Per(arrivals, 20) <= Per(most, 20)
    <2>1. PICK t \in Nat : t = 20
        OBVIOUS
    <2>2. Per(arrivals, t) <= Per(most, t)
        BY <1>6, PerGrows
    <2> QED
        BY <2>1, <2>2
<1> QED
    BY <1>5, <1>6, <1>7 DEF MostDeferred

----------------------------------------------------------------------------
(* What may be chosen.                                                     *)

LEMMA BusinessChoices ==
    ASSUME engine = "business", NEW c, NEW r, NEW s, NEW a \in OpenChoices(c, r, s)
    PROVE  /\ a \in BusinessAction /\ Projected(r, s, a) = a
           /\ c = "learnt" => Hold \in {s.previous, a}
<1>1. ~Infeasible(r, s, Hold)
    BY DEF Infeasible, Hold
<1>2. a = Hold \/ a \in FeasibleActions(r, s)
    BY DEF OpenChoices, Applicable
<1>3. a \in BusinessAction /\ ~Infeasible(r, s, a)
    BY <1>1, <1>2, HoldIsAction DEF FeasibleActions
<1>4. c = "learnt" => Hold \in {s.previous, a}
    BY DEF OpenChoices, Applicable
<1> QED
    BY <1>3, <1>4 DEF Projected

LEMMA BenchmarkChoices ==
    ASSUME engine = "benchmark", NEW c \in {"learnt"} \cup Controllers(engine), NEW r, NEW s,
           NEW a \in OpenChoices(c, r, s)
    PROVE  a \in BenchmarkAction
    BY HoldIsAction DEF OpenChoices, Controllers

----------------------------------------------------------------------------
(* ReplayInv: what every step of an episode keeps.                         *)

EpisodeFlow ==
    [arrived : Nat, served : Nat, diverted : Nat, projected : Nat, doubled : Nat]

\* What never changes in an episode.
EpisodeIs ==
    /\ engine \in {"business", "benchmark"} /\ setting \in Settings(engine)
    /\ controller \in {"learnt"} \cup Controllers(engine)
    /\ Training => controller = "learnt"
    /\ records \in [1 .. Months -> PortRecord]

ReplayInv ==
    /\ EpisodeIs /\ month \in 0 .. LastStep /\ now \in SimulatorState /\ flow \in EpisodeFlow
    /\ chosen \in IF Training THEN OpenChoices("learnt", RecordAt(month), now) ELSE {"none"}
    /\ DemandIsKept /\ BacklogIsBounded /\ MaskIsEnough /\ RestsBetween

LEMMA FirstStateIs ==
    ASSUME NEW r \in MonthRecord, NEW e
    PROVE  FirstState(e, r) \in SimulatorState /\ FirstState(e, r).backlog = 0
<1>1. /\ r.arrivals \in Nat /\ r.capacity \in Nat /\ r.loss \in Nat /\ r.yard \in Nat
      /\ r.gate \in Nat /\ r.skew \in Nat
    BY DEF MonthRecord
<1>2. PICK over \in Nat : over = Most(0, r.arrivals - r.capacity)
    BY <1>1 DEF Most
<1>3. PICK queue \in Nat : queue = Per(over, IF e = "business" THEN 280 ELSE 350)
    <2>1. PICK t \in Nat : t = IF e = "business" THEN 280 ELSE 350
        OBVIOUS
    <2> QED
        BY <2>1, PerNat, Zenon
<1>4. PICK recovery \in Nat : recovery = Per(Per(r.arrivals, r.loss), 80)
    <2>1. Per(r.arrivals, r.loss) \in Nat
        BY <1>1, PerNat
    <2> QED
        BY <2>1, PerNat
<1>5. FirstState(e, r) = [queue |-> queue, backlog |-> 0, recovery |-> recovery,
                          yard |-> r.yard, gate |-> r.gate, gap |-> r.skew, previous |-> Hold]
    BY <1>2, <1>3, <1>4 DEF FirstState
<1> QED
    BY <1>1, <1>5, HoldIsAction DEF SimulatorState, Action

LEMMA ReplayBegins == ReplayInit => ReplayInv
<1> SUFFICES ASSUME ReplayInit
             PROVE  ReplayInv
    OBVIOUS
<1>1. EpisodeIs
    BY DEF ReplayInit, EpisodeIs
<1>2. 0 \in 0 .. LastStep /\ (~Training => 0 < Months) /\ 0 \in Nat
    BY ReplayAssumption DEF ReplayAssumption, LastStep
<1>3. RecordAt(0) \in MonthRecord
    BY <1>1, <1>2, RecordIs DEF EpisodeIs, IsMonth
<1>4. now \in SimulatorState /\ now.backlog = 0 /\ now.queue \in Nat
      /\ now = FirstState(engine, RecordAt(0))
    BY <1>3, FirstStateIs DEF ReplayInit, SimulatorState
<1>5. flow \in EpisodeFlow
    BY DEF ReplayInit, NoFlow, EpisodeFlow
<1>6. DemandIsKept
    BY <1>4 DEF DemandIsKept, ReplayInit, NoFlow
<1>7. BacklogIsBounded
    <2>1. 1 \in DOMAIN records /\ 0 \in Residual \cup {0}
        BY <1>1, ReplayAssumption DEF EpisodeIs, ReplayAssumption
    <2>2. PICK x \in Nat : x = MostDeferred(1, 0)
        BY <1>1, <2>1, MostDeferredNat DEF EpisodeIs
    <2>3. 3 * now.backlog <= 10 * (x + 2)
        BY <1>4
    <2> QED
        BY <2>1, <2>2, <2>3 DEF BacklogIsBounded, MostDeferred
<1>8. MaskIsEnough /\ RestsBetween
    BY DEF ReplayInit, NoFlow, MaskIsEnough, RestsBetween
<1> QED
    BY <1>1, <1>2, <1>4, <1>5, <1>6, <1>7, <1>8 DEF ReplayInv, ReplayInit

LEMMA ReplayStepKeeps ==
    ASSUME ReplayInv, NEW requested \in BusinessAction \cup BenchmarkAction,
           NEW noise \in Residual \cup {0}, EnvironmentStep(requested, noise)
    PROVE  ReplayInv'
<1>1. EpisodeIs /\ EpisodeIs' /\ Training' = Training /\ LastStep' = LastStep
    BY DEF ReplayInv, EnvironmentStep, EpisodeIs, Training, LastStep, Settings, Controllers
<1>2. month \in Nat /\ month + 1 \in 0 .. LastStep /\ month' = month + 1 /\ (~Training => month < Months)
    BY ReplayAssumption DEF ReplayInv, EnvironmentStep, LastStep, ReplayAssumption
<1>3. PICK r : r = RecordAt(month) /\ IsMonth(r)
    BY <1>1, <1>2, RecordIs DEF EpisodeIs
<1>4. requested \in OpenChoices(controller, r, now)
    BY <1>1, <1>3 DEF ReplayInv, EnvironmentStep, EpisodeIs
<1>5. PICK action : /\ action = IF engine = "business" THEN Projected(r, now, requested) ELSE requested
                    /\ action = requested
                    /\ engine = "business" => action \in BusinessAction
                    /\ engine # "business" => action \in BenchmarkAction
                    /\ engine = "business" /\ controller = "learnt" => Hold \in {now.previous, action}
    <2>1. CASE engine = "business"
        BY <1>4, <2>1, BusinessChoices
    <2>2. CASE engine # "business"
        <3>1. engine = "benchmark"
            BY <1>1, <2>2 DEF EpisodeIs
        <3>2. requested \in BenchmarkAction
            BY <1>1, <1>4, <3>1, BenchmarkChoices DEF EpisodeIs
        <3> QED
            BY <2>2, <3>2
    <2> QED
        BY <2>1, <2>2
<1>6. PICK arrivals \in Nat, k \in DOMAIN records :
          arrivals = Most(0, Per(r.arrivals, 1000 + noise))
          /\ Per(arrivals, 20) <= MostDeferred(k, noise)
    BY <1>1, <1>3, ArrivalsAre DEF EpisodeIs
<1>7. PICK step : /\ step = IF engine = "business" THEN BusinessStep(now, action, r, arrivals)
                            ELSE BenchmarkStep(now, action, r, arrivals)
                  /\ Transition(now, arrivals, action, step)
    <2>1. now \in SimulatorState /\ r \in MonthRecord
        BY <1>3 DEF ReplayInv, IsMonth
    <2>2. CASE engine = "business"
        BY <1>5, <2>1, <2>2, BusinessStepIs
    <2>3. CASE engine # "business"
        BY <1>5, <2>1, <2>3, BenchmarkStepIs
    <2> QED
        BY <2>2, <2>3
<1>8. /\ now' = step.now
      /\ flow' = [arrived |-> flow.arrived + arrivals,
                  served |-> flow.served + step.moved.served,
                  diverted |-> flow.diverted + step.moved.diverted,
                  projected |-> flow.projected + IF action = requested THEN 0 ELSE 1,
                  doubled |-> flow.doubled + IF Hold \in {now.previous, action} THEN 0 ELSE 1]
      /\ ChooseNext(step.now)
    BY <1>3, <1>5, <1>6, <1>7 DEF EnvironmentStep
<1>9. \A i : RecordAt(i)' = RecordAt(i)
    BY DEF EnvironmentStep, RecordAt, Training
<1>10. now' \in SimulatorState
    BY <1>7, <1>8 DEF Transition
<1>11. flow' \in EpisodeFlow
    <2>1. /\ flow.arrived \in Nat /\ flow.served \in Nat /\ flow.diverted \in Nat
          /\ flow.projected \in Nat /\ flow.doubled \in Nat
        BY DEF ReplayInv, EpisodeFlow
    <2>2. step.moved.served \in Nat /\ step.moved.diverted \in Nat
        BY <1>7 DEF Transition
    <2>3. PICK more \in Nat : more = IF Hold \in {now.previous, action} THEN 0 ELSE 1
        OBVIOUS
    <2>4. PICK wrong \in Nat : wrong = IF action = requested THEN 0 ELSE 1
        OBVIOUS
    <2>5. /\ flow.arrived + arrivals \in Nat /\ flow.served + step.moved.served \in Nat
          /\ flow.diverted + step.moved.diverted \in Nat /\ flow.projected + wrong \in Nat
          /\ flow.doubled + more \in Nat
        BY <2>1, <2>2
    <2> QED
        BY <1>8, <2>3, <2>4, <2>5 DEF EpisodeFlow
<1>12. (chosen \in IF Training THEN OpenChoices("learnt", RecordAt(month), now) ELSE {"none"})'
    <2>1. chosen' \in IF Training THEN OpenChoices("learnt", RecordAt(month + 1), step.now) ELSE {"none"}
        BY <1>8 DEF ChooseNext
    <2>2. RecordAt(month)' = RecordAt(month + 1)
        BY <1>2 DEF EnvironmentStep, RecordAt, Training
    <2>3. OpenChoices("learnt", RecordAt(month), now)' = OpenChoices("learnt", RecordAt(month + 1), step.now)
        BY <1>8, <2>2 DEF OpenChoices, EnvironmentStep
    <2> QED
        BY <1>1, <2>1, <2>3
<1>13. DemandIsKept'
    <2>1. FirstState(engine, RecordAt(0))' = FirstState(engine, RecordAt(0))
        BY <1>9 DEF EnvironmentStep, FirstState
    <2>2. PICK first : first = FirstState(engine, RecordAt(0)).queue
        OBVIOUS
    <2>3. flow.arrived + first = flow.served + flow.diverted + now.queue + now.backlog
        BY <2>2 DEF ReplayInv, DemandIsKept
    <2>4. first \in Nat
        <3>1. IsMonth(RecordAt(0))
            <4>1. ~Training => 0 < Months
                BY ReplayAssumption DEF ReplayAssumption
            <4> QED
                BY <1>1, <4>1, RecordIs DEF EpisodeIs
        <3> QED
            BY <2>2, <3>1, FirstStateIs DEF IsMonth, SimulatorState
    <2>5. flow'.arrived + first = flow'.served + flow'.diverted + now'.queue + now'.backlog
        <3>1. /\ flow'.arrived = flow.arrived + arrivals
              /\ flow'.served = flow.served + step.moved.served
              /\ flow'.diverted = flow.diverted + step.moved.diverted
            BY <1>8
        <3>2. /\ flow.arrived \in Nat /\ flow.served \in Nat /\ flow.diverted \in Nat
              /\ now.queue \in Nat /\ now.backlog \in Nat /\ now'.queue \in Nat /\ now'.backlog \in Nat
            BY <1>10 DEF ReplayInv, EpisodeFlow, SimulatorState
        <3>3. /\ step.moved.served \in Nat /\ step.moved.diverted \in Nat
              /\ now.queue + now.backlog + arrivals
                    = step.moved.served + step.moved.diverted + now'.queue + now'.backlog
            BY <1>7, <1>8 DEF Transition
        <3>4. PICK a \in Nat, sv \in Nat, d \in Nat, q \in Nat, b \in Nat :
                  /\ a = flow.arrived /\ sv = flow.served /\ d = flow.diverted
                  /\ q = now.queue /\ b = now.backlog
            BY <3>2
        <3>5. PICK nq \in Nat, nb \in Nat, ns \in Nat, nd \in Nat :
                  /\ nq = now'.queue /\ nb = now'.backlog
                  /\ ns = step.moved.served /\ nd = step.moved.diverted
            BY <3>2, <3>3
        <3>6. a + first = sv + d + q + b /\ q + b + arrivals = ns + nd + nq + nb
            BY <2>3, <3>3, <3>4, <3>5
        <3>7. a + arrivals + first = sv + ns + (d + nd) + nq + nb
            BY <2>4, <3>6
        <3> QED
            BY <3>1, <3>4, <3>5, <3>7
    <2> QED
        BY <2>1, <2>2, <2>5 DEF DemandIsKept
<1>14. BacklogIsBounded'
    <2>1. PICK j \in DOMAIN records, n \in Residual \cup {0} :
              3 * now.backlog <= 10 * (MostDeferred(j, n) + 2)
        BY DEF ReplayInv, BacklogIsBounded, MostDeferred
    <2>2. PICK P \in Nat : P = MostDeferred(j, n)
        BY <1>1, MostDeferredNat DEF EpisodeIs
    <2>3. PICK Q \in Nat : Q = MostDeferred(k, noise)
        BY <1>1, MostDeferredNat DEF EpisodeIs
    <2>4. PICK D \in Nat : D = Per(arrivals, 20)
        BY PerNat
    <2>5. PICK b \in Nat, c \in Nat : b = now.backlog /\ c = now'.backlog
        BY <1>10 DEF ReplayInv, SimulatorState
    <2>6. 3 * b <= 10 * (P + 2) /\ D <= Q /\ 10 * c <= 7 * b + 9 + 10 * D
        BY <1>6, <1>7, <1>8, <2>1, <2>2, <2>3, <2>4, <2>5 DEF Transition
    <2>7. 3 * c <= 10 * (Q + 2) \/ 3 * c <= 10 * (P + 2)
        BY <2>6
    <2>8. records' = records
        BY DEF EnvironmentStep
    <2>9. \E i \in DOMAIN records, m \in Residual \cup {0} :
              3 * now'.backlog <= 10 * (Per(MostArrivals(records[i], m), 20) + 2)
        BY <2>2, <2>3, <2>5, <2>7 DEF MostDeferred
    <2> QED
        BY <2>8, <2>9 DEF BacklogIsBounded, MostArrivals, Per
<1>15. MaskIsEnough'
    BY <1>5, <1>8 DEF ReplayInv, MaskIsEnough
<1>16. RestsBetween'
    BY <1>5, <1>8 DEF ReplayInv, RestsBetween, EnvironmentStep
<1> QED
    BY <1>1, <1>2, <1>10, <1>11, <1>12, <1>13, <1>14, <1>15, <1>16 DEF ReplayInv

\* Every reachable state of an episode satisfies ReplayInv.
THEOREM ReplayInvariance == ReplaySpec => []ReplayInv
<1>1. ReplayInit => ReplayInv
    BY ReplayBegins
<1>2. ReplayInv /\ [ReplayNext]_replayVars => ReplayInv'
    <2> SUFFICES ASSUME ReplayInv, [ReplayNext]_replayVars
                 PROVE  ReplayInv'
        OBVIOUS
    <2>1. CASE ReplayNext
        BY <2>1, ReplayStepKeeps DEF ReplayNext
    <2>2. CASE UNCHANGED replayVars
        BY <2>2 DEF replayVars, ReplayInv, EpisodeIs, Training, LastStep, Settings, Controllers,
            RecordAt, OpenChoices, DemandIsKept, BacklogIsBounded, MaskIsEnough, RestsBetween, FirstState
    <2> QED
        BY <2>1, <2>2
<1> QED
    BY <1>1, <1>2, PTL DEF ReplaySpec

LEMMA InvIsSound == ReplayInv => ReplayIsSound
<1> SUFFICES ASSUME ReplayInv
             PROVE  ReplayIsSound
    OBVIOUS
<1>1. chosen \in BusinessAction \cup BenchmarkAction \cup {"none"}
    <2>1. CASE ~Training
        BY <2>1 DEF ReplayInv
    <2>2. CASE Training /\ engine = "business"
        BY <2>2, BusinessChoices DEF ReplayInv
    <2>3. CASE Training /\ engine # "business"
        BY <2>3, BenchmarkChoices DEF ReplayInv, EpisodeIs
    <2> QED
        BY <2>1, <2>2, <2>3
<1>2. \A f \in {"queue", "backlog", "recovery", "yard", "gate", "gap"} : now[f] \in Nat
    BY DEF ReplayInv, SimulatorState
<1>3. ReplayTypeOK
    BY <1>1, <1>2 DEF ReplayTypeOK, ReplayInv, EpisodeIs
<1> QED
    BY <1>3 DEF ReplayIsSound, ReplayInv

\* An episode of training or a replay loses no vessel, keeps what it defers bounded, is never
\* corrected by the projection and rests between interventions: whatever the records, the
\* horizon, the noise and the rhythm of the disruptions.
THEOREM ReplayStaysSound == ReplaySpec => []ReplayIsSound
    BY ReplayInvariance, InvIsSound, PTL

----------------------------------------------------------------------------
(* The decision of the core policy.  Its effect is a loop over the rows of *)
(* a table; only the eighteenth diverts.                                   *)

IsChoiceEffect(n, e) ==
    /\ e.capacity \in Nat /\ e.energy \in Nat /\ e.peak \in Nat /\ e.carbon \in Nat
    /\ e.relief \in Nat /\ e.defer \in Nat /\ e.yard \in Nat /\ e.gate \in Nat
    /\ e.divert \in Nat /\ e.divert = IF n = 18 THEN 6 ELSE 0

LEMMA CoreEffectsAre == Len(CoreEffects) = 20 /\ \A n \in 1 .. 20 : IsChoiceEffect(n, CoreEffects[n])
<1>1. Len(CoreEffects) = 20
    BY DEF CoreEffects
<1>2. \A n \in 1 .. 20 : IsChoiceEffect(n, CoreEffects[n])
    BY DEF CoreEffects, ChoiceEffect, IsChoiceEffect
<1> QED
    BY <1>1, <1>2

\* What a plan adds up to after the first n rows.
IsSum(n, e) ==
    /\ e.capacity \in Nat /\ e.energy \in Nat /\ e.peak \in Nat /\ e.carbon \in Nat
    /\ e.relief \in Nat /\ e.defer \in Nat /\ e.yard \in Nat /\ e.gate \in Nat
    /\ e.divert \in Nat /\ (n < 18 => e.divert = 0) /\ e.divert <= 6

LEMMA NeutralIs == IsSum(0, neutralEffect)
<1>1. PICK whole \in Nat : whole = Fine(1000)
    BY DEF Fine
<1> QED
    BY <1>1 DEF neutralEffect, IsSum

LEMMA PartOfProduct ==
    ASSUME NEW x \in Nat, NEW y \in Nat
    PROVE  (x * y) \div 1000 \in Nat
<1>1. PICK z \in Nat : z = x * y
    OBVIOUS
<1> QED
    BY <1>1

LEMMA JoinedIs ==
    ASSUME NEW n \in 1 .. 20, NEW all, IsSum(n - 1, all), NEW one, IsChoiceEffect(n, one)
    PROVE  IsSum(n, Joined(all, one)) /\ IsSum(n, all)
<1>1. /\ (all.capacity * one.capacity) \div 1000 \in Nat
      /\ (all.energy * one.energy) \div 1000 \in Nat
      /\ (all.peak * one.peak) \div 1000 \in Nat
      /\ (all.carbon * one.carbon) \div 1000 \in Nat
    BY PartOfProduct DEF IsSum, IsChoiceEffect
<1>2. PICK a \in Nat, b \in Nat : a = all.divert /\ b = one.divert
    BY DEF IsSum, IsChoiceEffect
<1>3. a + b \in Nat /\ (n < 18 => a + b = 0) /\ a + b <= 6 /\ (n < 18 => a = 0) /\ a <= 6
    BY <1>2 DEF IsSum, IsChoiceEffect
<1>4. /\ all.relief + one.relief \in Nat /\ all.defer + one.defer \in Nat
      /\ all.yard + one.yard \in Nat /\ all.gate + one.gate \in Nat
    BY DEF IsSum, IsChoiceEffect
<1>5. PICK e : e = Joined(all, one)
    OBVIOUS
<1>6. /\ e.capacity = (all.capacity * one.capacity) \div 1000
      /\ e.energy = (all.energy * one.energy) \div 1000
      /\ e.peak = (all.peak * one.peak) \div 1000
      /\ e.carbon = (all.carbon * one.carbon) \div 1000
      /\ e.relief = all.relief + one.relief /\ e.defer = all.defer + one.defer
      /\ e.divert = a + b /\ e.yard = all.yard + one.yard /\ e.gate = all.gate + one.gate
    BY <1>2, <1>5 DEF Joined
<1>7. IsSum(n, e)
    BY <1>1, <1>3, <1>4, <1>6 DEF IsSum
<1>8. IsSum(n, all)
    BY <1>2, <1>3 DEF IsSum
<1> QED
    BY <1>5, <1>7, <1>8

\* The loop, as a function of the rows done.
RowDone(f, n, plan) ==
    IF CoreEffects[n].choice \in plan THEN Joined(f[n - 1], CoreEffects[n]) ELSE f[n - 1]

IsLoop(f, N, plan) ==
    f = [n \in 0 .. N |-> IF n = 0 THEN neutralEffect
                          ELSE IF CoreEffects[n].choice \in plan
                               THEN Joined(f[n - 1], CoreEffects[n])
                          ELSE f[n - 1]]

\* There is such a function for every number of rows.
LEMMA LoopExists ==
    ASSUME NEW plan, NEW N \in Nat
    PROVE  \E f : IsLoop(f, N, plan)
<1> DEFINE without == {M \in Nat : ~ \E f : IsLoop(f, M, plan)}
<1>1. ASSUME without # {} PROVE FALSE
    <2> HIDE DEF without
    <2>1. without \in SUBSET Nat
        BY DEF without
    <2>2. PICK M \in without : \A K \in without : M <= K
        BY <1>1, <2>1, LeastNumber
    <2>3. M \in Nat /\ ~ \E f : IsLoop(f, M, plan)
        BY <2>2 DEF without
    <2>4. M # 0
        <3>1. IsLoop([n \in 0 .. 0 |-> neutralEffect], 0, plan)
            BY DEF IsLoop
        <3> QED
            BY <2>3, <3>1
    <2>5. PICK g : IsLoop(g, M - 1, plan)
        <3>1. M - 1 \in Nat /\ M - 1 \notin without
            BY <2>2, <2>3, <2>4
        <3> QED
            BY <3>1 DEF without
    <2>6. PICK f : f = [n \in 0 .. M |-> IF n = 0 THEN neutralEffect ELSE RowDone(g, n, plan)]
        OBVIOUS
    <2>7. \A n \in 0 .. M - 1 : f[n] = g[n]
        BY <2>3, <2>5, <2>6 DEF IsLoop, RowDone
    <2>8. \A n \in 0 .. M : f[n] = IF n = 0 THEN neutralEffect ELSE RowDone(f, n, plan)
        <3> SUFFICES ASSUME NEW n \in 0 .. M, n # 0 PROVE f[n] = RowDone(f, n, plan)
            BY <2>3, <2>6
        <3>1. n - 1 \in 0 .. M - 1
            BY <2>3
        <3> QED
            BY <2>6, <2>7, <3>1 DEF RowDone
    <2>9. IsLoop(f, M, plan)
        BY <2>6, <2>8 DEF IsLoop, RowDone
    <2> QED
        BY <2>3, <2>9
<1> QED
    BY <1>1

\* Whatever the plan: its effect is in whole numbers and diverts no more than one choice.
LEMMA UnclampedIs ==
    ASSUME NEW plan
    PROVE  IsSum(20, Unclamped(plan)) /\ (plan = HoldCorePlan => Unclamped(plan).defer = 0)
<1>1. PICK f : f = CHOOSE g : IsLoop(g, Len(CoreEffects), plan)
    OBVIOUS
<1>2. Unclamped(plan) = f[Len(CoreEffects)]
    BY <1>1, Zenon DEF Unclamped, IsLoop
<1>3. IsLoop(f, 20, plan)
    <2>1. 20 \in Nat
        OBVIOUS
    <2>2. \E g : IsLoop(g, 20, plan)
        BY <2>1, LoopExists
    <2> QED
        BY <1>1, <2>2, CoreEffectsAre, Zenon
<1>4. f[0] = neutralEffect /\ \A n \in 1 .. 20 : f[n] = RowDone(f, n, plan)
    BY <1>3 DEF IsLoop, RowDone
<1> DEFINE good(n) == IsSum(n, f[n]) /\ (plan = HoldCorePlan => f[n].defer = 0)
           bad == {n \in 0 .. 20 : ~ good(n)}
<1>5. ASSUME bad # {} PROVE FALSE
    <2>1. bad \in SUBSET Nat
        OBVIOUS
    <2> HIDE DEF bad
    <2>2. PICK n \in bad : \A m \in bad : n <= m
        BY <1>5, <2>1, LeastNumber
    <2>3. n \in 0 .. 20 /\ ~ good(n)
        BY <2>2 DEF bad
    <2>4. n # 0
        BY <1>4, <2>3, NeutralIs DEF neutralEffect
    <2>5. n \in 1 .. 20 /\ n - 1 \in 0 .. 20 /\ n - 1 \notin bad
        BY <2>1, <2>2, <2>3, <2>4
    <2>6. good(n - 1)
        BY <2>5 DEF bad
    <2>7. IsSum(n, Joined(f[n - 1], CoreEffects[n])) /\ IsSum(n, f[n - 1])
        BY <2>5, <2>6, CoreEffectsAre, JoinedIs
    <2>8. IsSum(n, f[n])
        BY <1>4, <2>5, <2>7 DEF RowDone
    <2>9. plan = HoldCorePlan => f[n].defer = 0
        BY <1>4, <2>5, <2>6 DEF RowDone, HoldCorePlan
    <2> QED
        BY <2>3, <2>8, <2>9
<1>6. 20 \notin bad
    BY <1>5
<1> QED
    BY <1>2, <1>6, CoreEffectsAre

LEMMA BetweenIs ==
    ASSUME NEW low \in Int, NEW high \in Int, low <= high, NEW n \in Int
    PROVE  Between(low, n, high) \in low .. high
    BY DEF Between

LEMMA FineIs ==
    ASSUME NEW x \in Nat, NEW y \in Nat, x <= y
    PROVE  Fine(x) \in Int /\ Fine(y) \in Int /\ Fine(x) <= Fine(y)
    BY DEF Fine

LEMMA FineBetween ==
    ASSUME NEW x \in Nat, NEW y \in Nat, x <= y, NEW n \in Int
    PROVE  Between(Fine(x), n, Fine(y)) \in Fine(x) .. Fine(y)
    BY FineIs, BetweenIs

\* Every plan has an effect within the envelope of the simulator.
LEMMA EveryPlanFits == ASSUME NEW plan PROVE Envelope(Control(plan))
<1>1. PICK all : all = Unclamped(plan) /\ IsSum(20, all)
    BY UnclampedIs
<1>2. PICK effect : effect = corePlanEffect(plan)
    OBVIOUS
<1>3. /\ effect.capacity \in Fine(970) .. Fine(1090)
      /\ effect.energy \in Fine(930) .. Fine(1050)
      /\ effect.peak \in Fine(840) .. Fine(1040)
      /\ effect.carbon \in Fine(900) .. Fine(1050)
    <2>1. /\ all.capacity \in Int /\ all.energy \in Int /\ all.peak \in Int /\ all.carbon \in Int
        BY <1>1 DEF IsSum
    <2>2. Between(Fine(970), all.capacity, Fine(1090)) \in Fine(970) .. Fine(1090)
        <3>1. PICK low \in Nat, high \in Nat : low = 970 /\ high = 1090 /\ low <= high
            OBVIOUS
        <3>2. Between(Fine(low), all.capacity, Fine(high)) \in Fine(low) .. Fine(high)
            BY <2>1, <3>1, FineBetween
        <3> QED
            BY <3>1, <3>2
    <2>3. Between(Fine(930), all.energy, Fine(1050)) \in Fine(930) .. Fine(1050)
        <3>1. PICK low \in Nat, high \in Nat : low = 930 /\ high = 1050 /\ low <= high
            OBVIOUS
        <3>2. Between(Fine(low), all.energy, Fine(high)) \in Fine(low) .. Fine(high)
            BY <2>1, <3>1, FineBetween
        <3> QED
            BY <3>1, <3>2
    <2>4. Between(Fine(840), all.peak, Fine(1040)) \in Fine(840) .. Fine(1040)
        <3>1. PICK low \in Nat, high \in Nat : low = 840 /\ high = 1040 /\ low <= high
            OBVIOUS
        <3>2. Between(Fine(low), all.peak, Fine(high)) \in Fine(low) .. Fine(high)
            BY <2>1, <3>1, FineBetween
        <3> QED
            BY <3>1, <3>2
    <2>5. Between(Fine(900), all.carbon, Fine(1050)) \in Fine(900) .. Fine(1050)
        <3>1. PICK low \in Nat, high \in Nat : low = 900 /\ high = 1050 /\ low <= high
            OBVIOUS
        <3>2. Between(Fine(low), all.carbon, Fine(high)) \in Fine(low) .. Fine(high)
            BY <2>1, <3>1, FineBetween
        <3> QED
            BY <3>1, <3>2
    <2> QED
        BY <1>1, <1>2, <2>2, <2>3, <2>4, <2>5 DEF corePlanEffect
<1>4. /\ effect.relief \in Nat /\ effect.yard \in Nat /\ effect.gate \in Nat
      /\ effect.divert \in 0 .. 10
    <2>1. all.divert \in Int /\ all.relief \in Nat /\ all.yard \in Nat /\ all.gate \in Nat
        BY <1>1 DEF IsSum
    <2>2. Between(0, all.divert, 10) \in 0 .. 10
        BY <2>1 DEF Between
    <2> QED
        BY <1>1, <1>2, <2>1, <2>2 DEF corePlanEffect
<1>5. PICK control : control = Control(plan)
    OBVIOUS
<1>6. /\ control.capacity = effect.capacity /\ control.carbon = effect.carbon
      /\ control.energy = effect.energy /\ control.peak = effect.peak
      /\ control.diversion = effect.divert
    BY <1>2, <1>5 DEF Control
<1>7. /\ control.queueRelief \in 0 .. 800
      /\ control.yardOutflow \in 1000 .. 1400 /\ control.gateOutflow \in 1000 .. 1300
    BY <1>2, <1>4, <1>5 DEF Control, Smaller
<1>8. /\ control.intermodal \in 1000 .. 1350 /\ control.reefer \in 940 .. 1020
      /\ control.bonus \in 0 .. 2 /\ control.battery \in 0 .. 1500 /\ control.maintenance \in 0 .. 4
    BY <1>5 DEF Control
<1> QED
    BY <1>3, <1>4, <1>5, <1>6, <1>7, <1>8 DEF Envelope

----------------------------------------------------------------------------
LEMMA HeadsAre ==
    ASSUME NEW c \in Choice
    PROVE  HeadOf[c] \in Domain /\ <<HeadOf[c], c>> \in Heads
<1>1. PICK h \in Heads : c = h[2]
    BY DEF Choice
<1>2. h = <<h[1], h[2]>>
    BY DEF Heads
<1>3. h[1] \in Domain /\ <<h[1], c>> \in Heads
    BY <1>1, <1>2 DEF Domain
<1>4. HeadOf[c] = CHOOSE d \in Domain : <<d, c>> \in Heads
    BY DEF HeadOf
<1> QED
    BY <1>3, <1>4

Sops ==
    {"arrival-smoothing", "crane-rebalance", "yard-block-rebalance",
     "fault-recovery-priority", "battery-peak-shave", "recovery-capacity"}

LEMMA SopsAre == Sops \subseteq Choice /\ OneOfAHead(Sops)
<1>1. ASSUME NEW c \in Sops PROVE c \in Choice
    <2>1. \A d, e : <<d, e>> \in Heads => e \in Choice
        <3> SUFFICES ASSUME NEW d, NEW e, <<d, e>> \in Heads PROVE e \in Choice
            OBVIOUS
        <3>1. e = <<d, e>>[2]
            OBVIOUS
        <3> QED
            BY <3>1 DEF Choice
    <2>2. \E d : <<d, c>> \in Heads
        BY DEF Sops, Heads
    <2> QED
        BY <2>1, <2>2
<1>2. ASSUME NEW c \in Sops, NEW e \in Sops, NEW d, <<d, c>> \in Heads, <<d, e>> \in Heads
      PROVE  c = e
    BY <1>2 DEF Sops, Heads
<1>3. ASSUME NEW c \in Sops, NEW e \in Sops, HeadOf[c] = HeadOf[e]
      PROVE  c = e
    <2>1. <<HeadOf[c], c>> \in Heads /\ <<HeadOf[c], e>> \in Heads
        BY <1>1, <1>3, HeadsAre
    <2> QED
        BY <1>2, <2>1
<1> QED
    BY <1>1, <1>3 DEF OneOfAHead

LEMMA PartOfAPlan ==
    ASSUME NEW plan, plan \subseteq Choice, OneOfAHead(plan), NEW part, part \subseteq plan
    PROVE  part \subseteq Choice /\ OneOfAHead(part)
    BY DEF OneOfAHead

\* What is asked for and what is carried out of it, whoever decides.
LEMMA ResolvedIs ==
    ASSUME NEW plan, NEW abstained, NEW trouble
    PROVE  /\ resolveCoreRuntimePlan(plan, abstained, trouble) \subseteq plan
           /\ resolveCoreRuntimePlan(plan, abstained, trouble) \cap Closed(trouble) = {}
           /\ resolveCoreRuntimePlan(plan, abstained, trouble)
                \in {HoldCorePlan, Confident(plan, abstained)}
           /\ \A c \in resolveCoreRuntimePlan(plan, abstained, trouble) : HeadOf[c] \notin abstained
           /\ Unclamped(resolveCoreRuntimePlan(plan, abstained, trouble)).defer
                + Unclamped(resolveCoreRuntimePlan(plan, abstained, trouble)).divert <= 15
<1>1. PICK p : p = resolveCoreRuntimePlan(plan, abstained, trouble)
    OBVIOUS
<1>2. CASE Checks(Confident(plan, abstained), trouble)
    <2>1. p = Confident(plan, abstained) /\ p = Project(p, trouble)
        BY <1>1, <1>2 DEF resolveCoreRuntimePlan, Checks
    <2>2. p \subseteq plan /\ p \cap Closed(trouble) = {} /\ \A c \in p : HeadOf[c] \notin abstained
        BY <2>1 DEF Confident, Project
    <2>3. corePlanEffect(p).defer + corePlanEffect(p).divert <= 15
        BY <1>2, <2>1 DEF Checks
    <2>4. PICK all : all = Unclamped(p) /\ IsSum(20, all)
        BY UnclampedIs
    <2>5. /\ corePlanEffect(p).defer = Between(0, all.defer, 20)
          /\ corePlanEffect(p).divert = Between(0, all.divert, 10)
        BY <2>4 DEF corePlanEffect
    <2>6. all.defer + all.divert <= 15
        BY <2>3, <2>4, <2>5 DEF Between, IsSum
    <2> QED
        BY <1>1, <2>1, <2>2, <2>4, <2>6
<1>3. CASE ~ Checks(Confident(plan, abstained), trouble)
    <2>1. p = HoldCorePlan
        BY <1>1, <1>3 DEF resolveCoreRuntimePlan
    <2>2. PICK all : all = Unclamped(p) /\ IsSum(20, all) /\ all.defer = 0
        BY <2>1, UnclampedIs
    <2>3. all.defer + all.divert <= 15
        BY <2>2 DEF IsSum
    <2> QED
        BY <1>1, <2>1, <2>2, <2>3 DEF HoldCorePlan
<1> QED
    BY <1>2, <1>3

----------------------------------------------------------------------------
(* PlanInv: what every step of a decision keeps.                           *)

IsCorePlan(p) == p \subseteq Choice /\ OneOfAHead(p)

PlanInv ==
    /\ situation \in [trouble : SUBSET Trouble, called : SUBSET Domain]
    /\ asked.abstained \subseteq Domain /\ IsCorePlan(asked.plan) /\ IsCorePlan(decision.plan)
    /\ decision.by \in {"nobody", "serving", "replay", "fitted replay", "procedure"}
    /\ decision.ended \in {"open", "decided", "applied"}
    /\ decision = [by |-> decision.by, plan |-> decision.plan, shown |-> decision.shown,
                   ended |-> decision.ended]
    /\ InterlocksHold /\ NothingHalf

LEMMA HoldIsAPlan == IsCorePlan(HoldCorePlan)
    BY DEF IsCorePlan, OneOfAHead, HoldCorePlan

LEMMA DecidedKeeps ==
    ASSUME PlanInv, NEW by \in {"serving", "replay", "fitted replay", "procedure"},
           NEW plan, IsCorePlan(plan), NEW abstained, abstained \subseteq Domain,
           NEW executed, executed \subseteq plan, executed \cap Closed(situation.trouble) = {},
           by \in {"serving", "fitted replay"} =>
               executed = resolveCoreRuntimePlan(plan, abstained, situation.trouble),
           Decided(by, plan, abstained, executed)
    PROVE  PlanInv'
<1>1. PICK p, b, a : p = asked'.plan /\ b = asked'.abstained /\ a = decision'
    OBVIOUS
<1>2. p = plan /\ b = abstained
    BY <1>1 DEF Decided
<1>3. /\ a = [by |-> by, plan |-> executed, shown |-> PrimaryAction(executed), ended |-> "decided"]
      /\ situation' = situation
    BY <1>1 DEF Decided
<1>4. a.by = by /\ a.plan = executed /\ a.ended = "decided"
      /\ a = [by |-> a.by, plan |-> a.plan, shown |-> a.shown, ended |-> a.ended]
    BY <1>3
<1>5. IsCorePlan(executed)
    BY PartOfAPlan DEF IsCorePlan
<1>6. InterlocksHold'
    BY <1>1, <1>3, <1>4 DEF InterlocksHold, Closed
<1>7. NothingHalf'
    <2>1. SUFFICES ASSUME by \in {"serving", "fitted replay"}
                   PROVE  /\ executed \in {HoldCorePlan, Confident(plan, abstained)}
                          /\ \A c \in executed : HeadOf[c] \notin abstained
                          /\ Unclamped(executed).defer + Unclamped(executed).divert <= 15
        BY <1>1, <1>2, <1>4 DEF NothingHalf
    <2> QED
        BY <2>1, ResolvedIs
<1> QED
    BY <1>1, <1>2, <1>3, <1>4, <1>5, <1>6, <1>7 DEF PlanInv

LEMMA UndecidedKeeps ==
    ASSUME situation \in [trouble : SUBSET Trouble, called : SUBSET Domain],
           asked = [plan |-> HoldCorePlan, abstained |-> {}], decision = Undecided
    PROVE  PlanInv
<1>1. decision.by = "nobody" /\ decision.plan = HoldCorePlan /\ decision.ended = "open"
      /\ decision.shown = "hold-plan"
    BY DEF Undecided
<1>2. asked.plan = HoldCorePlan /\ asked.abstained = {}
    OBVIOUS
<1>3. InterlocksHold /\ NothingHalf
    BY <1>1 DEF InterlocksHold, NothingHalf, HoldCorePlan
<1> QED
    BY <1>1, <1>2, <1>3, HoldIsAPlan DEF PlanInv, Undecided

LEMMA AskedIs ==
    ASSUME NEW plan, plan \in Askable(situation) \/ plan \in SopPlans(situation.trouble)
    PROVE  IsCorePlan(plan)
<1>1. CASE plan \in Askable(situation)
    BY <1>1 DEF Askable, IsCorePlan
<1>2. CASE plan \in SopPlans(situation.trouble)
    <2>1. plan \subseteq Sops
        BY <1>2 DEF SopPlans, Sops
    <2> QED
        BY <2>1, SopsAre, PartOfAPlan DEF IsCorePlan
<1> QED
    BY <1>1, <1>2

LEMMA ExecuteKeeps == ASSUME PlanInv, ExecutePlan PROVE PlanInv'
<1>1. decision' = [decision EXCEPT !.ended = "applied"] /\ situation' = situation /\ asked' = asked
    BY EveryPlanFits DEF ExecutePlan
<1>2. PICK a : a = decision'
    OBVIOUS
<1>3. a = [by |-> decision.by, plan |-> decision.plan, shown |-> decision.shown,
           ended |-> "applied"]
    BY <1>1, <1>2 DEF PlanInv
<1>4. a.by = decision.by /\ a.plan = decision.plan /\ a.shown = decision.shown /\ a.ended = "applied"
    BY <1>3
<1>5. InterlocksHold' /\ NothingHalf'
    BY <1>1, <1>2, <1>4 DEF PlanInv, InterlocksHold, NothingHalf, Closed
<1> QED
    BY <1>1, <1>2, <1>3, <1>4, <1>5 DEF PlanInv

\* Every reachable state of a decision satisfies PlanInv.
THEOREM PlanInvariance == PlanSpec => []PlanInv
<1>1. PlanInit => PlanInv
    BY PlanAssumption, UndecidedKeeps DEF PlanInit, PlanAssumption
<1>2. PlanInv /\ [PlanNext]_planVars => PlanInv'
    <2> SUFFICES ASSUME PlanInv, [PlanNext]_planVars
                 PROVE  PlanInv'
        OBVIOUS
    <2>1. ASSUME NEW plan \in Askable(situation), NEW abstained \in Abstentions,
                 Serve(plan, abstained) \/ Replay(plan, abstained)
          PROVE  PlanInv'
        <3>1. IsCorePlan(plan) /\ abstained \subseteq Domain
            BY <2>1, AskedIs, PlanAssumption DEF PlanAssumption
        <3>2. PICK trouble : trouble = situation.trouble
            OBVIOUS
        <3>3. PICK served : served = resolveCoreRuntimePlan(plan, abstained, trouble)
            OBVIOUS
        <3>4. served \subseteq plan /\ served \cap Closed(trouble) = {}
            BY <3>3, ResolvedIs
        <3>5. CASE Decided("serving", plan, abstained, served)
            BY <3>1, <3>2, <3>3, <3>4, <3>5, DecidedKeeps
        <3>6. CASE Decided("fitted replay", plan, abstained, served)
            BY <3>1, <3>2, <3>3, <3>4, <3>6, DecidedKeeps
        <3>7. CASE Decided("replay", plan, abstained, Project(plan, trouble))
            <4>1. Project(plan, trouble) \subseteq plan /\ Project(plan, trouble) \cap Closed(trouble) = {}
                BY DEF Project
            <4> QED
                BY <3>1, <3>2, <3>7, <4>1, DecidedKeeps
        <3> QED
            BY <2>1, <3>2, <3>3, <3>5, <3>6, <3>7 DEF Serve, Replay
    <2>2. ASSUME NEW plan \in SopPlans(situation.trouble), ReplaySop(plan)
          PROVE  PlanInv'
        <3>1. IsCorePlan(plan)
            BY <2>2, AskedIs
        <3>2. /\ Project(plan, situation.trouble) \subseteq plan
              /\ Project(plan, situation.trouble) \cap Closed(situation.trouble) = {}
            BY DEF Project
        <3> QED
            BY <2>2, <3>1, <3>2, DecidedKeeps DEF ReplaySop
    <2>3. CASE ExecutePlan
        BY <2>3, ExecuteKeeps
    <2>4. ASSUME NEW s \in Situations, Observe(s)
          PROVE  PlanInv'
        <3>1. /\ situation' = s /\ decision' = Undecided
              /\ asked' = [plan |-> HoldCorePlan, abstained |-> {}]
            BY <2>4 DEF Observe
        <3>2. s \in [trouble : SUBSET Trouble, called : SUBSET Domain]
            BY PlanAssumption DEF PlanAssumption
        <3>3. /\ situation' \in [trouble : SUBSET Trouble, called : SUBSET Domain]
              /\ Undecided' = Undecided
            BY <3>1, <3>2 DEF Undecided
        <3>4. PICK d : d = decision'
            OBVIOUS
        <3>5. d.by = "nobody" /\ d.plan = HoldCorePlan /\ d.ended = "open" /\ d.shown = "hold-plan"
              /\ d = [by |-> d.by, plan |-> d.plan, shown |-> d.shown, ended |-> d.ended]
            BY <3>1, <3>4 DEF Undecided
        <3>6. InterlocksHold' /\ NothingHalf'
            BY <3>4, <3>5 DEF InterlocksHold, NothingHalf, HoldCorePlan
        <3>7. asked'.plan = HoldCorePlan /\ asked'.abstained = {}
            BY <3>1
        <3> QED
            BY <3>2, <3>1, <3>4, <3>5, <3>6, <3>7, HoldIsAPlan DEF PlanInv
    <2>5. CASE UNCHANGED planVars
        BY <2>5 DEF planVars, PlanInv, InterlocksHold, NothingHalf
    <2> QED
        BY <2>1, <2>2, <2>3, <2>4, <2>5 DEF PlanNext
<1> QED
    BY <1>1, <1>2, PTL DEF PlanSpec

LEMMA PlanInvIsSafe == PlanInv => PlansAreSafe
    BY DEF PlanInv, PlansAreSafe, PlanTypeOK, IsCorePlan, ApprovedFits

\* Interlocks, gates and envelope agree, whatever the heads ask for and whoever decides: no
\* choice is carried out whose interlock is closed, what is served is the whole of what the
\* agreeing heads asked for or nothing and holds back at most 1.5 percent of the traffic,
\* and the control of an approved plan is never outside of what the simulator accepts.
THEOREM PlansStaySafe == PlanSpec => []PlansAreSafe
    BY PlanInvariance, PlanInvIsSafe, PTL
=================================================================================
