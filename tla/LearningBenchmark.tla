--------------------------- MODULE LearningBenchmark ---------------------------
(***************************************************************************)
(* What a training job computes (server/rlTrainingEngine.ts,               *)
(* trainRlBenchmark): every learner is trained once per candidate of its   *)
(* hyperparameters, the candidates are compared on the first part of the   *)
(* validation records, the learners on the second part, and the test       *)
(* records stay closed until a policy test asks for them.  The records are *)
(* the indexes 0 .. size-1 in the order of time; what a policy is, is left *)
(* out, and a score is any grade.                                          *)
(***************************************************************************)
EXTENDS Integers, Sequences, FiniteSets, DatasetSplits

CONSTANTS
    Learners,     \* RL_ALGORITHMS, in their order, 'mpc' the last of them: a number
    Trials,       \* tuningTrials, 1 to 5
    Episodes,     \* maxEpisodes
    ReportEvery,  \* a learner reports, and the event loop runs, every 8 episodes
    Size,         \* numbers of valid records of a dataset
    Grade         \* scores

ASSUME BenchmarkAssumption ==
    /\ Learners \in Nat /\ Learners > 1
    /\ {Trials, Episodes, ReportEvery} \subseteq Nat \ {0}
    /\ Size \subseteq Nat
    /\ Grade \subseteq Int

VARIABLES
    size,    \* records of the dataset the job loaded
    stage,   \* how far trainRlBenchmark has come
    turn,    \* index of the learner in training
    trial,   \* its candidate in training
    episode, \* episodes done of this trial
    tried,   \* tuning scores of each learner's trials so far
    kept,    \* the trial each learner keeps, 0 before the first
    graded,  \* selection scores so far, in the order of Learners
    best,    \* bestAlgorithmId
    halt,    \* what cancelled() returns
    reads    \* records read so far for each purpose

benchVars == <<size, stage, turn, trial, episode, tried, kept, graded, best, halt, reads>>

----------------------------------------------------------------------------
Rl == 1 .. Learners - 1
Purpose == {"fit", "tune", "select", "test"}

BenchInit ==
    /\ size = 0 /\ stage = "queued" /\ turn = 1 /\ trial = 1 /\ episode = 0
    /\ tried = [l \in Rl |-> << >>] /\ kept = [l \in Rl |-> 0]
    /\ graded = << >> /\ best = 0 /\ halt = FALSE
    /\ reads = [p \in Purpose |-> {}]

ReadFor(purpose, records) == reads' = [reads EXCEPT ![purpose] = @ \cup records]

\* loadPortTrainingDataset and the start of trainRlBenchmark.
LoadDataset(n) ==
    /\ stage = "queued"
    /\ size' = n
    /\ stage' = IF Acceptable(n) THEN "training" ELSE "failed"
    /\ UNCHANGED <<turn, trial, episode, tried, kept, graded, best, halt, reads>>

\* A cancellation, or the deadline of the job; the engine asks for it where it says so.
Halt ==
    /\ stage \in {"training", "calibrating", "calibrated", "selecting"} /\ ~halt
    /\ halt' = TRUE
    /\ UNCHANGED <<size, stage, turn, trial, episode, tried, kept, graded, best, reads>>

\* trainQPolicy up to its next report: each episode first asks whether to stop.
TrainSome ==
    /\ stage = "training" /\ episode < Episodes /\ ~halt
    /\ episode' = AtMost(Episodes, (episode \div ReportEvery + 1) * ReportEvery)
    /\ ReadFor("fit", TrainRecords(size))
    /\ UNCHANGED <<size, stage, turn, trial, tried, kept, graded, best, halt>>

Stopped ==
    /\ halt
    /\ \/ stage = "training" /\ episode < Episodes
       \/ stage = "selecting" /\ Len(graded) < Learners
    /\ stage' = "stopped"
    /\ UNCHANGED <<size, turn, trial, episode, tried, kept, graded, best, halt, reads>>

\* The policy is evaluated on the tuning records and kept if it scores more than the
\* one kept so far; an empty segment has no first record to start from and throws.
TuningFails ==
    /\ stage = "training" /\ episode = Episodes /\ TuningRecords(size) = {}
    /\ stage' = "failed"
    /\ UNCHANGED <<size, turn, trial, episode, tried, kept, graded, best, halt, reads>>

Better(l, score) == kept[l] = 0 \/ score > tried[l][kept[l]]

EndTrial(score) ==
    /\ stage = "training" /\ episode = Episodes /\ TuningRecords(size) # {}
    /\ ReadFor("tune", TuningRecords(size))
    /\ tried' = [tried EXCEPT ![turn] = Append(@, score)]
    /\ kept' = [kept EXCEPT ![turn] = IF Better(turn, score) THEN trial ELSE @]
    /\ IF trial < Trials
       THEN trial' = trial + 1 /\ episode' = 0 /\ UNCHANGED <<stage, turn>>
       ELSE IF turn + 1 \in Rl
       THEN trial' = 1 /\ episode' = 0 /\ turn' = turn + 1 /\ UNCHANGED stage
       ELSE stage' = "calibrating" /\ UNCHANGED <<turn, trial, episode>>
    /\ UNCHANGED <<size, graded, best, halt>>

\* calibrateMpc identifies its model on the training records; nothing asks for a stop.
Calibrate ==
    /\ stage = "calibrating"
    /\ stage' = "calibrated"
    /\ ReadFor("fit", TrainRecords(size))
    /\ UNCHANGED <<size, turn, trial, episode, tried, kept, graded, best, halt>>

\* The predictive controller is scored on the tuning records; the phase 'evaluating'.
BeginSelection ==
    /\ stage = "calibrated"
    /\ stage' = "selecting"
    /\ ReadFor("tune", TuningRecords(size))
    /\ UNCHANGED <<size, turn, trial, episode, tried, kept, graded, best, halt>>

\* The next learner's kept policy on the selection records, if no stop was asked for.
SelectNext(score) ==
    /\ stage = "selecting" /\ Len(graded) < Learners /\ ~halt
    /\ graded' = Append(graded, score)
    /\ ReadFor("select", SelectionRecords(size))
    /\ UNCHANGED <<size, stage, turn, trial, episode, tried, kept, best, halt>>

\* The results sorted by falling score, which keeps the order of equal ones; no stop
\* is asked for any more.
FirstBest(scores) ==
    CHOOSE i \in DOMAIN scores :
        /\ \A j \in DOMAIN scores : scores[j] <= scores[i]
        /\ \A j \in 1 .. i - 1 : scores[j] < scores[i]

Pack ==
    /\ stage = "selecting" /\ Len(graded) = Learners
    /\ stage' = "packed"
    /\ best' = FirstBest(graded)
    /\ UNCHANGED <<size, turn, trial, episode, tried, kept, graded, halt, reads>>

\* evaluateTrainedPolicy: a policy test replays the test records.
TestPolicy ==
    /\ stage = "packed" /\ reads["test"] = {}
    /\ ReadFor("test", TestRecords(size))
    /\ UNCHANGED <<size, stage, turn, trial, episode, tried, kept, graded, best, halt>>

BenchNext ==
    \/ \E n \in Size : LoadDataset(n)
    \/ Halt \/ TrainSome \/ Stopped \/ TuningFails
    \/ \E g \in Grade : EndTrial(g) \/ SelectNext(g)
    \/ Calibrate \/ BeginSelection \/ Pack \/ TestPolicy

BenchSpec == BenchInit /\ [][BenchNext]_benchVars

----------------------------------------------------------------------------
BenchTypeOK ==
    /\ size \in Size \cup {0}
    /\ stage \in {"queued", "training", "calibrating", "calibrated", "selecting", "packed",
                  "stopped", "failed"}
    /\ turn \in Rl /\ trial \in 1 .. Trials /\ episode \in 0 .. Episodes
    /\ \A l \in Rl : tried[l] \in Seq(Grade) /\ kept[l] \in 0 .. Len(tried[l])
    /\ graded \in Seq(Grade) /\ best \in 0 .. Learners /\ halt \in BOOLEAN
    /\ \A p \in Purpose : reads[p] \subseteq 0 .. size - 1

\* No record serves two purposes, and what is judged lies after what was learnt from:
\* nothing of the future leaks into the choice (portTrainingDataset.ts:227).
NothingLeaks ==
    LET inTime == <<"fit", "tune", "select", "test">> IN
    \A a, b \in 1 .. 4 : a < b =>
        \A i \in reads[inTime[a]], j \in reads[inTime[b]] : i < j

\* The test records are opened only when the choice stands.
TestIsSealed == reads["test"] # {} => stage = "packed"

\* Whatever was kept is the first of the best, and a choice is made between complete
\* learners only.
FirstOfTheBest(i, scores) ==
    /\ \A j \in DOMAIN scores : scores[j] <= scores[i]
    /\ \A j \in 1 .. i - 1 : scores[j] < scores[i]

KeptAreTheBest ==
    /\ \A l \in Rl : tried[l] # << >> => FirstOfTheBest(kept[l], tried[l])
    /\ stage = "packed" =>
        /\ FirstOfTheBest(best, graded)
        /\ \A l \in Rl : Len(tried[l]) = Trials

\* A benchmark chooses fairly: each purpose on records of its own, in the order of
\* time, and the best of all that was tried.
BenchmarkIsSound == BenchTypeOK /\ NothingLeaks /\ TestIsSealed /\ KeptAreTheBest
=============================================================================
