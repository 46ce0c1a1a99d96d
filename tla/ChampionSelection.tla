--------------------------- MODULE ChampionSelection ---------------------------
(***************************************************************************)
(* How a champion comes about (server/coreOperationsRlEngine.ts,           *)
(* trainCoreOperationsChampion, and server/portBusinessRlEngine.ts,        *)
(* trainPortBusinessChampion, run by scripts/rl/run...Champion.ts): a      *)
(* ladder of attempts, in each every candidate trained for every seed, the *)
(* best one judged by the gate on the validation records, the last         *)
(* qualified attempt taken, the test opened for it, and the evidence       *)
(* written.  The script may die between two writes and the sources may be  *)
(* edited at any time; verify...Champion.ts says what is still to be       *)
(* believed.  Policies are known by their attempt and their candidate      *)
(* (training is deterministic); a gate is the set of checks it failed.     *)
(***************************************************************************)
EXTENDS Integers, Sequences

CONSTANTS
    ChampionAlgorithms, \* algorithms, in their order: a number
    Configurations,     \* configurations of an algorithm: a number
    Ladder,             \* attempts: a number
    Scores,             \* validation scores the candidates of an attempt may get
    Check,              \* checks of a gate
    MaxRuns,            \* bound: runs of the script
    MaxSourceEdits      \* bound: edits of the sources

ASSUME ChampionAssumption ==
    /\ {ChampionAlgorithms, Configurations, Ladder} \subseteq Nat \ {0}
    /\ Scores \subseteq [1 .. ChampionAlgorithms * Configurations -> Int]
    /\ {MaxRuns, MaxSourceEdits} \subseteq Nat

VARIABLES
    learner,   \* whose script it is, "core" or "business"
    sources,   \* version of the source files
    script,    \* the running script, or NoScript
    evidence,  \* what the files under .runtime and reports hold
    runs       \* scripts started

championVars == <<learner, sources, script, evidence, runs>>

----------------------------------------------------------------------------
Candidates == 1 .. ChampionAlgorithms * Configurations
AlgorithmOf(c) == (c - 1) \div Configurations + 1

NoScript == [stage |-> "none"]
NoReport == [run |-> 0]

StartedScript ==
    [stage |-> "training", run |-> runs + 1, source |-> sources, attempts |-> << >>,
     taken |-> 0, policies |-> << >>, final |-> {}]

\* Sorted by falling score, equal ones in their order: the first best of some candidates.
Foremost(scores, among) ==
    CHOOSE c \in among :
        \A d \in among : scores[d] < scores[c] \/ (scores[d] = scores[c] /\ c <= d)

\* The core engine sorts all candidates; the business engine the winners of each algorithm.
Winner(scores) ==
    IF learner = "core" THEN Foremost(scores, Candidates)
    ELSE Foremost(scores, {Foremost(scores, {c \in Candidates : AlgorithmOf(c) = a})
                           : a \in 1 .. ChampionAlgorithms})

Qualified(attempt) == attempt.failed = {}

----------------------------------------------------------------------------
ChampionInit ==
    /\ learner \in {"core", "business"}
    /\ sources = 1 /\ script = NoScript /\ runs = 0
    /\ evidence = [dataset |-> 0, attempts |-> 0, policies |-> 0, report |-> NoReport]

EditSources ==
    /\ sources <= MaxSourceEdits
    /\ sources' = sources + 1
    /\ UNCHANGED <<learner, script, evidence, runs>>

\* The fingerprint of the sources is taken first.
StartScript ==
    /\ script = NoScript /\ runs < MaxRuns
    /\ script' = StartedScript
    /\ runs' = runs + 1
    /\ UNCHANGED <<learner, sources, evidence>>

\* One attempt of the ladder: every candidate is trained and scored on the validation
\* records, the winner is judged, and if it qualifies it takes an earlier one's place.
Attempt(scores, failed) ==
    /\ script.stage = "training" /\ Len(script.attempts) < Ladder
    /\ LET k == Len(script.attempts) + 1
           attempt == [scores |-> scores, winner |-> Winner(scores), failed |-> failed]
       IN  script' = [script EXCEPT
             !.attempts = Append(@, attempt),
             !.taken = IF Qualified(attempt) THEN k ELSE @,
             !.policies = IF Qualified(attempt) THEN <<k, attempt.winner>> ELSE @]
    /\ UNCHANGED <<learner, sources, evidence, runs>>

\* No attempt qualified: the winner of the last one is trained again and goes to the test.
TakeLast ==
    /\ script.stage = "training" /\ Len(script.attempts) = Ladder /\ script.taken = 0
    /\ script' = [script EXCEPT !.taken = Ladder,
                                !.policies = <<Ladder, script.attempts[Ladder].winner>>]
    /\ UNCHANGED <<learner, sources, evidence, runs>>

\* The test records are read, and the gate is asked once more.
OpenTest(failed) ==
    /\ script.stage = "training" /\ Len(script.attempts) = Ladder /\ script.taken # 0
    /\ script' = [script EXCEPT !.stage = IF learner = "core" THEN "attempts" ELSE "dataset",
                                !.final = failed]
    /\ UNCHANGED <<learner, sources, evidence, runs>>

Admitted(s) == Qualified(s.attempts[s.taken]) /\ s.final = {}

Report(s) ==
    [run |-> s.run, source |-> s.source, attempts |-> s.attempts, taken |-> s.taken,
     policies |-> s.policies, final |-> s.final, admitted |-> Admitted(s)]

\* The files, each replaced by a rename: the dataset (business only), the attempts, the
\* policies of the seeds one after the other, the report, which is written whatever was
\* decided.
WriteEvidence ==
    LET file == script.stage IN
    /\ file \in {"dataset", "attempts", "policies", "report"}
    /\ evidence' = [evidence EXCEPT ![file] =
                      IF file = "report" THEN Report(script) ELSE script.run]
    /\ script' = IF file = "report" THEN NoScript
                 ELSE [script EXCEPT !.stage =
                          CASE file = "dataset" -> "attempts"
                            [] file = "attempts" -> "policies"
                            [] OTHER -> "report"]
    /\ UNCHANGED <<learner, sources, runs>>

Die ==
    /\ script # NoScript
    /\ script' = NoScript
    /\ UNCHANGED <<learner, sources, evidence, runs>>

ChampionNext ==
    \/ EditSources \/ StartScript \/ TakeLast \/ WriteEvidence \/ Die
    \/ \E failed \in SUBSET Check :
        \/ OpenTest(failed)
        \/ \E scores \in Scores : Attempt(scores, failed)

ChampionSpec == ChampionInit /\ [][ChampionNext]_championVars

----------------------------------------------------------------------------
\* verifyCoreOperationsChampion.ts, verifyPortBusinessChampion.ts: the sources are those
\* of the report and both gates passed; the business champion comes from the last of
\* only qualified attempts, and its dataset, where there is one, is the report's.
Verifies ==
    LET r == evidence.report IN
    /\ r # NoReport
    /\ r.source = sources
    /\ r.admitted /\ Qualified(r.attempts[r.taken]) /\ r.final = {}
    /\ learner = "business" =>
        /\ \A k \in DOMAIN r.attempts : Qualified(r.attempts[k])
        /\ r.taken = Ladder
        /\ evidence.dataset \in {0, r.run}

----------------------------------------------------------------------------
ChampionTypeOK ==
    /\ sources \in 1 .. MaxSourceEdits + 1 /\ runs \in 0 .. MaxRuns
    /\ script # NoScript =>
        /\ script.stage \in {"training", "dataset", "attempts", "policies", "report"}
        /\ script.taken \in 0 .. Ladder /\ Len(script.attempts) \in 0 .. Ladder
    /\ \A file \in {"dataset", "attempts", "policies"} : evidence[file] \in 0 .. runs

\* What an admitted report says: its policies are the best candidate of the last attempt
\* that qualified, whichever way the engine sorted, and no attempt that failed its gate
\* is passed off as the champion's.
AdmittedIsEarned ==
    LET r == evidence.report IN
    r # NoReport /\ r.admitted =>
        /\ Qualified(r.attempts[r.taken])
        /\ \A k \in r.taken + 1 .. Ladder : ~Qualified(r.attempts[k])
        /\ r.policies = <<r.taken, Foremost(r.attempts[r.taken].scores, Candidates)>>

\* The evidence is published last: beside a report, all
\* files are the report's or those of a later script that died, and the dataset beside a
\* report that still verifies is its own.
ReportComesLast ==
    LET r == evidence.report IN
    /\ \A file \in {"attempts", "policies"} : evidence[file] >= r.run
    /\ Verifies /\ learner = "business" => evidence.dataset = r.run

\* A champion is what won, and its evidence what was computed.
ChampionIsEarned == ChampionTypeOK /\ AdmittedIsEarned /\ ReportComesLast
=============================================================================
