---------------------------- MODULE FittedCandidate ----------------------------
(***************************************************************************)
(* A candidate of the fitted learner, from its training to the evidence    *)
(* an activation needs (scripts/rl/trainCoreFittedCandidate.ts,            *)
(* trainCoreFittedSeed.ts, evaluateCoreFittedValidation.ts,                *)
(* finalizeCoreFittedCandidate.ts, buildCoreFittedEvidence.ts).  The       *)
(* scripts share nothing but the files of one run directory; they are      *)
(* started by hand, in any order, twice or at once, may die between two    *)
(* writes, and the sources and the dataset may change under them.  What a  *)
(* script reads before its first write is one step.  A seed's policy is    *)
(* known by what it was trained with.                                      *)
(***************************************************************************)
EXTENDS Integers, FiniteSets, Sequences

CONSTANTS
    NoFile,    \* a file that does not exist
    Seeds,     \* configuration.seeds
    Unstable,  \* versions of the training source whose policies do not converge
    Process,   \* scripts that can be running at once
    MaxEdits   \* bound: changes of the sources and the dataset

Source == {"training", "evaluation", "dataset"}

\* What the files hold: a version of each source, the policies of all seeds.
World == [Source -> 0 .. MaxEdits]
Policies == [Seeds -> World]
Protocol == [training : 0 .. MaxEdits, dataset : 0 .. MaxEdits]
CodeVersions == [training : 0 .. MaxEdits, evaluation : 0 .. MaxEdits]
Robust == [seeds : Policies, passed : BOOLEAN]
Lock == [policies : Policies, sources : CodeVersions, dataset : 0 .. MaxEdits]
Final == [policies : Policies, passed : BOOLEAN]

ASSUME FittedAssumption ==
    /\ Seeds # {} /\ IsFiniteSet(Seeds) /\ MaxEdits \in Nat
    /\ NoFile \notin World /\ NoFile \notin Robust /\ NoFile \notin Lock /\ NoFile \notin Final

VARIABLES
    world,     \* versions of the training source, the evaluation's, the dataset
    directory, \* the files of the run directory
    published, \* the artifacts and the report of a version, or Absent
    scripts,   \* what each process is doing
    opened     \* the policies the test records were read for, once for each time

fittedVars == <<world, directory, published, scripts, opened>>

----------------------------------------------------------------------------
Ready == [script |-> "none"]
FittedInit ==
    /\ world = [s \in Source |-> 0]
    /\ directory = [protocol |-> NoFile, seeds |-> [s \in Seeds |-> NoFile],
                    validation |-> NoFile, robust |-> NoFile, lock |-> NoFile,
                    final |-> NoFile]
    /\ published = [artifacts |-> NoFile, report |-> NoFile]
    /\ scripts = [p \in Process |-> Ready]
    /\ opened = << >>

Edits == world["training"] + world["evaluation"] + world["dataset"]

\* Somebody edits a source or replaces the dataset.
Edit(s) ==
    /\ Edits < MaxEdits
    /\ world' = [world EXCEPT ![s] = @ + 1]
    /\ UNCHANGED <<directory, published, scripts, opened>>

Run(p, job) == scripts' = [scripts EXCEPT ![p] = job]
Write(file, content) == directory' = [directory EXCEPT ![file] = content]

\* trainFittedCorePolicy is deterministic: what it returns, and whether its last
\* iterations are stable, follow from the sources and the dataset it was loaded with.
Trained(w) == w
Converged(seeds) == \A s \in Seeds : seeds[s]["training"] \notin Unstable
Complete(seeds) == \A s \in Seeds : seeds[s] # NoFile

----------------------------------------------------------------------------
\* trainCoreFittedCandidate.ts: the directory must be new; with --prepare-only it ends
\* when the protocol is written.
StartCandidate(p, prepareOnly) ==
    /\ scripts[p] = Ready /\ directory.protocol = NoFile
    /\ Write("protocol", [training |-> world["training"], dataset |-> world["dataset"]])
    /\ IF prepareOnly THEN UNCHANGED scripts
       ELSE Run(p, [script |-> "candidate", loaded |-> world, done |-> {}])
    /\ UNCHANGED <<world, published, opened>>

\* It writes the seeds one by one, over what is there, and goes on with the validation.
CandidateSeed(p, s) ==
    /\ scripts[p].script = "candidate" /\ s \in Seeds \ scripts[p].done
    /\ directory' = [directory EXCEPT !.seeds[s] = Trained(scripts[p].loaded)]
    /\ Run(p, [scripts[p] EXCEPT !.done = @ \cup {s}])
    /\ UNCHANGED <<world, published, opened>>

\* trainCoreFittedSeed.ts: another process trains one seed of a prepared directory, if
\* the training source and the dataset are still those of the protocol ...
StartSeed(p, s) ==
    /\ scripts[p] = Ready /\ directory.protocol # NoFile
    /\ directory.protocol = [training |-> world["training"], dataset |-> world["dataset"]]
    /\ Run(p, [script |-> "seed", seed |-> s, loaded |-> world])
    /\ UNCHANGED <<world, directory, published, opened>>

\* ... and writes it, unless it has been written.
EndSeed(p) ==
    /\ scripts[p].script = "seed"
    /\ IF directory.seeds[scripts[p].seed] = NoFile
       THEN directory' = [directory EXCEPT
                            !.seeds[scripts[p].seed] = Trained(scripts[p].loaded)]
       ELSE UNCHANGED directory
    /\ Run(p, Ready)
    /\ UNCHANGED <<world, published, opened>>

----------------------------------------------------------------------------
\* evaluateCoreFittedValidation.ts, imported by the candidate or started alone: reads the
\* seeds, writes validation.json, which must not exist, then robust-validation.json.
StartValidation(p) ==
    /\ \/ scripts[p] = Ready
       \/ scripts[p].script = "candidate" /\ scripts[p].done = Seeds
    /\ directory.protocol # NoFile /\ Complete(directory.seeds)
    /\ world["dataset"] = directory.protocol.dataset
    /\ Run(p, [script |-> "validation", seeds |-> directory.seeds])
    /\ UNCHANGED <<world, directory, published, opened>>

WriteValidation(p) ==
    /\ scripts[p].script = "validation"
    /\ IF directory.validation = NoFile
       THEN Write("validation", scripts[p].seeds) /\ Run(p, [scripts[p] EXCEPT
                                                               !.script = "robust"])
       ELSE UNCHANGED directory /\ Run(p, Ready)
    /\ UNCHANGED <<world, published, opened>>

WriteRobust(p, passed) ==
    /\ scripts[p].script = "robust"
    /\ IF directory.robust = NoFile
       THEN Write("robust", [seeds |-> scripts[p].seeds, passed |-> passed])
       ELSE UNCHANGED directory
    /\ Run(p, Ready)
    /\ UNCHANGED <<world, published, opened>>

----------------------------------------------------------------------------
SourcesNow == [training |-> world["training"], evaluation |-> world["evaluation"]]

\* finalizeCoreFittedCandidate.ts: reads the validation and the seeds, and refuses those
\* that did not pass; the lock, which must not exist, is written before the test is read.
StartFinal(p) ==
    /\ scripts[p] = Ready /\ directory.protocol # NoFile
    /\ directory.robust # NoFile /\ directory.robust.passed
    /\ Complete(directory.seeds) /\ Converged(directory.seeds)
    /\ Run(p, [script |-> "final", policies |-> directory.seeds,
               sources |-> SourcesNow])
    /\ UNCHANGED <<world, directory, published, opened>>

\* Mutation: the lock may exist already.
LockOver(p) ==
    /\ scripts[p].script = "final"
    /\ Write("lock", [policies |-> scripts[p].policies, sources |-> scripts[p].sources,
                      dataset |-> directory.protocol.dataset])
    /\ Run(p, [scripts[p] EXCEPT !.script = "locked"])
    /\ UNCHANGED <<world, published, opened>>

WriteLock(p) ==
    /\ scripts[p].script = "final"
    /\ IF directory.lock = NoFile
       THEN /\ Write("lock", [policies |-> scripts[p].policies,
                              sources |-> scripts[p].sources,
                              dataset |-> directory.protocol.dataset])
            /\ Run(p, [scripts[p] EXCEPT !.script = "locked"])
       ELSE UNCHANGED directory /\ Run(p, Ready)
    /\ UNCHANGED <<world, published, opened>>

\* The test is read if the dataset is still the protocol's.
OpenTestRecords(p) ==
    /\ scripts[p].script = "locked"
    /\ IF world["dataset"] = directory.protocol.dataset
       THEN opened' = Append(opened, scripts[p].policies)
            /\ Run(p, [scripts[p] EXCEPT !.script = "tested"])
       ELSE UNCHANGED opened /\ Run(p, Ready)
    /\ UNCHANGED <<world, directory, published>>

WriteFinal(p, passed) ==
    /\ scripts[p].script = "tested"
    /\ IF directory.final = NoFile
       THEN Write("final", [policies |-> scripts[p].policies, passed |-> passed])
       ELSE UNCHANGED directory
    /\ Run(p, Ready)
    /\ UNCHANGED <<world, published, opened>>

----------------------------------------------------------------------------
\* buildCoreFittedEvidence.ts: the lock's sources, policies and dataset must be those that
\* are there, and everything must have passed ...
StartEvidence(p) ==
    /\ scripts[p] = Ready
    /\ NoFile \notin {directory.protocol, directory.robust, directory.final, directory.lock}
    /\ Complete(directory.seeds)
    /\ directory.lock.sources = SourcesNow
    /\ directory.lock.policies = directory.seeds
    /\ directory.robust.passed /\ directory.final.passed /\ Converged(directory.seeds)
    /\ world["dataset"] = directory.lock.dataset
    /\ Run(p, [script |-> "evidence", policies |-> directory.seeds, sources |-> SourcesNow])
    /\ UNCHANGED <<world, directory, published, opened>>

\* ... then the files are copied, unless others are there, and the report is written.
CopyArtifacts(p) ==
    /\ scripts[p].script = "evidence"
    /\ IF published.artifacts \in {NoFile, directory.seeds}
       THEN /\ published' = [published EXCEPT !.artifacts = directory.seeds]
            /\ Run(p, [scripts[p] EXCEPT !.script = "copied"])
       ELSE UNCHANGED published /\ Run(p, Ready)
    /\ UNCHANGED <<world, directory, opened>>

WriteReport(p) ==
    /\ scripts[p].script = "copied"
    /\ published' = [published EXCEPT !.report = [policies |-> scripts[p].policies,
                                                  sources |-> scripts[p].sources]]
    /\ Run(p, Ready)
    /\ UNCHANGED <<world, directory, opened>>

Killed(p) ==
    /\ scripts[p] # Ready
    /\ Run(p, Ready)
    /\ UNCHANGED <<world, directory, published, opened>>

FittedNext ==
    \/ \E s \in Source : Edit(s)
    \/ \E p \in Process :
        \/ \E prepareOnly \in BOOLEAN : StartCandidate(p, prepareOnly)
        \/ \E s \in Seeds : CandidateSeed(p, s) \/ StartSeed(p, s)
        \/ EndSeed(p) \/ StartValidation(p) \/ WriteValidation(p)
        \/ \E passed \in BOOLEAN : WriteRobust(p, passed) \/ WriteFinal(p, passed)
        \/ StartFinal(p) \/ WriteLock(p) \/ OpenTestRecords(p)
        \/ StartEvidence(p) \/ CopyArtifacts(p) \/ WriteReport(p) \/ Killed(p)

FittedSpec == FittedInit /\ [][FittedNext]_fittedVars

----------------------------------------------------------------------------
FittedTypeOK ==
    /\ world \in World
    /\ directory \in [protocol : Protocol \cup {NoFile}, seeds : [Seeds -> World \cup {NoFile}],
                      validation : Policies \cup {NoFile}, robust : Robust \cup {NoFile},
                      lock : Lock \cup {NoFile}, final : Final \cup {NoFile}]
    /\ \A p \in Process : scripts[p].script \in
          {"none", "candidate", "seed", "validation", "robust", "final", "locked", "tested",
           "evidence", "copied"}

\* "one final historical regression evaluation" (finalizeCoreFittedCandidate.ts:15): the
\* test records are read once for a run directory, however many processes try and
\* whichever die, for policies frozen by a lock after they passed the validation.
TestedOnce ==
    /\ Len(opened) <= 1
    /\ opened # << >> =>
        /\ directory.lock # NoFile /\ directory.lock.policies = opened[1]
        /\ directory.robust # NoFile /\ directory.robust.passed
        /\ Converged(opened[1])

\* A report is about the policies the lock froze and the test was read for, which passed,
\* and names the sources the lock names.
ReportIsOfTheLocked ==
    published.report # NoFile =>
        /\ published.report.policies = directory.lock.policies
        /\ published.report.policies = opened[1]
        /\ published.report.sources = directory.lock.sources
        /\ directory.final.policies = opened[1] /\ directory.final.passed

\* With the sources left alone the tested policies are the validated ones, even where
\* several processes wrote the seeds.  (They need not be after an edit: the validation
\* keeps no digest of its policies, and a candidate overwrites seeds.)
ValidatedIsTested == opened # << >> /\ Edits = 0 => opened[1] = directory.robust.seeds

\* A candidate's test is opened once, for what was frozen, and only that is published.
CandidateIsSealed ==
    FittedTypeOK /\ TestedOnce /\ ReportIsOfTheLocked /\ ValidatedIsTested
=============================================================================
