---------------------------- MODULE LearnerEvidence ----------------------------
(***************************************************************************)
(* The evidence both kinds of learner publish: the champion of a ladder    *)
(* of attempts (ChampionSelection) and a fitted candidate                  *)
(* (FittedCandidate).  They share no state.                                *)
(***************************************************************************)
EXTENDS ChampionSelection, FittedCandidate

\* An admitted champion is the foremost of the last attempt that qualified and its report
\* the last of its files; a candidate's test is opened once, for what was frozen.
EvidenceIsEarned == ChampionIsEarned /\ CandidateIsSealed
=============================================================================
