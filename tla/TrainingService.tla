--------------------------- MODULE TrainingService ---------------------------
(***************************************************************************)
(* What the training job queue promises its clients: a job that was        *)
(* accepted is live until it has one outcome; a completed one outlives the *)
(* server, any other is forgotten by a restart; and a cancelled one may    *)
(* still be entered by the callback that was already scheduled.            *)
(* RlTrainingJobs implements it, RlTrainingPage is its client.             *)
(***************************************************************************)
CONSTANT Job

VARIABLE job

Outcome == {"completed", "failed", "cancelled"}
JobState == {"absent", "live", "lost"} \cup Outcome

ServiceInit == job = [j \in Job |-> "absent"]

Becomes(j, from, to) == job[j] = from /\ job' = [job EXCEPT ![j] = to]

\* createRlTrainingJob
AcceptJob(j) == Becomes(j, "absent", "live")

\* runJob ends, or cancelRlTrainingJob finds the job queued.
EndJob(j, outcome) == Becomes(j, "live", outcome)

\* runJob is entered by its scheduled callback after the cancellation.
ReenterJob(j) == Becomes(j, "cancelled", "live")

\* ensureRlTrainingJobsRestored after a restart: a live job is restored when its
\* checkpoint had been renamed.
RestartService ==
    job' \in {w \in [Job -> {"absent", "completed", "lost"}] :
        \A j \in Job :
            \/ job[j] \in {"absent", "completed"} /\ w[j] = job[j]
            \/ job[j] \in {"failed", "cancelled", "lost"} /\ w[j] = "lost"
            \/ job[j] = "live" /\ w[j] \in {"completed", "lost"}}

ServiceNext ==
    \/ \E j \in Job :
        AcceptJob(j) \/ ReenterJob(j) \/ \E outcome \in Outcome : EndJob(j, outcome)
    \/ RestartService

ServiceSpec == ServiceInit /\ [][ServiceNext]_job
=============================================================================
