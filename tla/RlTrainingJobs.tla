--------------------------- MODULE RlTrainingJobs ---------------------------
(***************************************************************************)
(* The training job queue (server/rlTrainingJobs.ts): jobs wait in         *)
(* pendingJobs, at most MAX_CONCURRENT_JOBS of them run, a client may      *)
(* cancel at any time, a job has a deadline, and a finished one leaves a   *)
(* checkpoint from which a restarted server restores it.                   *)
(*                                                                         *)
(* A request handler runs to its end; a job runs in pieces between its     *)
(* awaits.  The end of runJob, the finally callback and the pump it calls  *)
(* are one piece: nothing but microtasks runs between them.                *)
(***************************************************************************)
EXTENDS Naturals, Sequences, FiniteSets, SequencesExt

CONSTANTS
    Job,
    MaxConcurrentJobs,   \* MAX_CONCURRENT_JOBS
    MaxQueuedJobs,       \* MAX_QUEUED_JOBS
    MaxRestarts          \* bound: restarts of the server

ASSUME JobsAssumption ==
    /\ MaxConcurrentJobs \in Nat \ {0}
    /\ MaxQueuedJobs \in Nat \ {0}
    /\ MaxRestarts \in Nat

VARIABLES
    status,           \* job.status; "absent" before creation, "lost" after a restart
    pendingJobs,
    runningJobCount,
    scheduled,        \* jobs whose setImmediate callback has not run yet
    phase,            \* the await a running job is at, "none" when it does not run
    cancelRequested,
    expired,          \* the deadline has passed
    timedOut,
    checkpoint,       \* ARTIFACT_DIR: the jobs with a renamed checkpoint file
    restarts

jobsVars == <<status, pendingJobs, runningJobCount, scheduled, phase, cancelRequested,
          expired, timedOut, checkpoint, restarts>>

JobStatus == {"absent", "queued", "running", "completed", "failed", "cancelled", "lost"}
JobPhase == {"none", "loading-dataset", "training", "checkpointing", "renamed"}

JobsTypeOK ==
    /\ status \in [Job -> JobStatus]
    /\ pendingJobs \in Seq(Job)
    /\ runningJobCount \in Nat
    /\ scheduled \subseteq Job
    /\ phase \in [Job -> JobPhase]
    /\ {cancelRequested, expired, timedOut, checkpoint} \subseteq SUBSET Job
    /\ restarts \in 0..MaxRestarts

JobsInit ==
    /\ status = [j \in Job |-> "absent"]
    /\ pendingJobs = <<>>
    /\ runningJobCount = 0
    /\ scheduled = {}
    /\ phase = [j \in Job |-> "none"]
    /\ cancelRequested = {}
    /\ expired = {}
    /\ timedOut = {}
    /\ checkpoint = {}
    /\ restarts = 0

----------------------------------------------------------------------------
Waiting(st, queue) == {j \in ToSet(queue) : st[j] = "queued"}

\* pumpTrainingQueue after the jobs' status changed: it shifts until every slot
\* is taken or nothing is left, and skips the jobs cancelled while they waited.
Shifted(queue, free) ==
    LET Enough(n) == \/ n = Len(queue)
                     \/ Cardinality(Waiting(status', SubSeq(queue, 1, n))) >= free
    IN  CHOOSE n \in 0..Len(queue) : Enough(n) /\ \A m \in 0..(n - 1) : ~Enough(m)

Pump(queue, count) ==
    LET n == Shifted(queue, MaxConcurrentJobs - count)
        started == Waiting(status', SubSeq(queue, 1, n))
    IN  /\ pendingJobs' = SubSeq(queue, n + 1, Len(queue))
        /\ runningJobCount' = count + Cardinality(started)
        /\ scheduled' = scheduled \cup started

\* createRlTrainingJob, below its capacity.
Create(j) ==
    /\ status[j] = "absent"
    /\ Cardinality(Waiting(status, pendingJobs)) < MaxQueuedJobs
    /\ status' = [status EXCEPT ![j] = "queued"]
    /\ Pump(Append(pendingJobs, j), runningJobCount)
    /\ UNCHANGED <<phase, cancelRequested, expired, timedOut, checkpoint, restarts>>

\* cancelRlTrainingJob: a queued job is cancelled at once, also one whose
\* setImmediate is already scheduled; a running one is only asked to stop.
Cancel(j) ==
    /\ status[j] \in {"queued", "running"}
    /\ j \notin cancelRequested
    /\ cancelRequested' = cancelRequested \cup {j}
    /\ status' = [status EXCEPT ![j] = IF @ = "queued" THEN "cancelled" ELSE @]
    /\ UNCHANGED <<pendingJobs, runningJobCount, scheduled, phase, expired, timedOut,
                   checkpoint, restarts>>

----------------------------------------------------------------------------
\* The setImmediate callback enters runJob, whatever happened to the job since it
\* was shifted from the queue.
StartJob(j) ==
    /\ j \in scheduled
    /\ scheduled' = scheduled \ {j}
    /\ status' = [status EXCEPT ![j] = "running"]
    /\ phase' = [phase EXCEPT ![j] = "loading-dataset"]
    /\ UNCHANGED <<pendingJobs, runningJobCount, cancelRequested, expired, timedOut,
                   checkpoint, restarts>>

\* Mutation: the slot is not given back.
SettleKeepingSlot(j, outcome) ==
    /\ status' = [status EXCEPT ![j] = outcome]
    /\ phase' = [phase EXCEPT ![j] = "none"]
    /\ Pump(pendingJobs, runningJobCount)
    /\ UNCHANGED <<cancelRequested, expired, checkpoint, restarts>>

\* The end of runJob: the slot is given back and the queue pumped.
Settle(j, outcome) ==
    /\ status' = [status EXCEPT ![j] = outcome]
    /\ phase' = [phase EXCEPT ![j] = "none"]
    /\ Pump(pendingJobs, runningJobCount - 1)
    /\ UNCHANGED <<cancelRequested, expired, checkpoint, restarts>>

\* The catch block: a job asked to stop counts as cancelled whatever was thrown,
\* unless its deadline was noticed first.
Outcome(j) == IF j \in cancelRequested /\ j \notin timedOut' THEN "cancelled" ELSE "failed"

Continue(j, from, to) ==
    /\ phase[j] = from
    /\ phase' = [phase EXCEPT ![j] = to]
    /\ UNCHANGED <<status, pendingJobs, runningJobCount, scheduled, cancelRequested,
                   expired, timedOut, restarts>>

LoadDataset(j) == Continue(j, "loading-dataset", "training") /\ UNCHANGED checkpoint

\* The stop check of an episode, or of the line after the training.
StopTraining(j) ==
    /\ phase[j] = "training"
    /\ j \in cancelRequested \cup expired
    /\ timedOut' = IF j \in cancelRequested THEN timedOut ELSE timedOut \cup {j}
    /\ Settle(j, Outcome(j))

\* The last stop check found no deadline passed and no cancellation.
FinishTraining(j) ==
    /\ j \notin cancelRequested
    /\ Continue(j, "training", "checkpointing")
    /\ UNCHANGED checkpoint

RenameCheckpoint(j) ==
    /\ Continue(j, "checkpointing", "renamed")
    /\ checkpoint' = checkpoint \cup {j}

Complete(j) ==
    /\ phase[j] = "renamed"
    /\ timedOut' = timedOut
    /\ Settle(j, "completed")

\* Mutation: the lines after the rename can throw as well.
ThrowLate(j) ==
    /\ phase[j] # "none"
    /\ timedOut' = timedOut
    /\ Settle(j, Outcome(j))

\* Loading, training or writing throws.
Throw(j) ==
    /\ phase[j] \in {"loading-dataset", "training", "checkpointing"}
    /\ timedOut' = timedOut
    /\ Settle(j, Outcome(j))

Expire(j) ==
    /\ status[j] = "running"
    /\ j \notin expired
    /\ expired' = expired \cup {j}
    /\ UNCHANGED <<status, pendingJobs, runningJobCount, scheduled, phase,
                   cancelRequested, timedOut, checkpoint, restarts>>

\* The server stops, comes back and restores what has a checkpoint before it
\* listens (ensureRlTrainingJobsRestored); everything else in memory is gone.
Restart ==
    /\ restarts < MaxRestarts
    /\ restarts' = restarts + 1
    /\ status' = [j \in Job |-> IF j \in checkpoint THEN "completed"
                                ELSE IF status[j] = "absent" THEN "absent" ELSE "lost"]
    /\ pendingJobs' = <<>>
    /\ runningJobCount' = 0
    /\ scheduled' = {}
    /\ phase' = [j \in Job |-> "none"]
    /\ cancelRequested' = {}
    /\ expired' = {}
    /\ timedOut' = {}
    /\ UNCHANGED checkpoint

\* What the event loop does for a job once it has a slot.
Run(j) ==
    \/ StartJob(j)
    \/ LoadDataset(j)
    \/ StopTraining(j)
    \/ FinishTraining(j)
    \/ RenameCheckpoint(j)
    \/ Complete(j)

JobsNext ==
    \/ \E j \in Job : Create(j) \/ Cancel(j) \/ Run(j) \/ Throw(j) \/ Expire(j)
    \/ Restart

JobsSpec == JobsInit /\ [][JobsNext]_jobsVars

\* The event loop runs what it scheduled and resumes what it awaits, and training
\* is a bounded number of episodes.  Nobody has to create, cancel or restart.
JobsFairness == \A j \in Job : WF_jobsVars(Run(j))

JobsFairSpec == JobsSpec /\ JobsFairness

----------------------------------------------------------------------------
Active == {j \in Job : phase[j] # "none"}

\* The counter of taken slots is exact over every way a job can end, so slots are
\* neither leaked nor given twice.
SlotsAreExact ==
    /\ runningJobCount = Cardinality(scheduled \cup Active)
    /\ scheduled \cap Active = {}
    /\ runningJobCount <= MaxConcurrentJobs

\* No wakeup is lost: a job waits only while every slot is taken.
NoIdleSlotWhileWaiting ==
    Waiting(status, pendingJobs) # {} => runningJobCount = MaxConcurrentJobs

\* Cancelled jobs stay in pendingJobs but the waiting ones stay below the limit,
\* and none waits twice.
QueueIsBounded ==
    /\ Cardinality(Waiting(status, pendingJobs)) <= MaxQueuedJobs
    /\ Len(pendingJobs) = Cardinality(ToSet(pendingJobs))

\* A job reads completed only when its checkpoint survives a restart.
CompletedIsDurable == \A j \in Job : status[j] = "completed" => j \in checkpoint

\* The queue keeps its books: slots, waiting jobs and checkpoints.
QueueIsSound ==
    /\ JobsTypeOK /\ SlotsAreExact /\ NoIdleSlotWhileWaiting
    /\ QueueIsBounded /\ CompletedIsDurable

\* What a client may rely on: a job seen live has one outcome, a failed one never
\* comes back as completed, a restart forgets all but the completed ones, and only a
\* cancelled job can be seen live again (see TrainingService).
Service == INSTANCE TrainingService WITH
    job <- [j \in Job |-> IF status[j] \in {"queued", "running"} THEN "live" ELSE status[j]]

KeepsServicePromises == Service!ServiceSpec

----------------------------------------------------------------------------
\* What the server tells the client who cancels, and the code does not keep.

\* "The job stops when the current episode is done": it is not completed.
CancelStops == \A j \in cancelRequested : status[j] # "completed"
=============================================================================
