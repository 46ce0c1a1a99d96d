---------------------------- MODULE RlTrainingPage ----------------------------
(***************************************************************************)
(* The dashboard as the client of the training service (src/App.tsx): one  *)
(* submission at a time creates a job, the page binds it and polls it, its *)
(* completed checkpoint is tested and asked for inferences, and every      *)
(* change of the settings detaches the job and cancels it.  Answers come   *)
(* back after the page has moved on; what tells them apart is a generation *)
(* counter per kind of request and an AbortController.                     *)
(*                                                                         *)
(* A handler and the effects React runs for its state are one action.      *)
(* Queued and running are both "live".  The generation a submission was    *)
(* made in is current exactly while `submission` names it.                 *)
(***************************************************************************)
EXTENDS TrainingService, Naturals

CONSTANTS
    NoJob,
    MaxTrainingTroubles    \* bound: calls lost or too late, reloads, restarts

ASSUME TrainingPageAssumption == NoJob \notin Job /\ MaxTrainingTroubles \in Nat

VARIABLES
    post,         \* the POST that creates the job
    submission,   \* rlTrainingSubmissionRef
    bound,        \* rlTraining.jobId
    training,     \* rlTraining.status
    poll,         \* the poll effect: what it waits for or was answered
    closing,      \* the DELETE that cancels the job
    test,         \* rlTraining.policyTest.status
    testing,      \* the job of the evaluation in flight (rlPolicyTestControllerRef)
    evaluation,   \* rlPolicyEvaluation.jobId
    asked,        \* rlInferenceRunId > 0
    inference,    \* rlInferenceStatus
    inferring,    \* the job of the inference in flight
    shown,        \* the job rlPolicyInference came from
    applied,      \* rlPolicyApplied
    unseen,       \* jobs whose poll failed while they were live
    troubles

jobVars == <<post, submission, bound, training, poll, closing, unseen>>
testVars == <<test, testing, evaluation>>
inferenceVars == <<asked, inference, inferring, shown, applied>>
pageVars == <<job, jobVars, testVars, inferenceVars, troubles>>

MaybeJob == Job \cup {NoJob}

TrainingTypeOK ==
    /\ job \in [Job -> JobState]
    /\ post \in [Job -> {"unsent", "waiting", "refused", "gone", "settled"}]
    /\ {submission, bound, testing, evaluation, inferring, shown} \subseteq MaybeJob
    /\ training \in {"idle", "live"} \cup Outcome
    /\ poll \in {"none", "due", "live", "lost"} \cup Outcome
    /\ closing \in [Job -> {"none", "sent", "arrived", "lost"}]
    /\ test \in {"locked", "idle", "running", "completed", "failed"}
    /\ asked \in BOOLEAN /\ applied \in BOOLEAN
    /\ inference \in {"idle", "running", "completed", "failed"}
    /\ unseen \subseteq Job
    /\ troubles \in 0..MaxTrainingTroubles
    \* a submission is waited for exactly while it is the current one or detached
    /\ submission # NoJob => post[submission] \in {"waiting", "refused"} /\ training = "live"
    /\ poll # "none" => bound # NoJob /\ training \in {"live", "completed"}

TrainingInit ==
    /\ ServiceInit
    /\ post = [j \in Job |-> "unsent"] /\ closing = [j \in Job |-> "none"]
    /\ submission = NoJob /\ bound = NoJob /\ training = "idle" /\ poll = "none"
    /\ test = "locked" /\ testing = NoJob /\ evaluation = NoJob
    /\ asked = FALSE /\ inference = "idle" /\ inferring = NoJob /\ shown = NoJob
    /\ applied = FALSE /\ unseen = {} /\ troubles = 0

Trouble == troubles < MaxTrainingTroubles /\ troubles' = troubles + 1

----------------------------------------------------------------------------
\* invalidateRlPolicyTestRequests, and createInitialRlPolicyTestState.
DropTest(status) == test' = status /\ testing' = NoJob /\ evaluation' = NoJob

\* The inference effect after a change of the job or its status: it aborts what
\* is in flight and, once an inference was ever asked, asks the new job.
Reinfer ==
    /\ UNCHANGED <<asked, applied>>
    /\ IF ~asked \/ (bound' = bound /\ training' = training)
       THEN UNCHANGED <<inference, inferring, shown>>
       ELSE IF training' = "completed" /\ bound' # NoJob
       THEN inference' = "running" /\ inferring' = bound' /\ shown' = NoJob
       ELSE inference' = "failed" /\ inferring' = NoJob /\ shown' = shown

\* The poll effect: it starts over when the job or its status changes.
Watch(otherwise) ==
    poll' = IF bound' = NoJob \/ training' \notin {"live", "completed"} THEN "none"
            ELSE IF bound' # bound \/ training' # training THEN "due"
            ELSE otherwise

\* Mutation: a job that is polled is left running.
DetachQuietly == UNCHANGED closing

\* invalidateRlTrainingRequests: the bound job is cancelled while it may run.
Detach ==
    closing' = IF bound # NoJob /\ training = "live"
               THEN [closing EXCEPT ![bound] = "sent"] ELSE closing

\* startRlTraining up to its await.
StartTraining(j) ==
    /\ submission = NoJob /\ training # "live" /\ post[j] = "unsent"
    /\ post' = [post EXCEPT ![j] = "waiting"]
    /\ submission' = j /\ bound' = NoJob /\ training' = "live"
    /\ Watch("none") /\ DropTest("locked") /\ Reinfer
    /\ UNCHANGED <<job, closing, unseen, troubles>>

\* Mutation: the test's status is kept although its request is dropped.
ResetKeepingTest ==
    /\ submission' = NoJob /\ bound' = NoJob /\ training' = "idle"
    /\ Detach /\ Watch("none") /\ Reinfer
    /\ DropTest(test)
    /\ UNCHANGED <<job, post, unseen, troubles>>

\* Another algorithm, objective, baseline, backend mode or backend field,
\* disconnecting, resetting the training, applying an advice.
Reset ==
    /\ submission' = NoJob /\ bound' = NoJob /\ training' = "idle"
    /\ Detach /\ Watch("none") /\ DropTest("locked") /\ Reinfer
    /\ UNCHANGED <<job, post, unseen, troubles>>

\* restoreRlTrainingState reads back what the last render stored.
Restored == IF bound # NoJob /\ training \in {"live", "completed"} THEN training ELSE "idle"

ForgetInference ==
    /\ asked' = FALSE /\ inference' = "idle" /\ inferring' = NoJob /\ shown' = NoJob
    /\ applied' = FALSE

\* resetSimulation cancels the job and then restores the stored state, in which
\* the job is still bound.
ResetSimulation ==
    /\ submission' = NoJob /\ bound' = bound /\ training' = Restored
    /\ Detach /\ Watch(poll) /\ DropTest("locked") /\ ForgetInference
    /\ UNCHANGED <<job, post, unseen, troubles>>

\* The page is loaded again: its POSTs have nobody left to answer to.
Reload ==
    /\ Trouble
    /\ post' = [j \in Job |-> IF post[j] \in {"waiting", "refused"} THEN "gone" ELSE post[j]]
    /\ submission' = NoJob /\ bound' = bound /\ training' = Restored
    /\ poll' = IF bound # NoJob /\ Restored # "idle" THEN "due" ELSE "none"
    /\ DropTest("locked") /\ ForgetInference
    /\ UNCHANGED <<job, closing, unseen>>

----------------------------------------------------------------------------
\* The service receives the POST, also after the page gave up on it.
PostServed(j) ==
    /\ post[j] \in {"waiting", "gone"}
    /\ AcceptJob(j)
    /\ UNCHANGED <<jobVars, testVars, inferenceVars, troubles>>

PostRefused(j) ==
    /\ post[j] = "waiting" /\ job[j] = "absent"
    /\ post' = [post EXCEPT ![j] = "refused"]
    /\ UNCHANGED <<job, submission, bound, training, poll, closing, unseen, testVars,
                   inferenceVars, troubles>>

\* The catch and finally blocks of startRlTraining: only the current generation
\* may change anything.
SubmissionFails(j) ==
    /\ submission' = IF submission = j THEN NoJob ELSE submission
    /\ training' = IF submission = j THEN "failed" ELSE training
    /\ bound' = bound
    /\ Watch(poll) /\ Reinfer
    /\ UNCHANGED <<job, unseen, testVars>>

RefusalAnswered(j) ==
    /\ post[j] = "refused"
    /\ post' = [post EXCEPT ![j] = "settled"]
    /\ SubmissionFails(j)
    /\ UNCHANGED <<closing, troubles>>

\* Eight seconds have passed and fetch is aborted.
PostTooLate(j) ==
    /\ post[j] = "waiting"
    /\ Trouble
    /\ post' = [post EXCEPT ![j] = "gone"]
    /\ SubmissionFails(j)
    /\ UNCHANGED closing

\* The answer was made when the job was created.  `late`: the deadline passed
\* while its body was read.
PostAnswered(j, late) ==
    /\ post[j] = "waiting" /\ job[j] # "absent"
    /\ post' = [post EXCEPT ![j] = "settled"]
    /\ closing' = IF submission # j \/ late THEN [closing EXCEPT ![j] = "sent"] ELSE closing
    /\ \/ /\ submission # j \/ late
          /\ SubmissionFails(j)
       \/ /\ submission = j /\ ~late
          /\ submission' = NoJob /\ bound' = j /\ training' = "live"
          /\ Watch("none") /\ Reinfer
          /\ UNCHANGED <<job, unseen, testVars>>
    /\ UNCHANGED troubles

----------------------------------------------------------------------------
CancelArrives(j) ==
    /\ closing[j] = "sent"
    /\ closing' = [closing EXCEPT ![j] = "arrived"]
    /\ UNCHANGED <<job, post, submission, bound, training, poll, unseen, testVars,
                   inferenceVars, troubles>>

CancelLost(j) ==
    /\ closing[j] = "sent" /\ Trouble
    /\ closing' = [closing EXCEPT ![j] = "lost"]
    /\ UNCHANGED <<job, post, submission, bound, training, poll, unseen, testVars,
                   inferenceVars>>

\* The service goes on; it cancels and re-enters only what it was asked to cancel.
ServiceMoves ==
    /\ \/ \E j \in Job : EndJob(j, "completed") \/ EndJob(j, "failed")
       \/ \E j \in Job : closing[j] = "arrived" /\ (EndJob(j, "cancelled") \/ ReenterJob(j))
    /\ UNCHANGED <<jobVars, testVars, inferenceVars, troubles>>

ServiceRestarts ==
    /\ Trouble /\ RestartService
    /\ UNCHANGED <<jobVars, testVars, inferenceVars>>

\* fetchRlTrainingJob reaches the service.
PollServed ==
    /\ poll = "due"
    /\ poll' = job[bound]
    /\ UNCHANGED <<job, post, submission, bound, training, closing, unseen, testVars,
                   inferenceVars, troubles>>

\* The poll's answer; an unknown job unbinds itself and leaves its test alone.
PollAnswered ==
    /\ poll \notin {"none", "due"}
    /\ bound' = IF poll = "lost" THEN NoJob ELSE bound
    /\ training' = IF poll = "lost" THEN "idle" ELSE poll
    /\ test' = IF poll = "completed" /\ test = "locked" THEN "idle" ELSE test
    /\ Watch(IF poll = "live" THEN "due" ELSE "none")
    /\ Reinfer
    /\ UNCHANGED <<job, post, submission, closing, unseen, testing, evaluation, troubles>>

\* The poll fails for another reason: the page gives up and keeps the job's id.
PollFails ==
    /\ poll # "none" /\ Trouble
    /\ training' = "failed" /\ bound' = bound
    /\ unseen' = IF job[bound] = "live" THEN unseen \cup {bound} ELSE unseen
    /\ Watch("none") /\ Reinfer
    /\ UNCHANGED <<job, post, submission, closing, testVars>>

----------------------------------------------------------------------------
StartTest ==
    /\ training = "completed" /\ bound # NoJob /\ test # "running" /\ testing = NoJob
    /\ test' = "running" /\ testing' = bound /\ evaluation' = NoJob
    /\ UNCHANGED <<job, jobVars, inferenceVars, troubles>>

TestAnswered ==
    /\ testing # NoJob /\ job[testing] = "completed"
    /\ evaluation' = testing /\ testing' = NoJob
    /\ UNCHANGED <<test, job, jobVars, inferenceVars, troubles>>

\* Refused, empty, of another case, or not there after fifteen seconds.
TestFails ==
    /\ testing # NoJob
    /\ test' = "failed" /\ testing' = NoJob
    /\ UNCHANGED <<evaluation, job, jobVars, inferenceVars, troubles>>

\* The interval of the replay effect reaches the end of the trace.
ReplayEnds ==
    /\ test = "running" /\ evaluation # NoJob /\ bound = evaluation
    /\ test' = "completed"
    /\ UNCHANGED <<testing, evaluation, job, jobVars, inferenceVars, troubles>>

\* selectRlPolicyTestCase, resetRlPolicyTest.  A failed poll keeps the progress.
ResetTest ==
    /\ \E status \in {"idle", "locked"} :
        /\ status = "idle" => training \in {"completed", "failed"}
        /\ status = "locked" => training # "completed"
        /\ DropTest(status)
    /\ UNCHANGED <<job, jobVars, inferenceVars, troubles>>

\* runRlPolicyInference; openRlDecisionPanel asks only for a first or a failed one
\* and leaves rlPolicyApplied as it is.
AskInference ==
    /\ training = "completed" /\ bound # NoJob
    /\ \/ applied' = FALSE
       \/ applied' = applied /\ (~asked \/ inference = "failed")
    /\ asked' = TRUE /\ inference' = "running" /\ inferring' = bound /\ shown' = NoJob
    /\ UNCHANGED <<job, jobVars, testVars, troubles>>

InferenceAnswered ==
    /\ inferring # NoJob /\ job[inferring] = "completed"
    /\ inference' = "completed" /\ shown' = inferring /\ inferring' = NoJob
    /\ UNCHANGED <<asked, applied, job, jobVars, testVars, troubles>>

InferenceFails ==
    /\ inferring # NoJob
    /\ inference' = "failed" /\ inferring' = NoJob
    /\ UNCHANGED <<asked, shown, applied, job, jobVars, testVars, troubles>>

ApplyInference ==
    /\ shown # NoJob /\ inference = "completed"
    /\ applied' = TRUE
    /\ UNCHANGED <<asked, inference, inferring, shown, job, jobVars, testVars, troubles>>

TrainingNext ==
    \/ \E j \in Job : \/ StartTraining(j) \/ PostServed(j) \/ PostRefused(j)
                      \/ RefusalAnswered(j) \/ PostTooLate(j) \/ CancelArrives(j)
                      \/ CancelLost(j) \/ \E late \in BOOLEAN : PostAnswered(j, late)
    \/ Reset \/ ResetSimulation \/ Reload
    \/ ServiceMoves \/ ServiceRestarts \/ PollServed \/ PollAnswered \/ PollFails
    \/ StartTest \/ TestAnswered \/ TestFails \/ ReplayEnds \/ ResetTest
    \/ AskInference \/ InferenceAnswered \/ InferenceFails \/ ApplyInference

TrainingSpec == TrainingInit /\ [][TrainingNext]_pageVars

----------------------------------------------------------------------------
\* Whatever the user changes while a job is being created, polled or cancelled, a
\* job that is live at the service is watched by the page, on its way to it, or
\* being cancelled; it is left to itself only after a POST the page gave up on, a
\* poll that failed or a DELETE that was lost.
NoOrphanTraining ==
    \A j \in Job : job[j] = "live" =>
        \/ bound = j /\ training = "live"
        \/ post[j] \in {"waiting", "gone"}
        \/ closing[j] # "none"
        \/ j \in unseen

\* The inference that can be applied was made by the checkpoint of the job the
\* page is bound to, over retraining, resets and late answers.
InferenceIsCurrent ==
    inference = "completed" => shown = bound /\ bound # NoJob /\ training = "completed"

\* The page answers for the job it started and for nothing else.
TrainingIsWatched == TrainingTypeOK /\ NoOrphanTraining /\ InferenceIsCurrent
=============================================================================
