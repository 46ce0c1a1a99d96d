------------------------------- MODULE Page_proofs -------------------------------
(***************************************************************************)
(* Theorems about the stateful parts of the page, for every bound on what  *)
(* the user does and on what goes wrong: the Godot window (GodotBridge),   *)
(* the client of the training service (RlTrainingPage), the evidence       *)
(* centre (EvidenceCenter), the assistant (XiaoyiAssistant) and the native *)
(* validations (NativeValidationPage on top of NativeValidation).          *)
(***************************************************************************)
EXTENDS RlTrainingPage, EvidenceCenter, XiaoyiAssistant, GodotBridge, NativeValidationPage,
        FiniteSetTheorems, TLAPS

----------------------------------------------------------------------------
(* The Godot window.  The effect's timer is only ever set for a request.    *)

BridgeInv == ResultsAreMatched /\ (owed => request # 0)

\* Taking a result of request r, where there is one.
LEMMA ApplyKeepsMatch ==
    ASSUME ResultIsOfRequest /\ PhasesFollow, NEW r, r # 0, r \in MaybeRequest,
           imported \in MaybeRequest, micro \in {"pending", "running", "completed"},
           metric \in {"pending", "completed"}, Apply(r)
    PROVE  /\ (ResultIsOfRequest /\ PhasesFollow)' /\ request' = request
           /\ imported' \in MaybeRequest /\ micro' \in {"pending", "running", "completed"}
           /\ metric' \in {"pending", "completed"}
<1>1. CASE r = request /\ ~behind
    BY <1>1 DEF Apply, ResultIsOfRequest, PhasesFollow
<1>2. CASE ~(r = request /\ ~behind)
    BY <1>2 DEF Apply, flowVars, ResultIsOfRequest, PhasesFollow
<1> QED
    BY <1>1, <1>2

LEMMA FrameInv ==
    ASSUME BridgeInv, FrameSteps PROVE BridgeInv'
<1>1. UNCHANGED <<flowVars, behind, dock, owed, native, reading, refused, built, acts>>
    BY DEF FrameSteps
<1>2. /\ {pending', submitted', lastResult', requestFile', resultFile', engine'}
                \subseteq MaybeRequest
      /\ toFrame' \in Seq(Request) /\ toPage' \in Seq(Request)
    <2>1. /\ {pending, submitted, lastResult, requestFile, resultFile, engine}
                \subseteq MaybeRequest
          /\ toFrame \in Seq(Request) /\ toPage \in Seq(Request)
        BY DEF BridgeInv, ResultsAreMatched, BridgeTypeOK
    <2>2. 0 \in MaybeRequest /\ Request \subseteq MaybeRequest
          /\ \A q \in MaybeRequest : q # 0 => q \in Request
        BY BridgeAssumption DEF MaybeRequest, Request
    <2>3. CASE FrameReceives
        <3>1. Head(toFrame) \in Request /\ Tail(toFrame) \in Seq(Request)
            BY <2>1, <2>3 DEF FrameReceives
        <3> QED
            BY <2>1, <2>2, <2>3, <3>1 DEF FrameReceives
    <2>4. CASE Submit
        BY <2>1, <2>2, <2>4 DEF Submit, channelVars
    <2>5. CASE SendResult
        <3>1. resultFile \in Request
            BY <2>1, <2>2, <2>5 DEF SendResult
        <3>2. Append(toPage, resultFile) \in Seq(Request)
            BY <2>1, <3>1
        <3> QED
            BY <2>1, <2>5, <3>2 DEF SendResult
    <2>6. CASE EngineTakes
        BY <2>1, <2>2, <2>6 DEF EngineTakes, channelVars
    <2>7. CASE EngineWrites
        BY <2>1, <2>2, <2>7 DEF EngineWrites, channelVars
    <2> QED
        BY <2>3, <2>4, <2>5, <2>6, <2>7 DEF FrameSteps
<1> QED
    BY <1>1, <1>2 DEF flowVars, BridgeInv, ResultsAreMatched, BridgeTypeOK, ResultIsOfRequest,
        PhasesFollow

\* A frame and its channels that know nothing.
LEMMA CloseDockTypes ==
    ASSUME CloseDock
    PROVE  /\ {pending', submitted', lastResult', requestFile', resultFile', engine'}
                    \subseteq MaybeRequest
           /\ toFrame' \in Seq(Request) /\ toPage' \in Seq(Request)
           /\ dock' = FALSE /\ owed' = FALSE
<1>1. 0 \in MaybeRequest
    BY BridgeAssumption DEF MaybeRequest
<1> QED
    BY <1>1 DEF CloseDock, NewFrame

LEMMA BridgeStep == ASSUME BridgeInv, BridgeNext PROVE BridgeInv'
<1>1. /\ 0 \in MaybeRequest /\ Request \subseteq MaybeRequest
      /\ \A q \in MaybeRequest : q # 0 => q \in Request
    BY BridgeAssumption DEF MaybeRequest, Request
<1>2. BridgeTypeOK /\ ResultIsOfRequest /\ PhasesFollow /\ (owed => request # 0)
    BY DEF BridgeInv, ResultsAreMatched
<1>3. built < MaxRequests => built + 1 \in MaybeRequest /\ built + 1 # 0
    <2>1. built \in MaybeRequest
        BY <1>2 DEF BridgeTypeOK
    <2> QED
        BY <2>1, BridgeAssumption DEF MaybeRequest
<1>4. UserActs => acts' \in 0..MaxUserActs
    BY <1>2, BridgeAssumption DEF UserActs, BridgeTypeOK
<1>5. CASE EnterMicroValidation
    <2>1. /\ {request', imported', native', built'} \subseteq MaybeRequest
          /\ request' = built + 1 /\ request' # 0
          /\ imported' = 0 /\ micro' = "running" /\ metric' = "pending"
          /\ behind' = FALSE /\ refused' = refused /\ reading' = reading
          /\ acts' \in 0..MaxUserActs
        BY <1>1, <1>3, <1>4, <1>5 DEF EnterMicroValidation
    <2>2. /\ {pending', submitted', lastResult', requestFile', resultFile', engine'}
                    \subseteq MaybeRequest
          /\ toFrame' \in Seq(Request) /\ toPage' \in Seq(Request)
          /\ dock' = FALSE /\ owed' = FALSE
        BY <1>5, CloseDockTypes DEF EnterMicroValidation
    <2>3. BridgeTypeOK'
        BY <1>2, <2>1, <2>2 DEF BridgeTypeOK
    <2> QED
        BY <2>1, <2>2, <2>3 DEF BridgeInv, ResultsAreMatched, ResultIsOfRequest, PhasesFollow
<1>6. CASE LoadDemoCase
    <2>1. /\ {request', imported', native', built'} \subseteq MaybeRequest
          /\ request' = built + 1 /\ request' # 0
          /\ imported' = built + 1 /\ micro' = "completed" /\ metric' = "completed"
          /\ behind' = FALSE /\ refused' = refused /\ reading' = reading
          /\ acts' \in 0..MaxUserActs
        BY <1>1, <1>3, <1>4, <1>6 DEF LoadDemoCase
    <2>2. /\ {pending', submitted', lastResult', requestFile', resultFile', engine'}
                    \subseteq MaybeRequest
          /\ toFrame' \in Seq(Request) /\ toPage' \in Seq(Request)
          /\ dock' = FALSE /\ owed' = FALSE
        BY <1>6, CloseDockTypes DEF LoadDemoCase
    <2>3. BridgeTypeOK'
        BY <1>2, <2>1, <2>2 DEF BridgeTypeOK
    <2> QED
        BY <2>1, <2>2, <2>3 DEF BridgeInv, ResultsAreMatched, ResultIsOfRequest, PhasesFollow
<1>7. ASSUME NEW closes \in BOOLEAN, SelectAnother(closes) PROVE BridgeInv'
    <2>1. CASE closes
        BY <1>1, <1>2, <1>4, <1>7, <2>1, CloseDockTypes
           DEF SelectAnother, BridgeInv, ResultsAreMatched, BridgeTypeOK, ResultIsOfRequest,
               PhasesFollow
    <2>2. CASE ~closes
        BY <1>1, <1>2, <1>4, <1>7, <2>2
           DEF SelectAnother, channelVars, frameVars, BridgeInv, ResultsAreMatched, BridgeTypeOK,
               ResultIsOfRequest, PhasesFollow
    <2> QED
        BY <2>1, <2>2
<1>8. CASE OpenDock
    <2>1. toFrame' \in Seq(Request)
        <3>1. CASE request # 0
            <4>1. request \in Request
                BY <1>1, <1>2, <3>1 DEF BridgeTypeOK
            <4> QED
                BY <1>8, <3>1, <4>1 DEF OpenDock
        <3>2. CASE request = 0
            BY <1>8, <3>2 DEF OpenDock
        <3> QED
            BY <3>1, <3>2
    <2>2. owed' = (request # 0) /\ owed' \in BOOLEAN
        BY <1>8 DEF OpenDock
    <2> QED
        BY <1>1, <1>2, <1>4, <1>8, <2>1, <2>2
           DEF OpenDock, NewFrame, flowVars, BridgeInv, ResultsAreMatched, BridgeTypeOK,
               ResultIsOfRequest, PhasesFollow
<1>9. CASE ToggleClosed
    BY <1>1, <1>2, <1>4, <1>9, CloseDockTypes
       DEF ToggleClosed, flowVars, BridgeInv, ResultsAreMatched, BridgeTypeOK, ResultIsOfRequest,
           PhasesFollow
<1>10. CASE PostTimer
    <2>1. Append(toFrame, request) \in Seq(Request)
        BY <1>1, <1>2, <1>10 DEF PostTimer, BridgeTypeOK
    <2> QED
        BY <1>2, <1>10, <2>1
           DEF PostTimer, flowVars, frameVars, BridgeInv, ResultsAreMatched, BridgeTypeOK,
               ResultIsOfRequest, PhasesFollow
<1>11. CASE ClockMoves
    BY <1>2, <1>4, <1>11
       DEF ClockMoves, flowVars, frameVars, channelVars, BridgeInv, ResultsAreMatched,
           BridgeTypeOK, ResultIsOfRequest, PhasesFollow
<1>12. CASE ReceiveResult
    <2>1. Head(toPage) \in Request /\ Tail(toPage) \in Seq(Request)
        BY <1>2, <1>12 DEF ReceiveResult, BridgeTypeOK
    <2>2. Head(toPage) \in MaybeRequest /\ Head(toPage) # 0
        BY <1>1, <2>1, BridgeAssumption DEF Request
    <2>3. /\ (ResultIsOfRequest /\ PhasesFollow)' /\ request' = request
          /\ imported' \in MaybeRequest /\ micro' \in {"pending", "running", "completed"}
          /\ metric' \in {"pending", "completed"}
        BY <1>2, <1>12, <2>2, ApplyKeepsMatch DEF ReceiveResult, BridgeTypeOK
    <2>4. refused' \subseteq Request
        BY <1>2, <1>12, <2>1 DEF ReceiveResult, BridgeTypeOK
    <2> QED
        BY <1>2, <1>12, <2>1, <2>3, <2>4
           DEF ReceiveResult, frameVars, BridgeInv, ResultsAreMatched, BridgeTypeOK
<1>13. CASE LocalValidation
    <2>1. /\ (ResultIsOfRequest /\ PhasesFollow)' /\ request' = request
          /\ imported' \in MaybeRequest /\ micro' \in {"pending", "running", "completed"}
          /\ metric' \in {"pending", "completed"}
        BY <1>2, <1>13, ApplyKeepsMatch DEF LocalValidation, BridgeTypeOK
    <2> QED
        BY <1>2, <1>4, <1>13, <2>1
           DEF LocalValidation, frameVars, channelVars, BridgeInv, ResultsAreMatched, BridgeTypeOK
<1>14. CASE StartNative
    BY <1>1, <1>2, <1>4, <1>14, CloseDockTypes
       DEF StartNative, BridgeInv, ResultsAreMatched, BridgeTypeOK, ResultIsOfRequest, PhasesFollow
<1>15. CASE NativeResult
    <2>1. /\ (ResultIsOfRequest /\ PhasesFollow)' /\ request' = request
          /\ imported' \in MaybeRequest /\ micro' \in {"pending", "running", "completed"}
          /\ metric' \in {"pending", "completed"}
        BY <1>2, <1>15, ApplyKeepsMatch DEF NativeResult, BridgeTypeOK
    <2> QED
        BY <1>1, <1>2, <1>15, <2>1
           DEF NativeResult, frameVars, channelVars, BridgeInv, ResultsAreMatched, BridgeTypeOK
<1>16. CASE NativeFails
    BY <1>1, <1>2, <1>16
       DEF NativeFails, frameVars, channelVars, BridgeInv, ResultsAreMatched, BridgeTypeOK,
           ResultIsOfRequest, PhasesFollow
<1>17. ASSUME NEW names \in MaybeRequest, ReadFile(names) PROVE BridgeInv'
    <2>1. reading'.at \in MaybeRequest /\ reading'.names \in MaybeRequest
        BY <1>2, <1>17 DEF ReadFile, BridgeTypeOK
    <2> QED
        BY <1>2, <1>4, <1>17, <2>1
           DEF ReadFile, flowVars, frameVars, channelVars, BridgeInv, ResultsAreMatched,
               BridgeTypeOK, ResultIsOfRequest, PhasesFollow
<1>18. CASE FileRead
    <2>1. /\ (ResultIsOfRequest /\ PhasesFollow)' /\ request' = request
          /\ imported' \in MaybeRequest /\ micro' \in {"pending", "running", "completed"}
          /\ metric' \in {"pending", "completed"}
        <3>1. CASE reading.at = request /\ request # 0 /\ reading.names = request
            BY <1>2, <1>18, <3>1, ApplyKeepsMatch DEF FileRead, BridgeTypeOK
        <3>2. CASE ~(reading.at = request /\ request # 0 /\ reading.names = request)
            BY <1>2, <1>18, <3>2 DEF FileRead, BridgeTypeOK, ResultIsOfRequest, PhasesFollow
        <3> QED
            BY <3>1, <3>2
    <2>2. reading'.at \in MaybeRequest /\ reading'.names \in MaybeRequest
        BY <1>1, <1>18 DEF FileRead, NoFile
    <2> QED
        BY <1>2, <1>18, <2>1, <2>2
           DEF FileRead, frameVars, channelVars, BridgeInv, ResultsAreMatched, BridgeTypeOK
<1> QED
    BY <1>5, <1>6, <1>7, <1>8, <1>9, <1>10, <1>11, <1>12, <1>13, <1>14, <1>15, <1>16, <1>17,
       <1>18, FrameInv DEF BridgeNext

\* The inductive invariant of the Godot window, for every number of requests.
THEOREM BridgeInvariance == BridgeSpec => []BridgeInv
<1>1. BridgeInit => BridgeInv
    <2> SUFFICES ASSUME BridgeInit PROVE BridgeInv
        OBVIOUS
    <2>1. 0 \in MaybeRequest /\ 0 \in 0..MaxUserActs
        BY BridgeAssumption DEF MaybeRequest
    <2>2. /\ {request, imported, native, pending, submitted, lastResult, requestFile, resultFile,
              engine, built} \subseteq MaybeRequest
          /\ micro = "pending" /\ metric = "pending"
          /\ {behind, dock, owed} \subseteq BOOLEAN /\ refused \subseteq Request
          /\ acts \in 0..MaxUserActs
        BY <2>1 DEF BridgeInit
    <2>3. reading.at \in MaybeRequest /\ reading.names \in MaybeRequest
        BY <2>1 DEF BridgeInit, NoFile
    <2>4. toFrame \in Seq(Request) /\ toPage \in Seq(Request)
        BY DEF BridgeInit
    <2>5. request = 0 /\ imported = 0 /\ ~owed
        BY DEF BridgeInit
    <2>6. BridgeTypeOK
        BY <2>2, <2>3, <2>4 DEF BridgeTypeOK
    <2> QED
        BY <2>2, <2>5, <2>6 DEF BridgeInv, ResultsAreMatched, ResultIsOfRequest, PhasesFollow
<1>2. BridgeInv /\ [BridgeNext]_bridgeVars => BridgeInv'
    <2> SUFFICES ASSUME BridgeInv, [BridgeNext]_bridgeVars PROVE BridgeInv'
        OBVIOUS
    <2>1. CASE BridgeNext
        BY <2>1, BridgeStep
    <2>2. CASE UNCHANGED bridgeVars
        <3>1. /\ UNCHANGED <<flowVars, frameVars, channelVars>>
              /\ UNCHANGED <<behind, dock, owed, native, reading, refused, built, acts>>
            BY <2>2 DEF bridgeVars
        <3>2. UNCHANGED <<request, imported, micro, metric>>
            BY <3>1 DEF flowVars
        <3>3. UNCHANGED <<pending, submitted, lastResult, requestFile, resultFile, engine>>
            BY <3>1 DEF frameVars
        <3>4. UNCHANGED <<toFrame, toPage>>
            BY <3>1 DEF channelVars
        <3> QED
            BY <3>1, <3>2, <3>3, <3>4 DEF BridgeInv, ResultsAreMatched, BridgeTypeOK, ResultIsOfRequest, PhasesFollow
    <2> QED
        BY <2>1, <2>2
<1> QED
    BY <1>1, <1>2, PTL DEF BridgeSpec

\* The result on the page is of the request on the page and its phases say so, whichever way
\* a result came back and however late (App.tsx, applyGodotValidationResult).
THEOREM BridgeMatchesResults == BridgeSpec => []ResultsAreMatched
<1>1. BridgeInv => ResultsAreMatched
    BY DEF BridgeInv
<1> QED
    BY <1>1, BridgeInvariance, PTL

----------------------------------------------------------------------------
(* The training page.  Every link below is between what the page remembers *)
(* and a request that is still on its way.                                 *)

\* While a submission is out no job is bound; the bound job was accepted; what a poll
\* brought back of the bound job is still true of it unless the page has cancelled it.
JobsAreLinked ==
    /\ submission # NoJob => bound = NoJob
    /\ bound # NoJob => job[bound] # "absent"
    /\ poll \in {"lost"} \cup Outcome => job[bound] # "live" \/ closing[bound] # "none"

\* The inference in flight is of the bound checkpoint, and there is one, or an answer to
\* one, only after an inference was asked for.
InferenceIsLinked ==
    /\ InferenceIsCurrent
    /\ inferring # NoJob => inferring = bound /\ training = "completed" /\ asked
    /\ inference = "completed" => asked

TrainingInv == TrainingTypeOK /\ NoOrphanTraining /\ JobsAreLinked /\ InferenceIsLinked

\* The inference effect keeps the links of the inference, whatever becomes of the job.
LEMMA ReinferKeeps ==
    ASSUME TrainingTypeOK, InferenceIsLinked, bound' \in MaybeJob, Reinfer
    PROVE  /\ InferenceIsLinked'
           /\ {inferring', shown'} \subseteq MaybeJob /\ asked' \in BOOLEAN
           /\ applied' \in BOOLEAN /\ inference' \in {"idle", "running", "completed", "failed"}
<1>1. CASE ~asked \/ (bound' = bound /\ training' = training)
    BY <1>1 DEF Reinfer, TrainingTypeOK, InferenceIsLinked, InferenceIsCurrent
<1>2. CASE ~(~asked \/ (bound' = bound /\ training' = training))
    <2>1. CASE training' = "completed" /\ bound' # NoJob
        BY <1>2, <2>1 DEF Reinfer, TrainingTypeOK, InferenceIsLinked, InferenceIsCurrent, MaybeJob
    <2>2. CASE ~(training' = "completed" /\ bound' # NoJob)
        BY <1>2, <2>2 DEF Reinfer, TrainingTypeOK, InferenceIsLinked, InferenceIsCurrent, MaybeJob
    <2> QED
        BY <2>1, <2>2
<1> QED
    BY <1>1, <1>2

\* The types of the inference and its links, where an action leaves them alone or forgets.
LEMMA InferenceKept ==
    ASSUME TrainingTypeOK, InferenceIsLinked,
           \/ UNCHANGED inferenceVars /\ bound' = bound /\ training' = training
           \/ ForgetInference
    PROVE  /\ InferenceIsLinked'
           /\ {inferring', shown'} \subseteq MaybeJob /\ asked' \in BOOLEAN
           /\ applied' \in BOOLEAN /\ inference' \in {"idle", "running", "completed", "failed"}
BY DEF inferenceVars, ForgetInference, TrainingTypeOK, InferenceIsLinked, InferenceIsCurrent,
       MaybeJob

\* What the poll effect leaves: a poll only for a bound job that is live or completed, and an
\* answer only where nothing of the job has changed.
LEMMA WatchKeeps ==
    ASSUME NEW x \in {"none", "due", "live", "lost"} \cup Outcome, Watch(x)
    PROVE  /\ poll' \in {"none", "due", "live", "lost"} \cup Outcome
           /\ poll' # "none" => bound' # NoJob /\ training' \in {"live", "completed"}
           /\ poll' \in {"lost"} \cup Outcome =>
                bound' = bound /\ training' = training /\ poll' = x
<1>1. CASE bound' = NoJob \/ training' \notin {"live", "completed"}
    <2>1. poll' = "none"
        BY <1>1 DEF Watch
    <2> QED
        BY <2>1 DEF Outcome
<1>2. CASE /\ ~(bound' = NoJob \/ training' \notin {"live", "completed"})
           /\ bound' # bound \/ training' # training
    <2>1. poll' = "due"
        BY <1>2 DEF Watch
    <2> QED
        BY <1>2, <2>1 DEF Outcome
<1>3. CASE /\ ~(bound' = NoJob \/ training' \notin {"live", "completed"})
           /\ bound' = bound /\ training' = training
    <2>1. poll' = x
        BY <1>3 DEF Watch
    <2> QED
        BY <1>3, <2>1
<1> QED
    BY <1>1, <1>2, <1>3

\* The conclusion of the two lemmas on the inference.
InferenceTypes ==
    /\ {inferring, shown} \subseteq MaybeJob /\ asked \in BOOLEAN /\ applied \in BOOLEAN
    /\ inference \in {"idle", "running", "completed", "failed"}

\* The page begins, gives up or is asked for something else: what becomes of the jobs.
LEMMA StartKeeps ==
    ASSUME TrainingInv, NEW j \in Job, StartTraining(j) PROVE TrainingInv'
<1>1. TrainingTypeOK /\ NoOrphanTraining /\ JobsAreLinked /\ InferenceIsLinked /\ j # NoJob
    BY TrainingPageAssumption DEF TrainingInv
<1>2. bound' = NoJob /\ training' = "live" /\ submission' = j /\ bound' \in MaybeJob
    BY DEF StartTraining, MaybeJob
<1>3. InferenceIsLinked' /\ InferenceTypes'
    BY <1>1, <1>2, ReinferKeeps DEF StartTraining, InferenceTypes
<1>4. poll' = "none"
    BY <1>2 DEF StartTraining, Watch
<1>5. /\ post' \in [Job -> {"unsent", "waiting", "refused", "gone", "settled"}]
      /\ post'[j] = "waiting" /\ \A k \in Job : k # j => post'[k] = post[k]
    BY <1>1 DEF StartTraining, TrainingTypeOK
<1>6. UNCHANGED <<job, closing, unseen, troubles>>
    BY DEF StartTraining
<1>7. {testing', evaluation'} \subseteq MaybeJob /\ test' = "locked"
    BY DEF StartTraining, DropTest, MaybeJob
<1>8. TrainingTypeOK'
    BY <1>1, <1>2, <1>3, <1>4, <1>5, <1>6, <1>7 DEF TrainingTypeOK, InferenceTypes, MaybeJob
<1>9. NoOrphanTraining'
    BY <1>1, <1>2, <1>5, <1>6 DEF StartTraining, NoOrphanTraining
<1>10. JobsAreLinked'
    BY <1>2, <1>4 DEF JobsAreLinked, Outcome
<1> QED
    BY <1>3, <1>8, <1>9, <1>10 DEF TrainingInv

\* Detaching cancels the bound job where it may be live, and takes no cancellation back.
LEMMA DetachCancels ==
    ASSUME TrainingTypeOK, Detach
    PROVE  /\ closing' \in [Job -> {"none", "sent", "arrived", "lost"}]
           /\ \A j \in Job : closing[j] # "none" => closing'[j] # "none"
           /\ bound # NoJob /\ training = "live" => closing'[bound] # "none"
<1>1. bound # NoJob => bound \in Job
    BY DEF TrainingTypeOK, MaybeJob
<1>2. CASE bound # NoJob /\ training = "live"
    BY <1>1, <1>2 DEF Detach, TrainingTypeOK
<1>3. CASE ~(bound # NoJob /\ training = "live")
    BY <1>3 DEF Detach, TrainingTypeOK
<1> QED
    BY <1>2, <1>3

LEMMA ResetKeeps ==
    ASSUME TrainingInv, Reset PROVE TrainingInv'
<1>1. TrainingTypeOK /\ NoOrphanTraining /\ JobsAreLinked /\ InferenceIsLinked
    BY DEF TrainingInv
<1>2. bound' = NoJob /\ training' = "idle" /\ submission' = NoJob /\ bound' \in MaybeJob
    BY DEF Reset, MaybeJob
<1>3. InferenceIsLinked' /\ InferenceTypes'
    BY <1>1, <1>2, ReinferKeeps DEF Reset, InferenceTypes
<1>4. poll' = "none"
    BY <1>2 DEF Reset, Watch
<1>5. /\ closing' \in [Job -> {"none", "sent", "arrived", "lost"}]
      /\ \A j \in Job : closing[j] # "none" => closing'[j] # "none"
      /\ bound # NoJob /\ training = "live" => closing'[bound] # "none"
    BY <1>1, DetachCancels DEF Reset
<1>6. UNCHANGED <<job, post, unseen, troubles>>
    BY DEF Reset
<1>7. {testing', evaluation'} \subseteq MaybeJob /\ test' = "locked"
    BY DEF Reset, DropTest, MaybeJob
<1>8. TrainingTypeOK'
    BY <1>1, <1>2, <1>3, <1>4, <1>5, <1>6, <1>7 DEF TrainingTypeOK, InferenceTypes, MaybeJob
<1>9. NoOrphanTraining'
    BY <1>1, <1>5, <1>6, TrainingPageAssumption DEF NoOrphanTraining
<1>10. JobsAreLinked'
    BY <1>2, <1>4 DEF JobsAreLinked, Outcome
<1> QED
    BY <1>3, <1>8, <1>9, <1>10 DEF TrainingInv

LEMMA ResetSimulationKeeps ==
    ASSUME TrainingInv, ResetSimulation PROVE TrainingInv'
<1>1. TrainingTypeOK /\ NoOrphanTraining /\ JobsAreLinked /\ InferenceIsLinked
    BY DEF TrainingInv
<1>2. /\ bound' = bound /\ submission' = NoJob /\ bound' \in MaybeJob
      /\ bound # NoJob /\ training \in {"live", "completed"} => training' = training
      /\ training' \in {"idle", "live", "completed"}
    BY <1>1 DEF ResetSimulation, Restored, TrainingTypeOK
<1>3. InferenceIsLinked' /\ InferenceTypes'
    BY <1>1, InferenceKept DEF ResetSimulation, InferenceTypes
<1>4. /\ poll' \in {"none", "due", "live", "lost"} \cup Outcome
      /\ poll' # "none" => bound' # NoJob /\ training' \in {"live", "completed"}
      /\ poll' \in {"lost"} \cup Outcome => poll' = poll
    <2>1. poll \in {"none", "due", "live", "lost"} \cup Outcome
        BY <1>1 DEF TrainingTypeOK
    <2> QED
        BY <2>1, WatchKeeps DEF ResetSimulation
<1>5. /\ closing' \in [Job -> {"none", "sent", "arrived", "lost"}]
      /\ \A j \in Job : closing[j] # "none" => closing'[j] # "none"
    BY <1>1, DetachCancels DEF ResetSimulation
<1>6. UNCHANGED <<job, post, unseen, troubles>>
    BY DEF ResetSimulation
<1>7. {testing', evaluation'} \subseteq MaybeJob /\ test' = "locked"
    BY DEF ResetSimulation, DropTest, MaybeJob
<1>8. TrainingTypeOK'
    BY <1>1, <1>2, <1>3, <1>4, <1>5, <1>6, <1>7
       DEF TrainingTypeOK, InferenceTypes, MaybeJob, Outcome
<1>9. NoOrphanTraining'
    BY <1>1, <1>2, <1>5, <1>6, TrainingPageAssumption DEF NoOrphanTraining
<1>10. JobsAreLinked'
    BY <1>1, <1>2, <1>4, <1>5, <1>6 DEF JobsAreLinked, TrainingTypeOK, MaybeJob, Outcome
<1> QED
    BY <1>3, <1>8, <1>9, <1>10 DEF TrainingInv

LEMMA ReloadKeeps ==
    ASSUME TrainingInv, Reload PROVE TrainingInv'
<1>1. TrainingTypeOK /\ NoOrphanTraining /\ JobsAreLinked /\ InferenceIsLinked
    BY DEF TrainingInv
<1>2. /\ bound' = bound /\ submission' = NoJob /\ bound' \in MaybeJob
      /\ bound # NoJob /\ training \in {"live", "completed"} => training' = training
      /\ training' \in {"idle", "live", "completed"}
      /\ training' # "idle" => training' = training
    BY <1>1 DEF Reload, Restored, TrainingTypeOK
<1>3. InferenceIsLinked' /\ InferenceTypes'
    BY <1>1, InferenceKept DEF Reload, InferenceTypes
<1>4. /\ poll' \in {"none", "due"}
      /\ poll' # "none" => bound' # NoJob /\ training' \in {"live", "completed"}
    BY <1>2 DEF Reload
<1>5. /\ post' \in [Job -> {"unsent", "waiting", "refused", "gone", "settled"}]
      /\ \A j \in Job : post[j] \in {"waiting", "gone"} => post'[j] = "gone"
    BY <1>1 DEF Reload, TrainingTypeOK
<1>6. UNCHANGED <<job, closing, unseen>>
    BY DEF Reload
<1>7. {testing', evaluation'} \subseteq MaybeJob /\ test' = "locked"
    BY DEF Reload, DropTest, MaybeJob
<1>8. troubles' \in 0..MaxTrainingTroubles
    BY <1>1, TrainingPageAssumption DEF Reload, Trouble, TrainingTypeOK
<1>9. TrainingTypeOK'
    BY <1>1, <1>2, <1>3, <1>4, <1>5, <1>6, <1>7, <1>8
       DEF TrainingTypeOK, InferenceTypes, MaybeJob, Outcome
<1>10. NoOrphanTraining'
    BY <1>1, <1>2, <1>5, <1>6, TrainingPageAssumption DEF NoOrphanTraining
<1>11. JobsAreLinked'
    BY <1>1, <1>2, <1>4, <1>6 DEF JobsAreLinked, Outcome
<1> QED
    BY <1>3, <1>9, <1>10, <1>11 DEF TrainingInv

\* What the service does on its own: no job is forgotten, and one becomes live again only
\* where a cancellation has reached it.
LEMMA ServiceKeeps ==
    ASSUME TrainingInv, UNCHANGED <<jobVars, testVars, inferenceVars>>,
           troubles' \in 0..MaxTrainingTroubles, job' \in [Job -> JobState],
           \A j \in Job :
              /\ job[j] # "absent" => job'[j] # "absent"
              /\ job'[j] = "live" =>
                    job[j] = "live" \/ closing[j] # "none" \/ post[j] \in {"waiting", "gone"},
           \A j \in Job : job'[j] = "live" /\ job[j] # "live" =>
              job[j] = "absent" \/ closing[j] # "none"
    PROVE  TrainingInv'
<1>1. TrainingTypeOK /\ NoOrphanTraining /\ JobsAreLinked /\ InferenceIsLinked
    BY DEF TrainingInv
<1>2. UNCHANGED <<post, submission, bound, training, poll, closing, unseen>>
    BY DEF jobVars
<1>3. UNCHANGED <<test, testing, evaluation>>
    BY DEF testVars
<1>4. UNCHANGED <<asked, inference, inferring, shown, applied>>
    BY DEF inferenceVars
<1>5. TrainingTypeOK'
    BY <1>1, <1>2, <1>3, <1>4 DEF TrainingTypeOK
<1>6. NoOrphanTraining'
    BY <1>1, <1>2 DEF NoOrphanTraining
<1>7. JobsAreLinked'
    <2>1. bound # NoJob => bound \in Job
        BY <1>1 DEF TrainingTypeOK, MaybeJob
    <2>2. poll # "none" => bound # NoJob
        BY <1>1 DEF TrainingTypeOK
    <2> QED
        BY <1>1, <1>2, <2>1, <2>2 DEF JobsAreLinked, Outcome
<1>8. InferenceIsLinked'
    BY <1>1, <1>2, <1>4 DEF InferenceIsLinked, InferenceIsCurrent
<1> QED
    BY <1>5, <1>6, <1>7, <1>8 DEF TrainingInv

LEMMA ServiceStepsKeep ==
    ASSUME TrainingInv, ServiceMoves \/ ServiceRestarts \/ \E j \in Job : PostServed(j)
    PROVE  TrainingInv'
<1>1. /\ job \in [Job -> JobState] /\ troubles \in 0..MaxTrainingTroubles
    BY DEF TrainingInv, TrainingTypeOK
<1>2. CASE ServiceRestarts
    <2>1. UNCHANGED <<jobVars, testVars, inferenceVars>> /\ Trouble
        BY <1>2 DEF ServiceRestarts
    <2>2. troubles' \in 0..MaxTrainingTroubles
        BY <1>1, <2>1, TrainingPageAssumption DEF Trouble
    <2>3. /\ job' \in [Job -> JobState]
          /\ \A j \in Job : job'[j] # "live" /\ (job[j] # "absent" => job'[j] # "absent")
        BY <1>1, <1>2 DEF ServiceRestarts, RestartService, JobState, Outcome
    <2> QED
        BY <2>1, <2>2, <2>3, ServiceKeeps
<1>3. ASSUME NEW j \in Job, PostServed(j) PROVE TrainingInv'
    <2>1. /\ UNCHANGED <<jobVars, testVars, inferenceVars, troubles>>
          /\ job[j] = "absent" /\ job' = [job EXCEPT ![j] = "live"]
          /\ post[j] \in {"waiting", "gone"}
        BY <1>3 DEF PostServed, AcceptJob, Becomes
    <2>2. job' \in [Job -> JobState]
        BY <1>1, <2>1 DEF JobState
    <2> QED
        BY <1>1, <2>1, <2>2, ServiceKeeps
<1>4. ASSUME NEW j \in Job, NEW outcome \in Outcome, EndJob(j, outcome),
             UNCHANGED <<jobVars, testVars, inferenceVars, troubles>>
      PROVE  TrainingInv'
    <2>1. job' = [job EXCEPT ![j] = outcome] /\ job[j] = "live"
        BY <1>4 DEF EndJob, Becomes
    <2>2. job' \in [Job -> JobState] /\ outcome \notin {"live", "absent"}
        BY <1>1, <2>1 DEF JobState, Outcome
    <2> QED
        BY <1>1, <1>4, <2>1, <2>2, ServiceKeeps
<1>5. ASSUME NEW j \in Job, closing[j] = "arrived", ReenterJob(j),
             UNCHANGED <<jobVars, testVars, inferenceVars, troubles>>
      PROVE  TrainingInv'
    <2>1. job' = [job EXCEPT ![j] = "live"] /\ job[j] = "cancelled"
        BY <1>5 DEF ReenterJob, Becomes
    <2>2. job' \in [Job -> JobState]
        BY <1>1, <2>1 DEF JobState
    <2> QED
        BY <1>1, <1>5, <2>1, <2>2, ServiceKeeps
<1>6. CASE ServiceMoves
    BY <1>4, <1>5, <1>6 DEF ServiceMoves, Outcome
<1> QED
    BY <1>2, <1>3, <1>6

\* A POST that fails unbinds nothing: the page waits for it with no job bound.
LEMMA FailureKeeps ==
    ASSUME TrainingInv, NEW j \in Job, SubmissionFails(j),
           post[j] \in {"waiting", "refused"}, post' \in [Job ->
                {"unsent", "waiting", "refused", "gone", "settled"}],
           \A k \in Job : k # j => post'[k] = post[k],
           closing' \in [Job -> {"none", "sent", "arrived", "lost"}],
           \A k \in Job : closing[k] # "none" => closing'[k] # "none",
           post[j] = "refused" \/ post'[j] = "gone" \/ closing'[j] # "none",
           troubles' \in 0..MaxTrainingTroubles
    PROVE  TrainingInv'
<1>1. TrainingTypeOK /\ NoOrphanTraining /\ JobsAreLinked /\ InferenceIsLinked
    BY DEF TrainingInv
<1>2. j # NoJob
    BY TrainingPageAssumption
<1>3. bound' = bound /\ bound' \in MaybeJob /\ UNCHANGED <<job, unseen>>
    BY <1>1 DEF SubmissionFails, TrainingTypeOK
<1>4. /\ submission' = NoJob \/ (submission' = submission /\ submission # j)
      /\ submission' \in MaybeJob
      /\ submission = j \/ (submission' = submission /\ training' = training)
      /\ training' \in {"idle", "live"} \cup Outcome
      /\ submission # j => training' = training
    BY <1>1, <1>2 DEF SubmissionFails, TrainingTypeOK, MaybeJob, Outcome
<1>5. InferenceIsLinked' /\ InferenceTypes'
    BY <1>1, <1>3, ReinferKeeps DEF SubmissionFails, InferenceTypes
<1>6. /\ poll' \in {"none", "due", "live", "lost"} \cup Outcome
      /\ poll' # "none" => bound' # NoJob /\ training' \in {"live", "completed"}
      /\ poll' \in {"lost"} \cup Outcome => poll' = poll
    <2>1. poll \in {"none", "due", "live", "lost"} \cup Outcome
        BY <1>1 DEF TrainingTypeOK
    <2> QED
        BY <2>1, WatchKeeps DEF SubmissionFails
<1>7. UNCHANGED <<test, testing, evaluation>>
    BY DEF SubmissionFails, testVars
<1>8. submission' # NoJob =>
        post'[submission'] \in {"waiting", "refused"} /\ training' = "live"
    BY <1>1, <1>4 DEF TrainingTypeOK, MaybeJob
<1>9. TrainingTypeOK'
    BY <1>1, <1>3, <1>4, <1>5, <1>6, <1>7, <1>8 DEF TrainingTypeOK, InferenceTypes
<1>10. NoOrphanTraining'
    <2> SUFFICES ASSUME NEW k \in Job, job[k] = "live"
                 PROVE  \/ bound' = k /\ training' = "live"
                        \/ post'[k] \in {"waiting", "gone"}
                        \/ closing'[k] # "none" \/ k \in unseen
        BY <1>3 DEF NoOrphanTraining
    <2>1. CASE bound = k /\ training = "live"
        BY <1>1, <1>2, <1>3, <1>4, <2>1, TrainingPageAssumption DEF JobsAreLinked
    <2>2. CASE ~(bound = k /\ training = "live")
        BY <1>1, <2>2 DEF NoOrphanTraining
    <2> QED
        BY <2>1, <2>2
<1>11. JobsAreLinked'
    BY <1>1, <1>3, <1>4, <1>6 DEF JobsAreLinked, TrainingTypeOK, MaybeJob, Outcome
<1> QED
    BY <1>5, <1>9, <1>10, <1>11 DEF TrainingInv

\* The POSTs: refused, too late, or answered.
LEMMA PostStepsKeep ==
    ASSUME TrainingInv, NEW j \in Job,
           PostRefused(j) \/ RefusalAnswered(j) \/ PostTooLate(j)
              \/ \E slow \in BOOLEAN : PostAnswered(j, slow)
    PROVE  TrainingInv'
<1>1. TrainingTypeOK /\ NoOrphanTraining /\ JobsAreLinked /\ InferenceIsLinked
    BY DEF TrainingInv
<1>2. j # NoJob /\ j \in MaybeJob
    BY TrainingPageAssumption DEF MaybeJob
<1>3. /\ post \in [Job -> {"unsent", "waiting", "refused", "gone", "settled"}]
      /\ closing \in [Job -> {"none", "sent", "arrived", "lost"}]
      /\ troubles \in 0..MaxTrainingTroubles
    BY <1>1 DEF TrainingTypeOK
<1>4. CASE PostRefused(j)
    <2>1. /\ UNCHANGED <<job, submission, bound, training, poll, closing, unseen, troubles>>
          /\ UNCHANGED <<test, testing, evaluation>>
          /\ UNCHANGED <<asked, inference, inferring, shown, applied>>
        BY <1>4 DEF PostRefused, testVars, inferenceVars
    <2>2. /\ post' \in [Job -> {"unsent", "waiting", "refused", "gone", "settled"}]
          /\ post'[j] = "refused" /\ job[j] = "absent" /\ \A k \in Job : k # j => post'[k] = post[k]
        BY <1>3, <1>4 DEF PostRefused
    <2>3. TrainingTypeOK'
        BY <1>1, <2>1, <2>2 DEF TrainingTypeOK, MaybeJob
    <2>4. NoOrphanTraining'
        BY <1>1, <2>1, <2>2 DEF NoOrphanTraining
    <2> QED
        BY <1>1, <2>1, <2>3, <2>4 DEF TrainingInv, JobsAreLinked, InferenceIsLinked,
            InferenceIsCurrent
<1>5. CASE RefusalAnswered(j)
    BY <1>3, <1>5, FailureKeeps DEF RefusalAnswered
<1>6. CASE PostTooLate(j)
    <2>1. troubles' \in 0..MaxTrainingTroubles
        BY <1>3, <1>6, TrainingPageAssumption DEF PostTooLate, Trouble
    <2> QED
        BY <1>3, <1>6, <2>1, FailureKeeps DEF PostTooLate
<1>7. ASSUME NEW slow \in BOOLEAN, PostAnswered(j, slow) PROVE TrainingInv'
    <2>1. /\ post' \in [Job -> {"unsent", "waiting", "refused", "gone", "settled"}]
          /\ \A k \in Job : k # j => post'[k] = post[k]
          /\ post[j] = "waiting" /\ job[j] # "absent" /\ troubles' = troubles
        BY <1>3, <1>7 DEF PostAnswered
    <2>2. CASE submission # j \/ slow
        <3>1. /\ SubmissionFails(j)
              /\ closing' = [closing EXCEPT ![j] = "sent"]
            BY <1>7, <2>2 DEF PostAnswered
        <3> QED
            BY <1>3, <2>1, <3>1, FailureKeeps
    <2>3. CASE submission = j /\ ~slow
        <3>1. /\ submission' = NoJob /\ bound' = j /\ training' = "live" /\ closing' = closing
              /\ Watch("none") /\ Reinfer /\ UNCHANGED <<job, unseen, testVars>>
            BY <1>7, <2>3 DEF PostAnswered
        <3>2. InferenceIsLinked' /\ InferenceTypes'
            BY <1>1, <1>2, <3>1, ReinferKeeps DEF InferenceTypes
        <3>3. poll' \in {"none", "due"}
            <4>1. bound = NoJob
                BY <1>1, <1>2, <2>3 DEF JobsAreLinked
            <4> QED
                BY <1>2, <3>1, <4>1 DEF Watch
        <3>4. TrainingTypeOK'
            BY <1>1, <1>2, <2>1, <3>1, <3>2, <3>3
               DEF TrainingTypeOK, InferenceTypes, testVars, MaybeJob
        <3>5. NoOrphanTraining'
            <4>1. ~(\E k \in Job : bound = k)
                BY <1>1, <1>2, <2>3, TrainingPageAssumption DEF JobsAreLinked
            <4> QED
                BY <1>1, <2>1, <3>1, <4>1 DEF NoOrphanTraining
        <3>6. JobsAreLinked'
            BY <2>1, <3>1, <3>3 DEF JobsAreLinked, Outcome
        <3> QED
            BY <3>2, <3>4, <3>5, <3>6 DEF TrainingInv
    <2> QED
        BY <2>2, <2>3
<1> QED
    BY <1>4, <1>5, <1>6, <1>7

\* The cancellation and the poll.
LEMMA PollStepsKeep ==
    ASSUME TrainingInv, PollServed \/ PollAnswered \/ PollFails
              \/ \E j \in Job : CancelArrives(j) \/ CancelLost(j)
    PROVE  TrainingInv'
<1>1. TrainingTypeOK /\ NoOrphanTraining /\ JobsAreLinked /\ InferenceIsLinked
    BY DEF TrainingInv
<1>2. /\ bound # NoJob => bound \in Job
      /\ bound \in MaybeJob /\ NoJob \in MaybeJob /\ NoJob \notin Job
    BY <1>1, TrainingPageAssumption DEF TrainingTypeOK, MaybeJob
<1>3. ASSUME NEW j \in Job, CancelArrives(j) \/ CancelLost(j) PROVE TrainingInv'
    <2>1. /\ UNCHANGED <<job, post, submission, bound, training, poll, unseen>>
          /\ UNCHANGED <<test, testing, evaluation>>
          /\ UNCHANGED <<asked, inference, inferring, shown, applied>>
        BY <1>3 DEF CancelArrives, CancelLost, testVars, inferenceVars
    <2>2. /\ closing' \in [Job -> {"none", "sent", "arrived", "lost"}]
          /\ \A k \in Job : closing[k] # "none" => closing'[k] # "none"
        BY <1>1, <1>3 DEF CancelArrives, CancelLost, TrainingTypeOK
    <2>3. troubles' \in 0..MaxTrainingTroubles
        BY <1>1, <1>3, TrainingPageAssumption
           DEF CancelArrives, CancelLost, Trouble, TrainingTypeOK
    <2>4. TrainingTypeOK'
        BY <1>1, <2>1, <2>2, <2>3 DEF TrainingTypeOK
    <2>5. NoOrphanTraining'
        BY <1>1, <2>1, <2>2 DEF NoOrphanTraining
    <2>6. JobsAreLinked'
        BY <1>1, <1>2, <2>1, <2>2 DEF JobsAreLinked, TrainingTypeOK, Outcome
    <2> QED
        BY <1>1, <2>1, <2>4, <2>5, <2>6 DEF TrainingInv, InferenceIsLinked, InferenceIsCurrent
<1>4. CASE PollServed
    <2>1. /\ UNCHANGED <<job, post, submission, bound, training, closing, unseen, troubles>>
          /\ UNCHANGED <<test, testing, evaluation>>
          /\ UNCHANGED <<asked, inference, inferring, shown, applied>>
        BY <1>4 DEF PollServed, testVars, inferenceVars
    <2>2. /\ poll' = job[bound] /\ bound \in Job /\ training \in {"live", "completed"}
          /\ poll' \in {"live", "lost"} \cup Outcome
        BY <1>1, <1>2, <1>4 DEF PollServed, TrainingTypeOK, JobsAreLinked, JobState, Outcome
    <2>3. TrainingTypeOK'
        BY <1>1, <1>2, <2>1, <2>2 DEF TrainingTypeOK
    <2>4. NoOrphanTraining'
        BY <1>1, <2>1 DEF NoOrphanTraining
    <2>5. JobsAreLinked'
        BY <1>1, <2>1, <2>2 DEF JobsAreLinked, Outcome
    <2> QED
        BY <1>1, <2>1, <2>3, <2>4, <2>5 DEF TrainingInv, InferenceIsLinked, InferenceIsCurrent
<1>5. CASE PollAnswered
    <2>1. /\ UNCHANGED <<job, post, submission, closing, unseen, testing, evaluation, troubles>>
          /\ Reinfer /\ Watch(IF poll = "live" THEN "due" ELSE "none")
          /\ poll \in {"live", "lost"} \cup Outcome /\ bound \in Job /\ submission = NoJob
        BY <1>1, <1>2, <1>5 DEF PollAnswered, TrainingTypeOK, JobsAreLinked
    <2>2. /\ bound' \in MaybeJob /\ bound' \in {bound, NoJob}
          /\ training' \in {"idle", "live"} \cup Outcome
          /\ poll = "live" => bound' = bound /\ training' = "live"
        BY <1>2, <1>5, <2>1 DEF PollAnswered
    <2>3. InferenceIsLinked' /\ InferenceTypes'
        BY <1>1, <2>1, <2>2, ReinferKeeps DEF InferenceTypes
    <2>4. /\ poll' \in {"none", "due"}
          /\ poll' # "none" => bound' # NoJob /\ training' \in {"live", "completed"}
        BY <2>1 DEF Watch
    <2>5. test' \in {"locked", "idle", "running", "completed", "failed"}
        BY <1>1, <1>5 DEF PollAnswered, TrainingTypeOK
    <2>6. TrainingTypeOK'
        BY <1>1, <2>1, <2>2, <2>3, <2>4, <2>5, <1>2 DEF TrainingTypeOK, InferenceTypes
    <2>7. NoOrphanTraining'
        <3>1. CASE poll = "live"
            BY <1>1, <2>1, <2>2, <3>1 DEF NoOrphanTraining
        <3>2. CASE poll # "live"
            <4>1. job[bound] # "live" \/ closing[bound] # "none"
                BY <1>1, <2>1, <3>2 DEF JobsAreLinked
            <4> QED
                BY <1>1, <2>1, <4>1 DEF NoOrphanTraining
        <3> QED
            BY <3>1, <3>2
    <2>8. JobsAreLinked'
        BY <1>1, <2>1, <2>2, <2>4 DEF JobsAreLinked, Outcome
    <2> QED
        BY <2>3, <2>6, <2>7, <2>8 DEF TrainingInv
<1>6. CASE PollFails
    <2>1. /\ UNCHANGED <<job, post, submission, closing>> /\ UNCHANGED <<test, testing, evaluation>>
          /\ Reinfer /\ Watch("none") /\ bound' = bound /\ bound \in Job /\ submission = NoJob
          /\ training' = "failed"
          /\ unseen' = IF job[bound] = "live" THEN unseen \cup {bound} ELSE unseen
        BY <1>1, <1>2, <1>6 DEF PollFails, TrainingTypeOK, JobsAreLinked, testVars
    <2>2. poll' = "none"
        BY <2>1 DEF Watch
    <2>3. InferenceIsLinked' /\ InferenceTypes'
        BY <1>1, <1>2, <2>1, ReinferKeeps DEF InferenceTypes
    <2>4. troubles' \in 0..MaxTrainingTroubles
        BY <1>1, <1>6, TrainingPageAssumption DEF PollFails, Trouble, TrainingTypeOK
    <2>5. unseen' \subseteq Job
        BY <1>1, <2>1 DEF TrainingTypeOK
    <2>6. TrainingTypeOK'
        BY <1>1, <2>1, <2>2, <2>3, <2>4, <2>5 DEF TrainingTypeOK, InferenceTypes, Outcome
    <2>7. NoOrphanTraining'
        BY <1>1, <2>1 DEF NoOrphanTraining
    <2>8. JobsAreLinked'
        BY <1>1, <2>1, <2>2 DEF JobsAreLinked, Outcome
    <2> QED
        BY <2>3, <2>6, <2>7, <2>8 DEF TrainingInv
<1> QED
    BY <1>3, <1>4, <1>5, <1>6

\* The tests and the inferences change nothing of the jobs.
LEMMA TestStepsKeep ==
    ASSUME TrainingInv,
           \/ StartTest \/ TestAnswered \/ TestFails \/ ReplayEnds \/ ResetTest
           \/ AskInference \/ InferenceAnswered \/ InferenceFails \/ ApplyInference
    PROVE  TrainingInv'
<1>1. TrainingTypeOK /\ NoOrphanTraining /\ JobsAreLinked /\ InferenceIsLinked
    BY DEF TrainingInv
<1>2. /\ UNCHANGED <<job, troubles>>
      /\ UNCHANGED <<post, submission, bound, training, poll, closing, unseen>>
    <2>1. UNCHANGED <<job, jobVars, troubles>>
        BY DEF StartTest, TestAnswered, TestFails, ReplayEnds, ResetTest, AskInference,
               InferenceAnswered, InferenceFails, ApplyInference
    <2> QED
        BY <2>1 DEF jobVars
<1>3. NoOrphanTraining' /\ JobsAreLinked'
    BY <1>1, <1>2 DEF NoOrphanTraining, JobsAreLinked
<1>4. CASE StartTest \/ TestAnswered \/ TestFails \/ ReplayEnds \/ ResetTest
    <2>1. UNCHANGED <<asked, inference, inferring, shown, applied>>
        BY <1>4 DEF StartTest, TestAnswered, TestFails, ReplayEnds, ResetTest, inferenceVars
    <2>2. InferenceIsLinked'
        BY <1>1, <1>2, <2>1 DEF InferenceIsLinked, InferenceIsCurrent
    <2>3. /\ {testing', evaluation'} \subseteq MaybeJob
          /\ test' \in {"locked", "idle", "running", "completed", "failed"}
        BY <1>1, <1>4 DEF StartTest, TestAnswered, TestFails, ReplayEnds, ResetTest, DropTest,
            TrainingTypeOK, MaybeJob
    <2>4. TrainingTypeOK'
        BY <1>1, <1>2, <2>1, <2>3 DEF TrainingTypeOK
    <2> QED
        BY <1>3, <2>2, <2>4 DEF TrainingInv
<1>5. CASE AskInference \/ InferenceAnswered \/ InferenceFails \/ ApplyInference
    <2>1. UNCHANGED <<test, testing, evaluation>>
        BY <1>5 DEF AskInference, InferenceAnswered, InferenceFails, ApplyInference, testVars
    <2>2. InferenceIsLinked' /\ InferenceTypes'
        BY <1>1, <1>2, <1>5 DEF AskInference, InferenceAnswered, InferenceFails, ApplyInference,
            InferenceIsLinked, InferenceIsCurrent, InferenceTypes, TrainingTypeOK, MaybeJob
    <2>3. TrainingTypeOK'
        BY <1>1, <1>2, <2>1, <2>2 DEF TrainingTypeOK, InferenceTypes
    <2> QED
        BY <1>3, <2>2, <2>3 DEF TrainingInv
<1> QED
    BY <1>4, <1>5

\* The inductive invariant of the training page, for every number of jobs and of troubles.
THEOREM TrainingInvariance == TrainingSpec => []TrainingInv
<1>1. TrainingInit => TrainingInv
    <2> SUFFICES ASSUME TrainingInit PROVE TrainingInv
        OBVIOUS
    <2>1. NoJob \in MaybeJob /\ 0 \in 0..MaxTrainingTroubles
        BY TrainingPageAssumption DEF MaybeJob
    <2>2. /\ job \in [Job -> JobState] /\ \A j \in Job : job[j] = "absent"
        BY DEF TrainingInit, ServiceInit, JobState
    <2>3. TrainingTypeOK
        BY <2>1, <2>2 DEF TrainingInit, TrainingTypeOK
    <2>4. NoOrphanTraining
        BY <2>2 DEF NoOrphanTraining
    <2>5. JobsAreLinked /\ InferenceIsLinked
        BY DEF TrainingInit, JobsAreLinked, InferenceIsLinked, InferenceIsCurrent, Outcome
    <2> QED
        BY <2>3, <2>4, <2>5 DEF TrainingInv
<1>2. TrainingInv /\ [TrainingNext]_pageVars => TrainingInv'
    <2> SUFFICES ASSUME TrainingInv, [TrainingNext]_pageVars PROVE TrainingInv'
        OBVIOUS
    <2>1. CASE TrainingNext
        BY <2>1, StartKeeps, ResetKeeps, ResetSimulationKeeps, ReloadKeeps, ServiceStepsKeep,
           PostStepsKeep, PollStepsKeep, TestStepsKeep DEF TrainingNext
    <2>2. CASE UNCHANGED pageVars
        <3>1. UNCHANGED <<jobVars, testVars, inferenceVars, job, troubles>>
            BY <2>2 DEF pageVars
        <3>2. job \in [Job -> JobState] /\ troubles \in 0..MaxTrainingTroubles
            BY DEF TrainingInv, TrainingTypeOK
        <3> QED
            BY <3>1, <3>2, ServiceKeeps
    <2> QED
        BY <2>1, <2>2
<1> QED
    BY <1>1, <1>2, PTL DEF TrainingSpec

\* A job that is live at the service is watched, on its way to the page or being cancelled,
\* and the inference that can be applied is of the checkpoint the page is bound to, over every
\* order of changes, late answers and restarts (App.tsx, invalidateRlTrainingRequests).
THEOREM TrainingKeepsItsJobs == TrainingSpec => []TrainingIsWatched
<1>1. TrainingInv => TrainingIsWatched
    BY DEF TrainingInv, TrainingIsWatched, InferenceIsLinked
<1> QED
    BY <1>1, TrainingInvariance, PTL

----------------------------------------------------------------------------
(* The evidence centre.  One refresh is alive at a time, and none while an *)
(* action has not been answered.                                           *)

Stage == Proposed..RolledBack
Read == [by : {"poll", "action", "button"},
         parts : [Part -> {Waiting, Rejected} \cup 1..MaxVersion]]
ActionRecord == [kind : Kind \cup {"none"}, at : {"none", "sent", "served", "reading"},
                 answer : Plan, version : 0..MaxVersion]
Telemetry == [snapshot : 0..MaxVersion, recommendations : 0..MaxVersion, available : BOOLEAN]

Pending(at) == at \in {"sent", "served"}

\* A plan the page knows was inferred, and the services have it at that stage or a later one.
Known(d) == d.plan \in DOMAIN plans /\ d.stage <= plans[d.plan]

\* What a refresh or an answer brings is not older than what is on show.
NothingOlderComes ==
    /\ \A r, s \in reads : r = s
    /\ Pending(action.at) => reads = {}
    /\ \A r \in reads :
        r.parts["snapshot"] >= 0 => r.parts["snapshot"] >= telemetry.snapshot
    /\ action.at = "served" => action.version >= telemetry.snapshot /\ action.version <= version

\* The action in flight has cleared the report it will replace, and knows its plan.
ActionsKnowTheirPlan ==
    /\ decision # NoPlan => Known(decision)
    /\ Pending(action.at) => action.kind \in Kind
    /\ Pending(action.at) /\ action.kind # "inject" => report = NoPlan
    /\ Pending(action.at) /\ action.kind \in {"approve", "execute", "rollback", "report"} =>
         decision # NoPlan
    /\ action.at = "served" /\ action.kind # "inject" =>
         action.answer # NoPlan /\ Known(action.answer)
    /\ action.at = "served" /\ action.kind = "report" =>
         action.answer.plan = decision.plan /\ action.answer.stage >= decision.stage

EvidenceInv ==
    /\ EvidenceTypeOK
    /\ reads \subseteq Read /\ action \in ActionRecord /\ telemetry \in Telemetry
    /\ NothingOlderComes /\ ActionsKnowTheirPlan /\ ReportIsNotOlder

LEMMA FreshReads ==
    ASSUME EvidenceInv, NEW by \in {"poll", "action", "button"}
    PROVE  /\ NewRead(by) \in Read /\ NewRead(by).by = by
           /\ NewRead(by).parts \in [Part -> {Waiting, Rejected} \cup 1..version]
           /\ NewRead(by).parts["snapshot"] < 0
BY DEF NewRead, Read, Part, Waiting, Rejected

LEMMA NoActionIsOne ==
    NoAction \in ActionRecord /\ NoAction.at = "none"
<1>1. 0 \in 0..MaxVersion /\ NoPlan \in Plan
    BY EvidenceAssumption DEF Plan
<1> QED
    BY <1>1 DEF NoAction, ActionRecord

\* A refresh begins while there is no action: by the timer or by the button.
LEMMA ReadBeginsKeeps ==
    ASSUME EvidenceInv, PollFires \/ Reconnect PROVE EvidenceInv'
<1>1. PICK by \in {"poll", "button"} :
        /\ action = NoAction /\ reads' = {NewRead(by)}
        /\ UNCHANGED <<serverVars, panelVars, action, telemetry, actions, tokens>>
    BY DEF PollFires, Reconnect, BeginRead
<1>2. UNCHANGED <<version, plans, acted, decision, report, action, telemetry, actions, tokens>>
    BY <1>1 DEF serverVars, panelVars
<1>3. /\ NewRead(by) \in Read /\ NewRead(by).by = by
      /\ NewRead(by).parts \in [Part -> {Waiting, Rejected} \cup 1..version]
      /\ NewRead(by).parts["snapshot"] < 0
    BY FreshReads
<1>4. action.at = "none" /\ ~(\E r \in reads' : r.by = "action")
    BY <1>1, <1>3 DEF NoAction
<1>5. EvidenceTypeOK' /\ reads' \subseteq Read /\ action' \in ActionRecord
      /\ telemetry' \in Telemetry
    BY <1>1, <1>2, <1>3, <1>4 DEF EvidenceInv, EvidenceTypeOK
<1>6. NothingOlderComes'
    <2>1. \A r \in reads' : r = NewRead(by)
        BY <1>1
    <2>2. ~(NewRead(by).parts["snapshot"] >= 0)
        BY <1>3 DEF Part, Waiting, Rejected, EvidenceInv, EvidenceTypeOK
    <2> QED
        BY <1>2, <1>4, <2>1, <2>2 DEF NothingOlderComes, Pending
<1>7. ActionsKnowTheirPlan' /\ ReportIsNotOlder'
    BY <1>2 DEF EvidenceInv, ActionsKnowTheirPlan, ReportIsNotOlder, Known
<1> QED
    BY <1>5, <1>6, <1>7 DEF EvidenceInv

LEMMA PartKeeps ==
    ASSUME EvidenceInv, NEW r \in reads, NEW p \in Part, PartAnswered(r, p) PROVE EvidenceInv'
<1>1. PICK new \in {version, Rejected} :
        reads' = (reads \ {r}) \cup {[r EXCEPT !.parts[p] = new]}
    BY DEF PartAnswered
<1>2. UNCHANGED <<version, plans, acted, decision, report, action, telemetry, actions, tokens>>
    BY DEF PartAnswered, serverVars, panelVars
<1>3. /\ version \in 1..MaxVersion /\ r \in Read /\ reads = {r}
      /\ r.parts \in [Part -> {Waiting, Rejected} \cup 1..version]
      /\ telemetry.snapshot \in 0..version
      /\ r.parts["snapshot"] >= 0 => r.parts["snapshot"] >= telemetry.snapshot
    BY DEF EvidenceInv, EvidenceTypeOK, NothingOlderComes
<1>4. PICK s : s = [r EXCEPT !.parts[p] = new]
    OBVIOUS
<1>5. reads' = {s} /\ s.by = r.by /\ s.parts = [r.parts EXCEPT ![p] = new]
    BY <1>1, <1>3, <1>4 DEF Read
<1>6. s.parts \in [Part -> {Waiting, Rejected} \cup 1..version]
    BY <1>3, <1>5
<1>7. s \in Read
    BY <1>3, <1>4 DEF Read
<1>8. s.parts["snapshot"] >= 0 => s.parts["snapshot"] >= telemetry.snapshot
    BY <1>3, <1>5 DEF Part, Rejected
<1>9. /\ EvidenceTypeOK' /\ reads' \subseteq Read
      /\ action' \in ActionRecord /\ telemetry' \in Telemetry
    BY <1>2, <1>3, <1>5, <1>6, <1>7 DEF EvidenceInv, EvidenceTypeOK
<1>10. NothingOlderComes'
    BY <1>2, <1>3, <1>5, <1>8 DEF EvidenceInv, NothingOlderComes
<1>11. ActionsKnowTheirPlan' /\ ReportIsNotOlder'
    BY <1>2 DEF EvidenceInv, ActionsKnowTheirPlan, ReportIsNotOlder, Known
<1> QED
    BY <1>9, <1>10, <1>11 DEF EvidenceInv

LEMMA ReadEndsKeeps ==
    ASSUME EvidenceInv, NEW r \in reads, ReadEnds(r)
    PROVE  EvidenceInv' /\ telemetry'.snapshot >= telemetry.snapshot
<1>1. UNCHANGED <<version, plans, acted, decision, report, actions, tokens>>
    BY DEF ReadEnds, serverVars, panelVars
<1>2. /\ version \in 1..MaxVersion /\ reads = {r} /\ telemetry \in Telemetry
      /\ r.parts \in [Part -> {Waiting, Rejected} \cup 1..version]
      /\ telemetry.snapshot \in 0..version
      /\ r.parts["snapshot"] >= 0 => r.parts["snapshot"] >= telemetry.snapshot
      /\ action.at = "reading" <=> r.by = "action"
      /\ ~Pending(action.at)
    BY DEF EvidenceInv, EvidenceTypeOK, NothingOlderComes
<1>3. /\ Value(r, "snapshot") \in 0..version /\ Value(r, "recommendations") \in 0..version
      /\ Value(r, "snapshot") # 0 => Value(r, "snapshot") >= telemetry.snapshot
    BY <1>2 DEF ReadEnds, Value, Part, Waiting, Rejected
<1>4. reads' = {}
    BY <1>2 DEF ReadEnds
<1>5. /\ telemetry'.snapshot =
            IF Value(r, "snapshot") = 0 THEN telemetry.snapshot ELSE Value(r, "snapshot")
      /\ telemetry'.recommendations \in 0..version /\ telemetry' \in Telemetry
      /\ telemetry'.available \in BOOLEAN
    <2>1. PICK a, b : /\ a = IF Value(r, "snapshot") = 0 THEN telemetry.snapshot
                                                       ELSE Value(r, "snapshot")
                     /\ b = IF Value(r, "snapshot") = 0 THEN 0 ELSE Value(r, "recommendations")
        OBVIOUS
    <2>2. a \in 0..version /\ b \in 0..version
        BY <1>2, <1>3, <2>1
    <2>3. telemetry' = [snapshot |-> a, recommendations |-> b,
                        available |-> Value(r, "snapshot") # 0]
        BY <2>1 DEF ReadEnds
    <2>4. a \in 0..MaxVersion /\ b \in 0..MaxVersion
        BY <1>2, <2>2, EvidenceAssumption
    <2> QED
        BY <2>1, <2>2, <2>3, <2>4 DEF Telemetry
<1>6. telemetry'.snapshot \in 0..version /\ telemetry'.snapshot >= telemetry.snapshot
    BY <1>2, <1>3, <1>5
<1>7. /\ action' \in ActionRecord /\ action'.at # "reading"
      /\ action' = NoAction \/ action' = action
      /\ ~Pending(action'.at)
    BY <1>2, NoActionIsOne DEF ReadEnds, EvidenceInv, Pending
<1>8. action'.kind \in Kind \cup {"none"} /\ action'.answer \in Plan
      /\ action'.at \in {"none", "sent", "served", "reading"}
    BY <1>7 DEF ActionRecord
<1>9. EvidenceTypeOK' /\ reads' \subseteq Read
    BY <1>1, <1>4, <1>5, <1>6, <1>7, <1>8 DEF EvidenceInv, EvidenceTypeOK
<1>10. NothingOlderComes'
    BY <1>4, <1>7 DEF NothingOlderComes, Pending
<1>11. ActionsKnowTheirPlan' /\ ReportIsNotOlder'
    BY <1>1, <1>7 DEF EvidenceInv, ActionsKnowTheirPlan, ReportIsNotOlder, Known, Pending
<1> QED
    BY <1>5, <1>6, <1>7, <1>9, <1>10, <1>11 DEF EvidenceInv

LEMMA TokenKeeps ==
    ASSUME EvidenceInv, ChangeToken PROVE EvidenceInv'
<1>1. UNCHANGED <<version, plans, acted, decision, report, telemetry, actions>> /\ reads' = {}
    BY DEF ChangeToken, serverVars, panelVars
<1>2. /\ action' \in ActionRecord /\ action'.at # "reading"
      /\ action' = NoAction \/ action' = action
    BY NoActionIsOne DEF ChangeToken, EvidenceInv
<1>3. action'.kind \in Kind \cup {"none"} /\ action'.answer \in Plan
      /\ action'.at \in {"none", "sent", "served", "reading"}
    BY <1>2 DEF ActionRecord
<1>4. tokens' \in 0..MaxTokens
    BY EvidenceAssumption DEF ChangeToken, EvidenceInv, EvidenceTypeOK
<1>5. EvidenceTypeOK' /\ reads' \subseteq Read /\ telemetry' \in Telemetry
    BY <1>1, <1>2, <1>3, <1>4 DEF EvidenceInv, EvidenceTypeOK
<1>6. NothingOlderComes' /\ ActionsKnowTheirPlan' /\ ReportIsNotOlder'
    BY <1>1, <1>2 DEF EvidenceInv, NothingOlderComes, ActionsKnowTheirPlan, ReportIsNotOlder,
        Known, Pending, NoAction
<1> QED
    BY <1>2, <1>5, <1>6 DEF EvidenceInv

LEMMA ActKeeps ==
    ASSUME EvidenceInv, NEW kind \in Kind, Act(kind) PROVE EvidenceInv'
<1>1. UNCHANGED <<version, plans, acted, telemetry, tokens>> /\ reads' = {} /\ action = NoAction
    BY DEF Act, serverVars
<1>2. PICK new : new = [NoAction EXCEPT !.kind = kind, !.at = "sent"]
    OBVIOUS
<1>3. /\ action' = new /\ new \in ActionRecord /\ new.kind = kind /\ new.at = "sent"
      /\ new.answer \in Plan
    <2>1. NoAction \in ActionRecord
        BY NoActionIsOne
    <2> QED
        BY <1>2, <2>1 DEF Act, ActionRecord
<1>4. actions' \in 0..MaxActions
    BY EvidenceAssumption DEF Act, EvidenceInv, EvidenceTypeOK
<1>5. /\ decision' = IF kind = "infer" THEN NoPlan ELSE decision
      /\ report' = IF kind = "inject" THEN report ELSE NoPlan
      /\ decision \in Plan /\ report \in Plan /\ NoPlan \in Plan
    BY DEF Act, EvidenceInv, EvidenceTypeOK, Plan
<1>6. decision' \in Plan /\ report' \in Plan
    BY <1>5
<1>7. /\ EvidenceTypeOK' /\ reads' \subseteq Read
      /\ action' \in ActionRecord /\ telemetry' \in Telemetry
    BY <1>1, <1>3, <1>4, <1>6 DEF EvidenceInv, EvidenceTypeOK
<1>8. NothingOlderComes'
    BY <1>1, <1>3 DEF NothingOlderComes
<1>9. kind \in {"approve", "execute", "rollback", "report"} => decision' # NoPlan
    <2>1. Offered(kind)
        BY DEF Act
    <2>2. CASE kind \in {"approve", "execute", "rollback"}
        <3>1. decision.stage \in {Proposed, Approved, Executed}
            BY <2>1, <2>2 DEF Offered
        <3> QED
            BY <1>5, <2>2, <3>1 DEF NoPlan, Proposed, Approved, Executed
    <2>3. CASE kind = "report"
        BY <1>5, <2>1, <2>3 DEF Offered
    <2> QED
        BY <1>5, <2>2, <2>3
<1>10. ActionsKnowTheirPlan'
    BY <1>1, <1>3, <1>5, <1>9 DEF EvidenceInv, ActionsKnowTheirPlan, Known, Pending
<1>11. ReportIsNotOlder'
    BY <1>5 DEF EvidenceInv, ReportIsNotOlder
<1> QED
    BY <1>7, <1>8, <1>10, <1>11 DEF EvidenceInv

\* What the services do to their state: the version and the stages only grow.
ServerGrows ==
    /\ version' \in 1..MaxVersion /\ version' >= version
    /\ plans' \in Seq(Stage) /\ Len(plans') <= MaxPlans /\ Len(plans') >= Len(plans)
    /\ \A q \in DOMAIN plans : q \in DOMAIN plans' /\ plans'[q] >= plans[q]

\* The types of the services' state.
LEMMA ServerTypes ==
    ASSUME EvidenceInv
    PROVE  /\ version \in 1..MaxVersion /\ plans \in Seq(Stage) /\ Len(plans) <= MaxPlans
           /\ Len(plans) \in Nat /\ DOMAIN plans = 1..Len(plans)
           /\ \A q \in DOMAIN plans : plans[q] \in Stage
<1>1. version \in 1..MaxVersion /\ plans \in Seq(Stage) /\ Len(plans) <= MaxPlans
    BY DEF EvidenceInv, EvidenceTypeOK, Stage
<1> QED
    BY <1>1

\* What growing says of the new state.
LEMMA GrownTypes ==
    ASSUME EvidenceInv, ServerGrows
    PROVE  /\ Len(plans') \in Nat /\ DOMAIN plans' = 1..Len(plans') /\ Len(plans') <= MaxPlans
           /\ \A q \in DOMAIN plans' : plans'[q] \in Stage
           /\ \A q \in DOMAIN plans : q \in DOMAIN plans' /\ plans'[q] >= plans[q]
<1>1. plans' \in Seq(Stage) /\ Len(plans') <= MaxPlans
    BY DEF ServerGrows
<1> QED
    BY <1>1 DEF ServerGrows

LEMMA MovePlanGrows ==
    ASSUME EvidenceInv, NEW p \in DOMAIN plans, NEW from \in Proposed..Executed,
           MovePlan(p, from)
    PROVE  ServerGrows
<1>1. /\ version \in 1..MaxVersion /\ plans \in Seq(Stage) /\ Len(plans) <= MaxPlans
    BY ServerTypes
<1>2. version' \in 1..MaxVersion /\ version' >= version
    BY <1>1, EvidenceAssumption DEF MovePlan
<1>3. from + 1 \in Stage /\ plans[p] = from /\ plans' = [plans EXCEPT ![p] = from + 1]
    BY DEF MovePlan, Proposed, Executed, Stage, RolledBack
<1>4. plans' \in Seq(Stage) /\ Len(plans') = Len(plans)
    BY <1>1, <1>3
<1>5. \A q \in DOMAIN plans : q \in DOMAIN plans' /\ plans'[q] >= plans[q]
    <2>1. \A q \in DOMAIN plans : plans[q] \in Stage
        BY <1>1
    <2> QED
        BY <1>1, <1>3, <2>1 DEF Stage, Proposed, RolledBack
<1> QED
    BY <1>1, <1>2, <1>4, <1>5 DEF ServerGrows

LEMMA ServeGrows ==
    ASSUME EvidenceInv, action.at = "sent", Serve
    PROVE  /\ ServerGrows
           /\ action.kind = "infer" => Len(plans') \in DOMAIN plans' /\ Len(plans') # 0
<1>1. /\ version \in 1..MaxVersion /\ plans \in Seq(Stage) /\ Len(plans) <= MaxPlans
      /\ Len(plans) \in Nat /\ \A q \in DOMAIN plans : plans[q] \in Stage
    BY ServerTypes
<1>2. CASE action.kind = "inject"
    BY <1>1, <1>2, EvidenceAssumption DEF Serve, ServerGrows, Stage, Proposed, RolledBack
<1>3. CASE action.kind = "infer"
    <2>1. plans' = Append(plans, Proposed) /\ version' = version /\ Len(plans) < MaxPlans
        BY <1>3 DEF Serve
    <2>2. Proposed \in Stage
        BY DEF Proposed, RolledBack, Stage
    <2>3. plans' \in Seq(Stage) /\ Len(plans') = Len(plans) + 1
        BY <1>1, <2>1, <2>2
    <2>4. \A q \in DOMAIN plans : q \in DOMAIN plans' /\ plans'[q] = plans[q]
        BY <1>1, <2>1, <2>2
    <2>5. Len(plans') <= MaxPlans /\ Len(plans') >= Len(plans) /\ Len(plans') # 0
          /\ Len(plans') \in DOMAIN plans'
        BY <1>1, <2>1, <2>3, EvidenceAssumption
    <2>6. \A q \in DOMAIN plans : plans'[q] >= plans[q]
        BY <1>1, <2>4 DEF Stage, Proposed, RolledBack
    <2> QED
        BY <1>1, <2>1, <2>3, <2>4, <2>5, <2>6 DEF ServerGrows
<1>4. CASE action.kind \in {"approve", "execute", "rollback"}
    <2>1. decision.plan \in DOMAIN plans
        BY <1>4 DEF EvidenceInv, ActionsKnowTheirPlan, Pending, Known
    <2>2. \E from \in Proposed..Executed : MovePlan(decision.plan, from)
        BY <1>4 DEF Serve, Proposed, Approved, Executed
    <2> QED
        BY <1>4, <2>1, <2>2, MovePlanGrows
<1>5. CASE action.kind = "report"
    BY <1>1, <1>5 DEF Serve, ServerGrows, Stage, Proposed, RolledBack
<1> QED
    BY <1>2, <1>3, <1>4, <1>5 DEF Serve

\* Types that only depend on the services' state growing.
LEMMA GrowthKeeps ==
    ASSUME EvidenceInv, ServerGrows, UNCHANGED <<reads, telemetry, decision, report>>
    PROVE  /\ \A r \in reads' : /\ r.by \in {"poll", "action", "button"}
                                /\ r.parts \in [Part -> {Waiting, Rejected} \cup 1..version']
           /\ telemetry'.snapshot \in 0..version' /\ telemetry'.recommendations \in 0..version'
           /\ plans' \in Seq(Proposed..RolledBack) /\ version' \in 1..MaxVersion
           /\ \A d \in Plan : Known(d) => d.plan \in DOMAIN plans' /\ d.stage <= plans'[d.plan]
           /\ acted \in 0..version'
<1>1. /\ version \in 1..MaxVersion /\ version' \in 1..MaxVersion /\ version' >= version
    BY DEF ServerGrows, EvidenceInv, EvidenceTypeOK
<1>2. 1..version \subseteq 1..version' /\ 0..version \subseteq 0..version'
    BY <1>1
<1>3. \A r \in reads' : /\ r.by \in {"poll", "action", "button"}
                        /\ r.parts \in [Part -> {Waiting, Rejected} \cup 1..version']
    BY <1>2 DEF EvidenceInv, EvidenceTypeOK
<1>4. /\ telemetry'.snapshot \in 0..version' /\ telemetry'.recommendations \in 0..version'
      /\ acted \in 0..version'
    BY <1>2 DEF EvidenceInv, EvidenceTypeOK
<1>5. ASSUME NEW d, d \in Plan, Known(d) PROVE d.plan \in DOMAIN plans' /\ d.stage <= plans'[d.plan]
    <2>1. d.plan \in DOMAIN plans /\ d.stage <= plans[d.plan]
        BY <1>5 DEF Known
    <2>2. plans[d.plan] \in Stage /\ plans'[d.plan] \in Stage /\ plans'[d.plan] >= plans[d.plan]
        BY <2>1, ServerTypes, GrownTypes
    <2>3. d.stage \in Int
        BY <1>5 DEF Plan, NoPlan, Proposed, RolledBack
    <2> QED
        BY <2>1, <2>2, <2>3, GrownTypes DEF Stage, Proposed, RolledBack
<1> QED
    BY <1>1, <1>3, <1>4, <1>5 DEF ServerGrows, Stage

LEMMA ServedKeeps ==
    ASSUME EvidenceInv, ActionServed PROVE EvidenceInv'
<1>1. /\ action.at = "sent" /\ Serve /\ acted' = version' /\ action \in ActionRecord
      /\ UNCHANGED <<decision, report, reads, telemetry, actions, tokens>>
    BY DEF ActionServed, panelVars, EvidenceInv
<1>2. ServerGrows /\ (action.kind = "infer" => Len(plans') \in DOMAIN plans' /\ Len(plans') # 0)
    BY <1>1, ServeGrows
<1>3. /\ \A r \in reads' : /\ r.by \in {"poll", "action", "button"}
                           /\ r.parts \in [Part -> {Waiting, Rejected} \cup 1..version']
      /\ telemetry'.snapshot \in 0..version' /\ telemetry'.recommendations \in 0..version'
      /\ plans' \in Seq(Proposed..RolledBack) /\ version' \in 1..MaxVersion
      /\ \A d \in Plan : Known(d) => d.plan \in DOMAIN plans' /\ d.stage <= plans'[d.plan]
    BY <1>1, <1>2, GrowthKeeps
<1>4. PICK p : p = IF action.kind = "infer" THEN Len(plans') ELSE decision.plan
    OBVIOUS
<1>5. PICK answer : answer = IF action.kind = "inject" THEN NoPlan
                             ELSE [plan |-> p, stage |-> plans'[p]]
    OBVIOUS
<1>6. action' = [action EXCEPT !.at = "served", !.version = version', !.answer = answer]
    BY <1>4, <1>5 DEF ActionServed
<1>7. action.kind \in Kind /\ (action.kind # "inject" => report = NoPlan)
    BY <1>1 DEF EvidenceInv, ActionsKnowTheirPlan, Pending
<1>8. action.kind \notin {"inject", "infer"} =>
        /\ decision # NoPlan /\ decision \in Plan /\ Known(decision)
        /\ decision.plan \in DOMAIN plans' /\ decision.stage <= plans'[decision.plan]
    BY <1>1, <1>3, <1>7 DEF EvidenceInv, EvidenceTypeOK, ActionsKnowTheirPlan, Pending, Kind
<1>9. action.kind # "inject" => p \in DOMAIN plans' /\ p \in 1..MaxPlans /\ plans'[p] \in Stage
    <2>1. action.kind # "inject" => p \in DOMAIN plans'
        BY <1>1, <1>2, <1>4, <1>8 DEF Known
    <2> QED
        BY <1>2, <2>1, EvidenceAssumption, GrownTypes
<1>10. /\ answer \in Plan
       /\ action.kind # "inject" =>
            answer # NoPlan /\ answer.plan \in DOMAIN plans' /\ answer.stage = plans'[answer.plan]
    <2>1. CASE action.kind = "inject"
        BY <1>5, <2>1 DEF Plan
    <2>2. CASE action.kind # "inject"
        <3>1. answer = [plan |-> p, stage |-> plans'[p]]
            BY <1>5, <2>2
        <3>2. answer.plan = p /\ answer.stage = plans'[p] /\ p # 0
            BY <1>9, <2>2, <3>1
        <3> QED
            BY <1>9, <2>2, <3>1, <3>2 DEF Plan, NoPlan, Stage
    <2> QED
        BY <2>1, <2>2
<1>11. /\ action' \in ActionRecord /\ action'.at = "served" /\ action'.version = version'
       /\ action'.kind = action.kind /\ action'.answer = answer
    <2>1. version' \in 0..MaxVersion
        BY <1>3, EvidenceAssumption
    <2> QED
        BY <1>1, <1>6, <1>10, <2>1 DEF ActionRecord
<1>12. reads = {}
    BY <1>1 DEF EvidenceInv, NothingOlderComes, Pending
<1>13. acted' \in 0..version'
    BY <1>1, <1>3
<1>14. EvidenceTypeOK' /\ reads' \subseteq Read /\ telemetry' \in Telemetry
    <2>1. Len(plans') <= MaxPlans
        BY <1>2 DEF ServerGrows
    <2>2. action'.kind \in Kind \cup {"none"}
        BY <1>7, <1>11
    <2> QED
        BY <1>1, <1>3, <1>10, <1>11, <1>12, <1>13, <2>1, <2>2 DEF EvidenceInv, EvidenceTypeOK
<1>15. NothingOlderComes'
    <2>1. version' >= telemetry'.snapshot /\ version' <= version'
        BY <1>3
    <2> QED
        BY <1>1, <1>11, <1>12, <2>1 DEF NothingOlderComes, Pending
<1>16. ActionsKnowTheirPlan'
    <2>1. decision' # NoPlan => Known(decision)'
        BY <1>1, <1>3 DEF EvidenceInv, EvidenceTypeOK, ActionsKnowTheirPlan, Known
    <2>2. action.kind # "inject" => (answer.plan \in DOMAIN plans' /\ answer.stage <= plans'[answer.plan])
        BY <1>9, <1>10 DEF Stage, Proposed, RolledBack, Plan, NoPlan
    <2>3. action.kind = "report" => answer.plan = decision.plan /\ answer.stage >= decision.stage
        <3> SUFFICES ASSUME action.kind = "report"
                     PROVE  answer.plan = decision.plan /\ answer.stage >= decision.stage
            OBVIOUS
        <3>1. p = decision.plan /\ answer = [plan |-> p, stage |-> plans'[p]]
            BY <1>4, <1>5
        <3>2. decision.stage <= plans'[p] /\ plans'[p] \in Stage /\ decision.stage \in Int
            BY <1>8, <1>9, <3>1 DEF Plan, NoPlan, Proposed, RolledBack
        <3>3. answer.plan = decision.plan /\ answer.stage = plans'[p]
            BY <3>1
        <3> QED
            BY <3>2, <3>3 DEF Stage, Proposed, RolledBack
    <2> QED
        BY <1>1, <1>7, <1>8, <1>10, <1>11, <2>1, <2>2, <2>3
           DEF ActionsKnowTheirPlan, Pending, Known
<1>17. ReportIsNotOlder'
    BY <1>1 DEF EvidenceInv, ReportIsNotOlder
<1> QED
    BY <1>11, <1>14, <1>15, <1>16, <1>17 DEF EvidenceInv

LEMMA OthersKeep ==
    ASSUME EvidenceInv, OthersAct PROVE EvidenceInv'
<1>1. UNCHANGED <<acted, decision, report, reads, action, telemetry, actions, tokens>>
    BY DEF OthersAct, panelVars
<1>2. ServerGrows
    <2>1. CASE version < MaxVersion /\ version' = version + 1 /\ UNCHANGED plans
        <3>1. \A q \in DOMAIN plans : plans[q] >= plans[q]
            BY ServerTypes DEF Stage, Proposed, RolledBack
        <3>2. version' \in 1..MaxVersion /\ version' >= version
            BY <2>1, ServerTypes, EvidenceAssumption
        <3> QED
            BY <2>1, <3>1, <3>2, ServerTypes DEF ServerGrows
    <2>2. ASSUME NEW p \in DOMAIN plans, NEW from \in Proposed..Executed, MovePlan(p, from)
          PROVE  ServerGrows
        BY <2>2, MovePlanGrows
    <2> QED
        BY <2>1, <2>2 DEF OthersAct
<1>3. /\ \A r \in reads' : /\ r.by \in {"poll", "action", "button"}
                           /\ r.parts \in [Part -> {Waiting, Rejected} \cup 1..version']
      /\ telemetry'.snapshot \in 0..version' /\ telemetry'.recommendations \in 0..version'
      /\ plans' \in Seq(Proposed..RolledBack) /\ version' \in 1..MaxVersion
      /\ \A d \in Plan : Known(d) => d.plan \in DOMAIN plans' /\ d.stage <= plans'[d.plan]
      /\ acted' \in 0..version'
    BY <1>1, <1>2, GrowthKeeps
<1>4. EvidenceTypeOK' /\ reads' \subseteq Read /\ action' \in ActionRecord
      /\ telemetry' \in Telemetry
    <2>1. Len(plans') <= MaxPlans
        BY <1>2 DEF ServerGrows
    <2> QED
        BY <1>1, <1>3, <2>1 DEF EvidenceInv, EvidenceTypeOK
<1>5. NothingOlderComes'
    <2>1. version \in Int /\ version' \in Int /\ version <= version' /\ action.version \in Int
        BY <1>2 DEF ServerGrows, EvidenceInv, EvidenceTypeOK, ActionRecord
    <2> QED
        BY <1>1, <2>1 DEF EvidenceInv, NothingOlderComes
<1>6. ActionsKnowTheirPlan'
    <2>1. action.answer \in Plan /\ decision \in Plan
        BY DEF EvidenceInv, EvidenceTypeOK
    <2>2. decision' # NoPlan => Known(decision)'
        BY <1>1, <1>3, <2>1 DEF EvidenceInv, ActionsKnowTheirPlan, Known
    <2>3. Known(action.answer) => Known(action.answer)'
        BY <1>1, <1>3, <2>1 DEF Known
    <2> QED
        BY <1>1, <2>2, <2>3 DEF EvidenceInv, ActionsKnowTheirPlan
<1>7. ReportIsNotOlder'
    BY <1>1 DEF EvidenceInv, ReportIsNotOlder
<1> QED
    BY <1>4, <1>5, <1>6, <1>7 DEF EvidenceInv

LEMMA AnsweredKeeps ==
    ASSUME EvidenceInv, ActionAnswered
    PROVE  EvidenceInv' /\ telemetry'.snapshot >= telemetry.snapshot
<1>1. /\ action.at = "served" /\ reads' = {NewRead("action")}
      /\ action' = [action EXCEPT !.at = "reading"]
      /\ UNCHANGED <<version, plans, acted, actions, tokens>>
    BY DEF ActionAnswered, BeginRead, serverVars
<1>2. /\ action \in ActionRecord /\ telemetry \in Telemetry /\ version \in 1..MaxVersion
      /\ telemetry.snapshot \in 0..version /\ telemetry.recommendations \in 0..version
      /\ action.version >= telemetry.snapshot /\ action.version <= version
      /\ decision \in Plan /\ report \in Plan
    BY <1>1 DEF EvidenceInv, EvidenceTypeOK, NothingOlderComes
<1>3. /\ action.kind \in Kind /\ (action.kind # "inject" => report = NoPlan)
      /\ action.kind # "inject" => action.answer # NoPlan /\ Known(action.answer)
      /\ action.kind = "report" =>
            action.answer.plan = decision.plan /\ action.answer.stage >= decision.stage
      /\ decision # NoPlan => Known(decision)
    BY <1>1 DEF EvidenceInv, ActionsKnowTheirPlan, Pending
<1>4. /\ action' \in ActionRecord /\ action'.at = "reading"
    BY <1>1, <1>2 DEF ActionRecord
<1>5. /\ telemetry' \in Telemetry /\ telemetry'.snapshot >= telemetry.snapshot
      /\ telemetry'.snapshot \in 0..version /\ telemetry'.recommendations \in 0..version
      /\ telemetry'.available \in BOOLEAN
    <2>1. CASE action.kind = "inject"
        <3>1. telemetry' = [telemetry EXCEPT !.snapshot = action.version]
            BY <2>1 DEF ActionAnswered
        <3>2. action.version \in 0..MaxVersion /\ action.version \in 0..version
            BY <1>2 DEF ActionRecord
        <3> QED
            BY <1>2, <3>1, <3>2 DEF Telemetry
    <2>2. CASE action.kind # "inject"
        BY <1>2, <2>2 DEF ActionAnswered, Telemetry
    <2> QED
        BY <2>1, <2>2
<1>6. /\ decision' = IF action.kind \in {"inject", "report"} THEN decision ELSE action.answer
      /\ report' = IF action.kind = "report" THEN action.answer ELSE report
      /\ action.answer \in Plan
    BY <1>2 DEF ActionAnswered, ActionRecord
<1>7. /\ NewRead("action") \in Read /\ NewRead("action").by = "action"
      /\ NewRead("action").parts \in [Part -> {Waiting, Rejected} \cup 1..version]
      /\ NewRead("action").parts["snapshot"] < 0
    BY FreshReads
<1>8. /\ action'.kind \in Kind \cup {"none"} /\ action'.answer \in Plan
      /\ decision' \in Plan /\ report' \in Plan
      /\ \E r \in reads' : r.by = "action"
    BY <1>1, <1>2, <1>4, <1>6, <1>7 DEF ActionRecord
<1>9. EvidenceTypeOK' /\ reads' \subseteq Read
    BY <1>1, <1>4, <1>5, <1>7, <1>8 DEF EvidenceInv, EvidenceTypeOK
<1>10. NothingOlderComes'
    <2>1. \A r \in reads' : r = NewRead("action")
        BY <1>1
    <2>2. ~(NewRead("action").parts["snapshot"] >= 0)
        BY <1>7 DEF Part, Waiting, Rejected, EvidenceInv, EvidenceTypeOK
    <2> QED
        BY <1>4, <2>1, <2>2 DEF NothingOlderComes, Pending
<1>11. ActionsKnowTheirPlan'
    <2>1. decision' # NoPlan => decision'.plan \in DOMAIN plans' /\ decision'.stage <= plans'[decision'.plan]
        BY <1>1, <1>3, <1>6 DEF Known
    <2> QED
        BY <1>4, <2>1 DEF ActionsKnowTheirPlan, Pending, Known
<1>12. ReportIsNotOlder'
    BY <1>3, <1>6 DEF EvidenceInv, ReportIsNotOlder
<1> QED
    BY <1>4, <1>5, <1>9, <1>10, <1>11, <1>12 DEF EvidenceInv

LEMMA FailsKeeps ==
    ASSUME EvidenceInv, ActionFails PROVE EvidenceInv'
<1>1. /\ action' = NoAction /\ Pending(action.at)
      /\ UNCHANGED <<version, plans, acted, decision, report, reads, telemetry, actions, tokens>>
    BY DEF ActionFails, serverVars, panelVars, Pending
<1>2. reads = {}
    BY <1>1 DEF EvidenceInv, NothingOlderComes
<1>3. action' \in ActionRecord /\ action'.at = "none"
    BY <1>1, NoActionIsOne
<1>4. action'.kind \in Kind \cup {"none"} /\ action'.answer \in Plan
    BY <1>3 DEF ActionRecord
<1>5. EvidenceTypeOK' /\ reads' \subseteq Read /\ telemetry' \in Telemetry
    BY <1>1, <1>2, <1>3, <1>4 DEF EvidenceInv, EvidenceTypeOK
<1>6. NothingOlderComes' /\ ActionsKnowTheirPlan' /\ ReportIsNotOlder'
    BY <1>1, <1>2, <1>3 DEF EvidenceInv, NothingOlderComes, ActionsKnowTheirPlan,
        ReportIsNotOlder, Known, Pending
<1> QED
    BY <1>3, <1>5, <1>6 DEF EvidenceInv

LEMMA EvidenceStep ==
    ASSUME EvidenceInv, [EvidenceNext]_evidenceVars
    PROVE  EvidenceInv' /\ telemetry'.snapshot >= telemetry.snapshot
<1>1. telemetry.snapshot \in Int
    BY DEF EvidenceInv, EvidenceTypeOK
<1>2. CASE \E r \in reads : ReadEnds(r)
    BY <1>2, ReadEndsKeeps
<1>3. CASE ActionAnswered
    BY <1>3, AnsweredKeeps
<1>4. CASE \/ PollFires \/ Reconnect \/ ChangeToken \/ ActionServed \/ ActionFails \/ OthersAct
           \/ \E r \in reads : \E p \in Part : PartAnswered(r, p)
           \/ \E kind \in Kind : Act(kind)
    <2>1. EvidenceInv'
        BY <1>4, ReadBeginsKeeps, TokenKeeps, ServedKeeps, FailsKeeps, OthersKeep, PartKeeps,
           ActKeeps
    <2>2. telemetry' = telemetry
        BY <1>4 DEF PollFires, Reconnect, ChangeToken, ActionServed, ActionFails, OthersAct,
            PartAnswered, Act
    <2> QED
        BY <1>1, <2>1, <2>2
<1>5. CASE UNCHANGED evidenceVars
    <2>1. /\ UNCHANGED <<version, plans, acted, decision, report, reads, action, telemetry>>
          /\ UNCHANGED <<actions, tokens>>
        BY <1>5 DEF evidenceVars, serverVars, panelVars
    <2>2. EvidenceTypeOK'
        BY <2>1 DEF EvidenceInv, EvidenceTypeOK
    <2>3. NothingOlderComes' /\ ActionsKnowTheirPlan' /\ ReportIsNotOlder'
        BY <2>1 DEF EvidenceInv, NothingOlderComes, ActionsKnowTheirPlan, ReportIsNotOlder, Known
    <2> QED
        BY <1>1, <2>1, <2>2, <2>3 DEF EvidenceInv
<1> QED
    BY <1>2, <1>3, <1>4, <1>5 DEF EvidenceNext

\* The inductive invariant of the evidence centre, for every number of plans and actions.
THEOREM EvidenceInvariance == EvidenceSpec => []EvidenceInv
<1>1. EvidenceInit => EvidenceInv
    <2> SUFFICES ASSUME EvidenceInit PROVE EvidenceInv
        OBVIOUS
    <2>1. /\ NoAction \in ActionRecord /\ NoAction.at = "none" /\ NoAction.kind = "none"
          /\ NoAction.answer \in Plan /\ NoPlan \in Plan
        BY NoActionIsOne DEF NoAction, Plan
    <2>2. /\ 1 \in 1..MaxVersion /\ 0 \in 0..MaxVersion /\ 0 \in 0..MaxActions
          /\ 0 \in 0..MaxTokens /\ 0 <= MaxPlans
        BY EvidenceAssumption
    <2>3. plans = <<>> /\ plans \in Seq(Proposed..RolledBack) /\ Len(plans) = 0
        BY DEF EvidenceInit
    <2>4. /\ telemetry \in Telemetry /\ telemetry.snapshot = 0 /\ telemetry.recommendations = 0
          /\ telemetry.available = FALSE
        BY <2>2 DEF EvidenceInit, Telemetry
    <2>5. EvidenceTypeOK
        BY <2>1, <2>2, <2>3, <2>4 DEF EvidenceInit, EvidenceTypeOK
    <2>6. NothingOlderComes /\ ActionsKnowTheirPlan /\ ReportIsNotOlder
        BY <2>1 DEF EvidenceInit, NothingOlderComes, ActionsKnowTheirPlan, ReportIsNotOlder, Pending
    <2> QED
        BY <2>1, <2>4, <2>5, <2>6 DEF EvidenceInit, EvidenceInv
<1> QED
    BY <1>1, EvidenceStep, PTL DEF EvidenceSpec

\* What the panel shows never goes back over aborted refreshes, actions that fail and other
\* clients, and its report is of the plan beside it (OperationalEvidenceCenter.tsx, refresh and
\* runAction).
THEOREM EvidencePanelIsCurrent == EvidenceSpec => PanelIsCurrent
<1>1. EvidenceInv => EvidenceTypeOK /\ ReportIsNotOlder
    BY DEF EvidenceInv
<1>2. EvidenceInv /\ [EvidenceNext]_evidenceVars =>
        [telemetry'.snapshot >= telemetry.snapshot]_evidenceVars
    BY EvidenceStep
<1> QED
    BY <1>1, <1>2, EvidenceInvariance, PTL
       DEF EvidenceSpec, PanelIsCurrent, ShownNeverGoesBack

----------------------------------------------------------------------------
(* The assistant.  A run has one loop at most, and the run that is current *)
(* has one just while the assistant is running.                            *)

\* The loops of a run: one at most, of a run that has begun, and at a step it can be at.
LoopsAreInOrder ==
    /\ \A l, m \in loops : l.run = m.run => l = m
    /\ \A l \in loops :
        /\ l.run <= runId
        /\ l.at \in Preparing => l.step = 1
        /\ l.at # "next" => l.step <= Steps
        /\ l.at \in Executing \cup {"ready"} /\ l.command \in HighImpact => l.run \in approved

\* What the flags of the component say of the loops.
FlagsFollowLoops ==
    /\ running <=> \E l \in loops : l.run = runId
    /\ \A l \in loops : l.run = runId =>
        /\ l.at \in Executing <=> executing
        /\ l.at \in Preparing => ~cancelled
    /\ running => result = NoResult /\ pendingAction = NoCommand
    /\ executing => running
    /\ pendingAction # NoCommand => result = NoResult /\ runId # 0

\* A loop clicks once in a step at most, and a run that has not begun has clicked nothing.
ClicksAreCounted ==
    /\ \A l \in loops : clicked[l.run] <= IF l.at = "verifying" THEN l.step ELSE l.step - 1
    /\ \A r \in Run : r > runId => clicked[r] = 0

\* The runs that were stopped are over: a later one has begun or this one is cancelled.
StoppedAreOver == \A r \in stopped : r < runId \/ (r = runId /\ cancelled)

\* A report is of the run it is shown for.
ResultIsCurrent == result # NoResult => result.run = runId

AssistantInv ==
    /\ AssistantTypeOK /\ ReportIsHonest /\ LockedForAReason
    /\ LoopsAreInOrder /\ FlagsFollowLoops /\ ClicksAreCounted /\ StoppedAreOver
    /\ ResultIsCurrent

\* What the invariant says of a loop.
LEMMA LoopFacts ==
    ASSUME AssistantInv, NEW l \in loops
    PROVE  /\ l \in Loop /\ l.run \in Run /\ l.run \in 1..MaxRuns /\ l.run <= runId
           /\ l.command \in PageAction /\ l.command # NoCommand
           /\ l.step \in 1..Steps + 1 /\ l.step \in Nat
           /\ clicked[l.run] \in Nat /\ runId \in Nat
           /\ \A m \in loops : m.run = l.run => m = l
<1>1. l \in Loop
    BY DEF AssistantInv, AssistantTypeOK
<1>2. l.run \in Run /\ l.command \in PageAction /\ l.step \in 1..Steps + 1
    BY <1>1 DEF Loop
<1>3. clicked[l.run] \in 0..Steps /\ runId \in 0..MaxRuns
    BY <1>2 DEF AssistantInv, AssistantTypeOK
<1> QED
    BY <1>1, <1>2, <1>3, AssistantAssumption DEF AssistantInv, LoopsAreInOrder, Run

\* The current loop of a run: the flags it is running with.
LEMMA CurrentFacts ==
    ASSUME AssistantInv, NEW l \in loops, l.run = runId
    PROVE  /\ running /\ result = NoResult /\ pendingAction = NoCommand
           /\ runId \in Run /\ runId # 0
           /\ \A m \in loops : m.run = runId => m = l
           /\ ~(\E m \in loops \ {l} : m.run = runId)
<1>1. running
    BY DEF AssistantInv, FlagsFollowLoops
<1>2. result = NoResult /\ pendingAction = NoCommand
    BY <1>1 DEF AssistantInv, FlagsFollowLoops
<1>3. runId \in Run /\ \A m \in loops : m.run = runId => m = l
    BY LoopFacts
<1>4. runId # 0
    BY <1>3, AssistantAssumption DEF Run
<1> QED
    BY <1>1, <1>2, <1>3, <1>4

\* A loop that is over goes, or the current one goes on in another place: nothing else moves.
LEMMA LoopMoves ==
    ASSUME AssistantInv, NEW l \in loops, UNCHANGED <<runVars, formVars, result, approved, stopped>>,
           \/ loops' = loops \ {l} /\ l.run # runId /\ UNCHANGED clicked
           \/ \E m \in Loop :
                /\ Replace(l, m) /\ m.run = l.run /\ m.command = l.command
                /\ m.at \in Preparing <=> l.at \in Preparing
                /\ m.at \in Executing <=> l.at \in Executing
                /\ m.at \in Preparing => m.step = 1
                /\ m.at # "next" => m.step <= Steps
                /\ m.at = "ready" => m.command \notin HighImpact
                /\ clicked' \in [Run -> 0..Steps]
                /\ \A r \in Run : r # l.run => clicked'[r] = clicked[r]
                /\ clicked'[l.run] <= IF m.at = "verifying" THEN m.step ELSE m.step - 1
    PROVE  AssistantInv'
<1>1. /\ UNCHANGED <<runId, cancelled, locked, executing, running, pendingAction, acknowledged>>
      /\ UNCHANGED <<result, approved, stopped>>
    BY DEF runVars, formVars
<1>2. /\ AssistantTypeOK /\ ReportIsHonest /\ LockedForAReason /\ LoopsAreInOrder
      /\ FlagsFollowLoops /\ ClicksAreCounted /\ StoppedAreOver /\ ResultIsCurrent
    BY DEF AssistantInv
<1>3. StoppedAreOver' /\ ResultIsCurrent'
    BY <1>1, <1>2 DEF StoppedAreOver, ResultIsCurrent
<1>4. CASE loops' = loops \ {l} /\ l.run # runId /\ UNCHANGED clicked
    <2>1. AssistantTypeOK' /\ ReportIsHonest'
        BY <1>1, <1>2, <1>4 DEF AssistantTypeOK, ReportIsHonest
    <2>2. LockedForAReason'
        BY <1>1, <1>2, <1>4 DEF LockedForAReason
    <2>3. LoopsAreInOrder' /\ ClicksAreCounted'
        BY <1>1, <1>2, <1>4 DEF LoopsAreInOrder, ClicksAreCounted
    <2>4. FlagsFollowLoops'
        BY <1>1, <1>2, <1>4 DEF FlagsFollowLoops
    <2> QED
        BY <1>3, <2>1, <2>2, <2>3, <2>4 DEF AssistantInv
<1>5. ASSUME NEW m \in Loop, loops' = (loops \ {l}) \cup {m},
             m.run = l.run, m.command = l.command,
             m.at \in Preparing <=> l.at \in Preparing,
             m.at \in Executing <=> l.at \in Executing,
             m.at \in Preparing => m.step = 1, m.at # "next" => m.step <= Steps,
             m.at = "ready" => m.command \notin HighImpact,
             clicked' \in [Run -> 0..Steps],
             \A r \in Run : r # l.run => clicked'[r] = clicked[r],
             clicked'[l.run] <= IF m.at = "verifying" THEN m.step ELSE m.step - 1
      PROVE  AssistantInv'
    <2>1. /\ \A k \in loops : k.run = l.run => k = l
          /\ l.run \in Run /\ l.run <= runId /\ l.run \in Nat /\ runId \in Nat
        BY LoopFacts, AssistantAssumption DEF Run
    <2>2. AssistantTypeOK'
        BY <1>1, <1>2, <1>5 DEF AssistantTypeOK
    <2>3. ReportIsHonest'
        <3>1. result # NoResult => result.run = runId /\ l.run # runId
            BY <1>2, CurrentFacts DEF ResultIsCurrent
        <3>2. result # NoResult => clicked'[result.run] = clicked[result.run]
            <4>1. ASSUME result # NoResult, result.run \notin Run
                  PROVE  clicked'[result.run] = clicked[result.run]
                <5>1. runId # 0
                    BY <2>1, AssistantAssumption DEF Run
                <5>2. runId \in Run
                    BY <1>2, <5>1, AssistantAssumption DEF AssistantTypeOK, Run
                <5> QED
                    BY <3>1, <4>1, <5>2
            <4> QED
                BY <1>5, <3>1, <4>1
        <3> QED
            BY <1>1, <1>2, <3>2 DEF ReportIsHonest
    <2>4. LockedForAReason'
        BY <1>1, <1>2, <1>5 DEF LockedForAReason
    <2>5. LoopsAreInOrder'
        <3>1. \A a, b \in loops' : a.run = b.run => a = b
            BY <1>2, <1>5, <2>1 DEF LoopsAreInOrder
        <3>2. m.at \in Executing \cup {"ready"} /\ m.command \in HighImpact => m.run \in approved
            BY <1>2, <1>5 DEF LoopsAreInOrder, Executing, Preparing
        <3> QED
            BY <1>1, <1>2, <1>5, <2>1, <3>1, <3>2 DEF LoopsAreInOrder
    <2>6. FlagsFollowLoops'
        BY <1>1, <1>2, <1>5 DEF FlagsFollowLoops
    <2>7. ClicksAreCounted'
        <3>1. \A k \in loops \ {l} : k.run \in Run /\ k.run # l.run
            BY <2>1, LoopFacts
        <3>2. \A r \in Run : r > runId => r # l.run
            BY <2>1 DEF Run
        <3> QED
            BY <1>1, <1>2, <1>5, <3>1, <3>2 DEF ClicksAreCounted
    <2> QED
        BY <1>3, <2>2, <2>3, <2>4, <2>5, <2>6, <2>7 DEF AssistantInv
<1> QED
    BY <1>4, <1>5 DEF Replace

\* A run begins with one loop, and those of the runs before it are over.
LEMMA NewRunKeeps ==
    ASSUME AssistantInv, runId < MaxRuns, ~running, NEW m \in Loop, m.run = runId + 1,
           runId' = runId + 1, loops' = loops \cup {m}, m.step = 1,
           \/ m.at = "understanding" /\ cancelled' = FALSE /\ locked' = TRUE /\ executing' = FALSE
              /\ approved' = approved /\ result' = NoResult
           \/ m.at = "locating" /\ cancelled' = cancelled /\ locked' = locked /\ executing' = TRUE
              /\ approved' = approved \cup {runId + 1} /\ result' = result /\ result = NoResult,
           running' = TRUE, pendingAction' = NoCommand, acknowledged' = FALSE,
           UNCHANGED <<clicked, stopped>>
    PROVE  AssistantInv'
<1>1. /\ AssistantTypeOK /\ ReportIsHonest /\ LockedForAReason /\ LoopsAreInOrder
      /\ FlagsFollowLoops /\ ClicksAreCounted /\ StoppedAreOver /\ ResultIsCurrent
    BY DEF AssistantInv
<1>2. runId \in Nat /\ runId + 1 \in Run /\ runId + 1 \in 0..MaxRuns
    BY <1>1, AssistantAssumption DEF AssistantTypeOK, Run
<1>3. \A l \in loops : l.run \in Nat /\ l.run <= runId /\ l.run # runId + 1
    BY <1>2, LoopFacts, AssistantAssumption DEF Run
<1>4. /\ NoResult \in [run : 0..MaxRuns, status : {"none", "success", "failed"},
                       completed : 0..Steps, reviewed : BOOLEAN]
      /\ NoResult.status = "none"
    BY AssistantAssumption DEF NoResult
<1>5. result' = NoResult /\ approved \subseteq approved' /\ approved' \subseteq Run
    BY <1>1, <1>2 DEF AssistantTypeOK
<1>6. AssistantTypeOK'
    BY <1>1, <1>2, <1>4, <1>5 DEF AssistantTypeOK
<1>7. ReportIsHonest' /\ ResultIsCurrent' /\ LockedForAReason'
    BY <1>4, <1>5 DEF ReportIsHonest, ResultIsCurrent, LockedForAReason
<1>8. LoopsAreInOrder'
    <2>1. \A a, b \in loops' : a.run = b.run => a = b
        BY <1>1, <1>3 DEF LoopsAreInOrder
    <2>2. \A l \in loops : l.run <= runId + 1
        BY <1>2, <1>3
    <2>3. m.at \in Executing \cup {"ready"} => m.run \in approved'
        BY DEF Executing
    <2>4. m.step <= Steps /\ m.run <= runId + 1
        BY <1>2, AssistantAssumption
    <2> QED
        BY <1>1, <1>5, <2>1, <2>2, <2>3, <2>4 DEF LoopsAreInOrder
<1>9. FlagsFollowLoops'
    <2>1. m.at \in Executing <=> executing'
        BY DEF Executing
    <2>2. m.at \in Preparing => ~cancelled'
        BY DEF Preparing
    <2>3. \A l \in loops' : l.run = runId' => l = m
        BY <1>3
    <2> QED
        BY <1>2, <1>5, <2>1, <2>2, <2>3 DEF FlagsFollowLoops
<1>10. ClicksAreCounted'
    <2>1. clicked[m.run] = 0 /\ \A r \in Run : r > runId + 1 => clicked[r] = 0
        <3>1. \A r \in Run : r > runId + 1 => r > runId
            BY <1>2, AssistantAssumption DEF Run
        <3> QED
            BY <1>1, <1>2, <3>1 DEF ClicksAreCounted
    <2> QED
        BY <1>1, <2>1 DEF ClicksAreCounted
<1>11. StoppedAreOver'
    BY <1>1, <1>2, AssistantAssumption DEF StoppedAreOver, AssistantTypeOK, Run
<1> QED
    BY <1>6, <1>7, <1>8, <1>9, <1>10, <1>11 DEF AssistantInv

LEMMA PrepareKeeps ==
    ASSUME AssistantInv, NEW c \in PageAction, Prepare(c) PROVE AssistantInv'
<1>1. PICK m : m = [run |-> runId + 1, command |-> c, at |-> "understanding", step |-> 1]
    OBVIOUS
<1>2. m \in Loop /\ m.run = runId + 1 /\ m.at = "understanding" /\ m.step = 1
    <2>1. runId + 1 \in Run /\ 1 \in 1..Steps + 1
        BY AssistantAssumption DEF Prepare, AssistantInv, AssistantTypeOK, Run
    <2> QED
        BY <1>1, <2>1 DEF Loop, Preparing
<1>3. ~executing
    BY DEF Prepare, AssistantInv, FlagsFollowLoops
<1>4. executing' = FALSE
    BY <1>3 DEF Prepare, AssistantInv, AssistantTypeOK
<1>5. /\ runId < MaxRuns /\ ~running /\ runId' = runId + 1 /\ loops' = loops \cup {m}
      /\ cancelled' = FALSE /\ locked' = TRUE /\ approved' = approved /\ result' = NoResult
      /\ running' = TRUE /\ pendingAction' = NoCommand /\ acknowledged' = FALSE
      /\ UNCHANGED <<clicked, stopped>>
    BY <1>1 DEF Prepare, historyVars
<1> QED
    BY <1>2, <1>4, <1>5, NewRunKeeps

LEMMA ApproveKeeps ==
    ASSUME AssistantInv, Approve PROVE AssistantInv'
<1>1. PICK m : m = [run |-> runId + 1, command |-> pendingAction, at |-> "locating", step |-> 1]
    OBVIOUS
<1>2. m \in Loop /\ m.run = runId + 1 /\ m.at = "locating" /\ m.step = 1
    <2>1. runId + 1 \in Run /\ 1 \in 1..Steps + 1 /\ pendingAction \in PageAction
        BY AssistantAssumption DEF Approve, AssistantInv, AssistantTypeOK, Run
    <2> QED
        BY <1>1, <2>1 DEF Loop, Executing
<1>3. ~running /\ result = NoResult
    BY DEF Approve, AssistantInv, FlagsFollowLoops
<1>4. /\ runId < MaxRuns /\ runId' = runId + 1 /\ loops' = loops \cup {m}
      /\ cancelled' = cancelled /\ locked' = locked /\ executing' = TRUE
      /\ approved' = approved \cup {runId + 1} /\ result' = result
      /\ running' = TRUE /\ pendingAction' = NoCommand /\ acknowledged' = FALSE
      /\ UNCHANGED <<clicked, stopped>>
    BY <1>1 DEF Approve, Execute
<1> QED
    BY <1>2, <1>3, <1>4, NewRunKeeps

LEMMA PrepareStepKeeps ==
    ASSUME AssistantInv, NEW l \in loops, PrepareStep(l) PROVE AssistantInv'
<1>1. /\ l.at \in Preparing /\ l.at \notin Executing /\ l.step = 1
      /\ UNCHANGED <<result, clicked, approved, stopped>>
      /\ clicked[l.run] <= 0 /\ 1 <= Steps
    <2>1. l.at \in Preparing /\ l.step = 1 /\ UNCHANGED <<result, clicked, approved, stopped>>
        BY DEF PrepareStep, historyVars, AssistantInv, LoopsAreInOrder
    <2>2. l.at # "verifying" /\ l.at \notin Executing
        BY <2>1 DEF Preparing, Executing
    <2>3. clicked[l.run] <= l.step - 1
        BY <2>2 DEF AssistantInv, ClicksAreCounted
    <2> QED
        BY <2>1, <2>2, <2>3, AssistantAssumption
<1>2. /\ AssistantTypeOK /\ ReportIsHonest /\ LockedForAReason /\ LoopsAreInOrder
      /\ FlagsFollowLoops /\ ClicksAreCounted /\ StoppedAreOver /\ ResultIsCurrent
    BY DEF AssistantInv
<1>3. /\ l \in Loop /\ l.run \in Run /\ l.command \in PageAction /\ l.command # NoCommand
      /\ clicked \in [Run -> 0..Steps]
    BY <1>2, LoopFacts DEF AssistantTypeOK
<1>4. CASE ~Continue(l) /\ loops' = loops \ {l} /\ UNCHANGED <<runVars, formVars>>
    <2>1. l.run # runId
        BY <1>1, <1>2, <1>4 DEF Continue, Current, FlagsFollowLoops
    <2> QED
        BY <1>1, <1>4, <2>1, LoopMoves
<1>5. ASSUME NEW at \in {"planning", "ready"}, Replace(l, [l EXCEPT !.at = at]),
             UNCHANGED <<runVars, formVars>>, at = "ready" => l.command \notin HighImpact
      PROVE  AssistantInv'
    <2>1. PICK m : m = [l EXCEPT !.at = at]
        OBVIOUS
    <2>2. /\ m \in Loop /\ m.run = l.run /\ m.command = l.command /\ m.at = at /\ m.step = 1
          /\ m.at \in Preparing /\ m.at \notin Executing /\ m.at # "verifying"
        BY <1>1, <1>3, <2>1 DEF Loop, Preparing, Executing
    <2>3. clicked'[l.run] <= IF m.at = "verifying" THEN m.step ELSE m.step - 1
        BY <1>1, <2>2
    <2>4. /\ clicked' \in [Run -> 0..Steps] /\ m.step <= Steps
          /\ \A r \in Run : r # l.run => clicked'[r] = clicked[r]
        BY <1>1, <1>3, <2>2
    <2>5. \E n \in Loop :
                /\ Replace(l, n) /\ n.run = l.run /\ n.command = l.command
                /\ n.at \in Preparing <=> l.at \in Preparing
                /\ n.at \in Executing <=> l.at \in Executing
                /\ n.at \in Preparing => n.step = 1
                /\ n.at # "next" => n.step <= Steps
                /\ n.at = "ready" => n.command \notin HighImpact
                /\ clicked' \in [Run -> 0..Steps]
                /\ \A r \in Run : r # l.run => clicked'[r] = clicked[r]
                /\ clicked'[l.run] <= IF n.at = "verifying" THEN n.step ELSE n.step - 1
        BY <1>1, <1>5, <2>1, <2>2, <2>3, <2>4
    <2> QED
        BY <1>1, <1>5, <2>5, LoopMoves
<1>6. CASE /\ Continue(l) /\ l.at = "planning" /\ l.command \in HighImpact
           /\ pendingAction' = l.command /\ running' = FALSE /\ loops' = loops \ {l}
           /\ UNCHANGED <<runId, cancelled, locked, executing, acknowledged>>
    <2>1. l.run = runId
        BY <1>6 DEF Continue, Current
    <2>2. /\ result = NoResult /\ runId # 0 /\ ~(\E m \in loops' : m.run = runId)
        BY <1>6, <2>1, CurrentFacts
    <2>3. ~executing
        BY <1>1, <1>2, <2>1 DEF FlagsFollowLoops
    <2>4. AssistantTypeOK' /\ ReportIsHonest' /\ StoppedAreOver' /\ ResultIsCurrent'
        BY <1>1, <1>2, <1>3, <1>6
           DEF AssistantTypeOK, ReportIsHonest, StoppedAreOver, ResultIsCurrent
    <2>5. LockedForAReason' /\ LoopsAreInOrder' /\ ClicksAreCounted'
        BY <1>1, <1>2, <1>3, <1>6 DEF LockedForAReason, LoopsAreInOrder, ClicksAreCounted
    <2>6. FlagsFollowLoops'
        BY <1>1, <1>6, <2>2, <2>3 DEF FlagsFollowLoops
    <2> QED
        BY <2>4, <2>5, <2>6 DEF AssistantInv
<1>7. CASE Continue(l) /\ l.at = "ready" /\ ~executing /\ Execute(l.run, l.command, loops \ {l})
           /\ UNCHANGED <<cancelled, locked>>
    <2>1. PICK m : m = [run |-> l.run, command |-> l.command, at |-> "locating", step |-> 1]
        OBVIOUS
    <2>2. /\ m \in Loop /\ m.run = l.run /\ m.command = l.command /\ m.at = "locating"
          /\ m.step = 1
        <3>1. 1 \in 1..Steps + 1
            BY AssistantAssumption
        <3> QED
            BY <1>3, <2>1, <3>1 DEF Loop, Executing
    <2>3. l.run = runId
        BY <1>7 DEF Continue, Current
    <2>4. /\ executing' = TRUE /\ runId' = runId /\ running' = TRUE
          /\ pendingAction' = NoCommand /\ acknowledged' = FALSE /\ loops' = (loops \ {l}) \cup {m}
          /\ UNCHANGED <<cancelled, locked, result, clicked, approved, stopped>>
        BY <1>1, <1>7, <2>1, <2>3 DEF Execute
    <2>5. /\ result = NoResult /\ \A k \in loops : k.run = runId => k = l
          /\ runId \in Run
        BY <2>3, CurrentFacts
    <2>6. l.command \in HighImpact => l.run \in approved
        BY <1>2, <1>7 DEF LoopsAreInOrder
    <2>7. AssistantTypeOK' /\ ReportIsHonest' /\ StoppedAreOver' /\ ResultIsCurrent'
        BY <1>1, <1>2, <2>2, <2>4
           DEF AssistantTypeOK, ReportIsHonest, StoppedAreOver, ResultIsCurrent
    <2>8. LockedForAReason'
        BY <2>2, <2>3, <2>4 DEF LockedForAReason
    <2>9. LoopsAreInOrder'
        <3>1. m.at \in Executing \cup {"ready"} /\ m.command \in HighImpact => m.run \in approved
            BY <2>2, <2>6
        <3>2. m.at \notin Preparing /\ m.step <= Steps /\ m.run <= runId
            BY <1>1, <1>2, <2>2, <2>3 DEF Preparing, LoopsAreInOrder
        <3>3. \A a, b \in loops' : a.run = b.run => a = b
            BY <1>2, <2>2, <2>3, <2>4, <2>5 DEF LoopsAreInOrder
        <3> QED
            BY <1>2, <2>4, <3>1, <3>2, <3>3 DEF LoopsAreInOrder
    <2>10. FlagsFollowLoops'
        <3>1. m.at \in Executing /\ m.at \notin Preparing
            BY <2>2 DEF Executing, Preparing
        <3> QED
            BY <2>2, <2>3, <2>4, <2>5, <3>1 DEF FlagsFollowLoops
    <2>11. ClicksAreCounted'
        <3>1. clicked[m.run] <= m.step - 1
            BY <1>1, <2>2
        <3> QED
            BY <1>2, <2>2, <2>4, <3>1 DEF ClicksAreCounted
    <2> QED
        BY <2>7, <2>8, <2>9, <2>10, <2>11 DEF AssistantInv
<1>8. ~(Continue(l) /\ executing)
    BY <1>1, <1>2 DEF Continue, Current, FlagsFollowLoops
<1> QED
    BY <1>4, <1>5, <1>6, <1>7, <1>8 DEF PrepareStep

\* The loop of an execution goes on, at the same step or at the next one.
LEMMA ExecutionMoves ==
    ASSUME AssistantInv, NEW l \in loops, NEW at \in Executing, NEW place,
           Replace(l, [l EXCEPT !.at = at, !.step = place]), l.at \in Executing,
           UNCHANGED <<runVars, formVars, result, approved, stopped>>,
           \/ place = l.step /\ UNCHANGED clicked /\ l.at # "verifying" /\ at # "next"
              /\ (l.at = "next" => l.step <= Steps)
           \/ place = l.step /\ at = "verifying" /\ l.at = "clicking"
              /\ clicked' = [clicked EXCEPT ![l.run] = @ + 1]
           \/ place = l.step + 1 /\ at = "next" /\ l.at # "next" /\ UNCHANGED clicked
    PROVE  AssistantInv'
<1>1. /\ l \in Loop /\ l.run \in Run /\ l.step \in 1..Steps + 1 /\ l.step \in Nat
      /\ clicked[l.run] \in Nat
    BY LoopFacts
<1>2. clicked \in [Run -> 0..Steps] /\ Steps \in Nat
    BY AssistantAssumption DEF AssistantInv, AssistantTypeOK
<1>3. /\ l.at # "next" => l.step <= Steps
      /\ clicked[l.run] <= IF l.at = "verifying" THEN l.step ELSE l.step - 1
    BY DEF AssistantInv, LoopsAreInOrder, ClicksAreCounted
<1>4. place \in 1..Steps + 1 /\ (at # "next" => place <= Steps)
    BY <1>1, <1>2, <1>3
<1>5. PICK m : m = [l EXCEPT !.at = at, !.step = place]
    OBVIOUS
<1>6. /\ m \in Loop /\ m.run = l.run /\ m.command = l.command /\ m.at = at /\ m.step = place
    BY <1>1, <1>4, <1>5 DEF Loop
<1>7. at \notin Preparing /\ l.at \notin Preparing /\ at # "ready"
    BY DEF Executing, Preparing
<1>8. /\ clicked' \in [Run -> 0..Steps] /\ \A r \in Run : r # l.run => clicked'[r] = clicked[r]
      /\ clicked'[l.run] <= IF at = "verifying" THEN place ELSE place - 1
    <2>1. CASE UNCHANGED clicked
        BY <1>1, <1>2, <1>3, <1>4, <2>1
    <2>2. CASE /\ place = l.step /\ at = "verifying" /\ l.at = "clicking"
               /\ clicked' = [clicked EXCEPT ![l.run] = @ + 1]
        <3>1. clicked[l.run] + 1 \in 0..Steps /\ clicked[l.run] + 1 <= place
            BY <1>1, <1>2, <1>3, <2>2
        <3> QED
            BY <1>1, <1>2, <2>2, <3>1
    <2> QED
        BY <2>1, <2>2
<1>9. \E n \in Loop :
            /\ Replace(l, n) /\ n.run = l.run /\ n.command = l.command
            /\ n.at \in Preparing <=> l.at \in Preparing
            /\ n.at \in Executing <=> l.at \in Executing
            /\ n.at \in Preparing => n.step = 1
            /\ n.at # "next" => n.step <= Steps
            /\ n.at = "ready" => n.command \notin HighImpact
            /\ clicked' \in [Run -> 0..Steps]
            /\ \A r \in Run : r # l.run => clicked'[r] = clicked[r]
            /\ clicked'[l.run] <= IF n.at = "verifying" THEN n.step ELSE n.step - 1
    BY <1>4, <1>5, <1>6, <1>7, <1>8
<1> QED
    BY <1>9, LoopMoves

\* The loop of the current run ends in a report.
LEMMA ReportKeeps ==
    ASSUME AssistantInv, NEW l \in loops, l.run = runId, l.at \in Executing,
           loops' = loops \ {l}, running' = FALSE, executing' = FALSE,
           UNCHANGED <<runId, cancelled, locked, formVars, clicked, approved, stopped>>,
           \/ result' = Report(l, "failed", l.step - 1)
           \/ result' = Report(l, "success", l.step - 1) /\ ~cancelled /\ l.step > Steps
    PROVE  AssistantInv'
<1>1. /\ AssistantTypeOK /\ ReportIsHonest /\ LockedForAReason /\ LoopsAreInOrder
      /\ FlagsFollowLoops /\ ClicksAreCounted /\ StoppedAreOver /\ ResultIsCurrent
    BY DEF AssistantInv
<1>2. /\ l.run \in 1..MaxRuns /\ l.step \in 1..Steps + 1 /\ l.step \in Nat
      /\ clicked[l.run] \in Nat /\ Steps \in Nat
    BY LoopFacts, AssistantAssumption
<1>3. /\ pendingAction = NoCommand /\ pendingAction' = pendingAction
      /\ acknowledged' = acknowledged /\ runId # 0
      /\ ~(\E m \in loops' : m.run = runId)
    BY CurrentFacts DEF formVars
<1>4. PICK status \in {"failed", "success"} :
        /\ result' = [run |-> l.run, status |-> status, completed |-> l.step - 1, reviewed |-> FALSE]
        /\ status = "success" => ~cancelled /\ l.step > Steps
    BY DEF Report
<1>5. /\ result'.run = runId /\ result'.status = status /\ result'.completed = l.step - 1
      /\ result'.reviewed = FALSE /\ result' # NoResult
    BY <1>3, <1>4 DEF NoResult
<1>6. result' \in [run : 0..MaxRuns, status : {"none", "success", "failed"},
                   completed : 0..Steps, reviewed : BOOLEAN]
    <2>1. l.run \in 0..MaxRuns /\ l.step - 1 \in 0..Steps
        BY <1>2, AssistantAssumption
    <2> QED
        BY <1>4, <2>1
<1>7. AssistantTypeOK'
    BY <1>1, <1>3, <1>6 DEF AssistantTypeOK
<1>8. ReportIsHonest'
    <2>1. status = "success" => runId \notin stopped /\ l.step - 1 = Steps
        <3>1. status = "success" => runId \notin stopped
            BY <1>1, <1>2, <1>4 DEF StoppedAreOver
        <3> QED
            BY <1>2, <1>4, <3>1
    <2>2. clicked[runId] <= (l.step - 1) + 1
        BY <1>1, <1>2 DEF ClicksAreCounted
    <2> QED
        BY <1>5, <2>1, <2>2 DEF ReportIsHonest
<1>9. LockedForAReason' /\ ResultIsCurrent' /\ StoppedAreOver'
    BY <1>1, <1>5 DEF LockedForAReason, ResultIsCurrent, StoppedAreOver
<1>10. LoopsAreInOrder' /\ ClicksAreCounted'
    BY <1>1 DEF LoopsAreInOrder, ClicksAreCounted
<1>11. FlagsFollowLoops'
    BY <1>3 DEF FlagsFollowLoops
<1> QED
    BY <1>7, <1>8, <1>9, <1>10, <1>11 DEF AssistantInv

LEMMA ExecuteStepKeeps ==
    ASSUME AssistantInv, NEW l \in loops, ExecuteStep(l) PROVE AssistantInv'
<1>1. l.at \in Executing /\ UNCHANGED <<runId, cancelled, locked, formVars, approved, stopped>>
    BY DEF ExecuteStep
<1>2. /\ l \in Loop /\ l.step \in Nat /\ Steps \in Nat
      /\ \A at \in Executing : [l EXCEPT !.at = at] = [l EXCEPT !.at = at, !.step = l.step]
    BY LoopFacts, AssistantAssumption DEF Loop
<1>3. ASSUME NEW at \in Executing, Go(l, at), l.at # "verifying", at # "next",
             l.at = "next" => l.step <= Steps,
             UNCHANGED clicked \/ (/\ at = "verifying" /\ l.at = "clicking"
                                   /\ clicked' = [clicked EXCEPT ![l.run] = @ + 1])
      PROVE  AssistantInv'
    <2>1. Replace(l, [l EXCEPT !.at = at, !.step = l.step])
        BY <1>2, <1>3 DEF Go
    <2>2. UNCHANGED <<runVars, formVars, result, approved, stopped>>
        BY <1>1, <1>3 DEF Go, runVars
    <2> QED
        BY <1>1, <1>3, <2>1, <2>2, ExecutionMoves
<1>4. ASSUME StepDone(l), l.at # "next", UNCHANGED clicked PROVE AssistantInv'
    <2>1. Replace(l, [l EXCEPT !.at = "next", !.step = l.step + 1])
        BY <1>2, <1>4 DEF StepDone
    <2>2. UNCHANGED <<runVars, formVars, result, approved, stopped>>
        BY <1>1, <1>4 DEF StepDone, runVars
    <2>3. "next" \in Executing
        BY DEF Executing
    <2> QED
        BY <1>1, <1>4, <2>1, <2>2, <2>3, ExecutionMoves
<1>5. ASSUME Throw(l), UNCHANGED clicked PROVE AssistantInv'
    <2>1. CASE runId = l.run
        BY <1>1, <1>5, <2>1, ReportKeeps DEF Throw
    <2>2. CASE runId # l.run
        <3>1. /\ loops' = loops \ {l} /\ UNCHANGED clicked
              /\ UNCHANGED <<runVars, formVars, result, approved, stopped>>
            BY <1>1, <1>5, <2>2 DEF Throw, runVars
        <3> QED
            BY <2>2, <3>1, LoopMoves
    <2> QED
        BY <2>1, <2>2
<1>6. CASE l.at = "next" /\ l.step > Steps /\ Succeed(l) /\ UNCHANGED clicked
    BY <1>1, <1>6, ReportKeeps DEF Succeed, Current
<1>7. CASE Click(l)
    BY <1>3, <1>7 DEF Click, Executing
<1>8. CASE \/ l.at = "locating" /\ Go(l, "validating") /\ UNCHANGED clicked
           \/ l.at = "validating" /\ Go(l, "skipping") /\ UNCHANGED clicked
           \/ l.at = "validating" /\ Go(l, "clicking") /\ UNCHANGED clicked
           \/ l.at = "next" /\ l.step <= Steps /\ Go(l, "locating") /\ UNCHANGED clicked
    BY <1>3, <1>8 DEF Executing
<1>9. CASE /\ UNCHANGED clicked
           /\ Verified(l) \/ (l.at = "verifying" /\ ~Current(l) /\ StepDone(l))
    BY <1>4, <1>9 DEF Verified
<1> QED
    BY <1>5, <1>6, <1>7, <1>8, <1>9 DEF ExecuteStep

\* The user stops what is going on: a later run begins, or the current one is cancelled.
LEMMA StopKeeps ==
    ASSUME AssistantInv, Stop \/ CancelConfirmation PROVE AssistantInv'
<1>1. /\ AssistantTypeOK /\ ReportIsHonest /\ LockedForAReason /\ LoopsAreInOrder
      /\ FlagsFollowLoops /\ ClicksAreCounted /\ StoppedAreOver /\ ResultIsCurrent
    BY DEF AssistantInv
<1>2. runId \in Nat /\ runId \in Run /\ MaxRuns \in Nat /\ result = NoResult
    <2>1. runId \in 0..MaxRuns /\ MaxRuns \in Nat
        BY <1>1, AssistantAssumption DEF AssistantTypeOK
    <2>2. CASE Stop
        <3>1. running
            BY <2>2 DEF Stop
        <3>2. PICK l \in loops : l.run = runId
            BY <1>1, <3>1 DEF FlagsFollowLoops
        <3> QED
            BY <2>1, <3>2, CurrentFacts
    <2>3. CASE CancelConfirmation
        <3>1. runId # 0 /\ result = NoResult
            BY <1>1, <2>3 DEF CancelConfirmation, FlagsFollowLoops
        <3> QED
            BY <2>1, <3>1 DEF Run
    <2> QED
        BY <2>1, <2>2, <2>3
<1>3. /\ UNCHANGED <<result, loops, clicked, approved>>
      /\ stopped' = stopped \cup {runId}
    BY DEF Stop, CancelConfirmation
<1>4. stopped \subseteq Run /\ stopped' \subseteq Run
    BY <1>1, <1>2, <1>3 DEF AssistantTypeOK
<1>5. NoResult.status = "none"
    BY DEF NoResult
<1>6. ReportIsHonest' /\ ResultIsCurrent'
    BY <1>2, <1>3, <1>5 DEF ReportIsHonest, ResultIsCurrent
<1>7. CASE Stop /\ executing
    <2>1. /\ cancelled' = TRUE
          /\ UNCHANGED <<runId, locked, executing, running, pendingAction, acknowledged>>
        BY <1>7 DEF Stop, formVars
    <2>2. AssistantTypeOK'
        BY <1>1, <1>3, <1>4, <2>1 DEF AssistantTypeOK
    <2>3. LockedForAReason' /\ LoopsAreInOrder' /\ ClicksAreCounted'
        BY <1>1, <1>3, <2>1 DEF LockedForAReason, LoopsAreInOrder, ClicksAreCounted
    <2>4. StoppedAreOver'
        BY <1>1, <1>3, <2>1 DEF StoppedAreOver
    <2>5. FlagsFollowLoops'
        <3>1. \A l \in loops : l.run = runId => l.at \in Executing /\ l.at \notin Preparing
            BY <1>1, <1>7 DEF FlagsFollowLoops, Executing, Preparing
        <3> QED
            BY <1>1, <1>3, <1>7, <2>1, <3>1 DEF FlagsFollowLoops
    <2> QED
        BY <1>6, <2>2, <2>3, <2>4, <2>5 DEF AssistantInv
<1>8. CASE CancelConfirmation \/ (Stop /\ ~executing)
    <2>1. /\ runId' = runId + 1 /\ locked' = FALSE /\ executing' = executing /\ runId < MaxRuns
          /\ cancelled' \in BOOLEAN
        BY <1>1, <1>8 DEF Stop, CancelConfirmation, AssistantTypeOK
    <2>2. ~executing /\ running' = FALSE /\ running' \in BOOLEAN
        <3>1. CASE CancelConfirmation
            <4>1. ~running /\ running' = running /\ running \in BOOLEAN
                BY <1>1, <3>1 DEF CancelConfirmation, FlagsFollowLoops, AssistantTypeOK
            <4> QED
                BY <1>1, <4>1 DEF FlagsFollowLoops
        <3>2. CASE Stop /\ ~executing
            BY <3>2 DEF Stop
        <3> QED
            BY <1>8, <3>1, <3>2
    <2>3. pendingAction' = NoCommand /\ acknowledged' \in BOOLEAN
        <3>1. CASE CancelConfirmation
            BY <3>1 DEF CancelConfirmation
        <3>2. CASE Stop
            BY <1>1, <3>2 DEF Stop, formVars, FlagsFollowLoops, AssistantTypeOK
        <3> QED
            BY <1>8, <3>1, <3>2
    <2>4. \A l \in loops : l.run \in Nat /\ l.run <= runId /\ l.run # runId + 1
        BY <1>2, LoopFacts DEF Run
    <2>5. AssistantTypeOK'
        <3>1. runId' \in 0..MaxRuns
            BY <1>2, <2>1
        <3>2. {cancelled', locked', executing', running'} \subseteq BOOLEAN
            BY <1>1, <2>1, <2>2 DEF AssistantTypeOK
        <3> QED
            BY <1>1, <1>3, <1>4, <2>3, <3>1, <3>2 DEF AssistantTypeOK
    <2>6. LoopsAreInOrder'
        BY <1>1, <1>2, <1>3, <2>1, <2>4 DEF LoopsAreInOrder
    <2>7. ClicksAreCounted'
        <3>1. \A r \in Run : r > runId + 1 => r > runId
            BY <1>2 DEF Run
        <3> QED
            BY <1>1, <1>3, <2>1, <3>1 DEF ClicksAreCounted
    <2>8. StoppedAreOver'
        BY <1>1, <1>2, <1>3, <1>4, <2>1 DEF StoppedAreOver, Run
    <2>9. FlagsFollowLoops' /\ LockedForAReason'
        BY <1>3, <2>1, <2>2, <2>3, <2>4 DEF FlagsFollowLoops, LockedForAReason
    <2> QED
        BY <1>6, <2>5, <2>6, <2>7, <2>8, <2>9 DEF AssistantInv
<1> QED
    BY <1>7, <1>8

\* The form, a command that means nothing, and the review of a report.
LEMMA FormKeeps ==
    ASSUME AssistantInv, Acknowledge \/ Misunderstood \/ ConfirmReview PROVE AssistantInv'
<1>1. /\ AssistantTypeOK /\ ReportIsHonest /\ LockedForAReason /\ LoopsAreInOrder
      /\ FlagsFollowLoops /\ ClicksAreCounted /\ StoppedAreOver /\ ResultIsCurrent
    BY DEF AssistantInv
<1>2. /\ UNCHANGED <<runId, cancelled, executing, running, loops>>
      /\ UNCHANGED <<clicked, approved, stopped>>
    BY DEF Acknowledge, Misunderstood, ConfirmReview, runVars, historyVars
<1>3. LoopsAreInOrder' /\ ClicksAreCounted' /\ StoppedAreOver'
    BY <1>1, <1>2 DEF LoopsAreInOrder, ClicksAreCounted, StoppedAreOver
<1>4. CASE Acknowledge
    <2>1. UNCHANGED <<locked, pendingAction, result>> /\ acknowledged' \in BOOLEAN
        BY <1>4 DEF Acknowledge, runVars
    <2> QED
        BY <1>1, <1>2, <1>3, <2>1 DEF AssistantInv, AssistantTypeOK, ReportIsHonest,
            LockedForAReason, FlagsFollowLoops, ResultIsCurrent
<1>5. CASE Misunderstood
    <2>1. /\ ~locked /\ locked' = locked /\ pendingAction' = NoCommand /\ result' = NoResult
          /\ acknowledged' = acknowledged
        BY <1>5 DEF Misunderstood, runVars
    <2>2. /\ NoResult \in [run : 0..MaxRuns, status : {"none", "success", "failed"},
                           completed : 0..Steps, reviewed : BOOLEAN]
          /\ NoResult.status = "none"
        BY AssistantAssumption DEF NoResult
    <2>3. AssistantTypeOK'
        BY <1>1, <1>2, <2>1, <2>2 DEF AssistantTypeOK
    <2>4. ReportIsHonest' /\ LockedForAReason' /\ ResultIsCurrent'
        BY <2>1, <2>2 DEF ReportIsHonest, LockedForAReason, ResultIsCurrent
    <2>5. FlagsFollowLoops'
        BY <1>1, <1>2, <2>1 DEF FlagsFollowLoops
    <2> QED
        BY <1>3, <2>3, <2>4, <2>5 DEF AssistantInv
<1>6. CASE ConfirmReview
    <2>1. /\ result # NoResult /\ locked' = FALSE /\ result' = [result EXCEPT !.reviewed = TRUE]
          /\ UNCHANGED <<pendingAction, acknowledged>>
        BY <1>6 DEF ConfirmReview, formVars
    <2>2. /\ result' \in [run : 0..MaxRuns, status : {"none", "success", "failed"},
                          completed : 0..Steps, reviewed : BOOLEAN]
          /\ result'.run = result.run /\ result'.status = result.status
          /\ result'.completed = result.completed
        BY <1>1, <2>1 DEF AssistantTypeOK
    <2>3. ~running /\ pendingAction = NoCommand
        BY <1>1, <2>1 DEF FlagsFollowLoops
    <2>4. AssistantTypeOK'
        BY <1>1, <1>2, <2>1, <2>2 DEF AssistantTypeOK
    <2>5. ReportIsHonest' /\ LockedForAReason' /\ ResultIsCurrent'
        BY <1>1, <1>2, <2>1, <2>2 DEF ReportIsHonest, LockedForAReason, ResultIsCurrent
    <2>6. FlagsFollowLoops'
        BY <1>1, <1>2, <2>1, <2>3 DEF FlagsFollowLoops
    <2> QED
        BY <1>3, <2>4, <2>5, <2>6 DEF AssistantInv
<1> QED
    BY <1>4, <1>5, <1>6

\* A click is of the current run, and the current run is not stopped; the command it is of
\* was approved if it had to be.
LEMMA ClicksAreWantedOnce ==
    ASSUME AssistantInv, NEW l \in loops, Click(l), NEW r \in Run, clicked'[r] > clicked[r]
    PROVE  /\ r \notin stopped
           /\ \A m \in loops : m.run = r /\ m.command \in HighImpact => r \in approved
<1>1. /\ l.at = "clicking" /\ l.run = runId /\ ~cancelled
      /\ clicked' = [clicked EXCEPT ![l.run] = @ + 1]
    BY DEF Click, Go, Current
<1>2. clicked \in [Run -> 0..Steps] /\ l.run \in Run /\ runId \in Nat
    BY LoopFacts DEF AssistantInv, AssistantTypeOK
<1>3. r = l.run
    <2>1. CASE r # l.run
        <3>1. clicked'[r] = clicked[r] /\ clicked[r] \in Nat
            BY <1>1, <1>2, <2>1
        <3> QED
            BY <3>1
    <2> QED
        BY <2>1
<1>4. r \notin stopped
    BY <1>1, <1>2, <1>3 DEF AssistantInv, StoppedAreOver
<1>5. \A m \in loops : m.run = r => m = l
    BY <1>3, LoopFacts
<1>6. l.command \in HighImpact => r \in approved
    BY <1>1, <1>3 DEF AssistantInv, LoopsAreInOrder, Executing
<1> QED
    BY <1>4, <1>5, <1>6

\* The inductive invariant of the assistant, for every set of commands and number of steps.
THEOREM AssistantInvariance == AssistantSpec => []AssistantInv
<1>1. AssistantInit => AssistantInv
    <2> SUFFICES ASSUME AssistantInit PROVE AssistantInv
        OBVIOUS
    <2>1. /\ 0 \in 0..MaxRuns /\ 0 \in 0..Steps
          /\ NoResult \in [run : 0..MaxRuns, status : {"none", "success", "failed"},
                           completed : 0..Steps, reviewed : BOOLEAN]
          /\ NoResult.status = "none"
        BY AssistantAssumption DEF NoResult
    <2>2. AssistantTypeOK
        BY <2>1 DEF AssistantInit, AssistantTypeOK
    <2>3. ReportIsHonest /\ LockedForAReason /\ LoopsAreInOrder /\ StoppedAreOver
        BY <2>1 DEF AssistantInit, ReportIsHonest, LockedForAReason, LoopsAreInOrder, StoppedAreOver
    <2>4. FlagsFollowLoops /\ ClicksAreCounted /\ ResultIsCurrent
        BY DEF AssistantInit, FlagsFollowLoops, ClicksAreCounted, ResultIsCurrent
    <2> QED
        BY <2>2, <2>3, <2>4 DEF AssistantInv
<1>2. AssistantInv /\ [AssistantNext]_assistantVars => AssistantInv'
    <2> SUFFICES ASSUME AssistantInv, [AssistantNext]_assistantVars PROVE AssistantInv'
        OBVIOUS
    <2>1. CASE AssistantNext
        BY <2>1, PrepareKeeps, FormKeeps, ApproveKeeps, StopKeeps, PrepareStepKeeps,
           ExecuteStepKeeps DEF AssistantNext, LoopStep
    <2>2. CASE UNCHANGED assistantVars
        <3>1. /\ UNCHANGED <<runId, cancelled, locked, executing, running>>
              /\ UNCHANGED <<pendingAction, acknowledged, result, loops>>
              /\ UNCHANGED <<clicked, approved, stopped>>
            BY <2>2 DEF assistantVars, runVars, formVars, historyVars
        <3> QED
            BY <3>1 DEF AssistantInv, AssistantTypeOK, ReportIsHonest, LockedForAReason,
                LoopsAreInOrder, FlagsFollowLoops, ClicksAreCounted, StoppedAreOver, ResultIsCurrent
    <2> QED
        BY <2>1, <2>2
<1> QED
    BY <1>1, <1>2, PTL DEF AssistantSpec

\* The assistant clicks only where the user still wants it, one loop at a time, reports what it
\* did, and is never locked without something that will unlock it (XiaoyiSystemAssistant.tsx,
\* executeAction and the loops that outlive their run).
THEOREM AssistantStaysHonest == AssistantSpec => AssistantIsHonest
<1>1. AssistantInv => AssistantTypeOK /\ ReportIsHonest /\ OneLoop /\ LockedForAReason
    BY DEF AssistantInv, LoopsAreInOrder, OneLoop, Current
<1>2. AssistantInv /\ [AssistantNext]_assistantVars =>
        [\A r \in Run : clicked'[r] > clicked[r] =>
            /\ r \notin stopped
            /\ \A l \in loops : l.run = r /\ l.command \in HighImpact => r \in approved]_assistantVars
    <2> SUFFICES ASSUME AssistantInv, AssistantNext, NEW r \in Run, clicked'[r] > clicked[r]
                 PROVE  /\ r \notin stopped
                        /\ \A l \in loops : l.run = r /\ l.command \in HighImpact => r \in approved
        OBVIOUS
    <2>1. clicked[r] \in Nat
        BY DEF AssistantInv, AssistantTypeOK
    <2>2. clicked' # clicked
        BY <2>1
    <2>3. PICK l \in loops : Click(l)
        BY <2>2 DEF AssistantNext, Prepare, Misunderstood, Acknowledge, Approve,
            CancelConfirmation, ConfirmReview, Stop, LoopStep, PrepareStep, ExecuteStep, historyVars
    <2> QED
        BY <2>3, ClicksAreWantedOnce
<1> QED
    BY <1>1, <1>2, AssistantInvariance, PTL DEF AssistantSpec, AssistantIsHonest, ClicksAreWanted

----------------------------------------------------------------------------
(* The native validations.  A job only goes forward, and what was seen of   *)
(* one that has ended stays true of it until it is evicted; so what the     *)
(* page holds of a job may be as late as it likes.                          *)

\* What a job's fields say of each other.  At the exit of its process two polls are owed,
\* and the second of them has read the file after its last write.
JobRight(j) ==
    /\ j.status = "absent" => j = NoNativeJob
    /\ j.status = "evicted" => j = [NoNativeJob EXCEPT !.status = "evicted"]
    /\ j.error # "none" => j.status = "failed"
    /\ j.error = "closed" => j.file = "none"
    /\ j.status = "completed" => j.file = "result"
    /\ j.polling \in {"idle", "none", j.file}
    /\ j.status = "active" => j.engine # "none"
    /\ j.status = "active" /\ j.engine = "gone" =>
         /\ j.exitPolls < 2 => j.polling \in {"idle", j.file}
         /\ j.exitPolls = 0 => j.file = "none"

\* What may become of job j.
GoesOn(j, k) ==
    /\ k.status = "active" => j.status = "active"
    /\ j.status \in Terminal => k.status \in {j.status, "evicted"}
    /\ j.status = "evicted" => k.status = "evicted"
    /\ j.status = "absent" <=> k.status = "absent"
    /\ k.engine = "up" => j.engine = "up" /\ (j.stopping # "no" => k.stopping # "no")

\* A run has a job from the end of its start() on, and one start() runs at a time.
ServiceInv ==
    /\ ServiceTypeOK /\ OneEngine /\ NothingOutlivesDispose
    /\ \A r \in NativeRun :
        /\ JobRight(nativeJob[r])
        /\ call[r] = "created" <=> nativeJob[r].status # "absent"
        /\ call[r] = "accepted" => starting = r
    /\ starting # None => call[starting] = "accepted"
    /\ starting = None <=> startStep = "idle"

\* The page works on a run for the request it shows, while it is mounted and nothing is
\* being closed.
RunIsCurrent ==
    /\ run = None <=> step = "idle"
    /\ run # None => mounted /\ for[run] = identity /\ closingRun = None
    /\ step \in {"availability", "creating", "waiting", "reading"} => busy
    /\ step \notin {"watching", "settled"} => failures = 0
    /\ step = "watching" => failures < MaxWindowFailures

\* A POST that has no answer yet has somebody who waits for it, or was given up.
CallsAreAwaited ==
    /\ step = "availability" => call[run] = "none"
    /\ \A r \in NativeRun :
        /\ for[r] = None => call[r] = "none"
        /\ call[r] \in {"sent", "accepted"} =>
             (step = "creating" /\ run = r) \/ r \in late \cup unconfirmed

\* What the page shows or was answered of a job that has ended is still so.
StillSo(seen) ==
    seen.status \in Terminal => nativeJob[seen.run].status \in {seen.status, "evicted"}

ShownIsKnown ==
    /\ shownJob = NoJobShown \/ (shownJob.run \in NativeRun /\ shownJob.status \in JobStatus)
    /\ got = NoJobShown \/ (step = "reading" /\ got.run = run /\ got.status \in JobStatus)
    /\ StillSo(shownJob) /\ StillSo(got)
    /\ step \in {"availability", "creating"} => shownJob = NoJobShown
    /\ step \in {"waiting", "reading"} => shownJob.run = run /\ shownJob.status = "active"
    /\ step \in {"watching", "settled"} => shownJob.run = run /\ shownJob.status \in Terminal

\* A job that is being closed for the request still shown is the one on show.
ClosingIsShown ==
    /\ closingRun = None <=> closeStep = "idle"
    /\ closingRun # None =>
         closingFor \in 0..identity /\ (closingFor = identity => shownJob.run = closingRun)

NativeInv ==
    /\ ServiceInv /\ NativeTypeOK /\ NoOrphans
    /\ RunIsCurrent /\ CallsAreAwaited /\ ShownIsKnown /\ ClosingIsShown

----------------------------------------------------------------------------
(* What becomes of one job. *)

LEMMA NativeJobFields ==
    ASSUME NEW j \in NativeJob
    PROVE  /\ j.status \in JobStatus \cup {"absent", "evicted"} /\ j.error \in {"none", "closed", "other"}
           /\ j.engine \in {"none", "up", "gone"} /\ j.stopping \in {"no", "asked", "refused"}
           /\ j.file \in Content /\ j.polling \in Content \cup {"idle"} /\ j.exitPolls \in 0..2
BY DEF NativeJob

LEMMA StoppedIsRight ==
    ASSUME NEW j \in NativeJob, JobRight(j)
    PROVE  /\ Stopped(j) \in NativeJob /\ JobRight(Stopped(j)) /\ GoesOn(j, Stopped(j))
           /\ j.engine = "up" => Stopped(j).stopping # "no"
           /\ Stopped(j).status = j.status /\ Stopped(j).error = j.error
<1>1. CASE j.engine = "up" /\ j.stopping = "no"
    <2>1. Stopped(j) = [j EXCEPT !.stopping = "asked"]
        BY <1>1 DEF Stopped
    <2>2. Stopped(j) \in NativeJob
        BY <2>1 DEF NativeJob
    <2>3. j.status \notin {"absent", "evicted"}
        BY <1>1 DEF JobRight, NoNativeJob
    <2>4. /\ Stopped(j).status = j.status /\ Stopped(j).error = j.error
          /\ Stopped(j).file = j.file /\ Stopped(j).polling = j.polling
          /\ Stopped(j).engine = j.engine /\ Stopped(j).exitPolls = j.exitPolls
          /\ Stopped(j).stopping = "asked"
        BY <2>1 DEF NativeJob
    <2> QED
        BY <1>1, <2>2, <2>3, <2>4 DEF JobRight, GoesOn
<1>2. CASE ~(j.engine = "up" /\ j.stopping = "no")
    <2>1. Stopped(j) = j
        BY <1>2 DEF Stopped
    <2> QED
        BY <1>2, <2>1 DEF GoesOn
<1> QED
    BY <1>1, <1>2

\* A live job that ends without success: failed or cancelled, its process asked to stop.
LEMMA EndedIsRight ==
    ASSUME NEW j \in NativeJob, JobRight(j), j.status = "active",
           NEW status \in {"failed", "cancelled"}, NEW why \in {"none", "closed", "other"},
           why # "none" => status = "failed", why = "closed" => j.file = "none",
           NEW k, k = [j EXCEPT !.status = status, !.error = why, !.exitPolls = 0]
    PROVE  k \in NativeJob /\ JobRight(k) /\ GoesOn(j, k)
<1>1. k \in NativeJob
    <2>1. [j EXCEPT !.status = status] \in NativeJob
        BY DEF NativeJob, JobStatus, Terminal
    <2>2. [[j EXCEPT !.status = status] EXCEPT !.error = why] \in NativeJob
        BY <2>1 DEF NativeJob
    <2>3. PICK m \in NativeJob : k = [m EXCEPT !.exitPolls = 0]
        BY <2>2
    <2>4. 0 \in 0..2
        OBVIOUS
    <2> QED
        BY <2>3, <2>4 DEF NativeJob
<1>2. /\ k.status = status /\ k.error = why /\ k.file = j.file /\ k.polling = j.polling
      /\ k.engine = j.engine /\ k.stopping = j.stopping
    BY DEF NativeJob
<1>3. JobRight(k)
    <2>1. j.polling \in {"idle", "none", j.file}
        BY DEF JobRight
    <2> QED
        BY <1>2, <2>1 DEF JobRight
<1>4. GoesOn(j, k)
    BY <1>2 DEF GoesOn, Terminal
<1> QED
    BY <1>1, <1>3, <1>4

LEMMA FailedIsRight ==
    ASSUME NEW j \in NativeJob, JobRight(j), NEW why \in {"closed", "other"},
           why = "closed" => j.file = "none"
    PROVE  /\ Failed(j, why) \in NativeJob /\ JobRight(Failed(j, why)) /\ GoesOn(j, Failed(j, why))
           /\ Failed(j, why).status # "active"
<1>1. CASE j.status = "active"
    <2> DEFINE k == [j EXCEPT !.status = "failed", !.error = why, !.exitPolls = 0]
    <2>1. k \in NativeJob /\ JobRight(k) /\ GoesOn(j, k) /\ k.status = "failed"
        <3>1. k.status = "failed"
            BY DEF NativeJob
        <3>2. "failed" \in {"failed", "cancelled"} /\ why \in {"none", "closed", "other"}
            OBVIOUS
        <3> QED
            BY <1>1, <3>1, <3>2, EndedIsRight
    <2>2. Failed(j, why) = Stopped(k)
        BY <1>1 DEF Failed
    <2> HIDE DEF k
    <2>3. /\ Stopped(k) \in NativeJob /\ JobRight(Stopped(k)) /\ GoesOn(k, Stopped(k))
          /\ Stopped(k).status = "failed"
        BY <2>1, StoppedIsRight
    <2> QED
        BY <2>1, <2>2, <2>3 DEF GoesOn, Terminal
<1>2. CASE j.status # "active"
    BY <1>2 DEF Failed, GoesOn
<1> QED
    BY <1>1, <1>2

LEMMA CancelledIsRight ==
    ASSUME NEW j \in NativeJob, JobRight(j)
    PROVE  /\ Cancelled(j) \in NativeJob /\ JobRight(Cancelled(j)) /\ GoesOn(j, Cancelled(j))
           /\ Cancelled(j).status # "active"
           /\ Cancelled(j).engine = "up" => Cancelled(j).stopping # "no"
<1>1. CASE j.status = "active"
    <2> DEFINE k == [j EXCEPT !.status = "cancelled", !.exitPolls = 0]
    <2>1. k \in NativeJob /\ JobRight(k) /\ GoesOn(j, k) /\ k.status = "cancelled"
        <3>1. j.error = "none"
            BY <1>1, NativeJobFields DEF JobRight
        <3>2. k = [j EXCEPT !.status = "cancelled", !.error = "none", !.exitPolls = 0]
            BY <3>1 DEF NativeJob
        <3>3. k.status = "cancelled"
            BY DEF NativeJob
        <3>4. "cancelled" \in {"failed", "cancelled"} /\ "none" \in {"none", "closed", "other"}
            OBVIOUS
        <3> QED
            BY <1>1, <3>2, <3>3, <3>4, EndedIsRight
    <2>2. Cancelled(j) = Stopped(k)
        BY <1>1 DEF Cancelled
    <2> HIDE DEF k
    <2>3. /\ Stopped(k) \in NativeJob /\ JobRight(Stopped(k)) /\ GoesOn(k, Stopped(k))
          /\ Stopped(k).status = "cancelled" /\ (k.engine = "up" => Stopped(k).stopping # "no")
        BY <2>1, StoppedIsRight
    <2> QED
        BY <2>1, <2>2, <2>3 DEF GoesOn, Terminal
<1>2. CASE j.status \in Terminal
    <2>1. Cancelled(j) = Stopped(j)
        BY <1>2 DEF Cancelled, Terminal
    <2>2. GoesOn(j, Stopped(j)) /\ (j.engine = "up" => Stopped(j).stopping # "no")
        BY StoppedIsRight
    <2> QED
        BY <1>2, <2>1, <2>2, StoppedIsRight DEF GoesOn, Terminal
<1>3. CASE j.status # "active" /\ j.status \notin Terminal
    <2>1. Cancelled(j) = j
        BY <1>3 DEF Cancelled
    <2>2. j.status \in {"absent", "evicted"}
        BY <1>3, NativeJobFields DEF JobStatus
    <2>3. j.engine = "none"
        BY <2>2 DEF JobRight, NoNativeJob
    <2> QED
        BY <2>1, <2>2, <2>3 DEF GoesOn
<1> QED
    BY <1>1, <1>2, <1>3

LEMMA PollEndedIsRight ==
    ASSUME NEW j \in NativeJob, JobRight(j), j.polling # "idle",
           j.status = "active" => j.polling = "none"
    PROVE  PollEnded(j) \in NativeJob /\ JobRight(PollEnded(j)) /\ GoesOn(j, PollEnded(j))
<1>1. PICK n \in 0..2 : n = IF j.exitPolls = 0 THEN 0 ELSE j.exitPolls - 1
    BY NativeJobFields
<1>2. PICK i \in NativeJob : i = [j EXCEPT !.polling = "idle"]
    BY DEF NativeJob
<1>3. PICK k \in NativeJob : k = [i EXCEPT !.exitPolls = n]
    BY DEF NativeJob
<1>4. PollEnded(j) = k
    BY <1>1, <1>2, <1>3 DEF PollEnded, NativeJob
<1>5. /\ k.status = j.status /\ k.error = j.error /\ k.file = j.file /\ k.polling = "idle"
      /\ k.engine = j.engine /\ k.stopping = j.stopping /\ k.exitPolls = n
    BY <1>2, <1>3 DEF NativeJob
<1>6. j.status \notin {"absent", "evicted"}
    BY DEF JobRight, NoNativeJob
<1>7. JobRight(k)
    <2>1. /\ j.error # "none" => j.status = "failed"
          /\ j.error = "closed" => j.file = "none"
          /\ j.status = "completed" => j.file = "result"
          /\ j.status = "active" => j.engine # "none"
        BY DEF JobRight
    <2>2. ASSUME j.status = "active", j.engine = "gone", n = 0 PROVE j.file = "none"
        <3>1. j.exitPolls < 2
            BY <1>1, <2>2, NativeJobFields
        <3>2. j.polling \in {"idle", j.file}
            BY <2>2, <3>1 DEF JobRight
        <3> QED
            BY <2>2, <3>2
    <2> QED
        BY <1>5, <1>6, <2>1, <2>2 DEF JobRight
<1>8. GoesOn(j, k)
    BY <1>5 DEF GoesOn
<1> QED
    BY <1>4, <1>7, <1>8

LEMMA GoesOnAndOn ==
    ASSUME NEW i, NEW j, NEW k, GoesOn(i, j), GoesOn(j, k) PROVE GoesOn(i, k)
BY DEF GoesOn, Terminal

\* What happens to one job at a time.
JobStep(r) ==
    \/ PollSteps(r) \/ PollTimesOut(r) \/ EngineExits(r) \/ StopGivesUp(r)
    \/ \E what \in {"result", "foreign"} : ProcessWrites(r, what)

LEMMA JobStepIsRight ==
    ASSUME ServiceInv, NEW r \in NativeRun, JobStep(r)
    PROVE  \E k \in NativeJob : /\ JobRight(k) /\ GoesOn(nativeJob[r], k)
                                /\ ChangeJob(r, k)
<1> DEFINE j == nativeJob[r]
<1>1. j \in NativeJob /\ JobRight(j)
    BY DEF ServiceInv, ServiceTypeOK
<1>2. CASE BeginPoll(r)
    <2>1. PICK k \in NativeJob : k = [j EXCEPT !.polling = j.file]
        BY <1>1, NativeJobFields DEF NativeJob
    <2>2. /\ k.status = j.status /\ k.error = j.error /\ k.file = j.file /\ k.polling = j.file
          /\ k.engine = j.engine /\ k.stopping = j.stopping /\ k.exitPolls = j.exitPolls
        BY <1>1, <2>1 DEF NativeJob
    <2>3. j.status = "active" /\ ChangeJob(r, k)
        BY <1>2, <2>1 DEF BeginPoll, Active
    <2>4. JobRight(k)
        BY <1>1, <2>2, <2>3 DEF JobRight
    <2>5. GoesOn(j, k)
        BY <2>2 DEF GoesOn
    <2> QED
        BY <2>3, <2>4, <2>5
<1>3. CASE EndPoll(r)
    <2>1. j.polling # "idle" /\ j.polling \in {"none", j.file}
        BY <1>1, <1>3 DEF EndPoll, JobRight
    <2>2. CASE Active(r) /\ j.polling = "result"
        <3>1. PICK k \in NativeJob : k = [j EXCEPT !.status = "completed"]
            BY <1>1 DEF NativeJob, JobStatus, Terminal
        <3>2. /\ k.status = "completed" /\ k.error = j.error /\ k.file = j.file
              /\ k.polling = j.polling /\ k.engine = j.engine /\ k.stopping = j.stopping
            BY <1>1, <3>1 DEF NativeJob
        <3>3. j.status = "active" /\ j.file = "result" /\ j.error = "none"
            BY <1>1, <2>1, <2>2 DEF Active, JobRight
        <3>4. JobRight(k)
            BY <2>1, <3>2, <3>3 DEF JobRight
        <3>5. GoesOn(j, k)
            BY <3>2, <3>3 DEF GoesOn, Terminal
        <3>6. PollEnded(k) \in NativeJob /\ JobRight(PollEnded(k)) /\ GoesOn(k, PollEnded(k))
            BY <2>1, <3>2, <3>4, PollEndedIsRight
        <3>7. ChangeJob(r, PollEnded(k))
            BY <1>3, <2>2, <3>1 DEF EndPoll
        <3> QED
            BY <3>5, <3>6, <3>7, GoesOnAndOn
    <2>3. CASE ~(Active(r) /\ j.polling = "result") /\ j.polling = "foreign"
        <3>1. PICK k \in NativeJob : /\ k = Failed(j, "other") /\ JobRight(k) /\ GoesOn(j, k)
                                     /\ k.status # "active"
            BY <1>1, FailedIsRight
        <3>2. k.polling = j.polling
            BY <1>1, <3>1 DEF Failed, Stopped, NativeJob
        <3>3. PollEnded(k) \in NativeJob /\ JobRight(PollEnded(k)) /\ GoesOn(k, PollEnded(k))
            BY <2>1, <3>1, <3>2, PollEndedIsRight
        <3>4. ChangeJob(r, PollEnded(k))
            BY <1>3, <2>3, <3>1 DEF EndPoll
        <3> QED
            BY <3>1, <3>3, <3>4, GoesOnAndOn
    <2>4. CASE ~(Active(r) /\ j.polling = "result") /\ j.polling # "foreign"
        <3>1. j.status = "active" => j.polling = "none"
            BY <1>1, <2>1, <2>4, NativeJobFields DEF Active, Content
        <3>2. PollEnded(j) \in NativeJob /\ JobRight(PollEnded(j)) /\ GoesOn(j, PollEnded(j))
            BY <1>1, <2>1, <3>1, PollEndedIsRight
        <3>3. ChangeJob(r, PollEnded(j))
            BY <1>3, <2>4 DEF EndPoll
        <3> QED
            BY <3>2, <3>3
    <2> QED
        BY <2>2, <2>3, <2>4
<1>4. CASE AfterExitPolls(r)
    <2>1. j.file = "none" /\ ChangeJob(r, Failed(j, "closed"))
        BY <1>1, <1>4 DEF AfterExitPolls, JobRight, Active
    <2> QED
        BY <1>1, <2>1, FailedIsRight
<1>5. CASE PollTimesOut(r)
    <2>1. PICK k \in NativeJob : /\ k = Failed(j, "other") /\ JobRight(k) /\ GoesOn(j, k)
                                 /\ k.status # "active"
        BY <1>1, FailedIsRight
    <2>2. k.polling = j.polling /\ j.polling = "none"
        BY <1>1, <1>5, <2>1 DEF PollTimesOut, Failed, Stopped, NativeJob
    <2>3. PollEnded(k) \in NativeJob /\ JobRight(PollEnded(k)) /\ GoesOn(k, PollEnded(k))
        BY <2>1, <2>2, PollEndedIsRight
    <2>4. ChangeJob(r, PollEnded(k))
        BY <1>5, <2>1 DEF PollTimesOut
    <2> QED
        BY <2>1, <2>3, <2>4, GoesOnAndOn
<1>6. CASE EngineExits(r)
    <2>1. PICK i \in NativeJob : i = [j EXCEPT !.engine = "gone"]
        BY <1>1 DEF NativeJob
    <2>2. PICK n \in 0..2 : n = IF Active(r) THEN 2 ELSE 0
        OBVIOUS
    <2>3. PICK k \in NativeJob : k = [i EXCEPT !.exitPolls = n]
        BY <2>1 DEF NativeJob
    <2>4. /\ k.status = j.status /\ k.error = j.error /\ k.file = j.file /\ k.polling = j.polling
          /\ k.engine = "gone" /\ k.stopping = j.stopping /\ k.exitPolls = n
        BY <1>1, <2>1, <2>3 DEF NativeJob
    <2>5. ChangeJob(r, k)
        BY <1>6, <1>1, <2>1, <2>2, <2>3 DEF EngineExits, NativeJob
    <2>6. j.engine = "up" /\ j.status \notin {"absent", "evicted"}
        BY <1>1, <1>6 DEF EngineExits, Open, JobRight, NoNativeJob
    <2>7. JobRight(k)
        <3>1. j.status = "active" => n = 2
            BY <2>2 DEF Active
        <3> QED
            BY <1>1, <2>4, <2>6, <3>1 DEF JobRight
    <2>8. GoesOn(j, k)
        BY <2>4 DEF GoesOn
    <2> QED
        BY <2>5, <2>7, <2>8
<1>7. CASE StopGivesUp(r)
    <2>1. PICK k \in NativeJob : k = [j EXCEPT !.stopping = "refused"]
        BY <1>1 DEF NativeJob
    <2>2. /\ k.status = j.status /\ k.error = j.error /\ k.file = j.file /\ k.polling = j.polling
          /\ k.engine = j.engine /\ k.stopping = "refused" /\ k.exitPolls = j.exitPolls
        BY <1>1, <2>1 DEF NativeJob
    <2>3. j.engine = "up" /\ j.status \notin {"absent", "evicted"} /\ ChangeJob(r, k)
        BY <1>1, <1>7, <2>1 DEF StopGivesUp, Open, JobRight, NoNativeJob
    <2>4. JobRight(k)
        BY <1>1, <2>2, <2>3 DEF JobRight
    <2>5. GoesOn(j, k)
        BY <2>2 DEF GoesOn
    <2> QED
        BY <2>3, <2>4, <2>5
<1>8. ASSUME NEW what \in {"result", "foreign"}, ProcessWrites(r, what)
      PROVE  \E k \in NativeJob : JobRight(k) /\ GoesOn(j, k) /\ ChangeJob(r, k)
    <2>1. PICK k \in NativeJob : k = [j EXCEPT !.file = what]
        BY <1>1 DEF NativeJob, Content
    <2>2. /\ k.status = j.status /\ k.error = j.error /\ k.file = what /\ k.polling = j.polling
          /\ k.engine = j.engine /\ k.stopping = j.stopping /\ k.exitPolls = j.exitPolls
        BY <1>1, <2>1 DEF NativeJob
    <2>3. /\ j.engine = "up" /\ j.status = "active" /\ j.file = "none" /\ ChangeJob(r, k)
        BY <1>8, <2>1 DEF ProcessWrites, Open, Active
    <2>4. j.error = "none" /\ j.polling \in {"idle", "none"}
        BY <1>1, <2>3 DEF JobRight
    <2>5. JobRight(k)
        BY <2>2, <2>3, <2>4 DEF JobRight
    <2>6. GoesOn(j, k)
        BY <2>2 DEF GoesOn
    <2> QED
        BY <2>3, <2>5, <2>6
<1> QED
    BY <1>2, <1>3, <1>4, <1>5, <1>6, <1>7, <1>8 DEF JobStep, PollSteps

----------------------------------------------------------------------------
(* What the service does, and what the page may rely on. *)

\* A step of the service, as far as the page can tell.
Orderly ==
    \A r \in NativeRun :
        /\ nativeJob'[r].status = "active" => nativeJob[r].status = "active" \/ call[r] = "accepted"
        /\ nativeJob[r].status \in Terminal =>
               nativeJob'[r].status \in {nativeJob[r].status, "evicted"}
        /\ nativeJob[r].status = "evicted" => nativeJob'[r].status = "evicted"
        /\ call'[r] # call[r] => call[r] \in {"sent", "accepted"}

\* Any change of jobs that lets each go on.
LEMMA JobsGoOn ==
    ASSUME ServiceInv, nativeJob' \in [NativeRun -> NativeJob],
           \A r \in NativeRun : JobRight(nativeJob'[r]) /\ GoesOn(nativeJob[r], nativeJob'[r]),
           UNCHANGED <<starting, startStep, serving, call>>
    PROVE  ServiceInv' /\ Orderly
<1>1. ServiceTypeOK'
    BY DEF ServiceInv, ServiceTypeOK
<1>2. OneEngine'
    BY DEF ServiceInv, OneEngine, Open, GoesOn
<1>3. NothingOutlivesDispose'
    BY DEF ServiceInv, NothingOutlivesDispose, Open, GoesOn
<1>4. \A r \in NativeRun : call'[r] = "created" <=> nativeJob'[r].status # "absent"
    BY DEF ServiceInv, GoesOn
<1>5. Orderly
    BY DEF Orderly, GoesOn
<1> QED
    BY <1>1, <1>2, <1>3, <1>4, <1>5 DEF ServiceInv

LEMMA OneJobGoesOn ==
    ASSUME ServiceInv, NEW r \in NativeRun, NEW k \in NativeJob, JobRight(k),
           GoesOn(nativeJob[r], k), nativeJob' = [nativeJob EXCEPT ![r] = k],
           UNCHANGED <<starting, startStep, serving, call>>
    PROVE  ServiceInv' /\ Orderly
<1>1. nativeJob' \in [NativeRun -> NativeJob]
    BY DEF ServiceInv, ServiceTypeOK
<1>2. ASSUME NEW q \in NativeRun
      PROVE  JobRight(nativeJob'[q]) /\ GoesOn(nativeJob[q], nativeJob'[q])
    <2>1. CASE q = r
        BY <2>1 DEF ServiceInv, ServiceTypeOK
    <2>2. CASE q # r
        <3>1. nativeJob'[q] = nativeJob[q]
            BY <2>2 DEF ServiceInv, ServiceTypeOK
        <3> QED
            BY <3>1 DEF ServiceInv, GoesOn
    <2> QED
        BY <2>1, <2>2
<1> QED
    BY <1>1, <1>2, JobsGoOn

LEMMA JobStepKeeps ==
    ASSUME ServiceInv, NEW r \in NativeRun, JobStep(r)
    PROVE  ServiceInv' /\ Orderly
<1>1. PICK k \in NativeJob : JobRight(k) /\ GoesOn(nativeJob[r], k) /\ ChangeJob(r, k)
    BY JobStepIsRight
<1> QED
    BY <1>1, OneJobGoesOn DEF ChangeJob

LEMMA DisposeKeeps ==
    ASSUME ServiceInv, Dispose PROVE ServiceInv' /\ Orderly
<1>1. ASSUME NEW r \in NativeRun
      PROVE  /\ nativeJob'[r] \in NativeJob /\ JobRight(nativeJob'[r])
             /\ GoesOn(nativeJob[r], nativeJob'[r])
             /\ nativeJob'[r].engine = "up" => nativeJob'[r].stopping # "no"
    <2>1. nativeJob[r] \in NativeJob /\ JobRight(nativeJob[r])
        BY DEF ServiceInv, ServiceTypeOK
    <2>2. nativeJob'[r] = Cancelled(nativeJob[r])
        BY DEF Dispose
    <2> QED
        BY <2>1, <2>2, CancelledIsRight
<1>2. ServiceTypeOK'
    BY <1>1 DEF ServiceInv, ServiceTypeOK, Dispose
<1>3. OneEngine'
    BY <1>1 DEF ServiceInv, OneEngine, Open, GoesOn
<1>4. NothingOutlivesDispose'
    BY <1>1 DEF NothingOutlivesDispose, Open
<1>5. /\ \A r \in NativeRun : call'[r] = "created" <=> nativeJob'[r].status # "absent"
      /\ UNCHANGED <<starting, startStep, call>>
    BY <1>1 DEF ServiceInv, GoesOn, Dispose
<1>6. Orderly
    BY <1>1, <1>5 DEF Orderly, GoesOn
<1> QED
    BY <1>1, <1>2, <1>3, <1>4, <1>5, <1>6 DEF ServiceInv

LEMMA ServerCancelsKeeps ==
    ASSUME ServiceInv, NEW r \in NativeRun, ServerCancels(r)
    PROVE  ServiceInv' /\ Orderly /\ nativeJob'[r].status # "active"
<1>1. nativeJob[r] \in NativeJob /\ JobRight(nativeJob[r])
    BY DEF ServiceInv, ServiceTypeOK
<1>2. PICK k \in NativeJob : /\ k = Cancelled(nativeJob[r]) /\ JobRight(k)
                             /\ GoesOn(nativeJob[r], k) /\ k.status # "active"
    BY <1>1, CancelledIsRight
<1>3. nativeJob' = [nativeJob EXCEPT ![r] = k]
    BY <1>2 DEF ServerCancels
<1>4. UNCHANGED <<starting, startStep, serving, call>>
    BY DEF ServerCancels
<1>5. nativeJob'[r] = k
    BY <1>3 DEF ServiceInv, ServiceTypeOK
<1> QED
    BY <1>2, <1>3, <1>4, <1>5, OneJobGoesOn

\* start(): the run whose POST it serves has no job until its end.
LEMMA StartStepsKeep ==
    ASSUME ServiceInv, NEW r \in NativeRun, StartSteps(r)
    PROVE  ServiceInv' /\ Orderly
<1> USE KeptAssumption
<1>1. CASE StartRequest(r)
    <2>1. CASE serving /\ ~Busy
        <3>1. /\ starting' = r /\ startStep' = "configuring" /\ starting = None
              /\ call' = [call EXCEPT ![r] = "accepted"] /\ UNCHANGED <<nativeJob, serving>>
              /\ call[r] = "sent"
            BY <1>1, <2>1 DEF StartRequest, Busy
        <3>2. \A q \in NativeRun : q # r => call[q] # "accepted" /\ call'[q] = call[q]
            BY <3>1 DEF ServiceInv, ServiceTypeOK
        <3>3. call'[r] = "accepted" /\ nativeJob[r].status = "absent"
            BY <3>1 DEF ServiceInv, ServiceTypeOK
        <3>4. ServiceTypeOK' /\ OneEngine' /\ NothingOutlivesDispose'
            BY <3>1 DEF ServiceInv, ServiceTypeOK, OneEngine, NothingOutlivesDispose, Open
        <3>5. Orderly
            BY <3>1, <3>2 DEF Orderly
        <3> QED
            BY <3>1, <3>2, <3>3, <3>4, <3>5 DEF ServiceInv
    <2>2. CASE ~(serving /\ ~Busy)
        <3>1. /\ call' = [call EXCEPT ![r] = "refused"] /\ call[r] = "sent"
              /\ UNCHANGED <<nativeJob, serving, starting, startStep>>
            BY <1>1, <2>2 DEF StartRequest
        <3>2. \A q \in NativeRun : q # r => call'[q] = call[q]
            BY <3>1 DEF ServiceInv, ServiceTypeOK
        <3>3. call'[r] = "refused" /\ nativeJob[r].status = "absent" /\ starting # r
            BY <3>1 DEF ServiceInv, ServiceTypeOK
        <3>4. ServiceTypeOK' /\ OneEngine' /\ NothingOutlivesDispose'
            BY <3>1 DEF ServiceInv, ServiceTypeOK, OneEngine, NothingOutlivesDispose, Open
        <3>5. Orderly
            BY <3>1, <3>2 DEF Orderly
        <3>6. starting # None => call'[starting] = "accepted"
            BY <3>2, <3>3 DEF ServiceInv, ServiceTypeOK
        <3> QED
            BY <3>1, <3>2, <3>3, <3>4, <3>5, <3>6 DEF ServiceInv
    <2> QED
        BY <2>1, <2>2
<1>2. CASE Configured(r)
    <2>1. ASSUME NEW q \in NativeRun
          PROVE  /\ nativeJob'[q] \in NativeJob /\ JobRight(nativeJob'[q])
                 /\ GoesOn(nativeJob[q], nativeJob'[q])
        <3>1. nativeJob[q] \in NativeJob /\ JobRight(nativeJob[q])
            BY DEF ServiceInv, ServiceTypeOK
        <3>2. nativeJob'[q] = Stopped(nativeJob[q])
            BY <1>2 DEF Configured
        <3> QED
            BY <3>1, <3>2, StoppedIsRight
    <2>2. UNCHANGED <<starting, serving, call>> /\ startStep' = "closing" /\ starting = r
        BY <1>2 DEF Configured
    <2>3. ServiceTypeOK'
        BY <1>2, <2>1, <2>2 DEF ServiceInv, ServiceTypeOK, Configured
    <2>4. OneEngine' /\ NothingOutlivesDispose'
        BY <2>1, <2>2 DEF ServiceInv, OneEngine, NothingOutlivesDispose, Open, GoesOn
    <2>5. \A q \in NativeRun : call'[q] = "created" <=> nativeJob'[q].status # "absent"
        BY <2>1, <2>2 DEF ServiceInv, GoesOn
    <2>6. Orderly
        BY <2>1, <2>2 DEF Orderly, GoesOn
    <2> QED
        BY <2>1, <2>2, <2>3, <2>4, <2>5, <2>6 DEF ServiceInv
<1>3. ASSUME starting = r, Refuse(r), UNCHANGED <<nativeJob, serving>>
      PROVE  ServiceInv' /\ Orderly
    <2>1. /\ call' = [call EXCEPT ![r] = "refused"] /\ starting' = None /\ startStep' = "idle"
          /\ call[r] = "accepted"
        BY <1>3 DEF Refuse, ServiceInv
    <2>2. \A q \in NativeRun : q # r => call'[q] = call[q] /\ call[q] # "accepted"
        BY <1>3, <2>1 DEF ServiceInv, ServiceTypeOK
    <2>3. call'[r] = "refused" /\ nativeJob[r].status = "absent"
        BY <2>1 DEF ServiceInv, ServiceTypeOK
    <2>4. ServiceTypeOK' /\ OneEngine' /\ NothingOutlivesDispose'
        BY <1>3, <2>1 DEF ServiceInv, ServiceTypeOK, OneEngine, NothingOutlivesDispose, Open
    <2>5. Orderly
        BY <1>3, <2>1, <2>2 DEF Orderly
    <2> QED
        BY <1>3, <2>1, <2>2, <2>3, <2>4, <2>5 DEF ServiceInv
<1>4. CASE StartThrows(r)
    BY <1>3, <1>4 DEF StartThrows
<1>5. ASSUME NEW ok \in BOOLEAN, Spawn(r, ok) PROVE ServiceInv' /\ Orderly
    <2>1. /\ starting = r /\ startStep = "closing" /\ UNCHANGED serving
          /\ \A q \in NativeRun : ~Open(q)
        BY <1>5 DEF Spawn
    <2>2. CASE ~serving
        BY <1>3, <1>5, <2>1, <2>2 DEF Spawn
    <2>3. CASE serving
        <3>1. PICK old \in SUBSET Evictable :
                 nativeJob' = [j \in NativeRun |->
                        IF j \in old THEN [NoNativeJob EXCEPT !.status = "evicted"]
                        ELSE IF j # r THEN nativeJob[j]
                        ELSE IF ok THEN [nativeJob[r] EXCEPT !.status = "active", !.engine = "up"]
                        ELSE [nativeJob[r] EXCEPT !.status = "failed", !.error = "other"]]
            BY <1>5, <2>3 DEF Spawn
        <3>2. /\ call' = [call EXCEPT ![r] = "created"] /\ starting' = None /\ startStep' = "idle"
              /\ call[r] = "accepted"
            BY <1>5, <2>1, <2>3 DEF Spawn, ServiceInv
        <3>3. nativeJob[r] = NoNativeJob /\ r \notin old
            BY <3>1, <3>2 DEF ServiceInv, JobRight, Evictable, Terminal
        <3>4. ASSUME NEW q \in NativeRun, q # r
              PROVE  /\ nativeJob'[q] \in NativeJob /\ JobRight(nativeJob'[q])
                     /\ nativeJob'[q].engine # "up"
                     /\ GoesOn(nativeJob[q], nativeJob'[q])
                     /\ call'[q] = call[q] /\ call[q] # "accepted"
            <4>1. nativeJob[q] \in NativeJob /\ JobRight(nativeJob[q]) /\ nativeJob[q].engine # "up"
                BY <2>1 DEF ServiceInv, ServiceTypeOK, Open
            <4>2. call'[q] = call[q] /\ call[q] # "accepted"
                BY <2>1, <3>2, <3>4 DEF ServiceInv, ServiceTypeOK
            <4>3. CASE q \in old
                <5>1. nativeJob'[q] = [NoNativeJob EXCEPT !.status = "evicted"]
                    BY <3>1, <4>3
                <5>2. nativeJob'[q] = [status |-> "evicted", error |-> "none", engine |-> "none",
                                       stopping |-> "no", file |-> "none", polling |-> "idle",
                                       exitPolls |-> 0]
                    BY <5>1 DEF NoNativeJob
                <5>3. nativeJob'[q] \in NativeJob
                    BY <5>2 DEF NativeJob, Content
                <5>4. JobRight(nativeJob'[q])
                    BY <5>1, <5>2 DEF JobRight
                <5>5. nativeJob[q].status \in Terminal
                    BY <4>3 DEF Evictable
                <5>6. GoesOn(nativeJob[q], nativeJob'[q])
                    BY <5>2, <5>5 DEF GoesOn, Terminal
                <5> QED
                    BY <4>2, <5>2, <5>3, <5>4, <5>6
            <4>4. CASE q \notin old
                <5>1. nativeJob'[q] = nativeJob[q]
                    BY <3>1, <3>4, <4>4
                <5> QED
                    BY <4>1, <4>2, <5>1 DEF GoesOn
            <4> QED
                BY <4>3, <4>4
        <3>5. /\ nativeJob'[r] \in NativeJob /\ JobRight(nativeJob'[r])
              /\ nativeJob'[r].status # "absent" /\ call'[r] = "created"
            <4>3. call'[r] = "created"
                BY <3>2 DEF ServiceInv, ServiceTypeOK
            <4>1. CASE ok
                <5>1. nativeJob'[r] = [status |-> "active", error |-> "none", engine |-> "up",
                                       stopping |-> "no", file |-> "none", polling |-> "idle",
                                       exitPolls |-> 0]
                    <6>1. nativeJob'[r] = [nativeJob[r] EXCEPT !.status = "active", !.engine = "up"]
                        BY <3>1, <3>3, <4>1
                    <6>2. nativeJob'[r] = [NoNativeJob EXCEPT !.status = "active", !.engine = "up"]
                        BY <3>3, <6>1
                    <6> QED
                        BY <6>2 DEF NoNativeJob
                <5>2. nativeJob'[r] \in NativeJob
                    BY <5>1 DEF NativeJob, Content, JobStatus
                <5>3. JobRight(nativeJob'[r])
                    BY <5>1 DEF JobRight
                <5>4. nativeJob'[r].status # "absent"
                    BY <5>1
                <5> QED
                    BY <4>3, <5>2, <5>3, <5>4
            <4>2. CASE ~ok
                <5>1. nativeJob'[r] = [status |-> "failed", error |-> "other", engine |-> "none",
                                       stopping |-> "no", file |-> "none", polling |-> "idle",
                                       exitPolls |-> 0]
                    <6>1. nativeJob'[r] = [nativeJob[r] EXCEPT !.status = "failed", !.error = "other"]
                        BY <3>1, <3>3, <4>2
                    <6>2. nativeJob'[r] = [NoNativeJob EXCEPT !.status = "failed", !.error = "other"]
                        BY <3>3, <6>1
                    <6> QED
                        BY <6>2 DEF NoNativeJob
                <5>2. nativeJob'[r] \in NativeJob
                    BY <5>1 DEF NativeJob, Content, JobStatus, Terminal
                <5>3. JobRight(nativeJob'[r])
                    BY <5>1 DEF JobRight
                <5>4. nativeJob'[r].status # "absent"
                    BY <5>1
                <5> QED
                    BY <4>3, <5>2, <5>3, <5>4
            <4> QED
                BY <4>1, <4>2, <1>5
        <3>6. nativeJob' \in [NativeRun -> NativeJob]
            <4>1. \A q \in NativeRun : nativeJob'[q] \in NativeJob
                BY <3>4, <3>5
            <4>2. nativeJob' = [q \in NativeRun |-> nativeJob'[q]]
                BY <3>1
            <4> QED
                BY <4>1, <4>2
        <3>7. ServiceTypeOK'
            BY <2>1, <3>2, <3>6 DEF ServiceInv, ServiceTypeOK
        <3>8. OneEngine'
            BY <3>4 DEF OneEngine, Open
        <3>9. NothingOutlivesDispose'
            BY <2>1, <2>3 DEF NothingOutlivesDispose
        <3>10. \A q \in NativeRun :
                  /\ JobRight(nativeJob'[q])
                  /\ call'[q] = "created" <=> nativeJob'[q].status # "absent"
                  /\ call'[q] # "accepted"
            BY <3>4, <3>5 DEF ServiceInv, GoesOn
        <3>11. Orderly
            <4>1. nativeJob[r].status = "absent"
                BY <3>3 DEF NoNativeJob
            <4> QED
                BY <3>2, <3>4, <4>1 DEF Orderly, GoesOn, Terminal
        <3> QED
            BY <3>2, <3>7, <3>8, <3>9, <3>10, <3>11 DEF ServiceInv
    <2> QED
        BY <2>2, <2>3
<1> QED
    BY <1>1, <1>2, <1>4, <1>5 DEF StartSteps

----------------------------------------------------------------------------
(* What the page does. *)

LEMMA ServiceStays ==
    ASSUME ServiceInv, UNCHANGED serviceVars PROVE ServiceInv'
BY DEF serviceVars, ServiceInv, ServiceTypeOK, OneEngine, NothingOutlivesDispose, Open

\* While the service moves, whatever the page knows of it stays true; a close that arrives
\* ends its job.
LEMMA KnowledgeStays ==
    ASSUME NativeInv, ServiceInv', Orderly,
           UNCHANGED <<identity, run, step, late, for, shownJob, got, failures, busy>>,
           UNCHANGED <<closingRun, closingFor, delivered, mounted, lost, unconfirmed>>,
           detached' \subseteq detached, closeStep' \in {closeStep, "accepted"},
           closeStep' = "idle" <=> closeStep = "idle",
           \A r \in NativeRun :
              r \in detached \ detached' \/ (closingRun = r /\ closeStep' # closeStep)
                  => nativeJob'[r].status # "active"
    PROVE  NativeInv'
<1>1. NativeTypeOK'
    BY DEF NativeInv, NativeTypeOK, ServiceInv
<1>2. CallsAreAwaited'
    BY DEF NativeInv, CallsAreAwaited, RunIsCurrent, NativeTypeOK, Orderly
<1>3. NoOrphans'
    BY DEF NativeInv, NoOrphans, CallsAreAwaited, Active, Orderly
<1>4. RunIsCurrent' /\ ClosingIsShown'
    BY DEF NativeInv, RunIsCurrent, ClosingIsShown
<1>5. ShownIsKnown'
    <2>1. StillSo(shownJob)' /\ StillSo(got)'
        <3>1. shownJob = NoJobShown \/ shownJob.run \in NativeRun
            BY DEF NativeInv, ShownIsKnown
        <3>2. got = NoJobShown \/ got.run \in NativeRun
            BY DEF NativeInv, ShownIsKnown, NativeTypeOK, RunIsCurrent
        <3>3. NoJobShown.status \notin Terminal
            BY DEF NoJobShown, Terminal
        <3> QED
            BY <3>1, <3>2, <3>3 DEF NativeInv, ShownIsKnown, StillSo, Orderly, Terminal
    <2> QED
        BY <2>1 DEF NativeInv, ShownIsKnown
<1> QED
    BY <1>1, <1>2, <1>3, <1>4, <1>5 DEF NativeInv

\* While the service stands still, what has been seen of it is still so.
LEMMA SightStays ==
    ASSUME NativeInv, UNCHANGED nativeJob
    PROVE  /\ shownJob' = shownJob => StillSo(shownJob)'
           /\ got' = got => StillSo(got)'
           /\ shownJob' = NoJobShown => StillSo(shownJob)'
           /\ got' = NoJobShown => StillSo(got)'
BY DEF NativeInv, ShownIsKnown, StillSo, NoJobShown, Terminal

\* A run that is dropped leaves nobody behind.
LEMMA DropKeeps ==
    ASSUME NativeInv, Drop, UNCHANGED <<nativeJob, call, for, closingRun, closeStep, unconfirmed>>
    PROVE  /\ {late', detached'} \subseteq SUBSET NativeRun
           /\ run' = None /\ step' = "idle" /\ got' = NoJobShown /\ failures' = 0
           /\ delivered' = FALSE
           /\ NoOrphans' /\ CallsAreAwaited'
<1>1. /\ run' = None /\ step' = "idle" /\ got' = NoJobShown /\ failures' = 0 /\ delivered' = FALSE
      /\ late \subseteq late' /\ detached \subseteq detached'
    BY DEF Drop, Abandon
<1>2. {late', detached'} \subseteq SUBSET NativeRun
    BY DEF NativeInv, NativeTypeOK, RunIsCurrent, Drop, Abandon
<1>3. step = "creating" => run \in late'
    BY DEF Drop, Abandon
<1>4. CallsAreAwaited'
    BY <1>1, <1>3 DEF NativeInv, CallsAreAwaited
<1>5. NoOrphans'
    <2> SUFFICES ASSUME NEW r \in NativeRun, Active(r)
                 PROVE  \/ r \in late' \cup detached'
                        \/ closingRun = r /\ closeStep = "sent"
                        \/ r \in unconfirmed
        BY <1>1 DEF NoOrphans, Active
    <2>1. CASE run # r
        BY <1>1, <2>1 DEF NativeInv, NoOrphans
    <2>2. CASE run = r
        <3>1. nativeJob[r].status = "active" /\ r # None /\ step # "idle"
            BY <2>2, KeptAssumption DEF Active, NativeInv, RunIsCurrent
        <3>2. step # "availability"
            BY <2>2, <3>1 DEF NativeInv, CallsAreAwaited, ServiceInv
        <3>3. step \notin {"watching", "settled"}
            BY <2>2, <3>1 DEF NativeInv, ShownIsKnown, StillSo, Terminal
        <3>4. CASE step = "creating"
            BY <1>3, <2>2, <3>4
        <3>5. CASE step \in {"waiting", "reading"}
            BY <2>2, <3>1, <3>5 DEF NativeInv, ShownIsKnown, Drop
        <3> QED
            BY <3>1, <3>2, <3>3, <3>4, <3>5 DEF NativeInv, NativeTypeOK
    <2> QED
        BY <2>1, <2>2
<1> QED
    BY <1>1, <1>2, <1>4, <1>5

LEMMA ChangeRequestKeeps == ASSUME NativeInv, ChangeRequest PROVE NativeInv'
<1> USE HookAssumption
<1>1. /\ UNCHANGED serviceVars /\ UNCHANGED <<nativeJob, call, for, mounted, closingRun>>
      /\ UNCHANGED <<closingFor, closeStep, lost, unconfirmed>>
      /\ Drop /\ shownJob' = NoJobShown /\ busy' = (closingRun # None)
      /\ identity' = identity + 1 /\ identity < MaxRequest
    BY DEF ChangeRequest, serviceVars, closeVars, lossVars
<1>2. /\ {late', detached'} \subseteq SUBSET NativeRun
      /\ run' = None /\ step' = "idle" /\ got' = NoJobShown /\ failures' = 0 /\ delivered' = FALSE
      /\ NoOrphans' /\ CallsAreAwaited'
    BY <1>1, DropKeeps
<1>3. ServiceInv' /\ NoJobShown \in Seen
    BY <1>1, ServiceStays DEF NativeInv, Seen, NoJobShown
<1>4. identity' \in Requests /\ identity \in Nat
    BY <1>1 DEF NativeInv, NativeTypeOK, Requests
<1>5. NativeTypeOK'
    <2>1. busy' \in BOOLEAN
        BY <1>1
    <2>2. {busy', delivered', mounted'} \subseteq BOOLEAN
        BY <1>1, <1>2, <2>1 DEF NativeInv, NativeTypeOK
    <2>3. {shownJob', got'} \subseteq Seen /\ failures' \in 0..MaxWindowFailures
        BY <1>1, <1>2, <1>3
    <2> QED
        BY <1>1, <1>2, <1>3, <1>4, <2>2, <2>3 DEF NativeInv, NativeTypeOK, ServiceInv
<1>6. RunIsCurrent'
    BY <1>1, <1>2 DEF RunIsCurrent
<1>7. ShownIsKnown'
    <2>1. StillSo(shownJob)' /\ StillSo(got)'
        BY <1>1, <1>2, SightStays
    <2> QED
        BY <1>1, <1>2, <2>1 DEF ShownIsKnown
<1>8. ClosingIsShown'
    BY <1>1, <1>4 DEF NativeInv, ClosingIsShown
<1> QED
    BY <1>2, <1>3, <1>5, <1>6, <1>7, <1>8 DEF NativeInv

LEMMA UnmountKeeps == ASSUME NativeInv, Unmount PROVE NativeInv'
<1> USE HookAssumption
<1>1. /\ UNCHANGED serviceVars /\ UNCHANGED <<nativeJob, call, for, identity, closingRun>>
      /\ UNCHANGED <<closingFor, closeStep, lost, unconfirmed, shownJob, busy>>
      /\ Drop /\ mounted' = FALSE
    BY DEF Unmount, serviceVars, closeVars, lossVars, viewVars
<1>2. /\ {late', detached'} \subseteq SUBSET NativeRun
      /\ run' = None /\ step' = "idle" /\ got' = NoJobShown /\ failures' = 0 /\ delivered' = FALSE
      /\ NoOrphans' /\ CallsAreAwaited'
    BY <1>1, DropKeeps
<1>3. ServiceInv' /\ NoJobShown \in Seen
    BY <1>1, ServiceStays DEF NativeInv, Seen, NoJobShown
<1>4. NativeTypeOK'
    <2>1. {busy', delivered', mounted'} \subseteq BOOLEAN
        BY <1>1, <1>2 DEF NativeInv, NativeTypeOK
    <2>2. {shownJob', got'} \subseteq Seen /\ failures' \in 0..MaxWindowFailures
        BY <1>1, <1>2, <1>3 DEF NativeInv, NativeTypeOK
    <2> QED
        BY <1>1, <1>2, <1>3, <2>1, <2>2 DEF NativeInv, NativeTypeOK, ServiceInv
<1>5. RunIsCurrent'
    BY <1>1, <1>2 DEF RunIsCurrent
<1>6. ShownIsKnown'
    <2>1. StillSo(shownJob)' /\ StillSo(got)'
        BY <1>1, <1>2, SightStays
    <2> QED
        BY <1>1, <1>2, <2>1 DEF NativeInv, ShownIsKnown
<1>7. ClosingIsShown'
    BY <1>1 DEF NativeInv, ClosingIsShown
<1> QED
    BY <1>2, <1>3, <1>4, <1>5, <1>6, <1>7 DEF NativeInv

LEMMA FailKeeps ==
    ASSUME NativeInv, Fail, lost' \in 0..MaxTroubles, UNCHANGED unconfirmed PROVE NativeInv'
<1> USE HookAssumption
<1>1. /\ UNCHANGED serviceVars /\ UNCHANGED <<nativeJob, call, for, identity, closingRun>>
      /\ UNCHANGED <<closingFor, closeStep, mounted, shownJob>> /\ Drop /\ busy' = FALSE
    BY DEF Fail, serviceVars, closeVars, userVars
<1>2. /\ {late', detached'} \subseteq SUBSET NativeRun
      /\ run' = None /\ step' = "idle" /\ got' = NoJobShown /\ failures' = 0 /\ delivered' = FALSE
      /\ NoOrphans' /\ CallsAreAwaited'
    BY <1>1, DropKeeps
<1>3. ServiceInv' /\ NoJobShown \in Seen
    BY <1>1, ServiceStays DEF NativeInv, Seen, NoJobShown
<1>4. NativeTypeOK'
    <2>1. {busy', delivered', mounted'} \subseteq BOOLEAN
        BY <1>1, <1>2 DEF NativeInv, NativeTypeOK
    <2>2. {shownJob', got'} \subseteq Seen /\ failures' \in 0..MaxWindowFailures
        BY <1>1, <1>2, <1>3 DEF NativeInv, NativeTypeOK
    <2> QED
        BY <1>1, <1>2, <1>3, <2>1, <2>2 DEF NativeInv, NativeTypeOK, ServiceInv
<1>5. RunIsCurrent'
    BY <1>1, <1>2 DEF RunIsCurrent
<1>6. ShownIsKnown'
    <2>1. StillSo(shownJob)' /\ StillSo(got)'
        BY <1>1, <1>2, SightStays
    <2> QED
        BY <1>1, <1>2, <2>1 DEF NativeInv, ShownIsKnown
<1>7. ClosingIsShown'
    BY <1>1 DEF NativeInv, ClosingIsShown
<1> QED
    BY <1>2, <1>3, <1>4, <1>5, <1>6, <1>7 DEF NativeInv

\* A trouble more is within the bound.
LEMMA LossIsBounded ==
    ASSUME NativeTypeOK, Troubles < MaxTroubles PROVE lost + 1 \in 0..MaxTroubles
<1> USE HookAssumption
<1> DEFINE T == {r \in NativeRun : nativeJob[r].stopping = "refused" \/ nativeJob[r].file = "foreign"}
<1>1. Cardinality(T) \in Nat
    <2>1. IsFiniteSet(T)
        BY KeptAssumption, FS_Subset
    <2> QED
        BY <2>1, FS_CardinalityType
<1>2. Count(~mounted) \in Nat /\ Count(~serving) \in Nat
    BY DEF Count
<1>3. lost \in Nat
    BY DEF NativeTypeOK
<1>4. Troubles = lost + Count(~mounted) + Count(~serving) + Cardinality(T)
    BY DEF Troubles
<1> HIDE DEF T
<1> QED
    BY <1>1, <1>2, <1>3, <1>4

LEMMA StartKeepsNative == ASSUME NativeInv, Start PROVE NativeInv'
<1> USE HookAssumption, KeptAssumption
<1>1. /\ UNCHANGED serviceVars /\ UNCHANGED <<nativeJob, call, late, detached, identity>>
      /\ UNCHANGED <<mounted, closingRun, closingFor, closeStep, lost, unconfirmed>>
      /\ mounted /\ ~busy /\ closingRun = None /\ step' = "availability"
      /\ got' = NoJobShown /\ failures' = 0 /\ delivered' = FALSE
      /\ busy' = TRUE /\ shownJob' = NoJobShown
    BY DEF Start, serviceVars, closeVars, lossVars
<1>2. /\ run' \in NativeRun /\ for[run'] = None /\ for' = [for EXCEPT ![run'] = identity]
    BY DEF Start
<1>3. ServiceInv' /\ NoJobShown \in Seen
    BY <1>1, ServiceStays DEF NativeInv, Seen, NoJobShown
<1>4. /\ for'[run'] = identity /\ identity # None /\ run' # None
      /\ \A r \in NativeRun : for'[r] = None => for[r] = None
    BY <1>2 DEF NativeInv, NativeTypeOK, Requests
<1>5. NativeTypeOK'
    <2>1. {busy', delivered', mounted'} \subseteq BOOLEAN
        BY <1>1
    <2>2. for' \in [NativeRun -> Requests \cup {None}]
        BY <1>2 DEF NativeInv, NativeTypeOK
    <2>3. {shownJob', got'} \subseteq Seen /\ shownJob'.run = None
        BY <1>1, <1>3 DEF NoJobShown
    <2> QED
        BY <1>1, <1>2, <1>3, <2>1, <2>2, <2>3 DEF NativeInv, NativeTypeOK, ServiceInv
<1>6. run # None => ~Active(run)
    <2>1. run # None => step \in {"watching", "settled"} /\ run \in NativeRun
        BY <1>1 DEF NativeInv, RunIsCurrent, NativeTypeOK
    <2> QED
        BY <2>1 DEF NativeInv, ShownIsKnown, StillSo, Terminal, Active
<1>7. NoOrphans'
    BY <1>1, <1>6 DEF NativeInv, NoOrphans, Active
<1>8. RunIsCurrent'
    BY <1>1, <1>4 DEF RunIsCurrent
<1>9. CallsAreAwaited'
    <2>1. step # "creating"
        BY <1>1 DEF NativeInv, RunIsCurrent
    <2> QED
        BY <1>1, <1>2, <1>4, <2>1 DEF NativeInv, CallsAreAwaited
<1>10. ShownIsKnown'
    <2>1. StillSo(shownJob)' /\ StillSo(got)'
        BY <1>1, SightStays
    <2> QED
        BY <1>1, <2>1 DEF ShownIsKnown
<1>11. ClosingIsShown'
    BY <1>1 DEF NativeInv, ClosingIsShown
<1> QED
    BY <1>3, <1>5, <1>7, <1>8, <1>9, <1>10, <1>11 DEF NativeInv

LEMMA CreateKeeps == ASSUME NativeInv, Create PROVE NativeInv'
<1> USE KeptAssumption
<1>1. /\ UNCHANGED <<nativeJob, starting, startStep, serving, run, late, detached, got>>
      /\ UNCHANGED <<failures, delivered, identity, for, mounted, shownJob, busy, closingRun>>
      /\ UNCHANGED <<closingFor, closeStep, lost, unconfirmed>>
      /\ step = "availability" /\ step' = "creating" /\ call' = [call EXCEPT ![run] = "sent"]
    BY DEF Create, readVars, userVars, viewVars, closeVars, lossVars
<1>2. run \in NativeRun /\ call[run] = "none" /\ call'[run] = "sent" /\ for[run] # None
    BY <1>1, HookAssumption DEF NativeInv, NativeTypeOK, RunIsCurrent, CallsAreAwaited, ServiceInv,
        ServiceTypeOK, Requests
<1>3. \A r \in NativeRun : r # run => call'[r] = call[r]
    BY <1>1 DEF NativeInv, ServiceInv, ServiceTypeOK
<1>4. ServiceInv'
    <2>1. ServiceTypeOK' /\ OneEngine' /\ NothingOutlivesDispose'
        BY <1>1 DEF NativeInv, ServiceInv, ServiceTypeOK, OneEngine, NothingOutlivesDispose, Open
    <2>2. starting # None => starting # run /\ starting \in NativeRun
        BY <1>2 DEF NativeInv, ServiceInv, ServiceTypeOK
    <2> QED
        BY <1>1, <1>2, <1>3, <2>1, <2>2 DEF NativeInv, ServiceInv
<1>5. NativeTypeOK' /\ NoOrphans'
    BY <1>1, <1>4 DEF NativeInv, NativeTypeOK, NoOrphans, Active, ServiceInv
<1>6. RunIsCurrent' /\ ClosingIsShown'
    BY <1>1 DEF NativeInv, RunIsCurrent, ClosingIsShown
<1>7. CallsAreAwaited'
    BY <1>1, <1>2, <1>3 DEF NativeInv, CallsAreAwaited
<1>8. ShownIsKnown'
    <2>1. StillSo(shownJob)' /\ StillSo(got)'
        BY <1>1, SightStays
    <2> QED
        BY <1>1, <2>1 DEF NativeInv, ShownIsKnown
<1> QED
    BY <1>4, <1>5, <1>6, <1>7, <1>8 DEF NativeInv

LEMMA ReceiveKeeps ==
    ASSUME NativeInv, NEW status \in JobStatus, NEW open \in BOOLEAN, Receive(run, status, open),
           step \in {"creating", "reading"}, step = "creating" => call[run] = "created",
           status \in Terminal => nativeJob[run].status \in {status, "evicted"}
    PROVE  NativeInv'
<1> USE HookAssumption
<1>1. /\ UNCHANGED serviceVars /\ UNCHANGED <<nativeJob, call, identity, for, mounted, run, late>>
      /\ UNCHANGED <<detached, failures, closingRun, closingFor, closeStep, lost, unconfirmed>>
      /\ shownJob' = [run |-> run, status |-> status, open |-> open]
      /\ step' = IF status = "active" THEN "waiting"
                 ELSE IF status = "completed" /\ open THEN "watching" ELSE "settled"
      /\ busy' = (status = "active") /\ delivered' = (delivered \/ status = "completed")
      /\ got' = NoJobShown
    BY DEF Receive, serviceVars, userVars, closeVars, lossVars
<1>2. run \in NativeRun /\ failures = 0 /\ run # None
    BY DEF NativeInv, NativeTypeOK, RunIsCurrent
<1>3. ServiceInv'
    BY <1>1, ServiceStays DEF NativeInv
<1>4. NativeTypeOK'
    <2>1. busy' \in BOOLEAN /\ delivered' \in BOOLEAN
        BY <1>1
    <2>2. {busy', delivered', mounted'} \subseteq BOOLEAN
        BY <1>1, <2>1 DEF NativeInv, NativeTypeOK
    <2>3. {shownJob', got'} \subseteq Seen /\ shownJob'.run = run'
        BY <1>1, <1>2 DEF Seen, NoJobShown
    <2>4. step' \in {"waiting", "watching", "settled"}
        BY <1>1
    <2> QED
        BY <1>1, <1>3, <2>2, <2>3, <2>4 DEF NativeInv, NativeTypeOK, ServiceInv
<1>5. NoOrphans'
    BY <1>1 DEF NativeInv, NoOrphans, Active
<1>6. RunIsCurrent'
    <2>1. /\ step' \in {"waiting", "watching", "settled"}
          /\ step' = "waiting" => status = "active"
        BY <1>1
    <2>2. step' = "waiting" => busy'
        BY <1>1, <2>1
    <2>3. run # None /\ mounted /\ for[run] = identity /\ closingRun = None
        BY <1>2 DEF NativeInv, RunIsCurrent
    <2> QED
        BY <1>1, <1>2, <2>1, <2>2, <2>3 DEF RunIsCurrent
<1>7. CallsAreAwaited'
    BY <1>1 DEF NativeInv, CallsAreAwaited
<1>8. ShownIsKnown'
    <2>1. StillSo(got)'
        BY <1>1, SightStays
    <2>2. shownJob'.run = run /\ shownJob'.status = status
        BY <1>1
    <2>3. StillSo(shownJob)'
        BY <1>1, <2>2 DEF StillSo
    <2>4. status # "active" => status \in Terminal
        BY DEF JobStatus
    <2> QED
        BY <1>1, <1>2, <2>1, <2>2, <2>3, <2>4 DEF ShownIsKnown
<1>9. ClosingIsShown'
    BY <1>1, <1>2 DEF NativeInv, RunIsCurrent, ClosingIsShown
<1> QED
    BY <1>3, <1>4, <1>5, <1>6, <1>7, <1>8, <1>9 DEF NativeInv

\* A run that ends without a job the page could know: nobody has to close anything.
LEMMA RunIsGone ==
    ASSUME NativeInv, step = "creating", run' = None, step' = "idle", busy' = FALSE,
           lost' \in 0..MaxTroubles, unconfirmed' \subseteq NativeRun,
           unconfirmed \subseteq unconfirmed',
           call[run] = "refused" \/ run \in unconfirmed',
           UNCHANGED <<serviceVars, late, detached, readVars, userVars, shownJob, closeVars>>
    PROVE  NativeInv'
<1>1. /\ UNCHANGED serviceVars /\ UNCHANGED <<nativeJob, call, late, detached, got, failures>>
      /\ UNCHANGED <<delivered, identity, for, mounted, shownJob, closingRun, closingFor, closeStep>>
    BY DEF serviceVars, readVars, userVars, closeVars
<1>2. run \in NativeRun /\ failures = 0 /\ shownJob = NoJobShown /\ got = NoJobShown
    BY DEF NativeInv, NativeTypeOK, RunIsCurrent, ShownIsKnown
<1>3. ServiceInv'
    BY <1>1, ServiceStays DEF NativeInv
<1>4. NativeTypeOK'
    BY <1>1, <1>3 DEF NativeInv, NativeTypeOK, ServiceInv
<1>5. NoOrphans'
    <2>1. call[run] = "refused" => nativeJob[run].status = "absent"
        BY <1>2 DEF NativeInv, ServiceInv
    <2> QED
        BY <1>1, <2>1 DEF NativeInv, NoOrphans, Active
<1>6. RunIsCurrent' /\ ClosingIsShown'
    BY <1>1, <1>2 DEF NativeInv, RunIsCurrent, ClosingIsShown
<1>7. CallsAreAwaited'
    BY <1>1 DEF NativeInv, CallsAreAwaited
<1>8. ShownIsKnown'
    <2>1. StillSo(shownJob)' /\ StillSo(got)'
        BY <1>1, SightStays
    <2> QED
        BY <1>1, <1>2, <2>1 DEF ShownIsKnown
<1> QED
    BY <1>3, <1>4, <1>5, <1>6, <1>7, <1>8 DEF NativeInv

\* A late POST whose answer closes its job or was given up, and a close that is given up.
LEMMA DetachedKeep ==
    ASSUME NativeInv, NEW r \in NativeRun, r \in late \/ r \in detached,
           late' \in {late, late \ {r}}, detached' \subseteq detached \cup {r},
           detached \ {r} \subseteq detached',
           lost' \in 0..MaxTroubles, unconfirmed' \subseteq NativeRun,
           unconfirmed \subseteq unconfirmed',
           \/ r \in detached' /\ call[r] = "created"
           \/ call[r] = "refused"
           \/ r \in unconfirmed',
           UNCHANGED <<serviceVars, run, step, readVars, userVars, viewVars, closeVars>>
    PROVE  NativeInv'
<1>1. /\ UNCHANGED serviceVars /\ UNCHANGED <<nativeJob, call, run, step, got, failures, busy>>
      /\ UNCHANGED <<delivered, identity, for, mounted, shownJob, closingRun, closingFor, closeStep>>
    BY DEF serviceVars, readVars, userVars, viewVars, closeVars
<1>2. {late', detached', unconfirmed'} \subseteq SUBSET NativeRun
    BY DEF NativeInv, NativeTypeOK
<1>3. ServiceInv'
    BY <1>1, ServiceStays DEF NativeInv
<1>4. NativeTypeOK'
    BY <1>1, <1>2, <1>3 DEF NativeInv, NativeTypeOK, ServiceInv
<1>5. NoOrphans'
    <2>1. call[r] = "refused" => nativeJob[r].status = "absent"
        BY DEF NativeInv, ServiceInv
    <2>2. ASSUME NEW q \in NativeRun, q # r, nativeJob[q].status = "active"
          PROVE  \/ run' = q \/ q \in late' \cup detached'
                 \/ closingRun' = q /\ closeStep' = "sent"
                 \/ q \in unconfirmed'
        BY <1>1, <2>2 DEF NativeInv, NoOrphans, Active
    <2>3. ASSUME nativeJob[r].status = "active"
          PROVE  r \in detached' \/ r \in unconfirmed'
        BY <2>1, <2>3
    <2> QED
        BY <1>1, <2>2, <2>3 DEF NoOrphans, Active
<1>6. RunIsCurrent' /\ ClosingIsShown'
    BY <1>1 DEF NativeInv, RunIsCurrent, ClosingIsShown
<1>7. CallsAreAwaited'
    BY <1>1 DEF NativeInv, CallsAreAwaited
<1>8. ShownIsKnown'
    <2>1. StillSo(shownJob)' /\ StillSo(got)'
        BY <1>1, SightStays
    <2> QED
        BY <1>1, <2>1 DEF NativeInv, ShownIsKnown
<1> QED
    BY <1>3, <1>4, <1>5, <1>6, <1>7, <1>8 DEF NativeInv

\* The create call of the current run, and those that came too late.
LEMMA CreateAnsweredKeeps ==
    ASSUME NativeInv, CreateAnswered \/ CreateTooLate PROVE NativeInv'
<1>1. run \in NativeRun /\ lost \in 0..MaxTroubles /\ unconfirmed \subseteq NativeRun
    BY DEF CreateAnswered, CreateTooLate, NativeInv, NativeTypeOK, RunIsCurrent
<1>2. CASE CreateAnswered
    <2>1. CASE call[run] = "created" /\ Receive(run, "active", FALSE)
        BY <1>2, <2>1, ReceiveKeeps DEF CreateAnswered, JobStatus, Terminal
    <2>2. CASE ~(call[run] = "created" /\ Receive(run, "active", FALSE))
        <3>1. /\ step = "creating" /\ call[run] = "refused"
              /\ run' = None /\ step' = "idle" /\ busy' = FALSE /\ UNCHANGED <<lost, unconfirmed>>
              /\ UNCHANGED <<serviceVars, late, detached, readVars, userVars, shownJob, closeVars>>
            BY <1>2, <2>2 DEF CreateAnswered, lossVars
        <3> QED
            BY <1>1, <3>1, RunIsGone
    <2> QED
        BY <2>1, <2>2
<1>3. CASE CreateTooLate
    <2>1. lost' \in 0..MaxTroubles /\ unconfirmed' = unconfirmed \cup {run}
        BY <1>3, LossIsBounded DEF CreateTooLate, Lose, NativeInv
    <2> QED
        BY <1>1, <1>3, <2>1, RunIsGone DEF CreateTooLate
<1> QED
    BY <1>2, <1>3

LEMMA LateStepsKeep ==
    ASSUME NativeInv, NEW r \in NativeRun,
           LateCreateAnswered(r) \/ LateCreateTooLate(r) \/ DetachedLost(r)
    PROVE  NativeInv'
<1>1. lost \in 0..MaxTroubles /\ unconfirmed \subseteq NativeRun
    BY DEF NativeInv, NativeTypeOK
<1>2. CASE LateCreateAnswered(r)
    BY <1>1, <1>2, DetachedKeep DEF LateCreateAnswered, lossVars
<1>3. CASE LateCreateTooLate(r) \/ DetachedLost(r)
    <2>1. lost' \in 0..MaxTroubles /\ unconfirmed' = unconfirmed \cup {r}
        BY <1>3, LossIsBounded DEF LateCreateTooLate, DetachedLost, Lose, NativeInv
    <2> QED
        BY <1>1, <1>3, <2>1, DetachedKeep DEF LateCreateTooLate, DetachedLost
<1> QED
    BY <1>2, <1>3

LEMMA FailuresKeep ==
    ASSUME NativeInv, Unavailable \/ Deadline \/ PollTooLate PROVE NativeInv'
<1>1. lost \in 0..MaxTroubles
    BY DEF NativeInv, NativeTypeOK
<1>2. CASE Unavailable \/ Deadline
    BY <1>1, <1>2, FailKeeps DEF Unavailable, Deadline, lossVars
<1>3. CASE PollTooLate
    <2>1. lost' \in 0..MaxTroubles
        BY <1>3, LossIsBounded DEF PollTooLate, NativeInv
    <2> QED
        BY <1>3, <2>1, FailKeeps DEF PollTooLate
<1> QED
    BY <1>2, <1>3

LEMMA PollKeeps == ASSUME NativeInv, Poll PROVE NativeInv'
<1>1. /\ UNCHANGED serviceVars /\ UNCHANGED <<nativeJob, call, run, late, detached, failures>>
      /\ UNCHANGED <<delivered, identity, for, mounted, shownJob, busy, closingRun>>
      /\ UNCHANGED <<closingFor, closeStep, lost, unconfirmed>>
      /\ step = "waiting" /\ step' = "reading"
    BY DEF Poll, serviceVars, userVars, viewVars, closeVars, lossVars
<1>2. run \in NativeRun /\ nativeJob[run] \in NativeJob
    BY <1>1 DEF NativeInv, NativeTypeOK, RunIsCurrent, ServiceInv, ServiceTypeOK
<1>3. /\ got' \in Seen
      /\ got' = NoJobShown \/ (got'.run = run /\ got'.status \in JobStatus)
      /\ got' = NoJobShown \/ got'.status = nativeJob[run].status
    <2>1. CASE nativeJob[run].status \in JobStatus
        <3>1. got' = [run |-> run, status |-> nativeJob[run].status, open |-> Open(run)]
            BY <2>1 DEF Poll
        <3>2. Open(run) \in BOOLEAN
            BY DEF Open
        <3> QED
            BY <1>2, <2>1, <3>1, <3>2 DEF Seen
    <2>2. CASE nativeJob[run].status \notin JobStatus
        BY <2>2 DEF Poll, Seen, NoJobShown
    <2> QED
        BY <2>1, <2>2
<1>4. ServiceInv'
    BY <1>1, ServiceStays DEF NativeInv
<1>5. NativeTypeOK' /\ NoOrphans'
    BY <1>1, <1>3, <1>4 DEF NativeInv, NativeTypeOK, ServiceInv, NoOrphans, Active
<1>6. RunIsCurrent' /\ ClosingIsShown' /\ CallsAreAwaited'
    BY <1>1 DEF NativeInv, RunIsCurrent, ClosingIsShown, CallsAreAwaited
<1>7. ShownIsKnown'
    <2>1. StillSo(shownJob)'
        BY <1>1, SightStays
    <2>2. StillSo(got)'
        <3>1. CASE got' = NoJobShown
            BY <1>1, <3>1, SightStays
        <3>2. CASE got' # NoJobShown
            BY <1>1, <1>3, <3>2 DEF StillSo
        <3> QED
            BY <3>1, <3>2
    <2> QED
        BY <1>1, <1>3, <2>1, <2>2 DEF NativeInv, ShownIsKnown
<1> QED
    BY <1>4, <1>5, <1>6, <1>7 DEF NativeInv

LEMMA ReadAnsweredKeeps == ASSUME NativeInv, ReadAnswered PROVE NativeInv'
<1>1. CASE got = NoJobShown
    <2>1. lost \in 0..MaxTroubles
        BY DEF NativeInv, NativeTypeOK
    <2> QED
        BY <1>1, <2>1, FailKeeps DEF ReadAnswered, lossVars
<1>2. CASE got # NoJobShown
    <2>1. step = "reading" /\ Receive(run, got.status, got.open)
        BY <1>2 DEF ReadAnswered
    <2>2. got.run = run /\ got.status \in JobStatus /\ got.open \in BOOLEAN
        BY <1>2 DEF NativeInv, ShownIsKnown, NativeTypeOK, Seen
    <2>3. got.status \in Terminal => nativeJob[run].status \in {got.status, "evicted"}
        BY <2>2 DEF NativeInv, ShownIsKnown, StillSo
    <2> QED
        BY <2>1, <2>2, <2>3, ReceiveKeeps
<1> QED
    BY <1>1, <1>2

\* The window of a completed job is watched until it closes.
LEMMA WindowWatchKeeps ==
    ASSUME NativeInv, WatchEnds \/ \E tooLate \in BOOLEAN : PollWindow(tooLate) PROVE NativeInv'
<1> USE HookAssumption
<1>1. /\ UNCHANGED serviceVars /\ UNCHANGED <<nativeJob, call, run, late, detached, got, busy>>
      /\ UNCHANGED <<delivered, identity, for, mounted, closingRun, closingFor, closeStep>>
      /\ UNCHANGED <<lost, unconfirmed>>
      /\ step = "watching" /\ step' \in {"watching", "settled"}
    BY DEF WatchEnds, PollWindow, serviceVars, readVars, userVars, viewVars, closeVars, lossVars
<1>2. /\ run \in NativeRun /\ shownJob.run = run /\ shownJob.status \in Terminal /\ shownJob \in Seen
      /\ failures \in Nat /\ failures < MaxWindowFailures
    BY <1>1 DEF NativeInv, NativeTypeOK, RunIsCurrent, ShownIsKnown
<1>3. /\ failures' \in 0..MaxWindowFailures
      /\ step' = "watching" => failures' < MaxWindowFailures
      /\ shownJob' \in Seen /\ shownJob'.run = run /\ shownJob'.status = shownJob.status
    <2>1. CASE WatchEnds
        <3>1. UNCHANGED <<failures, shownJob>> /\ step' = "settled"
            BY <2>1 DEF WatchEnds, readVars, viewVars
        <3> QED
            BY <1>2, <3>1
    <2>2. ASSUME NEW tooLate \in BOOLEAN, PollWindow(tooLate)
          PROVE  /\ failures' \in 0..MaxWindowFailures
                 /\ step' = "watching" => failures' < MaxWindowFailures
                 /\ shownJob' \in Seen /\ shownJob'.run = run /\ shownJob'.status = shownJob.status
        <3>1. /\ failures' \in {0, failures + 1}
              /\ shownJob' \in {shownJob, [shownJob EXCEPT !.open = Open(run)]}
              /\ failures' = MaxWindowFailures => step' = "settled"
            BY <2>2 DEF PollWindow
        <3>2. Open(run) \in BOOLEAN
            BY DEF Open
        <3>3. shownJob' \in Seen /\ shownJob'.run = run /\ shownJob'.status = shownJob.status
            BY <1>2, <3>1, <3>2 DEF Seen
        <3> QED
            BY <1>2, <3>1, <3>3
    <2> QED
        BY <2>1, <2>2
<1>4. ServiceInv'
    BY <1>1, ServiceStays DEF NativeInv
<1>5. NativeTypeOK' /\ NoOrphans'
    BY <1>1, <1>3, <1>4 DEF NativeInv, NativeTypeOK, ServiceInv, NoOrphans, Active
<1>6. RunIsCurrent' /\ CallsAreAwaited'
    BY <1>1, <1>2, <1>3 DEF NativeInv, RunIsCurrent, CallsAreAwaited
<1>7. ClosingIsShown'
    BY <1>1, <1>2 DEF NativeInv, NativeTypeOK, RunIsCurrent, ClosingIsShown
<1>8. ShownIsKnown'
    <2>1. StillSo(got)'
        BY <1>1, SightStays
    <2>2. StillSo(shownJob)'
        BY <1>1, <1>2, <1>3 DEF NativeInv, ShownIsKnown, StillSo
    <2>3. shownJob'.status \in JobStatus /\ shownJob'.run \in NativeRun
        BY <1>2, <1>3 DEF JobStatus
    <2>4. got' = NoJobShown
        BY <1>1 DEF NativeInv, ShownIsKnown
    <2> QED
        BY <1>1, <1>2, <1>3, <2>1, <2>2, <2>3, <2>4 DEF ShownIsKnown
<1> QED
    BY <1>4, <1>5, <1>6, <1>7, <1>8 DEF NativeInv

----------------------------------------------------------------------------
(* Closing. *)

LEMMA CancelKeeps == ASSUME NativeInv, Cancel PROVE NativeInv'
<1> USE KeptAssumption, HookAssumption
<1>1. /\ UNCHANGED serviceVars /\ UNCHANGED <<nativeJob, call, detached, identity, for, mounted>>
      /\ UNCHANGED <<shownJob, lost, unconfirmed>>
      /\ closingRun = None /\ closingRun' = shownJob.run
      /\ run' = None /\ step' = "idle" /\ got' = NoJobShown /\ failures' = 0 /\ delivered' = FALSE
      /\ busy' = (shownJob.run # None)
    BY DEF Cancel, serviceVars, userVars, lossVars
<1>2. /\ closingRun' = None => closeStep' = "idle" /\ closingFor' = None
      /\ closingRun' # None => closeStep' = "sent" /\ closingFor' = identity
    BY DEF Cancel
<1>3. late' \subseteq NativeRun /\ late \subseteq late' /\ (step = "creating" => run \in late')
    BY DEF NativeInv, NativeTypeOK, RunIsCurrent, Cancel, Abandon
<1>4. ServiceInv' /\ NoJobShown \in Seen
    BY <1>1, ServiceStays DEF NativeInv, Seen, NoJobShown
<1>5. NativeTypeOK'
    <2>1. busy' \in BOOLEAN
        BY <1>1
    <2>2. {busy', delivered', mounted'} \subseteq BOOLEAN
        BY <1>1, <2>1 DEF NativeInv, NativeTypeOK
    <2>3. /\ {shownJob', got'} \subseteq Seen /\ failures' \in 0..MaxWindowFailures
          /\ closingRun' \in NativeRun \cup {None} /\ closingFor' \in Requests \cup {None}
          /\ closeStep' \in {"idle", "sent", "accepted"}
        BY <1>1, <1>2, <1>4 DEF NativeInv, NativeTypeOK, Seen
    <2> QED
        BY <1>1, <1>3, <1>4, <2>2, <2>3 DEF NativeInv, NativeTypeOK, ServiceInv
<1>6. NoOrphans'
    <2>1. ASSUME NEW r \in NativeRun, Active(r)
          PROVE  \/ r \in late' \cup detached
                 \/ closingRun' = r /\ closeStep' = "sent"
                 \/ r \in unconfirmed
        <3>1. CASE run # r
            BY <1>1, <1>3, <2>1, <3>1 DEF NativeInv, NoOrphans
        <3>2. CASE run = r
            <4>1. nativeJob[r].status = "active" /\ r # None /\ step # "idle"
                BY <2>1, <3>2 DEF Active, NativeInv, RunIsCurrent
            <4>2. step # "availability"
                BY <3>2, <4>1 DEF NativeInv, CallsAreAwaited, ServiceInv
            <4>3. step \notin {"watching", "settled"}
                BY <3>2, <4>1 DEF NativeInv, ShownIsKnown, StillSo, Terminal
            <4>4. CASE step = "creating"
                BY <1>3, <3>2, <4>4
            <4>5. CASE step \in {"waiting", "reading"}
                BY <1>1, <1>2, <3>2, <4>1, <4>5 DEF NativeInv, ShownIsKnown
            <4> QED
                BY <4>1, <4>2, <4>3, <4>4, <4>5 DEF NativeInv, NativeTypeOK
        <3> QED
            BY <3>1, <3>2
    <2> QED
        BY <1>1, <2>1 DEF NoOrphans, Active
<1>7. RunIsCurrent'
    BY <1>1 DEF RunIsCurrent
<1>8. CallsAreAwaited'
    BY <1>1, <1>3 DEF NativeInv, CallsAreAwaited
<1>9. ShownIsKnown'
    <2>1. StillSo(shownJob)' /\ StillSo(got)'
        BY <1>1, SightStays
    <2> QED
        BY <1>1, <2>1 DEF NativeInv, ShownIsKnown
<1>10. ClosingIsShown'
    BY <1>1, <1>2 DEF NativeInv, NativeTypeOK, Requests, ClosingIsShown
<1> QED
    BY <1>4, <1>5, <1>6, <1>7, <1>8, <1>9, <1>10 DEF NativeInv

LEMMA CloseArrivesKeeps == ASSUME NativeInv, CloseArrives PROVE NativeInv' /\ Orderly
<1>1. /\ UNCHANGED <<identity, run, step, late, for, shownJob, got, failures, busy>>
      /\ UNCHANGED <<closingRun, closingFor, delivered, mounted, lost, unconfirmed, detached>>
      /\ closeStep = "sent" /\ closeStep' = "accepted" /\ ServerCancels(closingRun)
    BY DEF CloseArrives, hookRunVars, readVars, userVars, viewVars, lossVars
<1>2. closingRun \in NativeRun
    BY <1>1 DEF NativeInv, NativeTypeOK, ClosingIsShown
<1>3. ServiceInv' /\ Orderly /\ nativeJob'[closingRun].status # "active"
    BY <1>1, <1>2, ServerCancelsKeeps DEF NativeInv
<1> QED
    BY <1>1, <1>3, KnowledgeStays

LEMMA DetachedArrivesKeeps ==
    ASSUME NativeInv, NEW r \in NativeRun, DetachedArrives(r) PROVE NativeInv' /\ Orderly
<1>1. /\ UNCHANGED <<identity, run, step, late, for, shownJob, got, failures, busy>>
      /\ UNCHANGED <<closingRun, closingFor, closeStep, delivered, mounted, lost, unconfirmed>>
      /\ detached' = detached \ {r} /\ ServerCancels(r)
    BY DEF DetachedArrives, readVars, userVars, viewVars, closeVars, lossVars
<1>2. ServiceInv' /\ Orderly /\ nativeJob'[r].status # "active"
    BY <1>1, ServerCancelsKeeps DEF NativeInv
<1> QED
    BY <1>1, <1>2, KnowledgeStays

\* cancel() ends, with an answer, a refusal or neither.
LEMMA CloseEndsKeeps ==
    ASSUME NativeInv, closingRun # None, CloseEnds, UNCHANGED unconfirmed,
           lost' \in 0..MaxTroubles, shownJob' \in Seen,
           shownJob' = NoJobShown \/ (shownJob'.run \in NativeRun /\ shownJob'.status \in JobStatus),
           StillSo(shownJob)', detached' \subseteq NativeRun, detached \subseteq detached',
           closeStep = "sent" => closingRun \in detached'
    PROVE  NativeInv'
<1>1. /\ UNCHANGED serviceVars /\ UNCHANGED <<nativeJob, call, run, step, late, identity, for>>
      /\ UNCHANGED <<mounted, got, failures, delivered>>
      /\ closingRun' = None /\ closingFor' = None /\ closeStep' = "idle"
      /\ busy' = (busy /\ ~mounted)
    BY DEF CloseEnds, serviceVars, readVars, userVars
<1>2. run = None /\ step = "idle"
    BY DEF NativeInv, RunIsCurrent
<1>3. ServiceInv'
    BY <1>1, ServiceStays DEF NativeInv
<1>4. NativeTypeOK'
    <2>1. busy' \in BOOLEAN
        BY <1>1
    <2>2. {busy', delivered', mounted'} \subseteq BOOLEAN
        BY <1>1, <2>1 DEF NativeInv, NativeTypeOK
    <2> QED
        BY <1>1, <1>2, <1>3, <2>2 DEF NativeInv, NativeTypeOK, ServiceInv
<1>5. NoOrphans'
    BY <1>1 DEF NativeInv, NoOrphans, Active
<1>6. RunIsCurrent' /\ CallsAreAwaited' /\ ClosingIsShown'
    BY <1>1, <1>2 DEF NativeInv, RunIsCurrent, CallsAreAwaited, ClosingIsShown
<1>7. ShownIsKnown'
    <2>1. StillSo(got)'
        BY <1>1, SightStays
    <2> QED
        BY <1>1, <1>2, <2>1 DEF NativeInv, ShownIsKnown
<1> QED
    BY <1>3, <1>4, <1>5, <1>6, <1>7 DEF NativeInv

LEMMA CloseStepsKeep ==
    ASSUME NativeInv, CloseAnswered \/ CloseRefused \/ CloseTooLate PROVE NativeInv'
<1> USE KeptAssumption
<1>1. /\ closingRun # None /\ closingRun \in NativeRun /\ CloseEnds /\ UNCHANGED unconfirmed
      /\ UNCHANGED nativeJob
    BY DEF CloseAnswered, CloseRefused, CloseTooLate, CloseEnds, NativeInv, NativeTypeOK,
        ClosingIsShown, lossVars, serviceVars
<1>2. lost \in 0..MaxTroubles /\ detached \subseteq NativeRun /\ shownJob \in Seen
    BY DEF NativeInv, NativeTypeOK
<1>3. CASE CloseTooLate
    <2>1. lost' \in 0..MaxTroubles
        BY <1>3, LossIsBounded DEF CloseTooLate, NativeInv
    <2>2. UNCHANGED shownJob /\ detached' = IF closeStep = "sent" THEN detached \cup {closingRun} ELSE detached
        BY <1>3 DEF CloseTooLate
    <2>3. StillSo(shownJob)'
        BY <1>1, <2>2, SightStays
    <2> QED
        BY <1>1, <1>2, <2>1, <2>2, <2>3, CloseEndsKeeps DEF NativeInv, ShownIsKnown
<1>4. CASE CloseRefused
    <2>1. UNCHANGED <<lost, shownJob, detached>> /\ closeStep = "accepted"
        BY <1>4 DEF CloseRefused, lossVars
    <2>2. StillSo(shownJob)'
        BY <1>1, <2>1, SightStays
    <2> QED
        BY <1>1, <1>2, <2>1, <2>2, CloseEndsKeeps DEF NativeInv, ShownIsKnown
<1>5. CASE CloseAnswered
    <2>1. /\ UNCHANGED <<lost, detached>> /\ closeStep = "accepted"
          /\ nativeJob[closingRun].status \in JobStatus
        BY <1>5 DEF CloseAnswered, lossVars
    <2>2. CASE ~mounted \/ identity # closingFor
        <3>1. shownJob' = shownJob
            BY <1>5, <2>2 DEF CloseAnswered
        <3>2. StillSo(shownJob)'
            BY <1>1, <3>1, SightStays
        <3> QED
            BY <1>1, <1>2, <2>1, <3>1, <3>2, CloseEndsKeeps DEF NativeInv, ShownIsKnown
    <2>3. CASE ~(~mounted \/ identity # closingFor)
        <3>1. shownJob.run = closingRun
            BY <1>1, <2>3 DEF NativeInv, ClosingIsShown
        <3>2. PICK status : status = IF shownJob.status = "completed" THEN "completed"
                                     ELSE nativeJob[closingRun].status
            OBVIOUS
        <3>3. shownJob' = [run |-> closingRun, open |-> FALSE, status |-> status]
            BY <1>5, <2>3, <3>2 DEF CloseAnswered
        <3>4. status \in JobStatus
            BY <2>1, <3>2 DEF JobStatus, Terminal
        <3>5. shownJob' \in Seen /\ shownJob'.run = closingRun /\ shownJob'.status = status
            BY <1>1, <3>3, <3>4 DEF Seen
        <3>6. nativeJob[closingRun].status \in {status, "evicted"}
            BY <3>1, <3>2 DEF NativeInv, ShownIsKnown, StillSo, Terminal
        <3>7. StillSo(shownJob)'
            BY <1>1, <3>5, <3>6 DEF StillSo
        <3> QED
            BY <1>1, <1>2, <2>1, <3>4, <3>5, <3>7, CloseEndsKeeps
    <2> QED
        BY <2>2, <2>3
<1> QED
    BY <1>3, <1>4, <1>5

----------------------------------------------------------------------------
(* The invariant and what follows from it. *)

\* Every step keeps the invariant, and lets the jobs go on.
LEMMA NativeStepKeeps ==
    ASSUME NativeInv, NativeNext PROVE NativeInv' /\ (Orderly \/ UNCHANGED nativeJob)
<1>1. CASE HookNext
    <2>1. CASE ChangeRequest \/ Unmount \/ Start \/ Cancel
        <3>1. NativeInv'
            BY <2>1, ChangeRequestKeeps, UnmountKeeps, StartKeepsNative, CancelKeeps
        <3>2. UNCHANGED nativeJob
            BY <2>1 DEF ChangeRequest, Unmount, Start, Cancel, serviceVars
        <3> QED
            BY <3>1, <3>2
    <2>2. CASE RunSteps \/ CreateTooLate \/ PollTooLate \/ Deadline \/ WatchEnds
        <3>1. NativeInv'
            BY <2>2, CreateKeeps, FailuresKeep, CreateAnsweredKeeps, PollKeeps, ReadAnsweredKeeps,
               WindowWatchKeeps DEF RunSteps
        <3>2. UNCHANGED nativeJob
            BY <2>2 DEF RunSteps, CreateTooLate, PollTooLate, Deadline, WatchEnds, Create,
                Unavailable, CreateAnswered, Poll, ReadAnswered, PollWindow, Fail, Receive,
                serviceVars
        <3> QED
            BY <3>1, <3>2
    <2>3. CASE CloseArrives
        BY <2>3, CloseArrivesKeeps
    <2>4. CASE CloseAnswered \/ CloseRefused \/ CloseTooLate
        <3>1. UNCHANGED nativeJob
            BY <2>4 DEF CloseAnswered, CloseRefused, CloseTooLate, CloseEnds, serviceVars
        <3> QED
            BY <2>4, <3>1, CloseStepsKeep
    <2>5. ASSUME NEW r \in NativeRun,
                 LateCreateAnswered(r) \/ LateCreateTooLate(r) \/ DetachedLost(r)
          PROVE  NativeInv' /\ UNCHANGED nativeJob
        <3>1. UNCHANGED nativeJob
            BY <2>5 DEF LateCreateAnswered, LateCreateTooLate, DetachedLost, serviceVars
        <3> QED
            BY <2>5, <3>1, LateStepsKeep
    <2>6. ASSUME NEW r \in NativeRun, DetachedArrives(r) PROVE NativeInv' /\ Orderly
        BY <2>6, DetachedArrivesKeeps
    <2> QED
        BY <1>1, <2>1, <2>2, <2>3, <2>4, <2>5, <2>6 DEF HookNext, CloseSteps
<1>2. CASE (ServiceSteps \/ ServiceTroubles) /\ UNCHANGED hookVars
    <2>1. ServiceInv' /\ Orderly
        <3>1. ASSUME NEW r \in NativeRun, StartSteps(r) PROVE ServiceInv' /\ Orderly
            BY <3>1, StartStepsKeep DEF NativeInv
        <3>2. ASSUME NEW r \in NativeRun, JobStep(r) PROVE ServiceInv' /\ Orderly
            BY <3>2, JobStepKeeps DEF NativeInv
        <3>3. CASE Dispose
            BY <3>3, DisposeKeeps DEF NativeInv
        <3> QED
            BY <1>2, <3>1, <3>2, <3>3 DEF ServiceSteps, ServiceTroubles, JobStep
    <2>2. /\ UNCHANGED <<identity, run, step, late, for, shownJob, got, failures, busy>>
          /\ UNCHANGED <<closingRun, closingFor, delivered, mounted, lost, unconfirmed>>
          /\ UNCHANGED <<detached, closeStep>>
        BY <1>2 DEF hookVars
    <2> QED
        BY <2>1, <2>2, KnowledgeStays
<1> QED
    BY <1>1, <1>2 DEF NativeNext

\* The inductive invariant of native validations, for every number of runs, of changed
\* requests, of lost answers and of windows that are kept.
THEOREM NativeInvariance == NativeSpec => []NativeInv
<1>1. NativeInit => NativeInv
    <2> SUFFICES ASSUME NativeInit PROVE NativeInv
        OBVIOUS
    <2> USE KeptAssumption, HookAssumption
    <2>1. /\ NoNativeJob \in NativeJob /\ NoNativeJob.status = "absent"
          /\ NoNativeJob.engine = "none"
        BY DEF NoNativeJob, NativeJob, Content
    <2>2. JobRight(NoNativeJob)
        BY DEF JobRight, NoNativeJob
    <2>3. \A r \in NativeRun : nativeJob[r] = NoNativeJob /\ call[r] = "none"
        BY DEF NativeInit, NativeServiceInit
    <2>4. ServiceTypeOK
        BY <2>1 DEF NativeInit, NativeServiceInit, ServiceTypeOK
    <2>5. OneEngine /\ NothingOutlivesDispose
        BY <2>1, <2>3 DEF OneEngine, NothingOutlivesDispose, Open
    <2>6. ServiceInv
        BY <2>1, <2>2, <2>3, <2>4, <2>5 DEF ServiceInv, NativeInit, NativeServiceInit
    <2>7. NoJobShown \in Seen /\ NoJobShown.status \notin Terminal
        BY DEF NoJobShown, Seen, Terminal
    <2>8. NativeTypeOK
        <3>1. for \in [NativeRun -> Requests \cup {None}]
            BY DEF NativeInit
        <3>2. {busy, delivered, mounted} \subseteq BOOLEAN
            BY DEF NativeInit
        <3> QED
            BY <2>4, <2>7, <3>1, <3>2 DEF NativeInit, NativeTypeOK, Requests
    <2>9. NoOrphans
        BY <2>1, <2>3 DEF NoOrphans, Active
    <2>10. RunIsCurrent /\ CallsAreAwaited
        BY <2>3 DEF NativeInit, RunIsCurrent, CallsAreAwaited
    <2>11. ShownIsKnown /\ ClosingIsShown
        BY <2>7 DEF NativeInit, ShownIsKnown, StillSo, ClosingIsShown
    <2> QED
        BY <2>6, <2>8, <2>9, <2>10, <2>11 DEF NativeInv
<1>2. NativeInv /\ [NativeNext]_nativeVars => NativeInv'
    <2> SUFFICES ASSUME NativeInv, UNCHANGED nativeVars PROVE NativeInv'
        BY NativeStepKeeps
    <2>1. UNCHANGED serviceVars /\ UNCHANGED hookVars
        BY DEF nativeVars
    <2>2. ServiceInv' /\ UNCHANGED <<nativeJob, call>>
        BY <2>1, ServiceStays DEF NativeInv, serviceVars
    <2>3. Orderly
        BY <2>2 DEF Orderly
    <2>4. /\ UNCHANGED <<identity, run, step, late, for, shownJob, got, failures, busy>>
          /\ UNCHANGED <<closingRun, closingFor, delivered, mounted, lost, unconfirmed>>
          /\ UNCHANGED <<detached, closeStep>>
        BY <2>1 DEF hookVars
    <2> QED
        BY <2>2, <2>3, <2>4, KnowledgeStays
<1> QED
    BY <1>1, <1>2, PTL DEF NativeSpec

\* There is one engine and nobody forgets it: it is the page's or on its way to be closed,
\* no disposal leaves it unasked, a result that was written is not lost to the exit that
\* follows it, and what the page shows as completed did complete (nativeGodotValidation.ts,
\* useNativeGodotValidation.ts).
THEOREM NativeWindowIsAccountedFor == NativeSpec => []WindowIsAccountedFor
<1>1. NativeInv => WindowIsAccountedFor
    <2> SUFFICES ASSUME NativeInv PROVE WindowIsAccountedFor
        OBVIOUS
    <2>1. ExitLosesNoResult
        BY DEF NativeInv, ServiceInv, ExitLosesNoResult, JobRight
    <2>2. EvidenceIsReal
        BY DEF NativeInv, ShownIsKnown, StillSo, Terminal, EvidenceIsReal
    <2> QED
        BY <2>1, <2>2 DEF NativeInv, ServiceInv, WindowIsAccountedFor
<1> QED
    BY <1>1, NativeInvariance, PTL

\* A job ends once, whatever polls, exits and cancellations come late; and a result is handed
\* over only for the request the page shows, from a job of that run which completed.
THEOREM NativeEndsOnce == NativeSpec => EndsOnceForItsRequest
<1>1. NativeInv /\ NativeInv' /\ [NativeNext]_nativeVars =>
        [\A r \in NativeRun :
            /\ nativeJob[r].status \in Terminal =>
                   nativeJob'[r].status \in {nativeJob[r].status, "evicted"}
            /\ nativeJob'[r].status = "completed" => nativeJob'[r].file = "result"]_serviceVars
    <2> SUFFICES ASSUME NativeInv, NativeInv', NativeNext, NEW r \in NativeRun
                 PROVE  /\ nativeJob[r].status \in Terminal =>
                               nativeJob'[r].status \in {nativeJob[r].status, "evicted"}
                        /\ nativeJob'[r].status = "completed" => nativeJob'[r].file = "result"
        BY DEF nativeVars
    <2>1. nativeJob'[r].status = "completed" => nativeJob'[r].file = "result"
        BY DEF NativeInv, ServiceInv, JobRight
    <2> QED
        BY <2>1, NativeStepKeeps DEF Orderly
<1>2. NativeInv /\ [NativeNext]_nativeVars =>
        [~delivered /\ delivered' =>
            /\ mounted /\ for[run] = identity
            /\ nativeJob[run].status \in {"completed", "evicted"}]_nativeVars
    <2> SUFFICES ASSUME NativeInv, NativeNext, ~delivered, delivered'
                 PROVE  /\ mounted /\ for[run] = identity
                        /\ nativeJob[run].status \in {"completed", "evicted"}
        OBVIOUS
    <2>1. delivered' # delivered
        OBVIOUS
    <2>2. HookNext
        BY <2>1 DEF NativeNext, hookVars
    <2>3. CreateAnswered \/ ReadAnswered
        BY <2>1, <2>2 DEF HookNext, ChangeRequest, Unmount, Start, Cancel, RunSteps, Create,
            Unavailable, Poll, PollWindow, CreateTooLate, PollTooLate, Deadline, WatchEnds,
            CloseSteps, CloseArrives, CloseAnswered, CloseRefused, CloseTooLate, CloseEnds,
            LateCreateAnswered, LateCreateTooLate, DetachedArrives, DetachedLost, Fail, Drop,
            readVars
    <2>4. /\ step = "reading" /\ got # NoJobShown
          /\ delivered' = (delivered \/ got.status = "completed")
        <3>1. ~(step = "creating" /\ Receive(run, "active", FALSE))
            BY DEF Receive
        <3>2. ~CreateAnswered
            BY <2>1, <3>1 DEF CreateAnswered, readVars
        <3> QED
            BY <2>3, <3>2 DEF ReadAnswered, Fail, Drop, Receive
    <2>5. got.status = "completed"
        BY <2>4
    <2>6. run # None /\ got.run = run
        BY <2>4 DEF NativeInv, RunIsCurrent, ShownIsKnown
    <2> QED
        BY <2>5, <2>6 DEF NativeInv, RunIsCurrent, ShownIsKnown, StillSo, Terminal
<1> QED
    BY <1>1, <1>2, NativeInvariance, PTL
        DEF NativeSpec, EndsOnceForItsRequest, EndsOnce, DeliveredIsCurrent
=============================================================================
