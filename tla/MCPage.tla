-------------------------------- MODULE MCPage --------------------------------
(***************************************************************************)
(* The stateful parts of the page that share no state with one another,    *)
(* each checked on its own in one run: a run of all of them would be any   *)
(* interleaving of runs of each.  The part `focus` moves in a behaviour,   *)
(* and the others stand still.                                             *)
(***************************************************************************)
EXTENDS RlTrainingPage, EvidenceCenter, XiaoyiAssistant, GodotBridge, NativeValidationPage

VARIABLE focus

\* The parts other than f stand still.
Only(f) ==
    /\ UNCHANGED focus
    /\ IF f = "training" THEN TRUE ELSE UNCHANGED pageVars
    /\ IF f = "evidence" THEN TRUE ELSE UNCHANGED evidenceVars
    /\ IF f = "assistant" THEN TRUE ELSE UNCHANGED assistantVars
    /\ IF f = "godot" THEN TRUE ELSE UNCHANGED bridgeVars
    /\ IF f = "native" THEN TRUE ELSE UNCHANGED nativeVars

Init ==
    /\ TrainingInit /\ EvidenceInit /\ AssistantInit /\ BridgeInit /\ NativeInit
    /\ focus \in {"training", "evidence", "assistant", "godot", "native"}

Next ==
    \/ focus = "training" /\ TrainingNext /\ Only("training")
    \/ focus = "evidence" /\ EvidenceNext /\ Only("evidence")
    \/ focus = "assistant" /\ AssistantNext /\ Only("assistant")
    \/ focus = "godot" /\ BridgeNext /\ Only("godot")
    \/ focus = "native" /\ NativeNext /\ Only("native")

\* A timer that is set fires: the fifteen seconds of a policy test's request and the
\* interval of its replay, the poll and the timeouts of the evidence centre, the
\* assistant's delays, and the post and the interval of the Godot window, whose engine
\* does its part.  For a native validation the two event loops go on, a process that was
\* killed ends, and a job that is polled for ever is polled once after its ninety
\* seconds.  Nobody has to click, and a native engine never has to write or to end on its
\* own accord.
Spec ==
    /\ Init /\ [][Next]_<<pageVars, evidenceVars, assistantVars, bridgeVars, nativeVars, focus>>
    /\ WF_pageVars(focus = "training" /\ (TestAnswered \/ TestFails))
    /\ WF_pageVars(focus = "training" /\ ReplayEnds)
    /\ WF_evidenceVars(focus = "evidence" /\ PollFires)
    /\ WF_evidenceVars(focus = "evidence" /\ ReadSteps)
    /\ WF_evidenceVars(focus = "evidence" /\ ActionSteps)
    /\ WF_assistantVars(focus = "assistant" /\ LoopStep)
    /\ WF_bridgeVars(focus = "godot" /\ PostTimer)
    /\ WF_bridgeVars(focus = "godot" /\ ReceiveResult)
    /\ WF_bridgeVars(focus = "godot" /\ FrameSteps)
    /\ WF_nativeVars(focus = "native" /\ RunSteps)
    /\ WF_nativeVars(focus = "native" /\ Deadline)
    /\ WF_nativeVars(focus = "native" /\ CloseSteps)
    /\ WF_nativeVars(focus = "native" /\ (\E r \in NativeRun : PollSteps(r))
                     /\ UNCHANGED hookVars)
    /\ SF_nativeVars(focus = "native" /\ (\E r \in NativeRun : PollTimesOut(r))
                     /\ UNCHANGED hookVars)
    /\ WF_nativeVars(focus = "native" /\ UNCHANGED hookVars
                     /\ \E r \in NativeRun : nativeJob[r].stopping # "no" /\ EngineExits(r))

\* What somebody waits for in the part that moves, and what ends the wait.
Waits ==
    CASE focus = "training" -> test = "running"
      [] focus = "evidence" -> acted # 0
      [] focus = "assistant" -> running
      [] focus = "godot" -> dock /\ request # 0
      [] focus = "native" -> busy

Answered ==
    CASE focus = "training" -> test # "running"
      [] focus = "evidence" ->
            telemetry.snapshot >= acted \/ (~telemetry.available /\ action = NoAction)
      [] focus = "assistant" -> ~running
      [] focus = "godot" -> imported = request \/ request = 0 \/ ~dock \/ request \in refused
      [] focus = "native" -> ~busy \/ ~mounted

\* Nobody waits for ever.  A policy test ends: its answer comes or its fifteen seconds
\* pass, and the replay of the answer ends because the job stays bound.  What an action of
\* the evidence centre changed is shown, or the panel says that it has no telemetry, also
\* when the answer is lost or its own refresh is aborted.  A run of the assistant ends in a
\* report or an idle assistant.  A request shown in an open Godot window gets its result,
\* unless the user turns to something else or the page has refused one for its clock.  No
\* order of clicks, changed requests and late answers leaves the native controller busy.
PageWaitsEnd == Waits ~> Answered
=============================================================================
