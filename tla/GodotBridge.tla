------------------------------ MODULE GodotBridge ------------------------------
(***************************************************************************)
(* Single-vessel validation in the page's own Godot window and the ways a  *)
(* result comes back (src/App.tsx, server/godotWebBridgePlugin.ts): the    *)
(* page posts its request into an iframe; the script injected there writes *)
(* it to the engine's file system, polls for a result and posts that back; *)
(* a result may also come from a file, from the native simulator, from the *)
(* local estimate or with a demo case.                                     *)
(*                                                                         *)
(* Messages of one direction arrive in order.  The engine itself, not in   *)
(* the repository, takes one request at a time and writes its result.      *)
(***************************************************************************)
EXTENDS Naturals, Sequences

CONSTANTS MaxRequests, MaxUserActs      \* bounds

ASSUME BridgeAssumption == {MaxRequests, MaxUserActs} \subseteq Nat

VARIABLES
    request, imported,      \* generatedGodotRequest, importedGodotResult (its request), 0 for null
    micro, metric,          \* the phases micro-validation and metric-feedback
    behind,                 \* the scenario clock is behind the request's createdAt
    dock,                   \* isGodotSimulatorOpen, and the export is available
    owed,                   \* the timer of the effect that posts the request is set
    native,                 \* the request the native simulator validates, 0 for none
    reading,                \* the file being read: request at its start, request it names
    toFrame, toPage,        \* posted messages
    pending, submitted, lastResult,         \* the script in the iframe
    requestFile, resultFile, engine,        \* the engine's files, and what it works on
    refused,                \* history: requests whose result was refused for the clock
    built, acts

flowVars == <<request, imported, micro, metric>>
frameVars == <<pending, submitted, lastResult, requestFile, resultFile, engine>>
channelVars == <<toFrame, toPage>>
bridgeVars == <<flowVars, frameVars, channelVars, behind, dock, owed, native, reading,
                refused, built, acts>>

Request == 1..MaxRequests
MaybeRequest == 0..MaxRequests
NoFile == [at |-> 0, names |-> 0]

BridgeTypeOK ==
    /\ {request, imported, native, pending, submitted, lastResult, requestFile, resultFile,
        engine, built} \subseteq MaybeRequest
    /\ micro \in {"pending", "running", "completed"} /\ metric \in {"pending", "completed"}
    /\ {behind, dock, owed} \subseteq BOOLEAN /\ refused \subseteq Request
    /\ reading.at \in MaybeRequest /\ reading.names \in MaybeRequest
    /\ toFrame \in Seq(Request) /\ toPage \in Seq(Request) /\ acts \in 0..MaxUserActs

BridgeInit ==
    /\ request = 0 /\ imported = 0 /\ micro = "pending" /\ metric = "pending"
    /\ behind = FALSE /\ dock = FALSE /\ owed = FALSE /\ native = 0 /\ reading = NoFile
    /\ toFrame = <<>> /\ toPage = <<>>
    /\ pending = 0 /\ submitted = 0 /\ lastResult = 0
    /\ requestFile = 0 /\ resultFile = 0 /\ engine = 0
    /\ refused = {} /\ built = 0 /\ acts = 0

----------------------------------------------------------------------------
\* The page.
UserActs == acts < MaxUserActs /\ acts' = acts + 1

\* A new document in the iframe, or none: a script and an engine that know nothing.
NewFrame ==
    /\ pending' = 0 /\ submitted' = 0 /\ lastResult' = 0
    /\ requestFile' = 0 /\ resultFile' = 0 /\ engine' = 0 /\ toPage' = <<>>

CloseDock == dock' = FALSE /\ owed' = FALSE /\ toFrame' = <<>> /\ NewFrame

\* handleEnterMicroValidation.
EnterMicroValidation ==
    /\ UserActs /\ built < MaxRequests /\ built' = built + 1
    /\ request' = built + 1 /\ imported' = 0 /\ micro' = "running" /\ metric' = "pending"
    /\ behind' = FALSE /\ native' = 0
    /\ CloseDock
    /\ UNCHANGED <<reading, refused>>

\* handleLoadLinkedDemoCase: a request with its result.
LoadDemoCase ==
    /\ UserActs /\ built < MaxRequests /\ built' = built + 1
    /\ request' = built + 1 /\ imported' = built + 1
    /\ micro' = "completed" /\ metric' = "completed"
    /\ behind' = FALSE /\ native' = 0
    /\ CloseDock
    /\ UNCHANGED <<reading, refused>>

\* selectValidationVessel, selectValidationRoute and resetSimulation close the dock;
\* an injected event leaves it open.
SelectAnother(closes) ==
    /\ UserActs
    /\ request' = 0 /\ imported' = 0 /\ micro' = "pending" /\ metric' = "pending"
    /\ native' = 0 /\ behind' = FALSE
    /\ IF closes THEN CloseDock
                 ELSE owed' = FALSE /\ UNCHANGED <<dock, channelVars, frameVars>>
    /\ UNCHANGED <<reading, refused, built>>

\* toggleGodotSimulator, refreshGodotSimulator and coming back to the sandbox module: a
\* new document, to which the page posts when it has loaded and by the effect's timer.
OpenDock ==
    /\ UserActs
    /\ dock' = TRUE /\ owed' = (request # 0)
    /\ toFrame' = (IF request # 0 THEN <<request>> ELSE <<>>)
    /\ NewFrame
    /\ UNCHANGED <<flowVars, behind, native, reading, refused, built>>

ToggleClosed ==
    /\ UserActs /\ dock /\ CloseDock
    /\ UNCHANGED <<flowVars, behind, native, reading, refused, built>>

PostTimer ==
    /\ dock /\ owed /\ owed' = FALSE
    /\ toFrame' = Append(toFrame, request)
    /\ UNCHANGED <<flowVars, frameVars, toPage, behind, dock, native, reading, refused, built,
                   acts>>

\* A feed that falls back to the built-in scenario sets the clock back.
ClockMoves ==
    /\ UserActs /\ request # 0 /\ behind' = ~behind
    /\ UNCHANGED <<flowVars, frameVars, channelVars, dock, owed, native, reading, refused, built>>

\* Mutation: a result is taken whatever request it is for.
ApplyAny(r) ==
    IF ~behind
    THEN imported' = r /\ micro' = "completed" /\ metric' = "completed" /\ UNCHANGED request
    ELSE UNCHANGED flowVars

\* applyGodotValidationResult.
Apply(r) ==
    IF r = request /\ ~behind
    THEN imported' = r /\ micro' = "completed" /\ metric' = "completed" /\ UNCHANGED request
    ELSE UNCHANGED flowVars

\* receiveGodotMessage.
ReceiveResult ==
    /\ toPage # <<>> /\ Apply(Head(toPage)) /\ toPage' = Tail(toPage)
    /\ refused' = IF Head(toPage) = request /\ behind THEN refused \cup {request} ELSE refused
    /\ UNCHANGED <<frameVars, toFrame, behind, dock, owed, native, reading, built, acts>>

\* handleLocalValidationAndFeedback.
LocalValidation ==
    /\ UserActs /\ request # 0 /\ imported = 0 /\ native = 0
    /\ Apply(request)
    /\ UNCHANGED <<frameVars, channelVars, behind, dock, owed, native, reading, refused, built>>

\* startNativeGodotValidation.
StartNative ==
    /\ UserActs /\ request # 0 /\ native = 0
    /\ native' = request
    /\ imported' = 0 /\ micro' = "running" /\ metric' = "pending"
    /\ CloseDock
    /\ UNCHANGED <<request, behind, reading, refused, built>>

NativeResult ==
    /\ native # 0 /\ native' = 0 /\ Apply(native)
    /\ UNCHANGED <<frameVars, channelVars, behind, dock, owed, reading, refused, built, acts>>

\* The effect on an error or a cancellation of the native run.
NativeFails ==
    /\ native # 0 /\ native' = 0
    /\ micro' = IF imported # 0 THEN micro ELSE "pending"
    /\ UNCHANGED <<request, imported, metric, frameVars, channelVars, behind, dock, owed,
                   reading, refused, built, acts>>

\* handleImportGodotResult: a newer file makes an older read return in silence.
ReadFile(names) ==
    /\ UserActs /\ reading' = [at |-> request, names |-> names]
    /\ UNCHANGED <<flowVars, frameVars, channelVars, behind, dock, owed, native, refused, built>>

FileRead ==
    /\ reading # NoFile /\ reading' = NoFile
    /\ IF reading.at = request /\ request # 0 /\ reading.names = request
       THEN Apply(reading.names)
       ELSE /\ micro' = (IF imported # 0 THEN "completed"
                         ELSE IF request # 0 THEN "running" ELSE "pending")
            /\ metric' = (IF imported # 0 THEN "completed" ELSE "pending")
            /\ UNCHANGED <<request, imported>>
    /\ UNCHANGED <<frameVars, channelVars, behind, dock, owed, native, refused, built, acts>>

----------------------------------------------------------------------------
\* The script in the iframe, and the engine.

FrameReceives ==
    /\ toFrame # <<>> /\ toFrame' = Tail(toFrame) /\ pending' = Head(toFrame)
    /\ UNCHANGED <<submitted, lastResult, requestFile, resultFile, engine, toPage>>

\* A tick of its timer, in two cases: a new request is submitted, or a result is found.
Submit ==
    /\ pending # 0 /\ submitted # pending
    /\ submitted' = pending /\ requestFile' = pending /\ resultFile' = 0 /\ lastResult' = 0
    /\ UNCHANGED <<pending, engine, channelVars>>

SendResult ==
    /\ pending # 0 /\ submitted = pending
    /\ resultFile = pending /\ lastResult # resultFile
    /\ lastResult' = resultFile /\ toPage' = Append(toPage, resultFile)
    /\ UNCHANGED <<pending, submitted, requestFile, resultFile, engine, toFrame>>

EngineTakes ==
    /\ engine = 0 /\ requestFile # 0 /\ engine' = requestFile /\ requestFile' = 0
    /\ UNCHANGED <<pending, submitted, lastResult, resultFile, channelVars>>

EngineWrites ==
    /\ engine # 0 /\ resultFile' = engine /\ engine' = 0
    /\ UNCHANGED <<pending, submitted, lastResult, requestFile, channelVars>>

FrameSteps ==
    /\ dock
    /\ FrameReceives \/ Submit \/ SendResult \/ EngineTakes \/ EngineWrites
    /\ UNCHANGED <<flowVars, behind, dock, owed, native, reading, refused, built, acts>>

BridgeNext ==
    \/ EnterMicroValidation \/ LoadDemoCase \/ \E closes \in BOOLEAN : SelectAnother(closes)
    \/ OpenDock \/ ToggleClosed \/ PostTimer \/ ClockMoves
    \/ ReceiveResult \/ LocalValidation \/ StartNative \/ NativeResult \/ NativeFails
    \/ \E names \in MaybeRequest : ReadFile(names)
    \/ FileRead \/ FrameSteps

BridgeSpec == BridgeInit /\ [][BridgeNext]_bridgeVars

----------------------------------------------------------------------------
\* The result on the page is of the request on the page, whichever way it came and
\* however late: over changes of the vessel, reloads of the window and slow files.
ResultIsOfRequest == imported # 0 => imported = request

\* The phases say what the page holds: the feedback of metrics is completed just when
\* there is a result, and a validation runs only for a request.
PhasesFollow ==
    /\ metric = "completed" <=> imported # 0
    /\ micro = "completed" <=> imported # 0
    /\ micro = "running" => request # 0

\* Requests, results and phases go together.
ResultsAreMatched == BridgeTypeOK /\ ResultIsOfRequest /\ PhasesFollow
=============================================================================
