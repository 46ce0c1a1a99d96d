---------------------------- MODULE XiaoyiAssistant ----------------------------
(***************************************************************************)
(* The assistant that operates the page for the user                       *)
(* (src/components/XiaoyiSystemAssistant.tsx): a command is prepared, a    *)
(* high-impact one waits for the user's approval, its steps are clicked    *)
(* one by one, each verified on the page, and the user reviews the report. *)
(*                                                                         *)
(* prepareAction and executeAction are asynchronous loops that go on after *)
(* every delay unless the run they began is over, so loops of runs that    *)
(* are over may still be there.  A delay is over when its loop steps.      *)
(***************************************************************************)
EXTENDS Naturals

CONSTANTS
    PageAction,         \* the actions that commands resolve to
    HighImpact,      \* those with requiresConfirmation
    Steps,           \* steps of an action
    MaxRuns          \* bound

NoCommand == "none"

ASSUME AssistantAssumption ==
    NoCommand \notin PageAction /\ Steps \in Nat \ {0} /\ MaxRuns \in Nat
Run == 1..MaxRuns

VARIABLES
    runId, cancelled,       \* currentRun
    locked,                 \* commandLocked
    executing,              \* executionInProgress
    running,                \* isRunning
    pendingAction,          \* the action that waits for the user's approval
    acknowledged,           \* confirmationAcknowledged
    result,                 \* executionReport, reviewRecorded
    loops,                  \* the asynchronous loops
    clicked,                \* history: clicks of each run
    approved, stopped       \* history: the runs the user approved, and those stopped

runVars == <<runId, cancelled, locked, executing, running>>
formVars == <<pendingAction, acknowledged>>
historyVars == <<clicked, approved, stopped>>
assistantVars == <<runVars, formVars, result, loops, historyVars>>

NoResult == [run |-> 0, status |-> "none", completed |-> 0, reviewed |-> FALSE]
Preparing == {"understanding", "planning", "ready"}
Executing == {"locating", "validating", "skipping", "clicking", "verifying", "next"}
Loop == [run : Run, command : PageAction, at : Preparing \cup Executing, step : 1..Steps + 1]

Current(l) == runId = l.run /\ ~cancelled

AssistantTypeOK ==
    /\ runId \in 0..MaxRuns /\ {cancelled, locked, executing, running} \subseteq BOOLEAN
    /\ pendingAction \in PageAction \cup {NoCommand} /\ acknowledged \in BOOLEAN
    /\ result \in [run : 0..MaxRuns, status : {"none", "success", "failed"},
                   completed : 0..Steps, reviewed : BOOLEAN]
    /\ loops \subseteq Loop /\ clicked \in [Run -> 0..Steps]
    /\ approved \subseteq Run /\ stopped \subseteq Run

AssistantInit ==
    /\ runId = 0 /\ cancelled = FALSE /\ locked = FALSE /\ executing = FALSE
    /\ running = FALSE /\ pendingAction = NoCommand /\ acknowledged = FALSE
    /\ result = NoResult /\ loops = {}
    /\ clicked = [r \in Run |-> 0] /\ approved = {} /\ stopped = {}

----------------------------------------------------------------------------
\* prepareAction.
Prepare(c) ==
    /\ ~locked /\ ~running /\ runId < MaxRuns
    /\ locked' = TRUE /\ cancelled' = FALSE /\ runId' = runId + 1 /\ running' = TRUE
    /\ pendingAction' = NoCommand /\ acknowledged' = FALSE /\ result' = NoResult
    /\ loops' = loops \cup {[run |-> runId + 1, command |-> c, at |-> "understanding", step |-> 1]}
    /\ UNCHANGED <<executing, historyVars>>

\* A command that resolves to nothing.
Misunderstood ==
    /\ ~locked /\ pendingAction' = NoCommand /\ result' = NoResult
    /\ UNCHANGED <<runVars, acknowledged, loops, historyVars>>

Replace(l, m) == loops' = (loops \ {l}) \cup {m}

\* executeAction, up to its first await.
Execute(id, c, rest) ==
    /\ executing' = TRUE /\ runId' = id /\ running' = TRUE
    /\ pendingAction' = NoCommand /\ acknowledged' = FALSE
    /\ loops' = rest \cup {[run |-> id, command |-> c, at |-> "locating", step |-> 1]}

Continue(l) == Current(l)

PrepareStep(l) ==
    /\ l.at \in Preparing
    /\ \/ ~Continue(l) /\ loops' = loops \ {l} /\ UNCHANGED <<runVars, formVars>>
       \/ /\ Continue(l) /\ l.at = "understanding"
          /\ Replace(l, [l EXCEPT !.at = "planning"]) /\ UNCHANGED <<runVars, formVars>>
       \/ /\ Continue(l) /\ l.at = "planning" /\ l.command \notin HighImpact
          /\ Replace(l, [l EXCEPT !.at = "ready"]) /\ UNCHANGED <<runVars, formVars>>
       \/ /\ Continue(l) /\ l.at = "planning" /\ l.command \in HighImpact
          /\ pendingAction' = l.command /\ running' = FALSE /\ loops' = loops \ {l}
          /\ UNCHANGED <<runId, cancelled, locked, executing, acknowledged>>
       \/ /\ Continue(l) /\ l.at = "ready"
          /\ IF executing THEN loops' = loops \ {l} /\ UNCHANGED <<runVars, formVars>>
                          ELSE /\ Execute(l.run, l.command, loops \ {l})
                               /\ UNCHANGED <<cancelled, locked>>
    /\ UNCHANGED <<result, historyVars>>

\* The dialog of a high-impact command.
Acknowledge ==
    /\ pendingAction # NoCommand /\ acknowledged' = ~acknowledged
    /\ UNCHANGED <<runVars, pendingAction, result, loops, historyVars>>

Approve ==
    /\ pendingAction # NoCommand /\ acknowledged /\ ~executing /\ runId < MaxRuns
    /\ Execute(runId + 1, pendingAction, loops)
    /\ approved' = approved \cup {runId + 1}
    /\ UNCHANGED <<cancelled, locked, result, clicked, stopped>>

CancelConfirmation ==
    /\ pendingAction # NoCommand /\ runId < MaxRuns
    /\ locked' = FALSE /\ runId' = runId + 1
    /\ pendingAction' = NoCommand /\ acknowledged' = FALSE
    /\ stopped' = stopped \cup {runId}
    /\ UNCHANGED <<cancelled, executing, running, result, loops, clicked, approved>>

----------------------------------------------------------------------------
\* executeAction: its steps, its error path and its end.
Report(l, status, completed) ==
    [run |-> l.run, status |-> status, completed |-> completed, reviewed |-> FALSE]

\* An error: the report of a run that is still the current one.
Throw(l) ==
    /\ loops' = loops \ {l}
    /\ IF runId = l.run
       THEN /\ result' = Report(l, "failed", l.step - 1)
            /\ running' = FALSE /\ executing' = FALSE
       ELSE UNCHANGED <<result, running, executing>>

Succeed(l) ==
    /\ Current(l)
    /\ loops' = loops \ {l} /\ result' = Report(l, "success", l.step - 1)
    /\ running' = FALSE /\ executing' = FALSE

Go(l, at) ==
    /\ Current(l)
    /\ Replace(l, [l EXCEPT !.at = at]) /\ UNCHANGED <<result, running, executing>>

\* Mutation: the target is clicked without another look at the run.
ClickAtOnce(l) ==
    /\ l.at = "clicking"
    /\ Replace(l, [l EXCEPT !.at = "verifying"])
    /\ clicked' = [clicked EXCEPT ![l.run] = @ + 1]
    /\ UNCHANGED <<result, running, executing>>

Click(l) ==
    /\ l.at = "clicking" /\ Go(l, "verifying")
    /\ clicked' = [clicked EXCEPT ![l.run] = @ + 1]

\* The step is done, and the loop looks for the next target or ends.
StepDone(l) ==
    /\ Replace(l, [l EXCEPT !.at = "next", !.step = @ + 1])
    /\ UNCHANGED <<result, running, executing>>

Verified(l) == l.at \in {"skipping", "verifying"} /\ Current(l) /\ StepDone(l)

ExecuteStep(l) ==
    /\ l.at \in Executing
    /\ \/ /\ \/ l.at = "locating" /\ Go(l, "validating")
             \/ l.at = "validating" /\ Go(l, "skipping")
             \/ l.at = "validating" /\ Go(l, "clicking")
             \/ Verified(l)
             \* A step that only triggers is done once it is clicked.
             \/ l.at = "verifying" /\ ~Current(l) /\ StepDone(l)
             \/ l.at = "next" /\ l.step <= Steps /\ Go(l, "locating")
             \/ l.at = "next" /\ l.step > Steps /\ Succeed(l)
             \* Stopped, or no such target, invisible, disabled, not written back.
             \/ (l.at # "next" \/ ~Current(l)) /\ Throw(l)
          /\ UNCHANGED clicked
       \/ Click(l)
    /\ UNCHANGED <<runId, cancelled, locked, formVars, approved, stopped>>

\* confirmExecutionReview, after its checkbox.
ConfirmReview ==
    /\ result # NoResult /\ ~result.reviewed
    /\ locked' = FALSE /\ result' = [result EXCEPT !.reviewed = TRUE]
    /\ UNCHANGED <<runId, cancelled, executing, running, formVars, loops, historyVars>>

\* stopExecution: of an execution, and of a preparation.
Stop ==
    /\ running /\ cancelled' = TRUE /\ stopped' = stopped \cup {runId}
    /\ \/ executing /\ UNCHANGED <<runId, locked, executing, running>>
       \/ /\ ~executing /\ runId < MaxRuns
          /\ runId' = runId + 1 /\ locked' = FALSE /\ running' = FALSE
          /\ UNCHANGED executing
    /\ UNCHANGED <<formVars, result, loops, clicked, approved>>

LoopStep == \E l \in loops : PrepareStep(l) \/ ExecuteStep(l)

AssistantNext ==
    \/ \E c \in PageAction : Prepare(c)
    \/ Misunderstood \/ Acknowledge \/ Approve \/ CancelConfirmation
    \/ ConfirmReview \/ Stop \/ LoopStep

AssistantSpec == AssistantInit /\ [][AssistantNext]_assistantVars

----------------------------------------------------------------------------
\* A page target is clicked only in a run that the user has not stopped, and of a
\* high-impact command only in a run the user approved.
ClicksAreWanted ==
    [][\A r \in Run : clicked'[r] > clicked[r] =>
          /\ r \notin stopped
          /\ \A l \in loops : l.run = r /\ l.command \in HighImpact => r \in approved]_assistantVars

\* A report of success is of a run that was not stopped, with every step done or
\* skipped, and a report leaves out at most one click, the one the run failed in.
ReportIsHonest ==
    /\ result.status = "success" => result.run \notin stopped /\ result.completed = Steps
    /\ result # NoResult => clicked[result.run] <= result.completed + 1

\* While commands are refused there is something that will end it: a loop of the
\* run, an approval to give or a report to review.
LockedForAReason ==
    locked => \/ \E l \in loops : l.run = runId
              \/ pendingAction # NoCommand
              \/ result # NoResult /\ ~result.reviewed

\* One loop at a time works on the page for the current run.
OneLoop == \A l, m \in loops : Current(l) /\ Current(m) => l = m

\* The assistant does what was asked for, one thing at a time, and says what it did.
AssistantIsHonest ==
    [](AssistantTypeOK /\ ReportIsHonest /\ OneLoop /\ LockedForAReason) /\ ClicksAreWanted
=============================================================================
