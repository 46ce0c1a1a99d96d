---------------------------- MODULE EvidenceCenter ----------------------------
(***************************************************************************)
(* The evidence centre of the page (src/components/                        *)
(* OperationalEvidenceCenter.tsx): it polls the services every five        *)
(* seconds, and every action of the user ends with a refresh of its own.   *)
(*                                                                         *)
(* A refresh is eight calls in parallel, of which two stand here for all:  *)
(* the snapshot and the recommendations, which are shown only beside a     *)
(* snapshot.  An AbortController keeps one refresh alive at a time.  What  *)
(* the services hold is the version of the port's state and the stage of   *)
(* each joint plan; other clients move both.                               *)
(***************************************************************************)
EXTENDS Integers, Sequences

CONSTANTS MaxVersion, MaxPlans, MaxActions, MaxTokens     \* bounds

ASSUME EvidenceAssumption ==
    MaxVersion \in Nat \ {0} /\ {MaxPlans, MaxActions, MaxTokens} \subseteq Nat

VARIABLES
    version,      \* of the port's state
    plans,        \* the stage of each plan that was inferred
    reads,        \* the refreshes that are not aborted
    action,       \* the action in flight: actionInFlight and what it awaits
    telemetry,    \* on show: snapshot, recommendations (versions, 0 for null), telemetryAvailable
    decision,     \* coreDecision as the page shows it
    report,       \* coreReport
    acted,        \* history: the version the last served action of this page left
    actions, tokens

serverVars == <<version, plans, acted>>
panelVars == <<decision, report>>
evidenceVars == <<serverVars, panelVars, reads, action, telemetry, actions, tokens>>

Proposed == 1
Approved == 2
Executed == 3
RolledBack == 4

Part == {"snapshot", "recommendations"}
Waiting == -1
Rejected == -2
NoPlan == [plan |-> 0, stage |-> 0]
Plan == {NoPlan} \cup [plan : 1..MaxPlans, stage : Proposed..RolledBack]
Kind == {"inject", "infer", "approve", "execute", "rollback", "report"}
NoAction == [kind |-> "none", at |-> "none", answer |-> NoPlan, version |-> 0]

\* The types; an action waits for its refresh just as long as that one is alive.
EvidenceTypeOK ==
    /\ version \in 1..MaxVersion /\ plans \in Seq(Proposed..RolledBack)
    /\ Len(plans) <= MaxPlans
    /\ \A r \in reads : /\ r.by \in {"poll", "action", "button"}
                        /\ r.parts \in [Part -> {Waiting, Rejected} \cup 1..version]
    /\ action.kind \in Kind \cup {"none"} /\ action.answer \in Plan
    /\ action.at \in {"none", "sent", "served", "reading"}
    /\ action.at = "reading" <=> \E r \in reads : r.by = "action"
    /\ telemetry.snapshot \in 0..version /\ telemetry.recommendations \in 0..version
    /\ telemetry.available \in BOOLEAN /\ acted \in 0..version
    /\ decision \in Plan /\ report \in Plan
    /\ actions \in 0..MaxActions /\ tokens \in 0..MaxTokens

EvidenceInit ==
    /\ version = 1 /\ plans = <<>> /\ reads = {} /\ action = NoAction
    /\ telemetry = [snapshot |-> 0, recommendations |-> 0, available |-> FALSE]
    /\ decision = NoPlan /\ report = NoPlan /\ acted = 0 /\ actions = 0 /\ tokens = 0

----------------------------------------------------------------------------
\* refresh.
NewRead(by) == [by |-> by, parts |-> [p \in Part |-> Waiting]]

\* Mutation: a new refresh leaves the one before it alone.
BeginReadBeside(by) == reads' = reads \cup {NewRead(by)}

BeginRead(by) == reads' = {NewRead(by)}

\* The poll's timer; while an action is in flight it only sets the next one.
PollFires ==
    /\ action = NoAction /\ \A r \in reads : r.by # "poll"
    /\ BeginRead("poll")
    /\ UNCHANGED <<serverVars, panelVars, action, telemetry, actions, tokens>>

\* The button beside a snapshot that never came.
Reconnect ==
    /\ action = NoAction /\ telemetry.snapshot = 0
    /\ BeginRead("button")
    /\ UNCHANGED <<serverVars, panelVars, action, telemetry, actions, tokens>>

\* A call is answered, or fails, with the fifteen seconds at the latest.
PartAnswered(r, p) ==
    /\ r.parts[p] = Waiting
    /\ \E got \in {version, Rejected} : reads' = (reads \ {r}) \cup {[r EXCEPT !.parts[p] = got]}
    /\ UNCHANGED <<serverVars, panelVars, action, telemetry, actions, tokens>>

Value(r, p) == IF r.parts[p] = Rejected THEN 0 ELSE r.parts[p]

ReadEnds(r) ==
    /\ \A p \in Part : r.parts[p] # Waiting
    /\ reads' = reads \ {r}
    /\ LET got == Value(r, "snapshot") IN
       telemetry' = [snapshot |-> IF got = 0 THEN telemetry.snapshot ELSE got,
                     recommendations |-> IF got = 0 THEN 0 ELSE Value(r, "recommendations"),
                     available |-> got # 0]
    /\ action' = IF r.by = "action" THEN NoAction ELSE action
    /\ UNCHANGED <<serverVars, panelVars, actions, tokens>>

\* A new token runs the effect's cleanup: the refresh is aborted, that of an action
\* too, which then says that the services confirmed it.
ChangeToken ==
    /\ tokens < MaxTokens /\ tokens' = tokens + 1
    /\ reads' = {}
    /\ action' = IF action.at = "reading" THEN NoAction ELSE action
    /\ UNCHANGED <<serverVars, panelVars, telemetry, actions>>

----------------------------------------------------------------------------
\* runAction and the actions: what the buttons ask of what is on show.
Offered(kind) ==
    /\ telemetry.snapshot # 0
    /\ kind = "infer" => telemetry.available /\ telemetry.recommendations # 0
    /\ kind = "approve" => decision.stage = Proposed
    /\ kind = "execute" => decision.stage = Approved
    /\ kind = "rollback" => decision.stage = Executed
    /\ kind = "report" => decision # NoPlan

Act(kind) ==
    /\ action = NoAction /\ actions < MaxActions /\ Offered(kind)
    /\ actions' = actions + 1
    /\ action' = [NoAction EXCEPT !.kind = kind, !.at = "sent"]
    /\ reads' = {}
    /\ decision' = IF kind = "infer" THEN NoPlan ELSE decision
    /\ report' = IF kind = "inject" THEN report ELSE NoPlan
    /\ UNCHANGED <<serverVars, telemetry, tokens>>

\* The plan p goes from one stage to the next; running one changes the port.
MovePlan(p, from) ==
    /\ plans[p] = from /\ plans' = [plans EXCEPT ![p] = from + 1]
    /\ IF from = Proposed THEN UNCHANGED version
                          ELSE version < MaxVersion /\ version' = version + 1

Serve ==
    \/ /\ action.kind = "inject" /\ version < MaxVersion /\ version' = version + 1
       /\ UNCHANGED plans
    \/ /\ action.kind = "infer" /\ Len(plans) < MaxPlans
       /\ plans' = Append(plans, Proposed) /\ UNCHANGED version
    \/ action.kind = "approve" /\ MovePlan(decision.plan, Proposed)
    \/ action.kind = "execute" /\ MovePlan(decision.plan, Approved)
    \/ action.kind = "rollback" /\ MovePlan(decision.plan, Executed)
    \/ action.kind = "report" /\ UNCHANGED <<version, plans>>

ActionServed ==
    /\ action.at = "sent" /\ Serve
    /\ acted' = version'
    /\ LET p == IF action.kind = "infer" THEN Len(plans') ELSE decision.plan IN
       action' = [action EXCEPT !.at = "served", !.version = version',
                                !.answer = IF action.kind = "inject" THEN NoPlan
                                           ELSE [plan |-> p, stage |-> plans'[p]]]
    /\ UNCHANGED <<panelVars, reads, telemetry, actions, tokens>>

ActionAnswered ==
    /\ action.at = "served"
    /\ telemetry' =
                  IF action.kind = "inject" THEN [telemetry EXCEPT !.snapshot = action.version]
                  ELSE telemetry
    /\ decision' = IF action.kind \in {"inject", "report"} THEN decision ELSE action.answer
    /\ report' = IF action.kind = "report" THEN action.answer ELSE report
    /\ BeginRead("action")
    /\ action' = [action EXCEPT !.at = "reading"]
    /\ UNCHANGED <<serverVars, actions, tokens>>

\* The services refuse it, or the answer is lost; no refresh follows.
ActionFails ==
    /\ action.at \in {"sent", "served"} /\ action' = NoAction
    /\ UNCHANGED <<serverVars, panelVars, reads, telemetry, actions, tokens>>

\* Other clients.
OthersAct ==
    /\ \/ version < MaxVersion /\ version' = version + 1 /\ UNCHANGED plans
       \/ \E p \in DOMAIN plans, from \in Proposed..Executed : MovePlan(p, from)
    /\ UNCHANGED <<acted, panelVars, reads, action, telemetry, actions, tokens>>

EvidenceNext ==
    \/ PollFires \/ Reconnect \/ ChangeToken
    \/ \E r \in reads : ReadEnds(r) \/ \E p \in Part : PartAnswered(r, p)
    \/ \E kind \in Kind : Act(kind)
    \/ ActionServed \/ ActionAnswered \/ ActionFails \/ OthersAct

EvidenceSpec == EvidenceInit /\ [][EvidenceNext]_evidenceVars

\* Timers and timeouts come: the poll's, the fifteen seconds of a refresh, the
\* timeout of an action's call.
ReadSteps == \E r \in reads : ReadEnds(r) \/ \E p \in Part : PartAnswered(r, p)
ActionSteps == ActionServed \/ ActionAnswered \/ ActionFails

----------------------------------------------------------------------------
\* Superseded reads never restore a state from before an action or a newer read.
ShownNeverGoesBack == [][telemetry'.snapshot >= telemetry.snapshot]_evidenceVars

\* A report on show is of the plan on show and of its stage or a later one, whoever
\* else moves the plan and wherever an action fails.
ReportIsNotOlder ==
    report # NoPlan => report.plan = decision.plan /\ report.stage >= decision.stage

\* The panel moves forward only, its plan with its report.
PanelIsCurrent == [](EvidenceTypeOK /\ ReportIsNotOlder) /\ ShownNeverGoesBack
=============================================================================
