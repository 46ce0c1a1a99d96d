------------------------- MODULE OperationalControl -------------------------
(***************************************************************************)
(* OperationalControlService (server/operationalSimulator.ts): the life of *)
(* a control decision (created, approved by two people, executed on the    *)
(* simulator or refused by a gate, rolled back) and of a core joint plan   *)
(* (executed on the very snapshot it was inferred from, rolled back), both *)
(* competing for the one control slot of the simulator.                    *)
(*                                                                         *)
(* Every method is synchronous, so each is one action.  A call that throws *)
(* after taking a snapshot leaves what Snapshot leaves.                    *)
(***************************************************************************)
EXTENDS PortSimulator, Sequences, FiniteSets

CONSTANTS
    Controller,        \* OperationalControllerId
    Fcfs,              \* the 'fcfs' controller, whose action is 'hold-plan'
    Stamp,             \* instants of creation, in milliseconds
    Plan,              \* joint plans a core model may request
    CoreAction,        \* actionId recorded for a core control
    ApprovalRequest,   \* approver lists that reach approve: sets of <<id, role>>
    SharedKey,         \* idempotency keys clients use for more than one subject
    MaxTrail,          \* bound: audit records of a decision that is created anew
    MaxDecisions       \* bound: decisions in the store

Operator == "operator"
SafetyOfficer == "safety_officer"

\* decision_id hashes created_at, the controller and the input snapshot hash;
\* proposalId hashes the snapshot hash and the requested plan.
DecisionId == [controller: Controller, at: Stamp, seq: 0..MaxSeq]
CoreId == [plan: Plan, seq: 0..MaxSeq]

ASSUME ControlAssumption ==
    /\ Subject = DecisionId \cup CoreId
    /\ CoreAction \in Action

\* The declared type of an approver's role has two values.
ASSUME RoleAssumption ==
    \A list \in ApprovalRequest : \A x \in list : x[2] \in {Operator, SafetyOfficer}

Status == {"none", "pending_approval", "approved", "executed", "failed", "rolled_back"}
ReceiptStatus == {"none", "acknowledged", "rolled_back"}
Event == {"created", "approved", "executed", "failed", "rolled_back"}
Approvals == UNION ApprovalRequest

VARIABLES
    status,        \* decisions: status of each decision, "none" when absent
    approvals,     \* decisions: its approvals
    recommended,   \* decisions: its recommended_action
    receipts,      \* idempotencyReceipts: at most one decision for a key
    coreReceipt,   \* coreReceiptsByProposal: status of the stored receipt
    coreKeys,      \* coreIdempotencyReceipts: at most one core plan for a key
    trail,         \* audit, projected on each decision
    applied        \* auxiliary: how often each subject was put in the slot

ctlVars == <<status, approvals, recommended, receipts, coreReceipt, coreKeys,
             trail, applied>>
vars == <<simVars, ctlVars>>

\* A client of the page uses a key made of the identifier itself.
DecisionKey == DecisionId \cup SharedKey
CoreKey == CoreId \cup SharedKey
KeysFor(s) == {s} \cup SharedKey

TypeOK ==
    /\ SimTypeOK
    /\ status \in [DecisionId -> Status]
    /\ approvals \in [DecisionId -> SUBSET Approvals]
    /\ recommended \in [DecisionId -> Action]
    /\ receipts \in [DecisionKey -> SUBSET DecisionId]
    /\ coreReceipt \in [CoreId -> ReceiptStatus]
    /\ coreKeys \in [CoreKey -> SUBSET CoreId]
    /\ trail \in [DecisionId -> Seq(Event)]
    /\ applied \in [Subject -> Nat]

Init ==
    /\ SimInit
    /\ status = [d \in DecisionId |-> "none"]
    /\ approvals = [d \in DecisionId |-> {}]
    /\ recommended = [d \in DecisionId |-> HoldPlan]
    /\ receipts = [k \in DecisionKey |-> {}]
    /\ coreReceipt = [p \in CoreId |-> "none"]
    /\ coreKeys = [k \in CoreKey |-> {}]
    /\ trail = [d \in DecisionId |-> <<>>]
    /\ applied = [s \in Subject |-> 0]

----------------------------------------------------------------------------
Log(d, event) == trail' = [trail EXCEPT ![d] = Append(@, event)]

\* Mutation: both roles are named, by whomever.
BothRoles(list) ==
    /\ \E x \in list : x[2] = Operator
    /\ \E x \in list : x[2] = SafetyOfficer

\* Two different people, and both roles named (approveDecision's guard).
DualApproval(list) ==
    /\ \E x, y \in list : x[1] # y[1]
    /\ \E x \in list : x[2] = Operator
    /\ \E x \in list : x[2] = SafetyOfficer

Stored == {d \in DecisionId : status[d] # "none"}

\* createDecision: a creation in the same millisecond, by the same controller,
\* on the same snapshot has the same id and replaces the stored decision.
CreateDecision(c, at, a) ==
    LET d == [controller |-> c, at |-> at, seq |-> seq + Lag] IN
    /\ GateOpen
    /\ c = Fcfs => a = HoldPlan
    /\ Advance
    /\ Len(trail[d]) < MaxTrail
    /\ Cardinality(Stored \cup {d}) <= MaxDecisions
    /\ status' = [status EXCEPT ![d] = "pending_approval"]
    /\ approvals' = [approvals EXCEPT ![d] = {}]
    /\ recommended' = [recommended EXCEPT ![d] = a]
    /\ Log(d, "created")
    /\ UNCHANGED <<wall, running, scenario, receipts, coreReceipt, coreKeys, applied>>

\* Mutation: what exists can be approved, whatever became of it.
ApproveAnyDecision(d, list) ==
    /\ status[d] # "none"
    /\ DualApproval(list)
    /\ status' = [status EXCEPT ![d] = "approved"]
    /\ approvals' = [approvals EXCEPT ![d] = list]
    /\ Log(d, "approved")
    /\ UNCHANGED <<simVars, recommended, receipts, coreReceipt, coreKeys, applied>>

ApproveDecision(d, list) ==
    /\ status[d] = "pending_approval"
    /\ DualApproval(list)
    /\ status' = [status EXCEPT ![d] = "approved"]
    /\ approvals' = [approvals EXCEPT ![d] = list]
    /\ Log(d, "approved")
    /\ UNCHANGED <<simVars, recommended, receipts, coreReceipt, coreKeys, applied>>

TakesEffect(d, k) ==
    /\ Install(d, recommended[d], Lag)
    /\ status' = [status EXCEPT ![d] = "executed"]
    /\ receipts' = [receipts EXCEPT ![k] = {d}]
    /\ applied' = [applied EXCEPT ![d] = @ + 1]
    /\ Log(d, "executed")
    /\ UNCHANGED <<wall, running, scenario, approvals, recommended, coreReceipt, coreKeys>>

\* Mutations: only the key tells executions apart; the approval is forgotten; the
\* gate is; the status is not stored.
ExecuteOncePerKey(d, k) ==
    receipts[k] = {} /\ status[d] \in {"approved", "executed"} /\ GateOpen /\ TakesEffect(d, k)

ExecuteUnapproved(d, k) ==
    /\ receipts[k] = {}
    /\ status[d] \in {"pending_approval", "approved"}
    /\ GateOpen
    /\ TakesEffect(d, k)

ExecuteUngated(d, k) == receipts[k] = {} /\ status[d] = "approved" /\ TakesEffect(d, k)

ExecuteUnrecorded(d, k) ==
    /\ receipts[k] = {} /\ status[d] = "approved" /\ GateOpen
    /\ Install(d, recommended[d], Lag)
    /\ receipts' = [receipts EXCEPT ![k] = {d}]
    /\ applied' = [applied EXCEPT ![d] = @ + 1]
    /\ Log(d, "executed")
    /\ UNCHANGED <<wall, running, scenario, status, approvals, recommended, coreReceipt, coreKeys>>

\* executeDecision with a key already receipted replays that receipt and changes
\* nothing; the two actions below are the calls with a new key.
ExecuteDecision(d, k) ==
    /\ receipts[k] = {}
    /\ status[d] = "approved"
    /\ GateOpen
    /\ TakesEffect(d, k)

ExecuteDecisionBlocked(d, k) ==
    /\ receipts[k] = {}
    /\ status[d] = "approved"
    /\ ~GateOpen
    /\ status' = [status EXCEPT ![d] = "failed"]
    /\ Log(d, "failed")
    /\ UNCHANGED <<simVars, approvals, recommended, receipts, coreReceipt, coreKeys, applied>>

\* Mutation: the rollback is recorded and the slot left alone.
RollbackOnPaper(d) ==
    /\ status[d] = "executed"
    /\ status' = [status EXCEPT ![d] = "rolled_back"]
    /\ Log(d, "rolled_back")
    /\ UNCHANGED <<simVars, approvals, recommended, receipts, coreReceipt, coreKeys, applied>>

\* rollbackDecision: 'hold-plan' replaces whatever is in the slot, without
\* catching up first, and even while the simulator is stopped.
RollbackDecision(d) ==
    /\ status[d] = "executed"
    /\ Install(d, HoldPlan, 0)
    /\ status' = [status EXCEPT ![d] = "rolled_back"]
    /\ Log(d, "rolled_back")
    /\ UNCHANGED <<wall, running, scenario, approvals, recommended, receipts,
                   coreReceipt, coreKeys, applied>>

\* executeCorePlan with a new key: the plan must name the current snapshot.  The
\* paired baseline tick is taken on a checkpoint and restored, so it leaves no
\* trace here.
Fresh(p) == p.seq = seq + Lag

\* Mutation: a plan for an older snapshot is not refused.
ExecuteStaleCorePlan(p, k) ==
    /\ coreKeys[k] = {} /\ GateOpen
    /\ coreReceipt[p] = "none"
    /\ Install(p, CoreAction, Lag)
    /\ coreReceipt' = [coreReceipt EXCEPT ![p] = "acknowledged"]
    /\ coreKeys' = [coreKeys EXCEPT ![k] = {p}]
    /\ applied' = [applied EXCEPT ![p] = @ + 1]
    /\ UNCHANGED <<wall, running, scenario, status, approvals, recommended, receipts, trail>>

ExecuteCorePlan(p, k) ==
    /\ coreKeys[k] = {}
    /\ GateOpen
    /\ Fresh(p)
    /\ Install(p, CoreAction, Lag)
    /\ coreReceipt' = [coreReceipt EXCEPT ![p] = "acknowledged"]
    /\ coreKeys' = [coreKeys EXCEPT ![k] = {p}]
    /\ applied' = [applied EXCEPT ![p] = @ + 1]
    /\ UNCHANGED <<wall, running, scenario, status, approvals, recommended, receipts, trail>>

RollbackCorePlan(p) ==
    /\ coreReceipt[p] = "acknowledged"
    /\ Install(p, HoldPlan, 0)
    /\ coreReceipt' = [coreReceipt EXCEPT ![p] = "rolled_back"]
    /\ UNCHANGED <<wall, running, scenario, status, approvals, recommended, receipts,
                   coreKeys, trail, applied>>

----------------------------------------------------------------------------
SimulatorNext ==
    /\ \/ WallTick
       \/ Snapshot
       \/ \E on \in BOOLEAN : SetRunning(on)
       \/ \E s \in Scenario : InjectScenario(s)
    /\ UNCHANGED ctlVars

DecisionNext ==
    \/ \E c \in Controller, at \in Stamp, a \in Action : CreateDecision(c, at, a)
    \/ \E d \in DecisionId, list \in ApprovalRequest : ApproveDecision(d, list)
    \/ \E d \in DecisionId : \E k \in KeysFor(d) :
          ExecuteDecision(d, k) \/ ExecuteDecisionBlocked(d, k)
    \/ \E d \in DecisionId : RollbackDecision(d)

\* A core plan handed to executeCorePlan was inferred from a snapshot that exists.
CoreNext ==
    \/ \E p \in CoreId : /\ p.seq <= seq
                         /\ \E k \in KeysFor(p) : ExecuteCorePlan(p, k)
    \/ \E p \in CoreId : RollbackCorePlan(p)

Next == SimulatorNext \/ DecisionNext \/ CoreNext

Spec == Init /\ [][Next]_vars

----------------------------------------------------------------------------
\* The effect of a decision or of a core plan reaches the simulator at most
\* once, whatever keys the calls carry, however often they are retried and
\* whatever is created anew in between (executeDecision, executeCorePlan).
AppliedOnce == \A s \in Subject : applied[s] <= 1

\* The stored status tells the truth about the simulator: a decision reads
\* executed or rolled back exactly when its effect was applied, and a core
\* receipt exists exactly when its plan was.
StatusIsTruthful ==
    /\ \A d \in DecisionId : status[d] \in {"executed", "rolled_back"} <=> applied[d] > 0
    /\ \A p \in CoreId : coreReceipt[p] # "none" <=> applied[p] > 0

\* Every decision that reached the simulator was approved by two different
\* people, one as operator and one as safety officer (approveDecision).
FourEyes ==
    \A d \in DecisionId : applied[d] > 0 =>
        \E x, y \in approvals[d] :
            x[1] # y[1] /\ x[2] = Operator /\ y[2] = SafetyOfficer

\* What was rolled back has no effect left: the slot never again holds an
\* action of a rolled back subject other than the hold the rollback installed.
RolledBackIsInert ==
    \A c \in control :
        (c.by \in DecisionId /\ status[c.by] = "rolled_back") \/
        (c.by \in CoreId /\ coreReceipt[c.by] = "rolled_back")
        => c.action = HoldPlan

\* A control ages exactly with the simulated ticks since it was installed, also
\* across stops, catch-up jumps and forced ticks, and is gone when it runs out.
AgesWithTheClock ==
    \A c \in control : /\ c.left > 0
                       /\ c.left + (seq - c.since) = TicksOf(c.action)

\* A replayed key answers for something that was really executed.
ReceiptsAreEarned ==
    /\ \A k \in DecisionKey : \A d \in receipts[k] : applied[d] > 0
    /\ \A k \in CoreKey : \A p \in coreKeys[k] : applied[p] > 0

\* The audit trail of a decision is a life: an execution directly follows the
\* approval it needed, a rollback directly follows an execution, and nothing
\* follows a rollback.
TrailIsALife ==
    \A d \in DecisionId : \A i \in 1..Len(trail[d]) :
        /\ trail[d][i] \in {"executed", "failed"} => i > 1 /\ trail[d][i - 1] = "approved"
        /\ trail[d][i] = "approved" => i > 1 /\ trail[d][i - 1] = "created"
        /\ trail[d][i] = "rolled_back" => /\ i = Len(trail[d])
                                          /\ i > 1 /\ trail[d][i - 1] = "executed"
        /\ trail[d][i] = "executed" => Len(trail[d]) <= i + 1

\* The books are right: keys, trail and slot tell one story, that of what was applied.
BooksAreRight == ReceiptsAreEarned /\ TrailIsALife /\ RolledBackIsInert /\ AgesWithTheClock

\* Stopped or without data the loop fails closed: no control but a hold enters
\* the slot, and the clock of a stopped simulator stands still.
FailsClosed ==
    [][~GateOpen => /\ applied' = applied
                    /\ \A c \in control' \ control : c.action = HoldPlan \/
                            \E e \in control : e.by = c.by /\ e.since = c.since
                    /\ ~running => seq' = seq]_vars

\* A core plan takes effect on the tick right after the snapshot it was inferred
\* from: no tick goes by in between, and the paired baseline adds none.
CorePlanHitsItsSnapshot ==
    [][\A p \in CoreId : applied'[p] # applied[p] => seq' = p.seq + 1]_vars

\* Once executed, a decision is never lost or replaced: it stays executed with
\* the approvals it was executed under, until it is rolled back for good.
ExecutedIsFinal ==
    [][\A d \in DecisionId :
          /\ status[d] = "executed" => status'[d] \in {"executed", "rolled_back"}
          /\ status[d] = "rolled_back" => status'[d] = "rolled_back"
          /\ status[d] \in {"executed", "rolled_back"} =>
                approvals'[d] = approvals[d] /\ recommended'[d] = recommended[d]]_vars

\* Decisions and core plans together keep the promise of SimulationRelease: a
\* decision is cleared while it is approved by two people, a core plan while the
\* snapshot it was inferred from is the current one.
Cleared ==
    {d \in DecisionId : status[d] = "approved" /\ DualApproval(approvals[d])}
        \cup {p \in CoreId : Fresh(p)}
Released ==
    {d \in DecisionId : status[d] \in {"executed", "rolled_back"}}
        \cup {p \in CoreId : coreReceipt[p] # "none"}
Withdrawn ==
    {d \in DecisionId : status[d] = "rolled_back"}
        \cup {p \in CoreId : coreReceipt[p] = "rolled_back"}

Promise == INSTANCE SimulationRelease WITH
    open <- GateOpen, cleared <- Cleared, released <- Released, withdrawn <- Withdrawn

KeepsThePromise == Promise!Spec

=============================================================================
