--------------------------- MODULE CoreProposals ---------------------------
(***************************************************************************)
(* The core proposal routes of the HTTP middleware                         *)
(* (server/publicEvidencePlugin.ts) on top of OperationalControl.          *)
(*                                                                         *)
(* A proposal is a mutable object in the map coreProposals.  Three of the  *)
(* routes await something between reading and writing: infer awaits the    *)
(* model evidence after it took the snapshot, approve and rollback await   *)
(* the request body after they looked the proposal up.  A route in flight  *)
(* therefore holds a snapshot or a reference to an object while others     *)
(* run, and it puts its object back into the map when it ends.             *)
(***************************************************************************)
EXTENDS OperationalControl

CONSTANTS
    Call,         \* requests in flight at one time
    MaxObjects    \* bound: proposal objects ever made

ASSUME ProposalAssumption == MaxObjects \in Nat

VARIABLES
    object,    \* the proposal objects, by address
    stored,    \* coreProposals: address stored for an id, at most one
    pending    \* what a suspended route holds, nothing when the call is free

propVars == <<object, stored, pending>>
allVars == <<vars, propVars>>

Approval == {"pending_simulation_review", "approved_for_sandbox", "not_required"}
Execution == {"not_executed", "executed", "rolled_back"}
Address == 1..MaxObjects

\* The receipt of an executed proposal is the one stored for 'receipt'.
Proposal == [id: CoreId, approval: Approval, approvers: SUBSET Approvals,
             execution: Execution, receipt: SUBSET CoreId]

Suspended ==
    [route: {"infer"}, seq: 0..MaxSeq, clean: BOOLEAN]
        \cup [route: {"approve", "rollback"}, at: Address]

ProposalTypeOK ==
    /\ TypeOK
    /\ object \in Seq(Proposal) /\ Len(object) <= MaxObjects
    /\ stored \in [CoreId -> SUBSET Address]
    /\ pending \in [Call -> SUBSET Suspended]
    /\ \A p \in CoreId : \A i \in stored[p] :
          stored[p] = {i} /\ i <= Len(object) /\ object[i].id = p

ProposalInit ==
    /\ Init
    /\ object = <<>>
    /\ stored = [p \in CoreId |-> {}]
    /\ pending = [c \in Call |-> {}]

----------------------------------------------------------------------------
\* POST /api/rl/core/infer up to the await: the snapshot catches up.
InferStart(c) ==
    /\ pending[c] = {}
    /\ Advance
    /\ pending' = [pending EXCEPT ![c] =
          {[route |-> "infer", seq |-> seq + Lag, clean |-> scenario # DataLoss]}]
    /\ UNCHANGED <<wall, running, scenario, ctlVars, object, stored>>

\* Mutation: the proposal is filed under the snapshot of the moment it is made.
InferFiledLate(c, plan, admitted) ==
    \E held \in pending[c] :
        /\ held.route = "infer"
        /\ admitted => held.clean
        /\ Len(object) < MaxObjects
        /\ object' = Append(object,
              [id |-> [plan |-> plan, seq |-> held.seq],
               approval |-> IF admitted THEN "pending_simulation_review" ELSE "not_required",
               approvers |-> {}, execution |-> "not_executed", receipt |-> {}])
        /\ stored' = [stored EXCEPT ![[plan |-> plan, seq |-> seq]] = {Len(object) + 1}]
        /\ pending' = [pending EXCEPT ![c] = {}]
        /\ UNCHANGED vars

\* After the await: the ensemble votes for a plan, the gates admit it or not (a
\* snapshot without data is never admitted), and a new object takes the place
\* of whatever is stored under the same id.
InferFinish(c, plan, admitted) ==
    \E held \in pending[c] :
        LET p == [plan |-> plan, seq |-> held.seq] IN
        /\ held.route = "infer"
        /\ admitted => held.clean
        /\ Len(object) < MaxObjects
        /\ object' = Append(object,
              [id |-> p,
               approval |-> IF admitted THEN "pending_simulation_review" ELSE "not_required",
               approvers |-> {}, execution |-> "not_executed", receipt |-> {}])
        /\ stored' = [stored EXCEPT ![p] = {Len(object) + 1}]
        /\ pending' = [pending EXCEPT ![c] = {}]
        /\ UNCHANGED vars

\* POST .../approve up to the await; a proposal that abstained returns at once.
ApproveStart(c, p) ==
    /\ pending[c] = {}
    /\ \E i \in stored[p] :
          /\ object[i].approval # "not_required"
          /\ pending' = [pending EXCEPT ![c] = {[route |-> "approve", at |-> i]}]
    /\ UNCHANGED <<vars, object, stored>>

\* After the await nothing is read again; a list that is not dual throws.
ApproveFinish(c, list) ==
    \E held \in pending[c] :
        /\ held.route = "approve"
        /\ DualApproval(list)
        /\ object' = [object EXCEPT ![held.at].approval = "approved_for_sandbox",
                                    ![held.at].approvers = list]
        /\ stored' = [stored EXCEPT ![object[held.at].id] = {held.at}]
        /\ pending' = [pending EXCEPT ![c] = {}]
        /\ UNCHANGED vars

\* POST .../execute, without an await: executeCorePlan applies the plan, or
\* answers a known key with the receipt it has for it.
Executed(i, r) ==
    object' = [object EXCEPT ![i].execution = "executed", ![i].receipt = {r}]

ExecuteProposal(p, k) ==
    \E i \in stored[p] :
        /\ object[i].approval = "approved_for_sandbox"
        /\ ExecuteCorePlan(p, k)
        /\ Executed(i, p)
        /\ UNCHANGED <<stored, pending>>

ExecuteReplay(p, k) ==
    \E i \in stored[p] : \E r \in coreKeys[k] :
        /\ object[i].approval = "approved_for_sandbox"
        /\ Executed(i, r)
        /\ UNCHANGED <<vars, stored, pending>>

\* POST .../rollback up to the await, and after it: the service rolls the plan
\* back or throws.
RollbackStart(c, p) ==
    /\ pending[c] = {}
    /\ \E i \in stored[p] :
          pending' = [pending EXCEPT ![c] = {[route |-> "rollback", at |-> i]}]
    /\ UNCHANGED <<vars, object, stored>>

RollbackFinish(c) ==
    \E held \in pending[c] :
        /\ held.route = "rollback"
        /\ RollbackCorePlan(object[held.at].id)
        /\ object' = [object EXCEPT ![held.at].execution = "rolled_back",
                                    ![held.at].receipt = {object[held.at].id}]
        /\ stored' = [stored EXCEPT ![object[held.at].id] = {held.at}]
        /\ pending' = [pending EXCEPT ![c] = {}]

\* The body is malformed, an approval is not dual, or the service throws.
CallFails(c) ==
    /\ pending[c] # {}
    /\ pending' = [pending EXCEPT ![c] = {}]
    /\ UNCHANGED <<vars, object, stored>>

ProposalNext ==
    \/ (SimulatorNext \/ DecisionNext) /\ UNCHANGED propVars
    \/ \E c \in Call : \/ InferStart(c)
                       \/ \E plan \in Plan, admitted \in BOOLEAN : InferFinish(c, plan, admitted)
                       \/ \E p \in CoreId : ApproveStart(c, p) \/ RollbackStart(c, p)
                       \/ \E list \in ApprovalRequest : ApproveFinish(c, list)
                       \/ RollbackFinish(c)
                       \/ CallFails(c)
    \/ \E p \in CoreId : \E k \in KeysFor(p) : ExecuteProposal(p, k) \/ ExecuteReplay(p, k)

ProposalSpec == ProposalInit /\ [][ProposalNext]_allVars

----------------------------------------------------------------------------
\* However infer, approve and execute requests overlap, a plan runs only if some
\* proposal for it was admitted and approved by both roles, and it runs on the
\* very tick that proposal was inferred from (the execute route's guard, and the
\* object identity that survives the awaits).
RunsOnlyApproved ==
    \A p \in CoreId : applied[p] > 0 =>
        \E i \in 1..Len(object) :
            /\ object[i].id = p
            /\ object[i].approval = "approved_for_sandbox"
            /\ DualApproval(object[i].approvers)

\* While every client uses the keys of the page, a report that says executed or
\* rolled back is about a plan that was, and carries its own receipt.
ReportsAreEarned ==
    \A i \in 1..Len(object) :
        LET o == object[i] IN
        /\ o.execution = "executed" => applied[o.id] = 1 /\ o.receipt = {o.id}
        /\ o.execution = "rolled_back" =>
              coreReceipt[o.id] = "rolled_back" /\ o.receipt = {o.id}

\* What runs was approved, and what is reported happened.
ProposalsAreSound == ProposalTypeOK /\ RunsOnlyApproved /\ ReportsAreEarned

\* The composition keeps the promise of SimulationRelease with core plans
\* cleared by an approved proposal in the map, on its own snapshot.
ClearedPlans ==
    {p \in CoreId : /\ Fresh(p)
                    /\ \E i \in stored[p] : /\ object[i].approval = "approved_for_sandbox"
                                            /\ DualApproval(object[i].approvers)}

PlanPromise == INSTANCE SimulationRelease WITH
    open <- GateOpen, cleared <- (Cleared \ CoreId) \cup ClearedPlans,
    released <- Released, withdrawn <- Withdrawn

PlansKeepThePromise == PlanPromise!Spec

----------------------------------------------------------------------------
\* What the documentation says of the report, and the code does not keep.

\* The report of a plan that is in force says that it was executed.
ExecutionIsReported ==
    \A p \in CoreId : coreReceipt[p] = "acknowledged" =>
        \A i \in stored[p] : object[i].execution = "executed"

\* A plan that was rolled back is not reported as executed again.
RollbackIsReported ==
    \A p \in CoreId : coreReceipt[p] = "rolled_back" =>
        \A i \in stored[p] : object[i].execution # "executed"

=============================================================================
