------------------------- MODULE CoreProposals_proofs -------------------------
(***************************************************************************)
(* Theorems about CoreProposals, for any number of calls in flight and of  *)
(* proposal objects, on top of those about OperationalControl.             *)
(*                                                                         *)
(* A route that was suspended acts on what it looked up before.  Two facts *)
(* make that harmless for what runs: a snapshot it holds has been reached, *)
(* so that whatever it leads to is one more call of the service; and an    *)
(* object never changes its id, and never loses an approval.               *)
(***************************************************************************)
EXTENDS CoreProposals, OperationalControl_proofs

\* Snapshots held by a call or named by an object have been reached, and addresses held
\* are those of objects.
HeldIsKnown ==
    /\ \A c \in Call : \A held \in pending[c] :
          /\ held.route = "infer" => held.seq <= seq
          /\ held.route # "infer" => held.at \in 1..Len(object)
    /\ \A i \in 1..Len(object) : object[i].id.seq <= seq

\* Every approved object, in the map or not, was approved by two people.
ApprovedByBoth ==
    \A i \in 1..Len(object) :
        object[i].approval = "approved_for_sandbox" => DualApproval(object[i].approvers)

ProposalInv ==
    ProposalTypeOK /\ BooksInv /\ HeldIsKnown /\ ApprovedByBoth /\ RunsOnlyApproved

\* A key made of the plan's identifier answers for that plan only.
OwnKeys == \A k \in CoreKey : coreKeys[k] \subseteq {k}

ReportInv == ProposalInv /\ OwnKeys /\ ReportsAreEarned

----------------------------------------------------------------------------
LEMMA ObjectType ==
    ASSUME ProposalTypeOK, NEW i \in 1..Len(object)
    PROVE  object[i] \in Proposal /\ object[i].id \in CoreId
<1>1. object \in Seq(Proposal)
  BY DEF ProposalTypeOK
<1>2. object[i] \in Proposal
  BY <1>1
<1> QED
  BY <1>2 DEF Proposal

\* Every step of the routes is a step of the service, or leaves the service alone: infer
\* takes a snapshot, and what execute runs was inferred from one.
LEMMA RouteStep ==
    ASSUME ProposalInv, [ProposalNext]_allVars
    PROVE  [Next]_vars
<1>1. /\ TypeOK /\ SimTypeOK /\ AgesWithTheClock /\ HeldIsKnown
  BY DEF ProposalInv, ProposalTypeOK, TypeOK, BooksInv, BooksAreRight
<1>2. ASSUME NEW c \in Call, InferStart(c)
      PROVE  [Next]_vars
  <2>1. Advance /\ UNCHANGED <<wall, running, scenario, ctlVars>>
    BY <1>2 DEF InferStart
  <2>2. CASE Lag > 0
    BY <2>1, <2>2 DEF Next, SimulatorNext, Snapshot
  <2>3. CASE Lag = 0
    <3>1. seq' = seq
      BY <1>1, <2>1, <2>3, LagType DEF Advance
    <3>2. control' = Aged(control, 0)
      BY <2>1, <2>3 DEF Advance
    <3>3. \A e \in control : e.left > 0 /\ [e EXCEPT !.left = @ - 0] = e
      <4>1. \A e \in control : e \in Effect /\ e.left > 0
        BY <1>1 DEF AgesWithTheClock, SimTypeOK
      <4> QED
        BY <4>1 DEF Effect
    <3>4. Aged(control, 0) = control
      BY <3>3 DEF Aged
    <3> QED
      BY <2>1, <3>1, <3>2, <3>4 DEF vars, simVars
  <2> QED
    BY <1>1, <2>2, <2>3, LagType
<1>3. ASSUME NEW p \in CoreId, NEW k \in KeysFor(p), ExecuteProposal(p, k)
      PROVE  [Next]_vars
  <2>1. ExecuteCorePlan(p, k)
    BY <1>3 DEF ExecuteProposal
  <2>2. PICK i \in stored[p] : TRUE
    BY <1>3 DEF ExecuteProposal
  <2>3. i \in 1..Len(object) /\ object[i].id = p
    BY <2>2 DEF ProposalInv, ProposalTypeOK, Address
  <2>4. p.seq <= seq
    BY <1>1, <2>3 DEF HeldIsKnown
  <2> QED
    BY <2>1, <2>4 DEF Next, CoreNext
<1>4. ASSUME NEW c \in Call, RollbackFinish(c)
      PROVE  [Next]_vars
  <2>1. PICK held \in pending[c] : held.route = "rollback" /\ RollbackCorePlan(object[held.at].id)
    BY <1>4 DEF RollbackFinish
  <2>2. held.at \in 1..Len(object)
    BY <1>1, <2>1 DEF HeldIsKnown
  <2>3. object[held.at].id \in CoreId
    BY <2>2, ObjectType DEF ProposalInv
  <2> QED
    BY <2>1, <2>3 DEF Next, CoreNext
<1>5. CASE UNCHANGED allVars
  BY <1>5 DEF allVars
<1>6. CASE (SimulatorNext \/ DecisionNext) /\ UNCHANGED propVars
  BY <1>6 DEF Next
<1>7. ASSUME NEW c \in Call,
             \/ \E plan \in Plan, admitted \in BOOLEAN : InferFinish(c, plan, admitted)
             \/ \E p \in CoreId : ApproveStart(c, p) \/ RollbackStart(c, p)
             \/ \E list \in ApprovalRequest : ApproveFinish(c, list)
             \/ CallFails(c)
      PROVE  UNCHANGED vars
  BY <1>7 DEF InferFinish, ApproveStart, RollbackStart, ApproveFinish, CallFails
<1>8. ASSUME NEW p \in CoreId, NEW k \in KeysFor(p), ExecuteReplay(p, k)
      PROVE  UNCHANGED vars
  BY <1>8 DEF ExecuteReplay
<1> QED
  BY <1>2, <1>3, <1>4, <1>5, <1>6, <1>7, <1>8 DEF ProposalNext

\* No step of the service turns the clock back or changes which objects exist.
LEMMA ClockForward ==
    ASSUME BooksInv, [Next]_vars
    PROVE  seq \in Nat /\ seq' \in Nat /\ seq' >= seq
<1>1. TypeOK /\ SimTypeOK /\ SimTypeOK'
  BY BooksNextInv DEF BooksInv, Inv, TypeOK
<1>2. seq \in Nat /\ seq' \in Nat
  BY <1>1, SimulatorAssumption DEF SimTypeOK
<1>3. ASSUME NEW by \in Subject, NEW a \in Action, NEW n \in Nat, Install(by, a, n)
      PROVE  seq' >= seq
  BY <1>1, <1>2, <1>3, InstallType
<1>4. Advance => seq' >= seq
  BY <1>1, AdvanceType
<1>5. UNCHANGED seq => seq' >= seq
  BY <1>2
<1>6. CASE SimulatorNext
  BY <1>2, <1>4, <1>5, <1>6
  DEF SimulatorNext, WallTick, Snapshot, SetRunning, InjectScenario
<1>7. CASE DecisionNext
  <2>1. Lag \in Nat /\ HoldPlan \in Action /\ \A d \in DecisionId : recommended[d] \in Action
    BY <1>1, LagType, SimulatorAssumption DEF TypeOK
  <2> QED
    BY <1>2, <1>3, <1>4, <1>5, <1>7, <2>1, ControlAssumption
    DEF DecisionNext, CreateDecision, ApproveDecision, ExecuteDecision, TakesEffect,
        ExecuteDecisionBlocked, RollbackDecision, simVars
<1>8. CASE CoreNext
  BY <1>1, <1>2, <1>3, <1>8, LagType, SimulatorAssumption, ControlAssumption
  DEF CoreNext, ExecuteCorePlan, RollbackCorePlan
<1>9. CASE UNCHANGED vars
  BY <1>2, <1>9 DEF vars, simVars
<1> QED
  BY <1>2, <1>6, <1>7, <1>8, <1>9 DEF Next

----------------------------------------------------------------------------
\* What a step of the routes does to the objects: the service is asked for what is applied,
\* and objects keep their place, their id and their approval.
ObjectsGrow ==
    /\ Len(object') >= Len(object)
    /\ \A i \in 1..Len(object) :
          /\ object'[i].id = object[i].id
          /\ \/ object'[i].approval = object[i].approval
                /\ object'[i].approvers = object[i].approvers
             \/ object'[i].approval = "approved_for_sandbox"
                /\ DualApproval(object'[i].approvers)
    /\ \A i \in 1..Len(object') \ 1..Len(object) :
          object'[i].approval # "approved_for_sandbox" /\ object'[i].id.seq <= seq

\* The maps and the calls of a step, in the shape they keep.
RoutesKept ==
    /\ object' \in Seq(Proposal) /\ Len(object') <= MaxObjects
    /\ \A p \in CoreId : \A i \in stored'[p] :
          stored'[p] = {i} /\ i \in 1..Len(object') /\ object'[i].id = p
    /\ stored' \in [CoreId -> SUBSET Address]
    /\ pending' \in [Call -> SUBSET Suspended]
    /\ \A c \in Call : \A held \in pending'[c] :
          /\ held.route = "infer" => held.seq <= seq'
          /\ held.route # "infer" => held.at \in 1..Len(object')
    /\ ObjectsGrow

\* An object replaced by another one with the same id.
LEMMA ObjectReplaced ==
    ASSUME ProposalTypeOK, NEW i \in 1..Len(object), NEW new \in Proposal,
           new.id = object[i].id, object' = [object EXCEPT ![i] = new],
           \/ new.approval = object[i].approval /\ new.approvers = object[i].approvers
           \/ new.approval = "approved_for_sandbox" /\ DualApproval(new.approvers)
    PROVE  /\ object' \in Seq(Proposal) /\ Len(object') = Len(object)
           /\ object'[i] = new
           /\ \A n \in 1..Len(object) : n # i => object'[n] = object[n]
           /\ \A n \in 1..Len(object) : object'[n].id = object[n].id
           /\ ObjectsGrow
<1>1. object \in Seq(Proposal) /\ Len(object) \in Nat
  BY DEF ProposalTypeOK
<1>2. object' \in Seq(Proposal) /\ Len(object') = Len(object)
  BY <1>1
<1>3. object'[i] = new /\ \A n \in 1..Len(object) : n # i => object'[n] = object[n]
  BY <1>1
<1>4. \A n \in 1..Len(object) : object'[n].id = object[n].id
  BY <1>3
<1>5. ObjectsGrow
  BY <1>1, <1>2, <1>3, <1>4 DEF ObjectsGrow
<1> QED
  BY <1>2, <1>3, <1>4, <1>5

\* A step that puts at most one object into the map, under its id, and suspends a call with
\* nothing but a snapshot or an object that is there.
LEMMA MapKept ==
    ASSUME ProposalInv, seq' \in Nat, seq' >= seq,
           object' \in Seq(Proposal), Len(object') <= MaxObjects, ObjectsGrow,
           \/ stored' = stored
           \/ \E i \in 1..Len(object') : stored' = [stored EXCEPT ![object'[i].id] = {i}],
           pending' \in [Call -> SUBSET Suspended],
           \A c \in Call : \A held \in pending'[c] :
              \/ held \in pending[c]
              \/ held.route = "infer" /\ held.seq <= seq'
              \/ held.route # "infer" /\ held.at \in 1..Len(object)
    PROVE  RoutesKept
<1>1. /\ ProposalTypeOK /\ HeldIsKnown
      /\ stored \in [CoreId -> SUBSET Address]
      /\ {Len(object), Len(object'), seq} \subseteq Nat /\ Len(object') >= Len(object)
  BY SimulatorAssumption DEF ProposalInv, ProposalTypeOK, TypeOK, SimTypeOK, ObjectsGrow
<1>2. \A n \in 1..Len(object) : n \in 1..Len(object') /\ object'[n].id = object[n].id
  BY <1>1 DEF ObjectsGrow
<1>3. /\ stored' \in [CoreId -> SUBSET Address]
      /\ \A p \in CoreId : \/ stored'[p] = stored[p]
                           \/ \E i \in 1..Len(object') : stored'[p] = {i} /\ object'[i].id = p
  <2>1. CASE stored' = stored
    BY <1>1, <2>1
  <2>2. ASSUME NEW i \in 1..Len(object'), stored' = [stored EXCEPT ![object'[i].id] = {i}]
        PROVE  /\ stored' \in [CoreId -> SUBSET Address]
               /\ \A p \in CoreId : \/ stored'[p] = stored[p]
                                    \/ stored'[p] = {i} /\ object'[i].id = p
    <3>1. i \in Address
      BY <1>1, ProposalAssumption DEF Address
    <3> QED
      BY <1>1, <2>2, <3>1
  <2> QED
    BY <2>1, <2>2
<1>4. ASSUME NEW p \in CoreId, NEW n \in stored'[p]
      PROVE  stored'[p] = {n} /\ n \in 1..Len(object') /\ object'[n].id = p
  <2>1. CASE stored'[p] = stored[p]
    <3>1. stored[p] = {n} /\ n <= Len(object) /\ object[n].id = p /\ n \in Address
      BY <1>1, <2>1 DEF ProposalTypeOK
    <3>2. n \in 1..Len(object)
      BY <1>1, <3>1, ProposalAssumption DEF Address
    <3> QED
      BY <1>2, <2>1, <3>1, <3>2
  <2> QED
    BY <1>3, <2>1
<1>5. ASSUME NEW c \in Call, NEW held \in pending'[c]
      PROVE  /\ held.route = "infer" => held.seq <= seq'
             /\ held.route # "infer" => held.at \in 1..Len(object')
  <2>1. CASE held \in pending[c]
    <3>1. held \in Suspended
      BY <1>1, <2>1 DEF ProposalTypeOK
    <3>2. /\ held.route = "infer" => held.seq <= seq /\ held.seq \in Nat
          /\ held.route # "infer" => held.at \in 1..Len(object)
      BY <1>1, <2>1, <3>1, SimulatorAssumption DEF HeldIsKnown, Suspended
    <3> QED
      BY <1>1, <1>2, <3>2
  <2> QED
    BY <1>2, <2>1
<1> QED
  BY <1>3, <1>4, <1>5 DEF RoutesKept

\* Whatever leaves the objects alone.
LEMMA SameObjects ==
    ASSUME ProposalInv, object' = object
    PROVE  object' \in Seq(Proposal) /\ Len(object') <= MaxObjects /\ ObjectsGrow
<1>1. object \in Seq(Proposal) /\ Len(object) \in Nat /\ Len(object) <= MaxObjects
  BY DEF ProposalInv, ProposalTypeOK
<1> QED
  BY <1>1 DEF ObjectsGrow

LEMMA InferStartRoutes ==
    ASSUME ProposalInv, NEW c \in Call, InferStart(c), seq' \in Nat, seq' >= seq
    PROVE  RoutesKept
<1> DEFINE new == [route |-> "infer", seq |-> seq + Lag, clean |-> scenario # DataLoss]
<1>1. /\ SimTypeOK /\ pending \in [Call -> SUBSET Suspended] /\ Advance
      /\ pending' = [pending EXCEPT ![c] = {new}]
      /\ object' = object /\ stored' = stored
  BY DEF ProposalInv, ProposalTypeOK, TypeOK, InferStart
<1>2. new \in Suspended /\ new.seq = seq'
  BY <1>1, AdvanceType DEF Suspended
<1> HIDE DEF new
<1>3. pending' \in [Call -> SUBSET Suspended]
      /\ \A b \in Call : \A held \in pending'[b] : held \in pending[b] \/ held = new
  BY <1>1, <1>2
<1>4. new.route = "infer" /\ new.seq <= seq'
  BY <1>2 DEF new
<1> QED
  BY <1>1, <1>3, <1>4, MapKept, SameObjects

\* infer adds an object at the end, of a snapshot that has been reached.
LEMMA InferFinishRoutes ==
    ASSUME ProposalInv, NEW c \in Call, NEW plan \in Plan, NEW admitted \in BOOLEAN,
           InferFinish(c, plan, admitted)
    PROVE  RoutesKept
<1>1. PICK held \in pending[c] :
         /\ held.route = "infer"
         /\ Len(object) < MaxObjects
         /\ object' = Append(object,
               [id |-> [plan |-> plan, seq |-> held.seq],
                approval |-> IF admitted THEN "pending_simulation_review" ELSE "not_required",
                approvers |-> {}, execution |-> "not_executed", receipt |-> {}])
         /\ stored' = [stored EXCEPT ![[plan |-> plan, seq |-> held.seq]] = {Len(object) + 1}]
         /\ pending' = [pending EXCEPT ![c] = {}]
         /\ UNCHANGED vars
  BY DEF InferFinish
<1> DEFINE new == [id |-> [plan |-> plan, seq |-> held.seq],
                   approval |-> IF admitted THEN "pending_simulation_review" ELSE "not_required",
                   approvers |-> {}, execution |-> "not_executed", receipt |-> {}]
<1>2. /\ object \in Seq(Proposal) /\ Len(object) \in Nat
      /\ pending \in [Call -> SUBSET Suspended] /\ held \in Suspended
      /\ seq \in Nat /\ seq' = seq
  BY <1>1, SimulatorAssumption
  DEF ProposalInv, ProposalTypeOK, TypeOK, SimTypeOK, vars, simVars
<1>3. held.seq \in 0..MaxSeq /\ held.seq <= seq
  BY <1>1, <1>2 DEF Suspended, ProposalInv, HeldIsKnown
<1>4. /\ new \in Proposal /\ new.approval # "approved_for_sandbox" /\ new.id.seq <= seq
      /\ new.id = [plan |-> plan, seq |-> held.seq]
  BY <1>3 DEF Proposal, Approval, Execution, CoreId
<1>5. object' = Append(object, new)
  BY <1>1
<1> HIDE DEF new
<1>6. /\ object' \in Seq(Proposal) /\ Len(object') = Len(object) + 1
      /\ object'[Len(object) + 1] = new
      /\ \A i \in 1..Len(object) : object'[i] = object[i]
  BY <1>2, <1>4, <1>5
<1>7. Len(object') <= MaxObjects /\ Len(object) + 1 \in 1..Len(object')
  BY <1>1, <1>2, <1>6, ProposalAssumption
<1>8. ObjectsGrow
  <2>1. \A i \in 1..Len(object') \ 1..Len(object) : i = Len(object) + 1
    BY <1>2, <1>6
  <2> QED
    BY <1>2, <1>4, <1>6, <2>1 DEF ObjectsGrow
<1>9. stored' = [stored EXCEPT ![object'[Len(object) + 1].id] = {Len(object) + 1}]
  BY <1>1, <1>4, <1>6
<1>10. /\ pending' \in [Call -> SUBSET Suspended]
       /\ \A b \in Call : \A h \in pending'[b] : h \in pending[b]
  BY <1>1, <1>2
<1>11. \E i \in 1..Len(object') : stored' = [stored EXCEPT ![object'[i].id] = {i}]
  BY <1>7, <1>9
<1>12. seq' \in Nat /\ seq' >= seq
  BY <1>2
<1> QED
  BY <1>6, <1>7, <1>8, <1>10, <1>11, <1>12, MapKept

LEMMA LookUpRoutes ==
    ASSUME ProposalInv, NEW c \in Call, NEW p \in CoreId,
           ApproveStart(c, p) \/ RollbackStart(c, p)
    PROVE  RoutesKept
<1>1. PICK i \in stored[p], route \in {"approve", "rollback"} :
         /\ pending' = [pending EXCEPT ![c] = {[route |-> route, at |-> i]}]
         /\ UNCHANGED <<vars, object, stored>>
  BY DEF ApproveStart, RollbackStart
<1> DEFINE new == [route |-> route, at |-> i]
<1>2. /\ pending \in [Call -> SUBSET Suspended] /\ seq \in Nat /\ seq' = seq
      /\ i \in Address /\ i <= Len(object) /\ Len(object) \in Nat
  BY <1>1, SimulatorAssumption
  DEF ProposalInv, ProposalTypeOK, TypeOK, SimTypeOK, vars, simVars
<1>3. i \in 1..Len(object) /\ new \in Suspended
  BY <1>2, ProposalAssumption DEF Address, Suspended
<1>4. new.route # "infer" /\ new.at = i
  OBVIOUS
<1>5. pending' = [pending EXCEPT ![c] = {new}]
  BY <1>1
<1> HIDE DEF new
<1>6. pending' \in [Call -> SUBSET Suspended]
      /\ \A b \in Call : \A held \in pending'[b] : held \in pending[b] \/ held = new
  BY <1>2, <1>3, <1>5
<1> QED
  BY <1>1, <1>2, <1>3, <1>4, <1>6, MapKept, SameObjects

\* approve and rollback end on the object they looked up, execute works on the stored one.
LEMMA ChangeRoutes ==
    ASSUME ProposalInv, seq' \in Nat, seq' >= seq, NEW i \in 1..Len(object),
           NEW new \in Proposal, new.id = object[i].id, object' = [object EXCEPT ![i] = new],
           \/ new.approval = object[i].approval /\ new.approvers = object[i].approvers
           \/ new.approval = "approved_for_sandbox" /\ DualApproval(new.approvers),
           stored' = stored \/ stored' = [stored EXCEPT ![object[i].id] = {i}],
           pending' = pending \/ \E c \in Call : pending' = [pending EXCEPT ![c] = {}]
    PROVE  RoutesKept
<1>1. ProposalTypeOK /\ Len(object) <= MaxObjects /\ pending \in [Call -> SUBSET Suspended]
  BY DEF ProposalInv, ProposalTypeOK
<1>2. /\ object' \in Seq(Proposal) /\ Len(object') = Len(object)
      /\ object'[i].id = object[i].id /\ ObjectsGrow
  BY <1>1, ObjectReplaced
<1>3. \/ stored' = stored
      \/ \E n \in 1..Len(object') : stored' = [stored EXCEPT ![object'[n].id] = {n}]
  BY <1>2
<1>4. /\ pending' \in [Call -> SUBSET Suspended]
      /\ \A b \in Call : \A held \in pending'[b] : held \in pending[b]
  BY <1>1
<1> QED
  BY <1>1, <1>2, <1>3, <1>4, MapKept

LEMMA RoutesStep ==
    ASSUME ProposalInv, [ProposalNext]_allVars
    PROVE  RoutesKept
<1>1. seq' \in Nat /\ seq' >= seq /\ seq \in Nat
  BY RouteStep, ClockForward DEF ProposalInv
<1>2. ProposalTypeOK /\ HeldIsKnown /\ ProposalInv /\ pending \in [Call -> SUBSET Suspended]
  BY DEF ProposalInv, ProposalTypeOK
<1>3. ASSUME UNCHANGED <<object, stored>>, pending' \in [Call -> SUBSET Suspended],
             \A c \in Call : pending'[c] \subseteq pending[c]
      PROVE  RoutesKept
  BY <1>1, <1>2, <1>3, MapKept, SameObjects
<1>4. CASE UNCHANGED propVars
  BY <1>2, <1>3, <1>4 DEF propVars
<1>5. ASSUME NEW c \in Call, CallFails(c)
      PROVE  RoutesKept
  BY <1>2, <1>3, <1>5 DEF CallFails
<1>6. ASSUME NEW c \in Call, NEW list \in ApprovalRequest, ApproveFinish(c, list)
      PROVE  RoutesKept
  <2>1. PICK held \in pending[c] :
           /\ held.route = "approve"
           /\ DualApproval(list)
           /\ object' = [object EXCEPT ![held.at].approval = "approved_for_sandbox",
                                       ![held.at].approvers = list]
           /\ stored' = [stored EXCEPT ![object[held.at].id] = {held.at}]
           /\ pending' = [pending EXCEPT ![c] = {}]
    BY <1>6 DEF ApproveFinish
  <2> DEFINE i == held.at
             new == [object[i] EXCEPT !.approval = "approved_for_sandbox", !.approvers = list]
  <2>2. i \in 1..Len(object) /\ object \in Seq(Proposal)
    BY <1>2, <2>1 DEF HeldIsKnown, ProposalTypeOK
  <2>3. object[i] \in Proposal /\ list \in SUBSET Approvals
    BY <1>2, <2>2, ObjectType DEF Approvals
  <2>4. new \in Proposal /\ new.id = object[i].id /\ new.approval = "approved_for_sandbox"
        /\ new.approvers = list
    BY <2>3 DEF Proposal, Approval
  <2>5. object' = [object EXCEPT ![i] = new]
    BY <2>1, <2>2
  <2> HIDE DEF new
  <2> QED
    BY <1>1, <1>2, <2>1, <2>2, <2>4, <2>5, ChangeRoutes
<1>7. ASSUME NEW i \in 1..Len(object), NEW execution \in Execution, NEW r \in CoreId,
             object' = [object EXCEPT ![i].execution = execution, ![i].receipt = {r}],
             stored' = stored \/ stored' = [stored EXCEPT ![object[i].id] = {i}],
             pending' = pending \/ \E c \in Call : pending' = [pending EXCEPT ![c] = {}]
      PROVE  RoutesKept
  <2> DEFINE new == [object[i] EXCEPT !.execution = execution, !.receipt = {r}]
  <2>1. object[i] \in Proposal /\ object \in Seq(Proposal)
    BY <1>2, ObjectType DEF ProposalTypeOK
  <2>2. /\ new \in Proposal /\ new.id = object[i].id
        /\ new.approval = object[i].approval /\ new.approvers = object[i].approvers
    BY <2>1 DEF Proposal
  <2>3. object' = [object EXCEPT ![i] = new]
    BY <1>7, <2>1
  <2> HIDE DEF new
  <2> QED
    BY <1>1, <1>2, <1>7, <2>2, <2>3, ChangeRoutes
<1>8. ASSUME NEW c \in Call, RollbackFinish(c)
      PROVE  RoutesKept
  <2>1. PICK held \in pending[c] :
           /\ held.route = "rollback"
           /\ object' = [object EXCEPT ![held.at].execution = "rolled_back",
                                       ![held.at].receipt = {object[held.at].id}]
           /\ stored' = [stored EXCEPT ![object[held.at].id] = {held.at}]
           /\ pending' = [pending EXCEPT ![c] = {}]
    BY <1>8 DEF RollbackFinish
  <2>2. held.at \in 1..Len(object) /\ object[held.at].id \in CoreId
    BY <1>2, <2>1, ObjectType DEF HeldIsKnown
  <2> QED
    BY <1>7, <2>1, <2>2 DEF Execution
<1>9. ASSUME NEW p \in CoreId, NEW k \in KeysFor(p), ExecuteProposal(p, k) \/ ExecuteReplay(p, k)
      PROVE  RoutesKept
  <2>1. PICK i \in stored[p], r \in CoreId : Executed(i, r) /\ UNCHANGED <<stored, pending>>
    <3>1. \A h \in CoreKey : coreKeys[h] \subseteq CoreId
      BY <1>2 DEF ProposalTypeOK, TypeOK
    <3>2. k \in CoreKey
      BY DEF KeysFor, CoreKey
    <3> QED
      BY <1>9, <3>1, <3>2 DEF ExecuteProposal, ExecuteReplay
  <2>2. i \in 1..Len(object)
    BY <1>2 DEF ProposalTypeOK, Address
  <2> QED
    BY <1>7, <2>1, <2>2 DEF Executed, Execution
<1> QED
  BY <1>1, <1>2, <1>4, <1>5, <1>6, <1>8, <1>9, InferStartRoutes, InferFinishRoutes, LookUpRoutes
  DEF ProposalNext, allVars, propVars

----------------------------------------------------------------------------
\* What runs was approved: only the execute route applies a plan, of an approved object.
LEMMA AppliedByRoute ==
    ASSUME ProposalInv, [ProposalNext]_allVars, NEW p \in CoreId, applied[p] = 0, applied'[p] > 0
    PROVE  \E i \in 1..Len(object) : /\ object[i].id = p
                                     /\ object[i].approval = "approved_for_sandbox"
<1>1. ProposalTypeOK /\ TypeOK /\ HeldIsKnown
  BY DEF ProposalInv, ProposalTypeOK
<1>2. ~UNCHANGED applied
  OBVIOUS
<1>3. ASSUME DecisionNext
      PROVE  FALSE
  <2>1. PICK d \in DecisionId : \E k \in KeysFor(d) : ExecuteDecision(d, k)
    BY <1>2, <1>3
    DEF DecisionNext, CreateDecision, ApproveDecision, ExecuteDecisionBlocked, RollbackDecision
  <2>2. applied'[p] = applied[p]
    BY <1>1, <2>1, Disjoint, ControlAssumption DEF ExecuteDecision, TakesEffect, TypeOK
  <2> QED
    BY <2>2
<1>4. PICK q \in CoreId : \E k \in KeysFor(q) : ExecuteProposal(q, k)
  BY <1>2, <1>3
  DEF ProposalNext, SimulatorNext, InferStart, InferFinish, ApproveStart, RollbackStart,
      ApproveFinish, RollbackFinish, RollbackCorePlan, CallFails, ExecuteReplay, vars, ctlVars,
      allVars
<1>5. q = p
  BY <1>1, <1>4, ControlAssumption DEF ExecuteProposal, ExecuteCorePlan, TypeOK
<1>6. PICK i \in stored[p] : object[i].approval = "approved_for_sandbox"
  BY <1>4, <1>5 DEF ExecuteProposal
<1>7. i \in 1..Len(object) /\ object[i].id = p
  BY <1>1, <1>6 DEF ProposalTypeOK, Address
<1> QED
  BY <1>6, <1>7

LEMMA ProposalNextInv == ProposalInv /\ [ProposalNext]_allVars => ProposalInv'
<1> SUFFICES ASSUME ProposalInv, [ProposalNext]_allVars PROVE ProposalInv'
  OBVIOUS
<1>1. /\ RoutesKept /\ ObjectsGrow /\ BooksInv' /\ TypeOK' /\ TypeOK
      /\ seq \in Nat /\ seq' \in Nat /\ seq' >= seq
  BY RoutesStep, RouteStep, BooksNextInv, ClockForward
  DEF RoutesKept, ProposalInv, BooksInv, Inv
<1>2. ProposalTypeOK'
  BY <1>1 DEF RoutesKept, ProposalTypeOK
<1>3. /\ {Len(object), Len(object')} \subseteq Nat
      /\ \A i \in 1..Len(object) : object[i].id \in CoreId
  BY <1>2, ObjectType DEF ProposalTypeOK, ProposalInv
<1>4. HeldIsKnown'
  <2>1. ASSUME NEW i \in 1..Len(object')
        PROVE  object'[i].id.seq <= seq'
    <3>1. CASE i \in 1..Len(object)
      <4>1. object'[i].id = object[i].id /\ object[i].id.seq <= seq /\ object[i].id.seq \in Nat
        BY <1>1, <1>3, <3>1, SimulatorAssumption
        DEF ObjectsGrow, ProposalInv, HeldIsKnown, CoreId
      <4> QED
        BY <1>1, <4>1
    <3>2. CASE i \notin 1..Len(object)
      <4>1. object'[i].id.seq <= seq
        BY <1>1, <3>2 DEF ObjectsGrow
      <4>2. object'[i].id.seq \in Nat
        <5>1. object' \in Seq(Proposal)
          BY <1>1 DEF RoutesKept
        <5>2. object'[i] \in Proposal
          BY <5>1
        <5>3. object'[i].id \in CoreId
          BY <5>2 DEF Proposal
        <5> QED
          BY <5>3, SimulatorAssumption DEF CoreId
      <4> QED
        BY <1>1, <4>1, <4>2
    <3> QED
      BY <3>1, <3>2
  <2> QED
    BY <1>1, <2>1 DEF RoutesKept, HeldIsKnown
<1>5. ApprovedByBoth'
  BY <1>1 DEF ObjectsGrow, ProposalInv, ApprovedByBoth
<1>6. RunsOnlyApproved'
  <2> SUFFICES ASSUME NEW p \in CoreId, applied'[p] > 0
               PROVE  \E i \in 1..Len(object') :
                         /\ object'[i].id = p
                         /\ object'[i].approval = "approved_for_sandbox"
                         /\ DualApproval(object'[i].approvers)
    BY DEF RunsOnlyApproved
  <2>1. applied[p] \in Nat
    BY <1>1, ControlAssumption DEF TypeOK
  <2>2. PICK i \in 1..Len(object) :
           object[i].id = p /\ object[i].approval = "approved_for_sandbox"
    <3>1. CASE applied[p] > 0
      BY <3>1 DEF ProposalInv, RunsOnlyApproved
    <3>2. CASE applied[p] = 0
      BY <3>2, AppliedByRoute
    <3> QED
      BY <2>1, <3>1, <3>2
  <2>3. i \in 1..Len(object')
    BY <1>1, <1>3 DEF ObjectsGrow
  <2>4. object'[i].id = p /\ object'[i].approval = "approved_for_sandbox"
    BY <1>1, <2>2 DEF ObjectsGrow
  <2> QED
    BY <1>5, <2>3, <2>4 DEF ApprovedByBoth
<1> QED
  BY <1>1, <1>2, <1>4, <1>5, <1>6 DEF ProposalInv

LEMMA ProposalInitInv == ProposalInit => ProposalInv
<1> SUFFICES ASSUME ProposalInit PROVE ProposalInv
  OBVIOUS
<1>1. BooksInv /\ TypeOK
  BY BooksInitInv DEF ProposalInit, BooksInv, Inv
<1>2. object = <<>> /\ object \in Seq(Proposal) /\ Len(object) = 0
  BY DEF ProposalInit
<1>3. \A p \in CoreId : stored[p] = {} /\ applied[p] = 0
  BY ControlAssumption DEF ProposalInit, Init
<1>4. ProposalTypeOK
  BY <1>1, <1>2, <1>3, ProposalAssumption DEF ProposalInit, ProposalTypeOK
<1>5. HeldIsKnown /\ ApprovedByBoth
  BY <1>2 DEF ProposalInit, HeldIsKnown, ApprovedByBoth
<1>6. RunsOnlyApproved
  BY <1>3 DEF RunsOnlyApproved
<1> QED
  BY <1>1, <1>4, <1>5, <1>6 DEF ProposalInv

\* The inductive invariant of the routes: objects and snapshots held by suspended calls are
\* what they were looked up as.
THEOREM ProposalInvariance == ProposalSpec => []ProposalInv
BY ProposalInitInv, ProposalNextInv, PTL DEF ProposalSpec

\* However the routes overlap, the service behind them does nothing but what
\* OperationalControl allows: its theorems hold of the routes as well.
THEOREM RoutesUseTheService == ProposalSpec => Spec
<1>1. ProposalInit => Init
  BY DEF ProposalInit
<1>2. ProposalInv /\ [ProposalNext]_allVars => [Next]_vars
  BY RouteStep
<1> QED
  BY <1>1, <1>2, ProposalInvariance, PTL DEF ProposalSpec, Spec

\* A plan runs only if a proposal for it was admitted and approved by both roles, whatever
\* keys the clients use.
THEOREM RunsWhatWasApproved == ProposalSpec => []RunsOnlyApproved
<1>1. ProposalInv => RunsOnlyApproved
  BY DEF ProposalInv
<1> QED
  BY <1>1, ProposalInvariance, PTL

----------------------------------------------------------------------------
\* What is reported happened, as long as every client uses the keys of the page.

\* What was applied stays applied, and what was rolled back stays so: an execution names
\* the current tick, and everything executed is older.
LEMMA CoreIsFinal ==
    ASSUME Inv, [Next]_vars, NEW p \in CoreId
    PROVE  /\ coreReceipt[p] = "rolled_back" => coreReceipt'[p] = "rolled_back"
           /\ applied[p] > 0 => applied'[p] = 1
<1>1. TypeOK /\ SimTypeOK /\ Inv'
  BY NextInv DEF Inv, TypeOK
<1>2. /\ coreReceipt[p] = "rolled_back" => coreReceipt'[p] = "rolled_back"
      /\ coreReceipt[p] # "none" => coreReceipt'[p] # "none"
  <2>1. CASE UNCHANGED coreReceipt
    BY <2>1
  <2>2. ASSUME NEW q \in CoreId, NEW k \in KeysFor(q), ExecuteCorePlan(q, k)
        PROVE  /\ coreReceipt[p] = "rolled_back" => coreReceipt'[p] = "rolled_back"
               /\ coreReceipt[p] # "none" => coreReceipt'[p] # "none"
    <3>1. coreReceipt' = [coreReceipt EXCEPT ![q] = "acknowledged"] /\ q.seq = seq + Lag
      BY <2>2 DEF ExecuteCorePlan, Fresh
    <3>2. coreReceipt[q] = "none"
      BY <1>1, <3>1, LagType DEF Inv, ExecutedIsPast
    <3> QED
      BY <1>1, <3>1, <3>2 DEF TypeOK
  <2>3. ASSUME NEW q \in CoreId, RollbackCorePlan(q)
        PROVE  /\ coreReceipt[p] = "rolled_back" => coreReceipt'[p] = "rolled_back"
               /\ coreReceipt[p] # "none" => coreReceipt'[p] # "none"
    BY <1>1, <2>3 DEF RollbackCorePlan, TypeOK
  <2>4. CASE UNCHANGED vars \/ SimulatorNext
    BY <2>1, <2>4 DEF vars, ctlVars, SimulatorNext
  <2>5. CASE DecisionNext
    BY <2>1, <2>5
    DEF DecisionNext, CreateDecision, ApproveDecision, ExecuteDecision, TakesEffect,
        ExecuteDecisionBlocked, RollbackDecision
  <2> QED
    BY <2>2, <2>3, <2>4, <2>5 DEF Next, CoreNext
<1>3. /\ applied[p] = IF coreReceipt[p] # "none" THEN 1 ELSE 0
      /\ applied'[p] = IF coreReceipt'[p] # "none" THEN 1 ELSE 0
  BY <1>1 DEF Inv, StatusCounts
<1> QED
  BY <1>2, <1>3

LEMMA OwnKeysNext ==
    ASSUME SharedKey = {}, TypeOK, OwnKeys, [Next]_vars
    PROVE  OwnKeys'
<1>1. CASE UNCHANGED coreKeys
  BY <1>1 DEF OwnKeys
<1>2. ASSUME NEW p \in CoreId, NEW k \in KeysFor(p), ExecuteCorePlan(p, k)
      PROVE  OwnKeys'
  <2>1. coreKeys' = [coreKeys EXCEPT ![p] = {p}]
    BY <1>2 DEF ExecuteCorePlan, KeysFor
  <2>2. coreKeys \in [CoreKey -> SUBSET CoreId]
    BY DEF TypeOK
  <2> QED
    BY <2>1, <2>2 DEF OwnKeys
<1>3. CASE UNCHANGED vars \/ SimulatorNext
  BY <1>1, <1>3 DEF vars, ctlVars, SimulatorNext
<1>4. CASE DecisionNext
  BY <1>1, <1>4
  DEF DecisionNext, CreateDecision, ApproveDecision, ExecuteDecision, TakesEffect,
      ExecuteDecisionBlocked, RollbackDecision
<1> QED
  BY <1>1, <1>2, <1>3, <1>4 DEF Next, CoreNext, RollbackCorePlan

\* The report of a proposal is the one it had, none, or one of a plan that was applied,
\* or rolled back, just now or before.
Reported(i) ==
    LET o == object'[i] IN
    \/ i \in 1..Len(object) /\ o.id = object[i].id
       /\ o.execution = object[i].execution /\ o.receipt = object[i].receipt
    \/ o.execution = "not_executed"
    \/ o.execution = "executed" /\ o.receipt = {o.id} /\ applied'[o.id] > 0
    \/ o.execution = "rolled_back" /\ o.receipt = {o.id} /\ coreReceipt'[o.id] = "rolled_back"

LEMMA ReportStep ==
    ASSUME SharedKey = {}, ReportInv, [ProposalNext]_allVars, NEW i \in 1..Len(object')
    PROVE  Reported(i)
<1>1. /\ ProposalInv /\ ProposalTypeOK /\ TypeOK /\ HeldIsKnown /\ OwnKeys /\ ReceiptsAreEarned
      /\ object \in Seq(Proposal) /\ Len(object) \in Nat
  BY DEF ReportInv, ProposalInv, ProposalTypeOK, BooksInv, BooksAreRight
<1>2. CASE object' = object
  BY <1>2 DEF Reported
<1>3. ASSUME NEW c \in Call, NEW plan \in Plan, NEW admitted \in BOOLEAN,
             InferFinish(c, plan, admitted)
      PROVE  Reported(i)
  <2>1. PICK new : object' = Append(object, new) /\ new.execution = "not_executed"
    BY <1>3 DEF InferFinish
  <2>2. /\ i \in 1..Len(object) => object'[i] = object[i]
        /\ i \notin 1..Len(object) => object'[i] = new
    BY <1>1, <2>1
  <2> QED
    BY <2>1, <2>2 DEF Reported
<1>4. ASSUME NEW c \in Call, NEW list \in ApprovalRequest, ApproveFinish(c, list)
      PROVE  Reported(i)
  <2>1. PICK held \in pending[c] :
           /\ held.route = "approve"
           /\ object' = [object EXCEPT ![held.at].approval = "approved_for_sandbox",
                                       ![held.at].approvers = list]
    BY <1>4 DEF ApproveFinish
  <2>2. held.at \in 1..Len(object)
    BY <1>1, <2>1 DEF HeldIsKnown
  <2> DEFINE n == held.at
             new == [object[n] EXCEPT !.approval = "approved_for_sandbox", !.approvers = list]
  <2>3. object' = [object EXCEPT ![n] = new] /\ object[n] \in Proposal
    BY <1>1, <2>1, <2>2, ObjectType
  <2>4. /\ new.id = object[n].id /\ new.execution = object[n].execution
        /\ new.receipt = object[n].receipt
    BY <2>3 DEF Proposal
  <2> HIDE DEF new
  <2>5. i \in 1..Len(object) /\ object'[i] = IF i = n THEN new ELSE object[i]
    BY <1>1, <2>2, <2>3
  <2> QED
    BY <2>4, <2>5 DEF Reported
<1>5. ASSUME NEW n \in 1..Len(object), NEW execution \in {"executed", "rolled_back"},
             object' = [object EXCEPT ![n].execution = execution,
                                      ![n].receipt = {object[n].id}],
             execution = "executed" => applied'[object[n].id] > 0,
             execution = "rolled_back" => coreReceipt'[object[n].id] = "rolled_back"
      PROVE  Reported(i)
  <2> DEFINE new == [object[n] EXCEPT !.execution = execution, !.receipt = {object[n].id}]
  <2>1. object' = [object EXCEPT ![n] = new] /\ object[n] \in Proposal
    BY <1>1, <1>5, ObjectType
  <2>2. /\ new.id = object[n].id /\ new.execution = execution
        /\ new.receipt = {object[n].id}
    BY <2>1 DEF Proposal
  <2> HIDE DEF new
  <2>3. i \in 1..Len(object) /\ object'[i] = IF i = n THEN new ELSE object[i]
    BY <1>1, <2>1
  <2> QED
    BY <1>5, <2>2, <2>3 DEF Reported
<1>6. ASSUME NEW c \in Call, RollbackFinish(c)
      PROVE  Reported(i)
  <2>1. PICK held \in pending[c] :
           /\ held.route = "rollback" /\ RollbackCorePlan(object[held.at].id)
           /\ object' = [object EXCEPT ![held.at].execution = "rolled_back",
                                       ![held.at].receipt = {object[held.at].id}]
    BY <1>6 DEF RollbackFinish
  <2>2. held.at \in 1..Len(object) /\ object[held.at].id \in CoreId
    BY <1>1, <2>1, ObjectType DEF HeldIsKnown
  <2>3. coreReceipt'[object[held.at].id] = "rolled_back"
    BY <1>1, <2>1, <2>2 DEF RollbackCorePlan, TypeOK
  <2> QED
    BY <1>5, <2>1, <2>2, <2>3
<1>7. ASSUME NEW p \in CoreId, NEW k \in KeysFor(p), ExecuteProposal(p, k) \/ ExecuteReplay(p, k)
      PROVE  Reported(i)
  <2>1. k = p /\ p \in CoreKey
    BY DEF KeysFor, CoreKey
  <2>2. PICK n \in stored[p] : Executed(n, p) /\ applied'[p] > 0
    <3>1. CASE ExecuteProposal(p, k)
      <4>1. applied'[p] = applied[p] + 1 /\ applied[p] \in Nat
        BY <1>1, <3>1, ControlAssumption DEF ExecuteProposal, ExecuteCorePlan, TypeOK
      <4> QED
        BY <3>1, <4>1 DEF ExecuteProposal
    <3>2. CASE ExecuteReplay(p, k)
      <4>1. \A r \in coreKeys[k] : r = p /\ applied[r] > 0
        BY <1>1, <2>1 DEF OwnKeys, ReceiptsAreEarned
      <4>2. applied' = applied
        BY <3>2 DEF ExecuteReplay, vars, ctlVars
      <4> QED
        BY <3>2, <4>1, <4>2 DEF ExecuteReplay
    <3> QED
      BY <1>7, <3>1, <3>2
  <2>3. n \in 1..Len(object) /\ object[n].id = p
    BY <1>1, <2>2 DEF ProposalTypeOK, Address
  <2> QED
    BY <1>5, <2>2, <2>3 DEF Executed
<1> QED
  BY <1>2, <1>3, <1>4, <1>6, <1>7
  DEF ProposalNext, InferStart, ApproveStart, RollbackStart, CallFails, allVars, propVars

LEMMA ReportNextInv ==
    ASSUME SharedKey = {}, ReportInv, [ProposalNext]_allVars
    PROVE  ReportInv'
<1>1. /\ ProposalInv /\ ProposalInv' /\ [Next]_vars /\ Inv /\ Inv' /\ TypeOK /\ OwnKeys
      /\ ProposalTypeOK
  BY ProposalNextInv, RouteStep DEF ReportInv, ProposalInv, ProposalTypeOK, BooksInv
<1>2. OwnKeys'
  BY <1>1, OwnKeysNext
<1>3. ASSUME NEW i \in 1..Len(object')
      PROVE  /\ object'[i].execution = "executed" =>
                    applied'[object'[i].id] = 1 /\ object'[i].receipt = {object'[i].id}
             /\ object'[i].execution = "rolled_back" =>
                    /\ coreReceipt'[object'[i].id] = "rolled_back"
                    /\ object'[i].receipt = {object'[i].id}
  <2>1. object'[i].id \in CoreId
    <3>1. object' \in Seq(Proposal)
      BY <1>1 DEF ProposalInv, ProposalTypeOK
    <3>2. object'[i] \in Proposal
      BY <3>1
    <3> QED
      BY <3>2 DEF Proposal
  <2>2. applied'[object'[i].id] > 0 => applied'[object'[i].id] = 1
    BY <1>1, <2>1 DEF Inv, StatusCounts
  <2>3. Reported(i)
    BY ReportStep
  <2>4. CASE /\ i \in 1..Len(object) /\ object'[i].id = object[i].id
             /\ object'[i].execution = object[i].execution
             /\ object'[i].receipt = object[i].receipt
    BY <1>1, <2>1, <2>4, CoreIsFinal DEF ReportInv, ReportsAreEarned
  <2> QED
    BY <2>2, <2>3, <2>4 DEF Reported
<1> QED
  BY <1>1, <1>2, <1>3 DEF ReportInv, ReportsAreEarned

\* As long as every client uses the keys of the page, what runs was approved and what is
\* reported happened.  (With a key used for two plans the report of the second carries the
\* receipt of the first.)
THEOREM ProposalsKeepTheirWord ==
    ASSUME SharedKey = {}
    PROVE  ProposalSpec => []ProposalsAreSound
<1>1. ProposalInit => ReportInv
  <2> SUFFICES ASSUME ProposalInit PROVE ReportInv
    OBVIOUS
  <2>1. OwnKeys
    BY DEF ProposalInit, Init, OwnKeys
  <2>2. ReportsAreEarned
    BY DEF ProposalInit, ReportsAreEarned
  <2> QED
    BY <2>1, <2>2, ProposalInitInv DEF ReportInv
<1>2. ReportInv /\ [ProposalNext]_allVars => ReportInv'
  BY ReportNextInv
<1>3. ReportInv => ProposalsAreSound
  BY DEF ReportInv, ProposalInv, ProposalsAreSound
<1> QED
  BY <1>1, <1>2, <1>3, PTL DEF ProposalSpec

----------------------------------------------------------------------------
\* Refinement: a step of the service that releases no core plan is one of the promise of
\* the routes, and the execute route releases a plan that an approved proposal cleared.
LEMMA PlanPromiseStep ==
    ASSUME ProposalInv, [ProposalNext]_allVars
    PROVE  PlanPromise!Next
<1>1. /\ ProposalTypeOK /\ TypeOK /\ Inv /\ [Next]_vars /\ ApprovedByBoth
  BY RouteStep DEF ProposalInv, ProposalTypeOK, BooksInv
<1>2. Promise!Next
  BY <1>1, PromiseStep
<1>3. ASSUME \A p \in CoreId : coreReceipt'[p] # "none" => coreReceipt[p] # "none"
      PROVE  PlanPromise!Next
  <2>1. ASSUME NEW s \in Subject, Promise!Release(s)
        PROVE  PlanPromise!Release(s)
    <3>1. s \notin CoreId
      BY <1>3, <2>1, Disjoint DEF Promise!Release, Released
    <3> QED
      BY <2>1, <3>1 DEF Promise!Release, PlanPromise!Release
  <2> QED
    BY <1>2, <2>1
    DEF Promise!Next, Promise!Review, Promise!Withdraw,
        PlanPromise!Next, PlanPromise!Review, PlanPromise!Withdraw
<1>4. ASSUME NEW p \in CoreId, NEW k \in KeysFor(p), ExecuteProposal(p, k)
      PROVE  PlanPromise!Next
  <2>1. PICK i \in stored[p] : object[i].approval = "approved_for_sandbox"
    BY <1>4 DEF ExecuteProposal
  <2>2. i \in 1..Len(object) /\ DualApproval(object[i].approvers)
    BY <1>1, <2>1 DEF ProposalTypeOK, Address, ApprovedByBoth
  <2>3. ExecuteCorePlan(p, k)
    BY <1>4 DEF ExecuteProposal
  <2>4. coreReceipt[p] = "none"
    <3>1. p.seq = seq + Lag /\ Lag \in Nat /\ seq \in Nat
      BY <1>1, <2>3, LagType DEF ExecuteCorePlan, Fresh, TypeOK
    <3> QED
      BY <1>1, <3>1 DEF Inv, ExecutedIsPast
  <2>5. /\ GateOpen /\ p \in ClearedPlans /\ p \notin Released /\ p \in Subject
    BY <2>1, <2>2, <2>3, <2>4, Disjoint, ControlAssumption
    DEF ExecuteCorePlan, ClearedPlans, Released
  <2>6. Released' = Released \cup {p} /\ Withdrawn' = Withdrawn
    BY <1>1, <2>3, <2>4 DEF ExecuteCorePlan, TypeOK, Released, Withdrawn
  <2> QED
    BY <2>5, <2>6 DEF PlanPromise!Next, PlanPromise!Release
<1>5. ASSUME NEW c \in Call, RollbackFinish(c)
      PROVE  PlanPromise!Next
  <2>1. PICK held \in pending[c] : held.route = "rollback" /\ RollbackCorePlan(object[held.at].id)
    BY <1>5 DEF RollbackFinish
  <2>2. \A p \in CoreId : coreReceipt'[p] # "none" => coreReceipt[p] # "none"
    BY <1>1, <2>1 DEF RollbackCorePlan, TypeOK
  <2> QED
    BY <1>3, <2>2
<1>6. CASE UNCHANGED coreReceipt
  BY <1>3, <1>6
<1>7. CASE SimulatorNext \/ DecisionNext
  BY <1>6, <1>7
  DEF SimulatorNext, ctlVars, DecisionNext, CreateDecision, ApproveDecision, ExecuteDecision,
      TakesEffect, ExecuteDecisionBlocked, RollbackDecision
<1> QED
  BY <1>4, <1>5, <1>6, <1>7
  DEF ProposalNext, InferStart, InferFinish, ApproveStart, RollbackStart, ApproveFinish,
      CallFails, ExecuteReplay, vars, ctlVars, allVars

\* Decisions and proposals together release nothing but approved decisions and plans that
\* an approved proposal in the map names, on their own snapshot, once.
THEOREM ProposalRefinement == ProposalSpec => PlansKeepThePromise
<1>1. ProposalInit => PlanPromise!Init
  BY DEF ProposalInit, Init, PlanPromise!Init, Released, Withdrawn
<1>2. ProposalInv /\ [ProposalNext]_allVars => [PlanPromise!Next]_PlanPromise!vars
  BY PlanPromiseStep
<1> QED
  BY <1>1, <1>2, ProposalInvariance, PTL
  DEF ProposalSpec, PlansKeepThePromise, PlanPromise!Spec
=============================================================================
