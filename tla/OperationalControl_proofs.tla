---------------------- MODULE OperationalControl_proofs ----------------------
(***************************************************************************)
(* Theorems about OperationalControl, for every set of controllers, plans  *)
(* and approval lists and for every bound on the clock.                    *)
(*                                                                         *)
(* The clock carries the argument: the identity of a decision and of a     *)
(* core plan contains the tick of the snapshot it was made from, and every *)
(* execution pushes the clock past that tick.  So an executed subject can  *)
(* never be made again: createDecision and a core execution both need the  *)
(* current tick.                                                           *)
(***************************************************************************)
EXTENDS OperationalControl, TLAPS

Done == {"executed", "rolled_back"}

\* What exists was made from a tick that has been reached.
MadeFromThePast == \A d \in DecisionId : status[d] # "none" => d.seq <= seq

\* What was executed was made from a tick that has gone by.
ExecutedIsPast ==
    /\ \A d \in DecisionId : status[d] \in Done => d.seq < seq
    /\ \A p \in CoreId : coreReceipt[p] # "none" => p.seq < seq

\* The stored status counts the applications.
StatusCounts ==
    /\ \A d \in DecisionId : applied[d] = IF status[d] \in Done THEN 1 ELSE 0
    /\ \A p \in CoreId : applied[p] = IF coreReceipt[p] # "none" THEN 1 ELSE 0

\* From its approval on, a decision keeps a dual approval.
ApprovedByTwo ==
    \A d \in DecisionId : status[d] \in {"approved"} \cup Done => DualApproval(approvals[d])

Inv == TypeOK /\ MadeFromThePast /\ ExecutedIsPast /\ StatusCounts /\ ApprovedByTwo

----------------------------------------------------------------------------
\* Decisions and core plans are different things: their records have different
\* fields.
LEMMA Disjoint == \A d \in DecisionId, p \in CoreId : d # p
<1> SUFFICES ASSUME NEW d \in DecisionId, NEW p \in CoreId, d = p PROVE FALSE
  OBVIOUS
<1>1. DOMAIN d = {"controller", "at", "seq"}
  BY DEF DecisionId
<1>2. DOMAIN p = {"plan", "seq"}
  BY DEF CoreId
<1>3. QED BY <1>1, <1>2

\* Aging keeps effects well formed.
LEMMA AgedType ==
    ASSUME NEW effects \in SUBSET Effect, NEW n \in Nat
    PROVE  Aged(effects, n) \in SUBSET Effect
BY DEF Aged, Effect

LEMMA LagType ==
    ASSUME SimTypeOK
    PROVE  /\ Lag \in Nat
           /\ Forced \in {0, 1}
           /\ seq \in Nat
           /\ wall \in Nat
BY SimulatorAssumption DEF SimTypeOK, Lag, Forced

\* advance() keeps the simulator well formed and never goes back.
LEMMA AdvanceType ==
    ASSUME SimTypeOK, Advance
    PROVE  /\ seq' \in 0..MaxSeq
           /\ seq' >= seq
           /\ seq' = seq + Lag
           /\ control' \in SUBSET Effect
<1>1. seq' \in 0..MaxSeq /\ seq' >= seq /\ seq' = seq + Lag
  BY LagType, SimulatorAssumption DEF Advance, SimTypeOK
<1>2. control' \in SUBSET Effect
  BY LagType, AgedType DEF Advance, SimTypeOK
<1>3. QED BY <1>1, <1>2

\* Installing a control keeps the simulator well formed and steps it once
\* unless it is stopped.
LEMMA InstallType ==
    ASSUME SimTypeOK, NEW by \in Subject, NEW a \in Action, NEW n \in Nat,
           Install(by, a, n)
    PROVE  /\ seq' \in 0..MaxSeq
           /\ seq' >= seq + n
           /\ running => seq' = seq + n + 1
           /\ control' \in SUBSET Effect
<1>1. seq' \in 0..MaxSeq /\ seq' >= seq + n /\ (running => seq' = seq + n + 1)
  BY LagType, SimulatorAssumption DEF Install, SimTypeOK, Forced
<1>2. {[by |-> by, action |-> a, left |-> TicksOf(a), since |-> seq + n]} \in SUBSET Effect
  BY SimulatorAssumption, LagType DEF Effect, TicksOf, SimTypeOK
<1>3. control' \in SUBSET Effect
  BY <1>2, LagType, AgedType DEF Install
<1>4. QED BY <1>1, <1>3

----------------------------------------------------------------------------
LEMMA InitInv == Init => Inv
<1> SUFFICES ASSUME Init PROVE Inv
  OBVIOUS
<1> USE DEF Init, SimInit
<1>1. SimTypeOK
  BY SimulatorAssumption DEF SimTypeOK
<1>2. TypeOK
  BY <1>1, SimulatorAssumption DEF TypeOK, Status, ReceiptStatus
<1>3. MadeFromThePast /\ ExecutedIsPast /\ ApprovedByTwo
  BY DEF MadeFromThePast, ExecutedIsPast, ApprovedByTwo, Done
<1>4. StatusCounts
  BY ControlAssumption DEF StatusCounts, Done
<1>5. QED BY <1>2, <1>3, <1>4 DEF Inv

\* Steps that leave the control state alone and move the clock forward at most.
LEMMA ClockInv ==
    ASSUME Inv, UNCHANGED ctlVars, SimTypeOK', seq' >= seq
    PROVE  Inv'
<1> USE DEF Inv, ctlVars
<1>1. TypeOK'
  BY DEF TypeOK
<1>2. seq \in Nat /\ seq' \in Nat
  BY SimulatorAssumption DEF TypeOK, SimTypeOK
<1>3. MadeFromThePast' /\ ExecutedIsPast'
  BY <1>2, SimulatorAssumption DEF MadeFromThePast, ExecutedIsPast, DecisionId, CoreId
<1>4. StatusCounts' /\ ApprovedByTwo'
  BY DEF StatusCounts, ApprovedByTwo
<1>5. QED BY <1>1, <1>3, <1>4

LEMMA SimulatorInv == ASSUME Inv, SimulatorNext PROVE Inv'
<1> USE DEF SimulatorNext
<1>0. SimTypeOK
  BY DEF Inv, TypeOK
<1>1. CASE WallTick
  BY <1>0, <1>1, ClockInv, SimulatorAssumption DEF WallTick, SimTypeOK
<1>2. CASE Snapshot
  BY <1>0, <1>2, ClockInv, AdvanceType DEF Snapshot, SimTypeOK
<1>3. ASSUME NEW on \in BOOLEAN, SetRunning(on) PROVE Inv'
  BY <1>0, <1>3, ClockInv, SimulatorAssumption DEF SetRunning, SimTypeOK
<1>4. ASSUME NEW s \in Scenario, InjectScenario(s) PROVE Inv'
  BY <1>0, <1>4, ClockInv, AdvanceType DEF InjectScenario, SimTypeOK
<1>5. QED BY <1>1, <1>2, <1>3, <1>4

\* Log keeps trails well formed.
LEMMA LogType ==
    ASSUME trail \in [DecisionId -> Seq(Event)], NEW d \in DecisionId,
           NEW e \in Event, Log(d, e)
    PROVE  trail' \in [DecisionId -> Seq(Event)]
<1>1. trail[d] \in Seq(Event)
  OBVIOUS
<1>2. \A S : \A q \in Seq(S), x \in S : Append(q, x) \in Seq(S)
  OBVIOUS
<1>3. Append(trail[d], e) \in Seq(Event)
  BY <1>1, <1>2
<1>4. QED BY <1>3 DEF Log

LEMMA CreateInv ==
    ASSUME Inv, NEW c \in Controller, NEW at \in Stamp, NEW a \in Action,
           CreateDecision(c, at, a)
    PROVE  Inv'
<1> DEFINE d == [controller |-> c, at |-> at, seq |-> seq + Lag]
<1>0. SimTypeOK /\ TypeOK
  BY DEF Inv, TypeOK
<1>1. /\ Advance
      /\ seq' \in 0..MaxSeq /\ seq' >= seq /\ seq' = seq + Lag
      /\ control' \in SUBSET Effect
  BY <1>0, AdvanceType DEF CreateDecision
<1>2. d \in DecisionId
  BY <1>1 DEF DecisionId
<1>3. SimTypeOK'
  BY <1>0, <1>1 DEF CreateDecision, SimTypeOK
<1>4. TypeOK'
  <2>1. trail' \in [DecisionId -> Seq(Event)]
    <3>1. Log(d, "created") /\ "created" \in Event
      BY DEF CreateDecision, Event
    <3>2. QED BY <1>0, <1>2, <3>1, LogType DEF TypeOK
  <2>2. /\ status' \in [DecisionId -> Status]
        /\ approvals' \in [DecisionId -> SUBSET Approvals]
        /\ recommended' \in [DecisionId -> Action]
    BY <1>0, <1>2 DEF CreateDecision, TypeOK, Status
  <2>3. QED BY <1>0, <1>3, <2>1, <2>2 DEF CreateDecision, TypeOK
<1>5. seq \in Nat /\ seq' \in Nat
  BY <1>0, <1>1, SimulatorAssumption DEF SimTypeOK
<1>6. status[d] \notin Done
  \* an executed decision is older than the current tick
  <2>1. d.seq = seq + Lag /\ Lag \in Nat
    BY <1>0, LagType
  <2>2. QED BY <1>2, <1>5, <2>1 DEF Inv, ExecutedIsPast
<1>7. /\ status' = [status EXCEPT ![d] = "pending_approval"]
      /\ approvals' = [approvals EXCEPT ![d] = {}]
      /\ UNCHANGED <<coreReceipt, applied>>
  BY DEF CreateDecision
<1> HIDE DEF d
<1>8. \A e \in DecisionId : status'[e] = IF e = d THEN "pending_approval" ELSE status[e]
  BY <1>0, <1>7 DEF TypeOK
<1>9. MadeFromThePast'
  <2>1. d.seq = seq'
    BY <1>1 DEF d
  <2>2. QED BY <1>1, <1>5, <1>8, <2>1, SimulatorAssumption DEF Inv, MadeFromThePast, DecisionId
<1>10. ExecutedIsPast'
  BY <1>1, <1>5, <1>7, <1>8, SimulatorAssumption DEF Inv, ExecutedIsPast, Done, DecisionId, CoreId
<1>11. StatusCounts'
  BY <1>6, <1>7, <1>8 DEF Inv, StatusCounts, Done
<1>12. ApprovedByTwo'
  <2>1. \A e \in DecisionId : e # d => approvals'[e] = approvals[e]
    BY <1>0, <1>7 DEF TypeOK
  <2>2. QED BY <1>8, <2>1 DEF Inv, ApprovedByTwo, Done, DualApproval
<1>13. QED BY <1>4, <1>9, <1>10, <1>11, <1>12 DEF Inv

LEMMA ApproveInv ==
    ASSUME Inv, NEW d \in DecisionId, NEW list \in ApprovalRequest,
           ApproveDecision(d, list)
    PROVE  Inv'
<1>0. SimTypeOK /\ TypeOK
  BY DEF Inv, TypeOK
<1> USE DEF ApproveDecision
<1>1. TypeOK'
  <2>1. trail' \in [DecisionId -> Seq(Event)]
    <3>1. Log(d, "approved") /\ "approved" \in Event
      BY DEF Event
    <3>2. QED BY <1>0, <3>1, LogType DEF TypeOK
  <2>2. status' \in [DecisionId -> Status]
    BY <1>0 DEF TypeOK, Status
  <2>3. approvals' \in [DecisionId -> SUBSET Approvals]
    BY <1>0 DEF TypeOK, Approvals
  <2>4. SimTypeOK'
    BY <1>0 DEF SimTypeOK, simVars
  <2>5. QED BY <1>0, <2>1, <2>2, <2>3, <2>4 DEF TypeOK
<1>2. \A e \in DecisionId : status'[e] = IF e = d THEN "approved" ELSE status[e]
  BY <1>0 DEF TypeOK
<1>3. MadeFromThePast' /\ ExecutedIsPast'
  BY <1>2 DEF Inv, MadeFromThePast, ExecutedIsPast, Done, simVars
<1>4. StatusCounts'
  BY <1>2 DEF Inv, StatusCounts, Done
<1>5. ApprovedByTwo'
  <2>1. \A e \in DecisionId : approvals'[e] = IF e = d THEN list ELSE approvals[e]
    BY <1>0 DEF TypeOK
  <2>2. QED BY <1>2, <2>1 DEF Inv, ApprovedByTwo, DualApproval
<1>6. QED BY <1>1, <1>3, <1>4, <1>5 DEF Inv

LEMMA ExecuteInv ==
    ASSUME Inv, NEW d \in DecisionId, NEW k \in KeysFor(d), ExecuteDecision(d, k)
    PROVE  Inv'
<1>0. SimTypeOK /\ TypeOK
  BY DEF Inv, TypeOK
<1> USE DEF ExecuteDecision, TakesEffect
<1>1. /\ seq' \in 0..MaxSeq /\ seq' > seq
      /\ control' \in SUBSET Effect
  <2>1. d \in Subject /\ recommended[d] \in Action
    BY <1>0, ControlAssumption DEF TypeOK
  <2>2. Install(d, recommended[d], Lag) /\ running
    BY DEF GateOpen
  <2>3. Lag \in Nat /\ seq \in Nat
    BY <1>0, LagType
  <2>4. QED BY <1>0, <2>1, <2>2, <2>3, InstallType, SimulatorAssumption
<1>2. TypeOK'
  <2>1. trail' \in [DecisionId -> Seq(Event)]
    <3>1. Log(d, "executed") /\ "executed" \in Event
      BY DEF Event
    <3>2. QED BY <1>0, <3>1, LogType DEF TypeOK
  <2>2. status' \in [DecisionId -> Status]
    BY <1>0 DEF TypeOK, Status
  <2>3. receipts' \in [DecisionKey -> SUBSET DecisionId]
    BY <1>0 DEF TypeOK
  <2>4. applied' \in [Subject -> Nat]
    BY <1>0, ControlAssumption DEF TypeOK
  <2>5. SimTypeOK'
    BY <1>0, <1>1 DEF SimTypeOK
  <2>6. QED BY <1>0, <2>1, <2>2, <2>3, <2>4, <2>5 DEF TypeOK
<1>3. \A e \in DecisionId : status'[e] = IF e = d THEN "executed" ELSE status[e]
  BY <1>0 DEF TypeOK
<1>4. seq \in Nat /\ seq' \in Nat
  BY <1>0, <1>1, SimulatorAssumption DEF SimTypeOK
<1>5. MadeFromThePast' /\ ExecutedIsPast'
  BY <1>1, <1>3, <1>4, SimulatorAssumption
     DEF Inv, MadeFromThePast, ExecutedIsPast, Done, DecisionId, CoreId
<1>6. StatusCounts'
  <2>1. \A s \in Subject : applied'[s] = IF s = d THEN applied[s] + 1 ELSE applied[s]
    BY <1>0, ControlAssumption DEF TypeOK
  <2>2. applied[d] = 0
    BY DEF Inv, StatusCounts, Done
  <2>3. QED BY <1>3, <2>1, <2>2, Disjoint, ControlAssumption DEF Inv, StatusCounts, Done
<1>7. ApprovedByTwo'
  BY <1>3 DEF Inv, ApprovedByTwo
<1>8. QED BY <1>2, <1>5, <1>6, <1>7 DEF Inv

LEMMA BlockedInv ==
    ASSUME Inv, NEW d \in DecisionId, NEW k \in KeysFor(d), ExecuteDecisionBlocked(d, k)
    PROVE  Inv'
<1>0. SimTypeOK /\ TypeOK
  BY DEF Inv, TypeOK
<1> USE DEF ExecuteDecisionBlocked
<1>1. TypeOK'
  <2>1. trail' \in [DecisionId -> Seq(Event)]
    <3>1. Log(d, "failed") /\ "failed" \in Event
      BY DEF Event
    <3>2. QED BY <1>0, <3>1, LogType DEF TypeOK
  <2>2. status' \in [DecisionId -> Status]
    BY <1>0 DEF TypeOK, Status
  <2>3. SimTypeOK'
    BY <1>0 DEF SimTypeOK, simVars
  <2>4. QED BY <1>0, <2>1, <2>2, <2>3 DEF TypeOK
<1>2. \A e \in DecisionId : status'[e] = IF e = d THEN "failed" ELSE status[e]
  BY <1>0 DEF TypeOK
<1>3. MadeFromThePast' /\ ExecutedIsPast'
  BY <1>2 DEF Inv, MadeFromThePast, ExecutedIsPast, Done, simVars
<1>4. StatusCounts'
  BY <1>2 DEF Inv, StatusCounts, Done
<1>5. ApprovedByTwo'
  BY <1>2 DEF Inv, ApprovedByTwo, Done
<1>6. QED BY <1>1, <1>3, <1>4, <1>5 DEF Inv

LEMMA RollbackInv ==
    ASSUME Inv, NEW d \in DecisionId, RollbackDecision(d)
    PROVE  Inv'
<1>0. SimTypeOK /\ TypeOK
  BY DEF Inv, TypeOK
<1> USE DEF RollbackDecision
<1>1. /\ seq' \in 0..MaxSeq /\ seq' >= seq
      /\ control' \in SUBSET Effect
  <2>1. d \in Subject /\ HoldPlan \in Action /\ Install(d, HoldPlan, 0)
    BY ControlAssumption, SimulatorAssumption
  <2>2. QED BY <1>0, <2>1, LagType, InstallType, SimulatorAssumption
<1>2. TypeOK'
  <2>1. trail' \in [DecisionId -> Seq(Event)]
    <3>1. Log(d, "rolled_back") /\ "rolled_back" \in Event
      BY DEF Event
    <3>2. QED BY <1>0, <3>1, LogType DEF TypeOK
  <2>2. status' \in [DecisionId -> Status]
    BY <1>0 DEF TypeOK, Status
  <2>3. SimTypeOK'
    BY <1>0, <1>1 DEF SimTypeOK
  <2>4. QED BY <1>0, <2>1, <2>2, <2>3 DEF TypeOK
<1>3. \A e \in DecisionId : status'[e] = IF e = d THEN "rolled_back" ELSE status[e]
  BY <1>0 DEF TypeOK
<1>4. seq \in Nat /\ seq' \in Nat
  BY <1>0, <1>1, SimulatorAssumption DEF SimTypeOK
<1>5. MadeFromThePast' /\ ExecutedIsPast'
  BY <1>1, <1>3, <1>4, SimulatorAssumption
     DEF Inv, MadeFromThePast, ExecutedIsPast, Done, DecisionId, CoreId
<1>6. StatusCounts' /\ ApprovedByTwo'
  BY <1>3 DEF Inv, StatusCounts, ApprovedByTwo, Done
<1>7. QED BY <1>2, <1>5, <1>6 DEF Inv

LEMMA ExecuteCoreInv ==
    ASSUME Inv, NEW p \in CoreId, NEW k \in KeysFor(p), ExecuteCorePlan(p, k)
    PROVE  Inv'
<1>0. SimTypeOK /\ TypeOK
  BY DEF Inv, TypeOK
<1> USE DEF ExecuteCorePlan
<1>1. /\ seq' \in 0..MaxSeq /\ seq' > seq /\ seq' > p.seq
      /\ control' \in SUBSET Effect
      /\ p.seq >= seq
  <2>1. p \in Subject /\ CoreAction \in Action
    BY ControlAssumption
  <2>2. Install(p, CoreAction, Lag) /\ running /\ p.seq = seq + Lag
    BY DEF GateOpen, Fresh
  <2>3. Lag \in Nat /\ seq \in Nat
    BY <1>0, LagType
  <2>4. QED BY <1>0, <2>1, <2>2, <2>3, InstallType, SimulatorAssumption
<1>2. TypeOK'
  <2>1. coreReceipt' \in [CoreId -> ReceiptStatus]
    BY <1>0 DEF TypeOK, ReceiptStatus
  <2>2. coreKeys' \in [CoreKey -> SUBSET CoreId]
    BY <1>0 DEF TypeOK
  <2>3. applied' \in [Subject -> Nat]
    BY <1>0, ControlAssumption DEF TypeOK
  <2>4. SimTypeOK'
    BY <1>0, <1>1 DEF SimTypeOK
  <2>5. QED BY <1>0, <2>1, <2>2, <2>3, <2>4 DEF TypeOK
<1>3. \A e \in CoreId : coreReceipt'[e] = IF e = p THEN "acknowledged" ELSE coreReceipt[e]
  BY <1>0 DEF TypeOK
<1>4. seq \in Nat /\ seq' \in Nat
  BY <1>0, <1>1, SimulatorAssumption DEF SimTypeOK
<1>5. MadeFromThePast' /\ ExecutedIsPast'
  BY <1>1, <1>3, <1>4, SimulatorAssumption
     DEF Inv, MadeFromThePast, ExecutedIsPast, DecisionId, CoreId
<1>6. StatusCounts'
  <2>1. \A s \in Subject : applied'[s] = IF s = p THEN applied[s] + 1 ELSE applied[s]
    BY <1>0, ControlAssumption DEF TypeOK
  <2>2. applied[p] = 0
    \* an executed plan is older than the current tick
    BY <1>1, <1>4, SimulatorAssumption DEF Inv, StatusCounts, ExecutedIsPast, CoreId
  <2>3. QED BY <1>3, <2>1, <2>2, Disjoint, ControlAssumption DEF Inv, StatusCounts
<1>7. ApprovedByTwo'
  BY DEF Inv, ApprovedByTwo
<1>8. QED BY <1>2, <1>5, <1>6, <1>7 DEF Inv

LEMMA RollbackCoreInv ==
    ASSUME Inv, NEW p \in CoreId, RollbackCorePlan(p)
    PROVE  Inv'
<1>0. SimTypeOK /\ TypeOK
  BY DEF Inv, TypeOK
<1> USE DEF RollbackCorePlan
<1>1. /\ seq' \in 0..MaxSeq /\ seq' >= seq
      /\ control' \in SUBSET Effect
  <2>1. p \in Subject /\ HoldPlan \in Action /\ Install(p, HoldPlan, 0)
    BY ControlAssumption, SimulatorAssumption
  <2>2. QED BY <1>0, <2>1, LagType, InstallType, SimulatorAssumption
<1>2. TypeOK'
  <2>1. coreReceipt' \in [CoreId -> ReceiptStatus]
    BY <1>0 DEF TypeOK, ReceiptStatus
  <2>2. SimTypeOK'
    BY <1>0, <1>1 DEF SimTypeOK
  <2>3. QED BY <1>0, <2>1, <2>2 DEF TypeOK
<1>3. \A e \in CoreId : coreReceipt'[e] = IF e = p THEN "rolled_back" ELSE coreReceipt[e]
  BY <1>0 DEF TypeOK
<1>4. seq \in Nat /\ seq' \in Nat
  BY <1>0, <1>1, SimulatorAssumption DEF SimTypeOK
<1>5. MadeFromThePast' /\ ExecutedIsPast'
  BY <1>1, <1>3, <1>4, SimulatorAssumption
     DEF Inv, MadeFromThePast, ExecutedIsPast, DecisionId, CoreId
<1>6. StatusCounts' /\ ApprovedByTwo'
  BY <1>3 DEF Inv, StatusCounts, ApprovedByTwo
<1>7. QED BY <1>2, <1>5, <1>6 DEF Inv

LEMMA NextInv == Inv /\ [Next]_vars => Inv'
<1> SUFFICES ASSUME Inv, [Next]_vars PROVE Inv'
  OBVIOUS
<1>1. CASE UNCHANGED vars
  BY <1>1, ClockInv, SimulatorAssumption
     DEF vars, simVars, Inv, TypeOK, SimTypeOK
<1>2. CASE SimulatorNext
  BY <1>2, SimulatorInv
<1>3. CASE DecisionNext
  BY <1>3, CreateInv, ApproveInv, ExecuteInv, BlockedInv, RollbackInv DEF DecisionNext
<1>4. CASE CoreNext
  BY <1>4, ExecuteCoreInv, RollbackCoreInv DEF CoreNext
<1>5. QED BY <1>1, <1>2, <1>3, <1>4 DEF Next

----------------------------------------------------------------------------
\* The invariant the other theorems rest on holds in every reachable state of
\* OperationalControlService and its simulator.
THEOREM Invariance == Spec => []Inv
<1>1. QED BY InitInv, NextInv, PTL DEF Spec

\* Type correctness of the control service and its simulator.
THEOREM TypeCorrect == Spec => []TypeOK
<1>1. Inv => TypeOK
  BY DEF Inv
<1>2. QED BY <1>1, Invariance, PTL

\* However often and under whatever keys decisions and core plans are executed,
\* none of them is applied to the simulator twice.
THEOREM AtMostOnce == Spec => []AppliedOnce
<1>1. Inv => AppliedOnce
  BY ControlAssumption DEF Inv, StatusCounts, AppliedOnce
<1>2. QED BY <1>1, Invariance, PTL

\* The status a client reads agrees with what the simulator was made to do.
THEOREM Truthful == Spec => []StatusIsTruthful
<1>1. Inv => StatusIsTruthful
  BY DEF Inv, StatusCounts, StatusIsTruthful, Done
<1>2. QED BY <1>1, Invariance, PTL

\* With two roles only, naming both roles and two people means that one person
\* signed as operator and another one as safety officer.
LEMMA TwoPeopleTwoRoles ==
    ASSUME NEW list, \A x \in list : x[2] \in {Operator, SafetyOfficer},
           DualApproval(list)
    PROVE  \E x, y \in list : x[1] # y[1] /\ x[2] = Operator /\ y[2] = SafetyOfficer
<1>1. PICK a, b \in list : a[1] # b[1]
  BY DEF DualApproval
<1>2. PICK o \in list : o[2] = Operator
  BY DEF DualApproval
<1>3. PICK f \in list : f[2] = SafetyOfficer
  BY DEF DualApproval
<1>4. CASE o[1] # f[1]
  BY <1>2, <1>3, <1>4
<1>5. CASE o[1] = f[1]
  \* somebody else signed, in one of the two roles
  <2>1. PICK z \in {a, b} : z[1] # o[1]
    BY <1>1
  <2>2. z \in list /\ z[2] \in {Operator, SafetyOfficer}
    BY <2>1
  <2>3. QED BY <1>2, <1>3, <1>5, <2>1, <2>2
<1>6. QED BY <1>4, <1>5

\* The approvals of a decision come from one approver list.
RolesKnown == \A d \in DecisionId : \A x \in approvals[d] : x[2] \in {Operator, SafetyOfficer}

\* No decision reaches the simulator without one person's approval as operator
\* and another person's as safety officer.
THEOREM TwoPeopleApprove == Spec => []FourEyes
<1>1. TypeOK => RolesKnown
  BY RoleAssumption DEF TypeOK, Approvals, RolesKnown
<1>2. Inv /\ RolesKnown => FourEyes
  <2> SUFFICES ASSUME Inv, RolesKnown, NEW d \in DecisionId, applied[d] > 0
               PROVE  \E x, y \in approvals[d] :
                          x[1] # y[1] /\ x[2] = Operator /\ y[2] = SafetyOfficer
    BY DEF FourEyes
  <2>1. status[d] \in Done
    BY DEF Inv, StatusCounts
  <2>2. DualApproval(approvals[d])
    BY <2>1 DEF Inv, ApprovedByTwo
  <2>3. QED BY <2>2, TwoPeopleTwoRoles DEF RolesKnown
<1>3. Inv => FourEyes
  BY <1>1, <1>2 DEF Inv
<1>4. QED BY <1>3, Invariance, PTL

----------------------------------------------------------------------------
\* Refinement: every step of the control service is a step of the promise.
LEMMA PromiseStep ==
    ASSUME Inv, [Next]_vars
    PROVE  Promise!Next
<1>0. TypeOK
  BY DEF Inv
<1>1. CASE UNCHANGED vars
  BY <1>1 DEF vars, ctlVars, Promise!Next, Promise!Review, Released, Withdrawn
<1>2. CASE SimulatorNext
  BY <1>2 DEF SimulatorNext, ctlVars, Promise!Next, Promise!Review, Released, Withdrawn
<1>3. ASSUME NEW c \in Controller, NEW at \in Stamp, NEW a \in Action,
             CreateDecision(c, at, a)
      PROVE  Promise!Next
  <2> DEFINE d == [controller |-> c, at |-> at, seq |-> seq + Lag]
  <2>1. status' = [status EXCEPT ![d] = "pending_approval"] /\ coreReceipt' = coreReceipt
    BY <1>3 DEF CreateDecision
  <2>2. d \in DecisionId /\ status[d] \notin Done
    <3>1. SimTypeOK /\ Advance
      BY <1>0, <1>3 DEF TypeOK, CreateDecision
    <3>2. d \in DecisionId
      BY <3>1, AdvanceType DEF DecisionId
    <3>3. Lag \in Nat /\ seq \in Nat /\ d.seq = seq + Lag
      BY <3>1, LagType
    <3>4. QED BY <3>2, <3>3 DEF Inv, ExecutedIsPast
  <2> HIDE DEF d
  <2>3. Released' = Released /\ Withdrawn' = Withdrawn
    BY <1>0, <2>1, <2>2 DEF TypeOK, Released, Withdrawn, Done
  <2>4. QED BY <2>3 DEF Promise!Next, Promise!Review
<1>4. ASSUME NEW d \in DecisionId, NEW list \in ApprovalRequest,
             ApproveDecision(d, list)
      PROVE  Promise!Next
  <2>1. Released' = Released /\ Withdrawn' = Withdrawn
    BY <1>0, <1>4 DEF ApproveDecision, TypeOK, Released, Withdrawn
  <2>2. QED BY <2>1 DEF Promise!Next, Promise!Review
<1>5. ASSUME NEW d \in DecisionId, NEW k \in KeysFor(d), ExecuteDecision(d, k)
      PROVE  Promise!Next
  <2>1. GateOpen /\ d \in Cleared \ Released /\ d \in Subject
    BY <1>5, Disjoint, ControlAssumption
       DEF ExecuteDecision, TakesEffect, Inv, ApprovedByTwo, Cleared, Released
  <2>2. Released' = Released \cup {d} /\ Withdrawn' = Withdrawn
    BY <1>0, <1>5 DEF ExecuteDecision, TakesEffect, TypeOK, Released, Withdrawn
  <2>3. QED BY <2>1, <2>2 DEF Promise!Next, Promise!Release
<1>6. ASSUME NEW d \in DecisionId, NEW k \in KeysFor(d), ExecuteDecisionBlocked(d, k)
      PROVE  Promise!Next
  <2>1. Released' = Released /\ Withdrawn' = Withdrawn
    BY <1>0, <1>6 DEF ExecuteDecisionBlocked, TypeOK, Released, Withdrawn
  <2>2. QED BY <2>1 DEF Promise!Next, Promise!Review
<1>7. ASSUME NEW d \in DecisionId, RollbackDecision(d)
      PROVE  Promise!Next
  <2>1. d \in Released \ Withdrawn /\ d \in Subject
    BY <1>7, Disjoint, ControlAssumption DEF RollbackDecision, Released, Withdrawn
  <2>2. Withdrawn' = Withdrawn \cup {d} /\ Released' = Released
    BY <1>0, <1>7 DEF RollbackDecision, TypeOK, Released, Withdrawn
  <2>3. QED BY <2>1, <2>2 DEF Promise!Next, Promise!Withdraw
<1>8. ASSUME NEW p \in CoreId, NEW k \in KeysFor(p), ExecuteCorePlan(p, k)
      PROVE  Promise!Next
  <2>1. coreReceipt[p] = "none"
    <3>1. p.seq = seq + Lag /\ Lag \in Nat /\ seq \in Nat
      BY <1>0, <1>8, LagType DEF ExecuteCorePlan, Fresh, TypeOK
    <3>2. QED BY <3>1 DEF Inv, ExecutedIsPast
  <2>2. GateOpen /\ p \in Cleared \ Released /\ p \in Subject
    BY <1>8, <2>1, Disjoint, ControlAssumption DEF ExecuteCorePlan, Cleared, Released
  <2>3. Released' = Released \cup {p} /\ Withdrawn' = Withdrawn
    BY <1>0, <1>8, <2>1 DEF ExecuteCorePlan, TypeOK, Released, Withdrawn
  <2>4. QED BY <2>2, <2>3 DEF Promise!Next, Promise!Release
<1>9. ASSUME NEW p \in CoreId, RollbackCorePlan(p)
      PROVE  Promise!Next
  <2>1. p \in Released \ Withdrawn /\ p \in Subject
    BY <1>9, Disjoint, ControlAssumption DEF RollbackCorePlan, Released, Withdrawn
  <2>2. Withdrawn' = Withdrawn \cup {p} /\ Released' = Released
    BY <1>0, <1>9 DEF RollbackCorePlan, TypeOK, Released, Withdrawn
  <2>3. QED BY <2>1, <2>2 DEF Promise!Next, Promise!Withdraw
<1>10. QED
  BY <1>1, <1>2, <1>3, <1>4, <1>5, <1>6, <1>7, <1>8, <1>9 DEF Next, DecisionNext, CoreNext

\* The control service keeps the promise of SimulationRelease: nothing is let
\* loose while the gate is closed, uncleared, twice, or after its withdrawal.
THEOREM Refinement == Spec => KeepsThePromise
<1>1. Init => Promise!Init
  BY DEF Init, Promise!Init, Released, Withdrawn
<1>2. Inv /\ [Next]_vars => [Promise!Next]_Promise!vars
  BY PromiseStep
<1>3. QED BY <1>1, <1>2, Invariance, PTL DEF Spec, KeepsThePromise, Promise!Spec
----------------------------------------------------------------------------
\* The decision a creation stores has never been executed: its identity carries
\* the current tick.
LEMMA CreatedIsNew ==
    ASSUME Inv, NEW c \in Controller, NEW at \in Stamp, NEW a \in Action,
           CreateDecision(c, at, a)
    PROVE  LET d == [controller |-> c, at |-> at, seq |-> seq + Lag] IN
           d \in DecisionId /\ status[d] \notin Done
<1> DEFINE d == [controller |-> c, at |-> at, seq |-> seq + Lag]
<1>1. SimTypeOK /\ Advance
  BY DEF Inv, TypeOK, CreateDecision
<1>2. d \in DecisionId
  BY <1>1, AdvanceType DEF DecisionId
<1>3. Lag \in Nat /\ seq \in Nat /\ d.seq = seq + Lag
  BY <1>1, LagType
<1>4. status[d] \notin Done
  BY <1>2, <1>3 DEF Inv, ExecutedIsPast
<1>5. QED BY <1>2, <1>4

\* What a step may do to the stored fields of a decision that was executed.
StaysFinal(d) ==
    /\ status[d] = "executed" => status'[d] \in Done
    /\ status[d] = "rolled_back" => status'[d] = "rolled_back"
    /\ status[d] \in Done => approvals'[d] = approvals[d] /\ recommended'[d] = recommended[d]

LEMMA FinalStep ==
    ASSUME Inv, [Next]_vars, NEW e \in DecisionId
    PROVE  StaysFinal(e)
<1> USE DEF StaysFinal, Done
<1>0. TypeOK
  BY DEF Inv
<1>1. CASE UNCHANGED <<status, approvals, recommended>>
  BY <1>1
<1>2. ASSUME NEW c \in Controller, NEW at \in Stamp, NEW a \in Action,
             CreateDecision(c, at, a)
      PROVE  StaysFinal(e)
  <2> DEFINE d == [controller |-> c, at |-> at, seq |-> seq + Lag]
  <2>1. d \in DecisionId /\ status[d] \notin Done
    BY <1>2, CreatedIsNew
  <2>2. /\ status' = [status EXCEPT ![d] = "pending_approval"]
        /\ approvals' = [approvals EXCEPT ![d] = {}]
        /\ recommended' = [recommended EXCEPT ![d] = a]
    BY <1>2 DEF CreateDecision
  <2> HIDE DEF d
  <2>3. QED BY <1>0, <2>1, <2>2 DEF TypeOK
<1>3. ASSUME NEW d \in DecisionId, NEW list \in ApprovalRequest, ApproveDecision(d, list)
      PROVE  StaysFinal(e)
  BY <1>0, <1>3 DEF ApproveDecision, TypeOK
<1>4. ASSUME NEW d \in DecisionId, NEW k \in KeysFor(d),
             ExecuteDecision(d, k) \/ ExecuteDecisionBlocked(d, k)
      PROVE  StaysFinal(e)
  BY <1>0, <1>4 DEF ExecuteDecision, TakesEffect, ExecuteDecisionBlocked, TypeOK
<1>5. ASSUME NEW d \in DecisionId, RollbackDecision(d)
      PROVE  StaysFinal(e)
  BY <1>0, <1>5 DEF RollbackDecision, TypeOK
<1>6. CASE SimulatorNext \/ CoreNext \/ UNCHANGED vars
  BY <1>1, <1>6 DEF SimulatorNext, CoreNext, ExecuteCorePlan, RollbackCorePlan, vars, ctlVars
<1>7. QED BY <1>2, <1>3, <1>4, <1>5, <1>6 DEF Next, DecisionNext

\* An executed decision is neither lost nor replaced nor approved again.
THEOREM Final == Spec => ExecutedIsFinal
<1>1. Inv /\ [Next]_vars => \A e \in DecisionId : StaysFinal(e)
  BY FinalStep
<1>2. Inv /\ [Next]_vars =>
        [\A d \in DecisionId :
            /\ status[d] = "executed" => status'[d] \in {"executed", "rolled_back"}
            /\ status[d] = "rolled_back" => status'[d] = "rolled_back"
            /\ status[d] \in {"executed", "rolled_back"} =>
                  approvals'[d] = approvals[d] /\ recommended'[d] = recommended[d]]_vars
  BY <1>1 DEF StaysFinal, Done
<1>3. QED BY <1>2, Invariance, PTL DEF Spec, ExecutedIsFinal

----------------------------------------------------------------------------
\* Only an execution of a core plan counts as its application.
LEMMA CoreApplied ==
    ASSUME Inv, [Next]_vars, NEW p \in CoreId, applied'[p] # applied[p]
    PROVE  seq' = p.seq + 1
<1>0. TypeOK /\ SimTypeOK
  BY DEF Inv, TypeOK
<1>1. CASE UNCHANGED applied
  BY <1>1
<1>2. ASSUME NEW d \in DecisionId, NEW k \in KeysFor(d), ExecuteDecision(d, k)
      PROVE  FALSE
  BY <1>0, <1>2, Disjoint, ControlAssumption DEF ExecuteDecision, TakesEffect, TypeOK
<1>3. ASSUME NEW q \in CoreId, NEW k \in KeysFor(q), ExecuteCorePlan(q, k)
      PROVE  seq' = p.seq + 1
  <2>1. p = q
    BY <1>0, <1>3, ControlAssumption DEF ExecuteCorePlan, TypeOK
  <2>2. /\ Install(q, CoreAction, Lag)
        /\ running
        /\ q.seq = seq + Lag
    BY <1>3 DEF ExecuteCorePlan, GateOpen, Fresh
  <2>3. QED BY <2>1, <2>2 DEF Install, Forced
<1>4. CASE UNCHANGED vars
  BY <1>1, <1>4 DEF vars, ctlVars
<1>5. CASE SimulatorNext
  BY <1>1, <1>5 DEF SimulatorNext, ctlVars
<1>6. CASE DecisionNext
  BY <1>1, <1>2, <1>6
     DEF DecisionNext, CreateDecision, ApproveDecision, ExecuteDecisionBlocked, RollbackDecision
<1>7. CASE CoreNext
  BY <1>1, <1>3, <1>7 DEF CoreNext, RollbackCorePlan
<1>8. QED BY <1>4, <1>5, <1>6, <1>7 DEF Next

\* A core plan takes effect on the tick after its snapshot, for every length of
\* the catch-up and whatever else forced ticks in between.
THEOREM OnItsSnapshot == Spec => CorePlanHitsItsSnapshot
<1>1. Inv /\ [Next]_vars =>
        [\A p \in CoreId : applied'[p] # applied[p] => seq' = p.seq + 1]_vars
  BY CoreApplied
<1>2. QED BY <1>1, Invariance, PTL DEF Spec, CorePlanHitsItsSnapshot

----------------------------------------------------------------------------
\* What aging leaves in the slot was in it before.
LEMMA AgedOrigin ==
    ASSUME NEW effects \in SUBSET Effect, NEW n \in Nat, NEW c \in Aged(effects, n)
    PROVE  \E e \in effects : e.by = c.by /\ e.since = c.since
BY DEF Aged, Effect

\* What a rollback puts in the slot is a hold.
LEMMA InstalledAction ==
    ASSUME SimTypeOK, NEW by \in Subject, NEW a \in Action, Install(by, a, 0),
           NEW c \in control'
    PROVE  c.action = a
<1>1. seq \in Nat /\ Forced \in Nat
  BY LagType
<1>2. PICK e \in {[by |-> by, action |-> a, left |-> TicksOf(a), since |-> seq + 0]} :
         c = [e EXCEPT !.left = @ - Forced]
  BY DEF Install, Aged
<1>3. QED BY <1>2

ClosedStep ==
    /\ applied' = applied
    /\ \A c \in control' \ control :
          c.action = HoldPlan \/ \E e \in control : e.by = c.by /\ e.since = c.since
    /\ ~running => seq' = seq

LEMMA ClosedGate == ASSUME Inv, [Next]_vars, ~GateOpen PROVE ClosedStep
<1>0. TypeOK /\ SimTypeOK
  BY DEF Inv, TypeOK
<1>1. ASSUME Advance, UNCHANGED applied PROVE ClosedStep
  <2>1. Lag \in Nat /\ (~running => Lag = 0) /\ seq \in Nat
    BY <1>0, LagType DEF Lag
  <2>2. \A c \in control' : \E e \in control : e.by = c.by /\ e.since = c.since
    BY <1>0, <1>1, <2>1, AgedOrigin DEF Advance, SimTypeOK
  <2>3. QED BY <1>1, <2>1, <2>2 DEF ClosedStep, Advance
<1>2. ASSUME NEW s \in Subject, Install(s, HoldPlan, 0), UNCHANGED applied PROVE ClosedStep
  <2>1. \A c \in control' : c.action = HoldPlan
    BY <1>0, <1>2, InstalledAction, SimulatorAssumption
  <2>2. ~running => seq' = seq
    BY <1>0, <1>2, LagType DEF Install, Forced
  <2>3. QED BY <1>2, <2>1, <2>2 DEF ClosedStep
<1>3. CASE UNCHANGED <<seq, control, applied>>
  BY <1>3 DEF ClosedStep
<1>4. CASE UNCHANGED vars
  BY <1>3, <1>4 DEF vars, simVars, ctlVars
<1>5. CASE SimulatorNext
  BY <1>1, <1>3, <1>5
     DEF SimulatorNext, ctlVars, WallTick, Snapshot, SetRunning, InjectScenario
<1>6. CASE DecisionNext
  <2>1. ASSUME NEW d \in DecisionId, NEW list \in ApprovalRequest, ApproveDecision(d, list)
        PROVE  ClosedStep
    BY <1>3, <2>1 DEF ApproveDecision, simVars
  <2>2. ASSUME NEW d \in DecisionId, NEW k \in KeysFor(d),
               ExecuteDecision(d, k) \/ ExecuteDecisionBlocked(d, k)
        PROVE  ClosedStep
    BY <1>3, <2>2 DEF ExecuteDecision, ExecuteDecisionBlocked, simVars
  <2>3. ASSUME NEW d \in DecisionId, RollbackDecision(d)
        PROVE  ClosedStep
    BY <1>2, <2>3, ControlAssumption DEF RollbackDecision
  <2>4. QED BY <1>6, <2>1, <2>2, <2>3 DEF DecisionNext, CreateDecision
<1>7. CASE CoreNext
  <2>1. ASSUME NEW p \in CoreId, RollbackCorePlan(p) PROVE ClosedStep
    BY <1>2, <2>1, ControlAssumption DEF RollbackCorePlan
  <2>2. QED BY <1>7, <2>1 DEF CoreNext, ExecuteCorePlan
<1>8. QED BY <1>4, <1>5, <1>6, <1>7 DEF Next

\* A stopped or blind simulator accepts nothing but holds, and its clock stands
\* still while it is stopped.
THEOREM Closed == Spec => FailsClosed
<1>1. Inv /\ [Next]_vars =>
        [~GateOpen => /\ applied' = applied
                      /\ \A c \in control' \ control : c.action = HoldPlan \/
                              \E e \in control : e.by = c.by /\ e.since = c.since
                      /\ ~running => seq' = seq]_vars
  BY ClosedGate DEF ClosedStep
<1>2. QED BY <1>1, Invariance, PTL DEF Spec, FailsClosed

----------------------------------------------------------------------------
\* The books.  A trail ends with what became of its decision, and has an execution or a
\* rollback in it only if the decision reads so still.
TrailTellsStatus ==
    \A d \in DecisionId :
        /\ status[d] = "none" => trail[d] = <<>>
        /\ status[d] # "none" =>
              /\ Len(trail[d]) > 0
              /\ trail[d][Len(trail[d])] =
                    IF status[d] = "pending_approval" THEN "created" ELSE status[d]
        /\ \A i \in 1..Len(trail[d]) : trail[d][i] \in Done => status[d] \in Done

BooksInv == Inv /\ BooksAreRight /\ TrailTellsStatus

\* The life of a decision: what may follow what.
Follows(new, old) ==
    \/ new = "pending_approval" /\ old \in Status \ Done
    \/ new = "approved" /\ old = "pending_approval"
    \/ new \in {"executed", "failed"} /\ old = "approved"
    \/ new = "rolled_back" /\ old = "executed"

\* Every step of such a life is logged where the last one ended.
LEMMA TrailStep ==
    ASSUME TypeOK, TrailIsALife, TrailTellsStatus, NEW d \in DecisionId, NEW new \in Status,
           Follows(new, status[d]), status' = [status EXCEPT ![d] = new],
           Log(d, IF new = "pending_approval" THEN "created" ELSE new)
    PROVE  TrailIsALife' /\ TrailTellsStatus'
<1> DEFINE event == IF new = "pending_approval" THEN "created" ELSE new
           old == trail[d]
           n == Len(old)
<1>1. /\ old \in Seq(Event) /\ n \in Nat
      /\ event \in Event
      /\ trail' = [trail EXCEPT ![d] = Append(old, event)]
  <2>1. old \in Seq(Event) /\ trail' = [trail EXCEPT ![d] = Append(old, event)]
    BY DEF TypeOK, Log
  <2>2. event \in Event
    BY DEF Follows, Event
  <2> QED
    BY <2>1, <2>2
<1>2. /\ trail'[d] = Append(old, event)
      /\ \A e \in DecisionId : e # d => trail'[e] = trail[e] /\ status'[e] = status[e]
      /\ status'[d] = new
  BY <1>1 DEF TypeOK
<1>3. /\ Len(trail'[d]) = n + 1 /\ trail'[d][n + 1] = event
      /\ \A i \in 1..n : trail'[d][i] = old[i]
  BY <1>1, <1>2
<1>4. /\ status[d] = "none" => n = 0
      /\ status[d] # "none" =>
            n > 0 /\ old[n] = IF status[d] = "pending_approval" THEN "created" ELSE status[d]
      /\ \A i \in 1..n : old[i] \in Done => status[d] \in Done
  BY <1>1 DEF TrailTellsStatus
<1>5. \A i \in 1..n :
         /\ old[i] \in {"executed", "failed"} => i > 1 /\ old[i - 1] = "approved"
         /\ old[i] = "approved" => i > 1 /\ old[i - 1] = "created"
         /\ old[i] = "rolled_back" => i = n /\ i > 1 /\ old[i - 1] = "executed"
         /\ old[i] = "executed" => n <= i + 1
  BY DEF TrailIsALife
<1> HIDE DEF old, n, event
<1>6. TrailTellsStatus'
  <2>1. \A i \in 1..n : old[i] \in Done => new \in Done
    BY <1>4 DEF Follows, Done
  <2>2. event \in Done => new \in Done
    BY DEF event, Done
  <2>3. \A i \in 1..Len(trail'[d]) : trail'[d][i] \in Done => new \in Done
    BY <1>1, <1>3, <2>1, <2>2
  <2>4. new # "none" /\ Len(trail'[d]) > 0 /\ trail'[d][Len(trail'[d])] = event
    BY <1>1, <1>3 DEF Follows
  <2>5. ASSUME NEW e \in DecisionId
        PROVE  /\ status'[e] = "none" => trail'[e] = <<>>
               /\ status'[e] # "none" =>
                     /\ Len(trail'[e]) > 0
                     /\ trail'[e][Len(trail'[e])] =
                           IF status'[e] = "pending_approval" THEN "created" ELSE status'[e]
               /\ \A i \in 1..Len(trail'[e]) : trail'[e][i] \in Done => status'[e] \in Done
    <3>1. CASE e = d
      BY <1>2, <2>3, <2>4, <3>1 DEF event
    <3>2. CASE e # d
      BY <1>2, <3>2 DEF TrailTellsStatus
    <3> QED
      BY <3>1, <3>2
  <2> QED
    BY <2>5 DEF TrailTellsStatus
<1>7. n \in Nat
  BY <1>1
<1>8. ASSUME NEW i \in 1..(n + 1)
      PROVE  /\ trail'[d][i] \in {"executed", "failed"} => i > 1 /\ trail'[d][i - 1] = "approved"
             /\ trail'[d][i] = "approved" => i > 1 /\ trail'[d][i - 1] = "created"
             /\ trail'[d][i] = "rolled_back" =>
                   i = n + 1 /\ i > 1 /\ trail'[d][i - 1] = "executed"
             /\ trail'[d][i] = "executed" => n + 1 <= i + 1
  <2>1. CASE i = n + 1
    <3>1. trail'[d][i] = event
      BY <1>3, <2>1
    <3>2. event # "created" => status[d] # "none" /\ n > 0
      BY <1>4 DEF event, Follows
    <3>3. ASSUME n > 0
          PROVE  i > 1 /\ trail'[d][i - 1] = old[n]
      <4>1. i > 1 /\ i - 1 = n /\ n \in 1..n
        BY <1>7, <2>1, <3>3
      <4> QED
        BY <1>3, <4>1
    <3>4. /\ event \in {"executed", "failed"} => old[n] = "approved"
          /\ event = "approved" => old[n] = "created"
          /\ event = "rolled_back" => old[n] = "executed"
      BY <1>4 DEF event, Follows
    <3> QED
      BY <1>7, <2>1, <3>1, <3>2, <3>3, <3>4
  <2>2. CASE i \in 1..n
    <3>1. trail'[d][i] = old[i] /\ (i > 1 => trail'[d][i - 1] = old[i - 1])
      BY <1>1, <1>3, <2>2
    <3>2. ASSUME old[i] \in Done
          PROVE  status[d] = "executed" /\ old[n] = "executed"
      BY <1>4, <2>2, <3>2 DEF Follows, Done
    <3>3. old[i] # "rolled_back"
      <4> SUFFICES ASSUME old[i] = "rolled_back" PROVE FALSE
        OBVIOUS
      <4>1. i = n /\ old[n] = "executed"
        BY <1>5, <2>2, <3>2 DEF Done
      <4> QED
        BY <4>1
    <3>4. old[i] = "executed" => i = n
      <4> SUFFICES ASSUME old[i] = "executed", i # n PROVE FALSE
        OBVIOUS
      <4>1. n <= i + 1 /\ old[n] = "executed"
        BY <1>5, <2>2, <3>2 DEF Done
      <4>2. n \in 1..n /\ i = n - 1
        BY <1>7, <2>2, <4>1
      <4>3. old[n - 1] = "approved"
        BY <1>5, <4>1, <4>2
      <4> QED
        BY <4>2, <4>3
    <3>5. old[i] = "executed" => n + 1 <= i + 1
      BY <1>7, <3>4
    <3> QED
      BY <1>5, <2>2, <3>1, <3>3, <3>5
  <2>3. i = n + 1 \/ i \in 1..n
    BY <1>7
  <2> QED
    BY <2>1, <2>2, <2>3
<1>9. TrailIsALife'
  <2>1. ASSUME NEW e \in DecisionId, NEW i \in 1..Len(trail'[e])
        PROVE  /\ trail'[e][i] \in {"executed", "failed"} =>
                     i > 1 /\ trail'[e][i - 1] = "approved"
               /\ trail'[e][i] = "approved" => i > 1 /\ trail'[e][i - 1] = "created"
               /\ trail'[e][i] = "rolled_back" => /\ i = Len(trail'[e])
                                                  /\ i > 1 /\ trail'[e][i - 1] = "executed"
               /\ trail'[e][i] = "executed" => Len(trail'[e]) <= i + 1
    <3>1. CASE e = d
      BY <1>3, <1>8, <3>1
    <3>2. CASE e # d
      BY <1>2, <3>2 DEF TrailIsALife
    <3> QED
      BY <3>1, <3>2
  <2> QED
    BY <2>1 DEF TrailIsALife
<1> QED
  BY <1>6, <1>9

\* Aging moves a control along the clock and keeps whose it is.
LEMMA AdvanceSlot ==
    ASSUME SimTypeOK, AgesWithTheClock, Advance
    PROVE  /\ AgesWithTheClock'
           /\ \A c \in control' : \E e \in control : e.by = c.by /\ e.action = c.action
<1>1. Lag \in Nat /\ seq \in Nat /\ seq' = seq + Lag /\ control \in SUBSET Effect
  BY LagType DEF Advance, SimTypeOK
<1>2. ASSUME NEW c \in control'
      PROVE  \E e \in control : /\ e \in Effect /\ e.left > Lag
                                /\ c = [e EXCEPT !.left = e.left - Lag]
  BY <1>1, <1>2 DEF Advance, Aged
<1>3. ASSUME NEW c \in control'
      PROVE  /\ \E e \in control : e.by = c.by /\ e.action = c.action
             /\ c.left > 0 /\ c.left + (seq' - c.since) = TicksOf(c.action)
  <2>1. PICK e \in control : /\ e \in Effect /\ e.left > Lag
                             /\ c = [e EXCEPT !.left = e.left - Lag]
    BY <1>2
  <2>2. /\ c.by = e.by /\ c.action = e.action /\ c.since = e.since
        /\ c.left = e.left - Lag /\ e.left \in Nat /\ e.since \in Nat
    BY <2>1 DEF Effect
  <2>3. e.left + (seq - e.since) = TicksOf(e.action)
    BY DEF AgesWithTheClock
  <2>4. c.left > 0 /\ c.left + (seq' - c.since) = e.left + (seq - e.since)
    BY <1>1, <2>1, <2>2
  <2> QED
    BY <2>2, <2>3, <2>4
<1> QED
  BY <1>3 DEF AgesWithTheClock

\* What is installed is there alone, and has all its ticks but the forced one.
LEMMA InstallSlot ==
    ASSUME SimTypeOK, NEW by \in Subject, NEW a \in Action, NEW n \in Nat, Install(by, a, n)
    PROVE  /\ AgesWithTheClock'
           /\ \A c \in control' : c.by = by /\ c.action = a
<1>1. /\ Forced \in Nat /\ seq \in Nat /\ TicksOf(a) \in Nat
      /\ seq' = seq + n + Forced
  BY LagType, SimulatorAssumption DEF Install, TicksOf
<1>2. ASSUME NEW c \in control'
      PROVE  /\ c.by = by /\ c.action = a
             /\ c.left > 0 /\ c.left + (seq' - c.since) = TicksOf(c.action)
  <2> DEFINE e == [by |-> by, action |-> a, left |-> TicksOf(a), since |-> seq + n]
  <2>1. c = [e EXCEPT !.left = @ - Forced] /\ e.left > Forced
    BY DEF Install, Aged
  <2>2. /\ c.by = by /\ c.action = a /\ c.since = seq + n
        /\ c.left = TicksOf(a) - Forced /\ TicksOf(a) > Forced
    BY <2>1
  <2> QED
    BY <1>1, <2>2
<1> QED
  BY <1>2 DEF AgesWithTheClock

\* A step that rolls nothing back, and after which the slot holds what was in it or
\* something of a subject that is not rolled back.
LEMMA InertKept ==
    ASSUME RolledBackIsInert,
           \A c \in control' : \/ \E e \in control : e.by = c.by /\ e.action = c.action
                               \/ c.action = HoldPlan
                               \/ /\ c.by \in DecisionId => status'[c.by] # "rolled_back"
                                  /\ c.by \in CoreId => coreReceipt'[c.by] # "rolled_back",
           \A d \in DecisionId : status'[d] = "rolled_back" => status[d] = "rolled_back",
           \A p \in CoreId : coreReceipt'[p] = "rolled_back" => coreReceipt[p] = "rolled_back"
    PROVE  RolledBackIsInert'
BY DEF RolledBackIsInert

\* The two parts of the books: what is written, and what is in the slot.
Ledger == ReceiptsAreEarned /\ TrailIsALife /\ TrailTellsStatus
Slot == RolledBackIsInert /\ AgesWithTheClock

LEMMA SimulatorBooks ==
    ASSUME BooksInv, Advance \/ UNCHANGED <<seq, control>>, UNCHANGED ctlVars
    PROVE  Ledger' /\ Slot'
<1>1. SimTypeOK /\ Ledger /\ Slot
  BY DEF BooksInv, Inv, TypeOK, Ledger, Slot, BooksAreRight
<1>2. Ledger'
  BY <1>1 DEF ctlVars, Ledger, ReceiptsAreEarned, TrailIsALife, TrailTellsStatus
<1>3. UNCHANGED <<status, coreReceipt>>
  BY DEF ctlVars
<1>4. CASE Advance
  BY <1>1, <1>2, <1>3, <1>4, AdvanceSlot, InertKept DEF Slot
<1>5. CASE UNCHANGED <<seq, control>>
  BY <1>1, <1>2, <1>3, <1>5 DEF Slot, RolledBackIsInert, AgesWithTheClock
<1> QED
  BY <1>4, <1>5

LEMMA CreateBooks ==
    ASSUME BooksInv, NEW c \in Controller, NEW at \in Stamp, NEW a \in Action,
           CreateDecision(c, at, a)
    PROVE  Ledger' /\ Slot'
<1> DEFINE d == [controller |-> c, at |-> at, seq |-> seq + Lag]
<1>1. SimTypeOK /\ TypeOK /\ Ledger /\ Slot /\ Inv
  BY DEF BooksInv, Inv, TypeOK, Ledger, Slot, BooksAreRight
<1>2. d \in DecisionId /\ status[d] \notin Done
  BY <1>1, CreatedIsNew
<1>3. /\ Advance
      /\ status' = [status EXCEPT ![d] = "pending_approval"] /\ Log(d, "created")
      /\ UNCHANGED <<receipts, coreReceipt, coreKeys, applied>>
  BY DEF CreateDecision
<1> HIDE DEF d
<1>4. Follows("pending_approval", status[d]) /\ "pending_approval" \in Status
  BY <1>1, <1>2 DEF Follows, TypeOK, Status
<1>5. TrailIsALife' /\ TrailTellsStatus'
  BY <1>1, <1>2, <1>3, <1>4, TrailStep DEF Ledger
<1>6. ReceiptsAreEarned'
  BY <1>1, <1>3 DEF Ledger, ReceiptsAreEarned
<1>7. \A e \in DecisionId : status'[e] = "rolled_back" => status[e] = "rolled_back"
  BY <1>1, <1>2, <1>3 DEF TypeOK
<1>8. Slot'
  BY <1>1, <1>3, <1>7, AdvanceSlot, InertKept DEF Slot
<1> QED
  BY <1>5, <1>6, <1>8 DEF Ledger

LEMMA ApproveBooks ==
    ASSUME BooksInv, NEW d \in DecisionId, NEW list \in ApprovalRequest,
           ApproveDecision(d, list)
    PROVE  Ledger' /\ Slot'
<1>1. TypeOK /\ Ledger /\ Slot
  BY DEF BooksInv, Inv, Ledger, Slot, BooksAreRight
<1>2. /\ status[d] = "pending_approval"
      /\ status' = [status EXCEPT ![d] = "approved"] /\ Log(d, "approved")
      /\ UNCHANGED <<seq, control, receipts, coreReceipt, coreKeys, applied>>
  BY DEF ApproveDecision, simVars
<1>3. Follows("approved", status[d]) /\ "approved" \in Status
  BY <1>2 DEF Follows, Status
<1>4. TrailIsALife' /\ TrailTellsStatus'
  BY <1>1, <1>2, <1>3, TrailStep DEF Ledger
<1>5. \A e \in DecisionId : status'[e] = "rolled_back" => status[e] = "rolled_back"
  BY <1>1, <1>2 DEF TypeOK
<1>6. Slot'
  BY <1>1, <1>2, <1>5, InertKept DEF Slot, AgesWithTheClock
<1> QED
  BY <1>1, <1>2, <1>4, <1>6 DEF Ledger, ReceiptsAreEarned

LEMMA BlockedBooks ==
    ASSUME BooksInv, NEW d \in DecisionId, NEW k \in KeysFor(d), ExecuteDecisionBlocked(d, k)
    PROVE  Ledger' /\ Slot'
<1>1. TypeOK /\ Ledger /\ Slot
  BY DEF BooksInv, Inv, Ledger, Slot, BooksAreRight
<1>2. /\ status[d] = "approved"
      /\ status' = [status EXCEPT ![d] = "failed"] /\ Log(d, "failed")
      /\ UNCHANGED <<seq, control, receipts, coreReceipt, coreKeys, applied>>
  BY DEF ExecuteDecisionBlocked, simVars
<1>3. Follows("failed", status[d]) /\ "failed" \in Status
  BY <1>2 DEF Follows, Status
<1>4. TrailIsALife' /\ TrailTellsStatus'
  BY <1>1, <1>2, <1>3, TrailStep DEF Ledger
<1>5. \A e \in DecisionId : status'[e] = "rolled_back" => status[e] = "rolled_back"
  BY <1>1, <1>2 DEF TypeOK
<1>6. Slot'
  BY <1>1, <1>2, <1>5, InertKept DEF Slot, AgesWithTheClock
<1> QED
  BY <1>1, <1>2, <1>4, <1>6 DEF Ledger, ReceiptsAreEarned

LEMMA ExecuteBooks ==
    ASSUME BooksInv, NEW d \in DecisionId, NEW k \in KeysFor(d), ExecuteDecision(d, k)
    PROVE  Ledger' /\ Slot'
<1>1. SimTypeOK /\ TypeOK /\ Ledger /\ Slot
  BY DEF BooksInv, Inv, TypeOK, Ledger, Slot, BooksAreRight
<1>2. /\ status[d] = "approved"
      /\ Install(d, recommended[d], Lag)
      /\ status' = [status EXCEPT ![d] = "executed"] /\ Log(d, "executed")
      /\ receipts' = [receipts EXCEPT ![k] = {d}]
      /\ applied' = [applied EXCEPT ![d] = @ + 1]
      /\ UNCHANGED <<coreReceipt, coreKeys>>
  BY DEF ExecuteDecision, TakesEffect
<1>3. Follows("executed", status[d]) /\ "executed" \in Status
  BY <1>2 DEF Follows, Status
<1>4. TrailIsALife' /\ TrailTellsStatus'
  BY <1>1, <1>2, <1>3, TrailStep DEF Ledger
<1>5. d \in Subject /\ recommended[d] \in Action /\ Lag \in Nat
  BY <1>1, LagType, ControlAssumption DEF TypeOK
<1>6. ReceiptsAreEarned'
  <2>1. \A s \in Subject : applied[s] \in Nat /\ applied'[s] \in Nat
                           /\ (applied[s] > 0 => applied'[s] > 0)
    BY <1>1, <1>2, <1>5 DEF TypeOK
  <2>2. applied'[d] > 0
    BY <1>1, <1>2, <1>5 DEF TypeOK
  <2>3. \A h \in DecisionKey : \A e \in receipts'[h] : e = d \/ e \in receipts[h]
    BY <1>1, <1>2 DEF TypeOK
  <2>4. \A h \in DecisionKey : \A e \in receipts[h] : e \in Subject
    BY <1>1, ControlAssumption DEF TypeOK
  <2>5. \A h \in CoreKey : \A p \in coreKeys[h] : p \in Subject
    BY <1>1, ControlAssumption DEF TypeOK
  <2>6. ReceiptsAreEarned
    BY <1>1 DEF Ledger
  <2> QED
    BY <1>2, <2>1, <2>2, <2>3, <2>4, <2>5, <2>6 DEF ReceiptsAreEarned
<1>7. Slot'
  <2>1. AgesWithTheClock' /\ \A c \in control' : c.by = d
    BY <1>1, <1>2, <1>5, InstallSlot
  <2>2. /\ status'[d] = "executed"
        /\ \A e \in DecisionId : status'[e] = "rolled_back" => status[e] = "rolled_back"
    BY <1>1, <1>2 DEF TypeOK
  <2>3. d \notin CoreId
    BY Disjoint
  <2> QED
    BY <1>1, <1>2, <2>1, <2>2, <2>3, InertKept DEF Slot
<1> QED
  BY <1>4, <1>6, <1>7 DEF Ledger

LEMMA RollbackBooks ==
    ASSUME BooksInv, NEW d \in DecisionId, RollbackDecision(d)
    PROVE  Ledger' /\ Slot'
<1>1. SimTypeOK /\ TypeOK /\ Ledger
  BY DEF BooksInv, Inv, TypeOK, Ledger, BooksAreRight
<1>2. /\ status[d] = "executed"
      /\ Install(d, HoldPlan, 0)
      /\ status' = [status EXCEPT ![d] = "rolled_back"] /\ Log(d, "rolled_back")
      /\ UNCHANGED <<receipts, coreKeys, applied>>
  BY DEF RollbackDecision
<1>3. Follows("rolled_back", status[d]) /\ "rolled_back" \in Status
  BY <1>2 DEF Follows, Status
<1>4. TrailIsALife' /\ TrailTellsStatus'
  BY <1>1, <1>2, <1>3, TrailStep DEF Ledger
<1>5. AgesWithTheClock' /\ \A c \in control' : c.action = HoldPlan
  BY <1>1, <1>2, InstallSlot, SimulatorAssumption, ControlAssumption
<1> QED
  BY <1>1, <1>2, <1>4, <1>5 DEF Ledger, ReceiptsAreEarned, Slot, RolledBackIsInert

LEMMA ExecuteCoreBooks ==
    ASSUME BooksInv, NEW p \in CoreId, NEW k \in KeysFor(p), ExecuteCorePlan(p, k)
    PROVE  Ledger' /\ Slot'
<1>1. SimTypeOK /\ TypeOK /\ Ledger /\ Slot
  BY DEF BooksInv, Inv, TypeOK, Ledger, Slot, BooksAreRight
<1>2. /\ Install(p, CoreAction, Lag)
      /\ coreReceipt' = [coreReceipt EXCEPT ![p] = "acknowledged"]
      /\ coreKeys' = [coreKeys EXCEPT ![k] = {p}]
      /\ applied' = [applied EXCEPT ![p] = @ + 1]
      /\ UNCHANGED <<status, receipts, trail>>
  BY DEF ExecuteCorePlan
<1>3. TrailIsALife' /\ TrailTellsStatus'
  BY <1>1, <1>2 DEF Ledger, TrailIsALife, TrailTellsStatus
<1>4. p \in Subject /\ CoreAction \in Action /\ Lag \in Nat
  BY <1>1, LagType, ControlAssumption
<1>5. ReceiptsAreEarned'
  <2>1. \A s \in Subject : applied[s] \in Nat /\ applied'[s] \in Nat
                           /\ (applied[s] > 0 => applied'[s] > 0)
    BY <1>1, <1>2, <1>4 DEF TypeOK
  <2>2. applied'[p] > 0
    BY <1>1, <1>2, <1>4 DEF TypeOK
  <2>3. \A h \in CoreKey : \A e \in coreKeys'[h] : e = p \/ e \in coreKeys[h]
    BY <1>1, <1>2 DEF TypeOK
  <2>4. \A h \in DecisionKey : \A e \in receipts[h] : e \in Subject
    BY <1>1, ControlAssumption DEF TypeOK
  <2>5. \A h \in CoreKey : \A e \in coreKeys[h] : e \in Subject
    BY <1>1, ControlAssumption DEF TypeOK
  <2>6. ReceiptsAreEarned
    BY <1>1 DEF Ledger
  <2> QED
    BY <1>2, <2>1, <2>2, <2>3, <2>4, <2>5, <2>6 DEF ReceiptsAreEarned
<1>6. Slot'
  <2>1. AgesWithTheClock' /\ \A c \in control' : c.by = p
    BY <1>1, <1>2, <1>4, InstallSlot
  <2>2. /\ coreReceipt'[p] = "acknowledged"
        /\ \A q \in CoreId : coreReceipt'[q] = "rolled_back" => coreReceipt[q] = "rolled_back"
    BY <1>1, <1>2 DEF TypeOK
  <2>3. p \notin DecisionId
    BY Disjoint
  <2> QED
    BY <1>1, <1>2, <2>1, <2>2, <2>3, InertKept DEF Slot
<1> QED
  BY <1>3, <1>5, <1>6 DEF Ledger

LEMMA RollbackCoreBooks ==
    ASSUME BooksInv, NEW p \in CoreId, RollbackCorePlan(p)
    PROVE  Ledger' /\ Slot'
<1>1. SimTypeOK /\ Ledger
  BY DEF BooksInv, Inv, TypeOK, Ledger, BooksAreRight
<1>2. Install(p, HoldPlan, 0) /\ UNCHANGED <<status, receipts, coreKeys, trail, applied>>
  BY DEF RollbackCorePlan
<1>3. AgesWithTheClock' /\ \A c \in control' : c.action = HoldPlan
  BY <1>1, <1>2, InstallSlot, SimulatorAssumption, ControlAssumption
<1> QED
  BY <1>1, <1>2, <1>3
  DEF Ledger, ReceiptsAreEarned, TrailIsALife, TrailTellsStatus, Slot, RolledBackIsInert

LEMMA BooksNextInv == BooksInv /\ [Next]_vars => BooksInv'
<1> SUFFICES ASSUME BooksInv, [Next]_vars PROVE Ledger' /\ Slot'
  BY NextInv DEF BooksInv, BooksAreRight, Ledger, Slot
<1>1. CASE UNCHANGED vars
  BY <1>1, SimulatorBooks DEF vars, simVars
<1>2. CASE SimulatorNext
  BY <1>2, SimulatorBooks
  DEF SimulatorNext, WallTick, Snapshot, SetRunning, InjectScenario
<1>3. CASE DecisionNext
  BY <1>3, CreateBooks, ApproveBooks, ExecuteBooks, BlockedBooks, RollbackBooks
  DEF DecisionNext
<1>4. CASE CoreNext
  BY <1>4, ExecuteCoreBooks, RollbackCoreBooks DEF CoreNext
<1> QED
  BY <1>1, <1>2, <1>3, <1>4 DEF Next

LEMMA BooksInitInv == Init => BooksInv
<1> SUFFICES ASSUME Init PROVE BooksInv
  OBVIOUS
<1>1. Inv
  BY InitInv
<1> QED
  BY <1>1
  DEF Init, SimInit, BooksInv, BooksAreRight, ReceiptsAreEarned, TrailIsALife,
      RolledBackIsInert, AgesWithTheClock, TrailTellsStatus

\* The inductive invariant of the books.
THEOREM BooksInvariance == Spec => []BooksInv
BY BooksInitInv, BooksNextInv, PTL DEF Spec

\* Keys, audit trail and control slot tell one story, that of what was applied, for any
\* number of decisions created anew and however long the trail.
THEOREM BooksAreKept == Spec => []BooksAreRight
<1>1. BooksInv => BooksAreRight
  BY DEF BooksInv
<1> QED
  BY <1>1, BooksInvariance, PTL
=============================================================================
