------------------------------- MODULE PortReplay -------------------------------
(***************************************************************************)
(* The two environments the learners are trained and judged in: the        *)
(* tabular benchmark's (server/rlTrainingEngine.ts, transition) and the    *)
(* port business engine's (server/portBusinessRlEngine.ts, transition,     *)
(* with the masks and the projection of portBusinessControlPlane.ts).  A   *)
(* behaviour is one episode of training or one replay of an evaluation     *)
(* scenario.  Ratios are in thousandths, and so are the vessels, rounded   *)
(* down where the code keeps fractions; what a policy prefers is left out: *)
(* it takes any action its mask leaves it.                                 *)
(***************************************************************************)
EXTENDS Integers

CONSTANTS
    PortRecord,       \* records a dataset may hold
    Months,           \* records of a dataset
    Horizon,          \* steps of an episode of training
    Residual,         \* noise on the arrivals in training, from -1000 to 1000
    DisruptionEvery,  \* 17: a disruption comes every so many records
    DisruptionFor     \* 4: and lasts for so many

\* A record as buildDefaultRecords makes it: what is clamped there is not negative.
MonthRecord ==
    [arrivals : Nat, capacity : Nat, channel : BOOLEAN, tide : BOOLEAN, pilots : Nat,
     hazmat : BOOLEAN, cranes : Nat, shorePower : Nat, transfer : Nat, loss : Nat,
     safety : Nat, yard : Nat, gate : Nat, skew : Nat, carbon : Nat, productivity : Nat]

ASSUME ReplayAssumption ==
    /\ {Months, Horizon, DisruptionEvery} \subseteq Nat \ {0}
    /\ DisruptionFor \in 0 .. DisruptionEvery
    /\ Residual \subseteq -1000 .. 1000
    /\ PortRecord \subseteq {r \in MonthRecord : r.capacity > 0}

VARIABLES
    engine,     \* whose transition it is
    setting,    \* "training", or the scenario of a replay
    controller, \* who chooses
    records,    \* the dataset
    month,      \* steps done
    now,        \* EnvironmentState, SimulatorState
    chosen,     \* the action training has chosen for its next step, or None
    flow        \* what the steps so far add up to

replayVars == <<engine, setting, controller, records, month, now, chosen, flow>>

----------------------------------------------------------------------------
Least(a, b) == IF a <= b THEN a ELSE b
Most(a, b) == IF a >= b THEN a ELSE b
Clamp(x, low, high) == Least(high, Most(low, x))
Per(x, thousandths) == (x * thousandths) \div 1000

Hold == "hold-plan"

ActionEffect(action, capacity, defer, divert, yard, gate, fairness, recovery) ==
    [action |-> action, capacity |-> capacity, defer |-> defer, divert |-> divert,
     yard |-> yard, gate |-> gate, fairness |-> fairness, recovery |-> recovery]

\* PORT_BUSINESS_ACTION_EFFECTS.
BusinessEffects ==
    {ActionEffect("hold-plan", 1000, 0, 0, 0, 0, 0, 1000),
     ActionEffect("eco-speed-advisory", 998, 6, 0, 0, 10, 0, 1000),
     ActionEffect("arrival-window-smooth", 1000, 18, 0, 8, 35, 10, 1000),
     ActionEffect("berth-reassign", 1035, 2, 0, 0, 0, 18, 1030),
     ActionEffect("crane-rebalance", 1050, 3, 0, -6, 0, 10, 1050),
     ActionEffect("yard-gate-smooth", 1006, 4, 0, 35, 90, 8, 1010),
     ActionEffect("pilot-tug-priority", 1012, 2, 0, 0, 0, 45, 1010),
     ActionEffect("shore-power-priority", 998, 0, 0, 0, 0, 0, 1000),
     ActionEffect("intermodal-rebalance", 1008, 3, 0, 45, 40, 12, 1015),
     ActionEffect("recovery-capacity", 1060, 6, 0, 20, 25, 20, 1160),
     ActionEffect("neighbor-port-advisory", 997, 0, 12, 15, 15, 6, 1030)}

\* RL_ACTIONS; the effects on carbon and safety move no vessel.
BenchmarkEffects ==
    {ActionEffect("hold-plan", 1000, 0, 0, 0, 0, 0, 1000),
     ActionEffect("eco-speed", 997, 5, 0, 0, 0, 0, 1000),
     ActionEffect("arrival-window", 1000, 20, 0, 0, 0, 0, 1000),
     ActionEffect("port-diversion", 995, 0, 10, 0, 0, 0, 1000),
     ActionEffect("capacity-control", 1020, 5, 0, 0, 0, 0, 1000)}

BusinessAction == {e.action : e \in BusinessEffects}
BenchmarkAction == {e.action : e \in BenchmarkEffects}

EffectOf(effects, a) == CHOOSE e \in effects : e.action = a

\* What both transitions do with the demand: part of the deferred backlog comes back,
\* part of the arrivals is deferred or diverted, the rest joins the queue.
Moved(s, arrivals, capacity, effect, share, least, divertible) ==
    LET back == Least(s.backlog, Most(Per(s.backlog, share), Per(capacity, least)))
        deferred == Per(arrivals, effect.defer)
        diverted == Least(Per(arrivals, effect.divert), divertible)
        waiting == s.queue + Most(0, arrivals - deferred - diverted + back)
        served == Least(waiting, capacity)
    IN  [arrivals |-> arrivals, served |-> served, diverted |-> diverted,
         queue |-> waiting - served, backlog |-> Most(0, s.backlog - back + deferred)]

----------------------------------------------------------------------------
\* infeasibilityReasons: what rules an action out in a situation.
Infeasible(r, s, a) ==
    \/ a \in {"eco-speed-advisory", "arrival-window-smooth", "pilot-tug-priority"}
       /\ (~r.channel \/ r.safety >= 780)
    \/ a = "arrival-window-smooth" /\ ~r.tide
    \/ a \in {"arrival-window-smooth", "pilot-tug-priority"} /\ r.pilots < 640
    \/ a \in {"berth-reassign", "yard-gate-smooth", "intermodal-rebalance"} /\ r.hazmat
    \/ a = "crane-rebalance" /\ r.cranes < 740
    \/ a = "shore-power-priority" /\ r.shorePower < 200
    \/ a = "intermodal-rebalance" /\ r.transfer < Per(r.arrivals, 80)
    \/ a = "neighbor-port-advisory" /\ r.transfer < Per(r.arrivals, 40)
    \/ a = "recovery-capacity" /\ (r.loss < 25 \/ r.cranes < 740 \/ s.yard >= 980)
    \/ a \in {"crane-rebalance", "recovery-capacity"} /\ s.yard >= 995

FeasibleActions(r, s) == {a \in BusinessAction : ~Infeasible(r, s, a)}

\* projectBusinessAction: an infeasible action becomes the hold plan.
Projected(r, s, a) == IF Infeasible(r, s, a) THEN Hold ELSE a

\* applicableBusinessActionIds: after an intervention one interval of rest; otherwise what
\* is feasible and called for.
Pressure(r, s) == ((r.arrivals + s.queue + s.backlog) * 1000) \div r.capacity

CalledFor(r, s, a) ==
    \/ a = Hold
    \/ a = "eco-speed-advisory" /\ r.carbon > 1020 /\ Pressure(r, s) < 1060
    \/ a = "arrival-window-smooth" /\ (Pressure(r, s) > 960 \/ s.queue > Per(r.capacity, 25))
    \/ a = "berth-reassign" /\ (Pressure(r, s) > 940 \/ s.queue > Per(r.capacity, 20))
    \/ a = "crane-rebalance" /\ (Pressure(r, s) > 1000 \/ s.queue > Per(r.capacity, 35))
    \/ a = "yard-gate-smooth" /\ (s.yard > 780 \/ s.gate > 680)
    \/ a = "pilot-tug-priority" /\ s.gap > 240 /\ Pressure(r, s) > 900
    \/ a = "shore-power-priority" /\ r.carbon > 1040 /\ r.shorePower >= 200
    \/ a = "intermodal-rebalance" /\ (s.yard > 800 \/ s.gate > 760)
    \/ a = "recovery-capacity" /\ s.recovery > Per(r.capacity, 12)
    \/ a = "neighbor-port-advisory"
       /\ (Pressure(r, s) > 1080 \/ s.recovery > Per(r.capacity, 40))

Applicable(r, s) ==
    IF s.previous # Hold THEN {Hold}
    ELSE {a \in FeasibleActions(r, s) : CalledFor(r, s, a)}

----------------------------------------------------------------------------
\* transition of the business engine, after the projection: the capacity, the pressure on
\* yard and gate, the vessels delayed by disruptions, and the gap between the terminals.
CapacityUnder(r, effect) ==
    Most(1, Per(Per(r.capacity, effect.capacity), Clamp(880 + Per(r.productivity, 120), 880, 1040)))

NextYard(s, r, used, effect) ==
    Clamp(Per(s.yard, 640) + Per(r.yard, 360) + Per(Most(0, used - 840), 50) - effect.yard,
          250, 1080)

NextGate(s, r, yard, effect) ==
    Clamp(Per(s.gate, 550) + Per(r.gate, 450) + Per(Most(0, yard - 780), 320) - effect.gate,
          0, 2000)

NextRecovery(s, r, m, capacity, effect) ==
    LET owed == s.recovery + Per(Per(m.arrivals, r.loss), 70)
        able == Per(Per(capacity, 12), effect.recovery) + Per(Most(0, capacity - m.served), 120)
    IN  Most(0, owed - Least(owed, able))

BusinessStep(s, a, r, arrivals) ==
    LET effect == EffectOf(BusinessEffects, a)
        capacity == CapacityUnder(r, effect)
        m == Moved(s, arrivals, capacity, effect, 300, 18, Per(r.transfer, 80))
        load == ((m.queue + m.backlog) * 1000) \div capacity
        yard == NextYard(s, r, (m.served * 1000) \div capacity, effect)
    IN  [moved |-> m,
         now |-> [queue |-> m.queue, backlog |-> m.backlog,
                  recovery |-> NextRecovery(s, r, m, capacity, effect),
                  yard |-> yard, gate |-> NextGate(s, r, yard, effect),
                  gap |-> Clamp(r.skew + Per(load, 90) - effect.fairness, 0, 1000),
                  previous |-> a]]

\* transition of the benchmark's environment.
BenchmarkStep(s, a, r, arrivals) ==
    LET effect == EffectOf(BenchmarkEffects, a)
        capacity == Per(r.capacity, effect.capacity)
        m == Moved(s, arrivals, capacity, effect, 350, 15, arrivals)
    IN  [moved |-> m, now |-> [s EXCEPT !.queue = m.queue, !.backlog = m.backlog,
                                        !.previous = a]]

\* initialSimulatorState and initialState.
FirstState(e, r) ==
    LET over == Most(0, r.arrivals - r.capacity)
    IN  [queue |-> Per(over, IF e = "business" THEN 280 ELSE 350), backlog |-> 0,
         recovery |-> Per(Per(r.arrivals, r.loss), 80),
         yard |-> r.yard, gate |-> r.gate, gap |-> r.skew, previous |-> Hold]

\* scenarioRecords of each engine, for the record at index i, counted from 0.
Surge(r, thousandths) == [r EXCEPT !.arrivals = Per(@, thousandths)]

Disrupted(r, lost) ==
    [r EXCEPT !.capacity = Per(@, 1000 - lost), !.loss = Clamp(@ + lost, 0, 650)]

InScenario(scenario, r, i) ==
    IF scenario = "demand-surge" THEN Surge(r, 1080)
    ELSE IF scenario = "capacity-disruption"
         THEN Disrupted(r, IF i % DisruptionEvery < DisruptionFor THEN 120 ELSE 35)
    ELSE IF scenario = "weather-generalization"
         THEN [r EXCEPT !.safety = Clamp(@ + 220, 0, 1000)]
    ELSE IF scenario = "peak-congestion-stress"
         THEN [Surge(r, 1050) EXCEPT !.capacity = Per(@, 980)]
    ELSE r

Settings(e) ==
    IF e = "business"
    THEN {"training", "chronological-replay", "demand-surge", "capacity-disruption",
          "weather-generalization"}
    ELSE {"training", "historical-replay", "peak-congestion-stress"}

Controllers(e) == IF e = "business" THEN {"learnt", "optimizer", "sop"} ELSE {"learnt", "sop"}

----------------------------------------------------------------------------
Training == setting = "training"
NoFlow == [arrived |-> 0, served |-> 0, diverted |-> 0, projected |-> 0,
           doubled |-> 0]

\* The record of step k: a replay reads the records one by one, an episode of business
\* training stays at the last one, an episode of the benchmark starts over.
RecordAt(k) ==
    IF ~Training THEN InScenario(setting, records[k + 1], k)
    ELSE IF engine = "business" THEN records[Least(Months, k + 1)]
    ELSE records[(k % Months) + 1]

\* What may be chosen: the mask of the business learners, the feasible set the optimizer
\* ranks, every action of the benchmark's learners and of its predictive control.
OpenChoices(c, r, s) ==
    IF c = "sop" THEN {Hold}
    ELSE IF c = "optimizer" THEN FeasibleActions(r, s)
    ELSE IF engine = "business" THEN Applicable(r, s)
    ELSE BenchmarkAction

LastStep == IF Training THEN Horizon ELSE Months

ReplayInit ==
    /\ engine \in {"business", "benchmark"}
    /\ setting \in Settings(engine)
    /\ controller \in IF Training THEN {"learnt"} ELSE Controllers(engine)
    /\ records \in [1 .. Months -> PortRecord]
    /\ month = 0
    /\ now = FirstState(engine, RecordAt(0))
    /\ chosen \in IF Training THEN OpenChoices("learnt", RecordAt(0), now) ELSE {"none"}
    /\ flow = NoFlow

\* Mutation: the mask of the next step is computed for the record of this one.
ChooseStale(s) ==
    chosen' \in IF Training THEN OpenChoices("learnt", RecordAt(month), s) ELSE {"none"}

\* Training chooses for the next step when this one is done, with the next record and the
\* state this step leads to.
ChooseNext(s) ==
    chosen' \in IF Training THEN OpenChoices("learnt", RecordAt(month + 1), s) ELSE {"none"}

\* One step of the loops in trainLinearBusinessPolicy, evaluateBusinessPolicy,
\* trainQPolicy and evaluatePolicy.
EnvironmentStep(requested, noise) ==
    /\ month < LastStep
    /\ requested \in IF Training THEN {chosen} ELSE OpenChoices(controller, RecordAt(month), now)
    /\ noise \in IF Training THEN Residual ELSE {0}
    /\ LET r == RecordAt(month)
           action == IF engine = "business" THEN Projected(r, now, requested) ELSE requested
           arrivals == Most(0, Per(r.arrivals, 1000 + noise))
           step == IF engine = "business" THEN BusinessStep(now, action, r, arrivals)
                   ELSE BenchmarkStep(now, action, r, arrivals)
       IN  /\ now' = step.now
           /\ flow' = [arrived |-> flow.arrived + arrivals,
                       served |-> flow.served + step.moved.served,
                       diverted |-> flow.diverted + step.moved.diverted,
                       projected |-> flow.projected + IF action = requested THEN 0 ELSE 1,
                       doubled |-> flow.doubled
                                   + IF Hold \in {now.previous, action} THEN 0 ELSE 1]
           /\ ChooseNext(step.now)
    /\ month' = month + 1
    /\ UNCHANGED <<engine, setting, controller, records>>

ReplayNext ==
    \E a \in BusinessAction \cup BenchmarkAction, noise \in Residual \cup {0} :
        EnvironmentStep(a, noise)

ReplaySpec == ReplayInit /\ [][ReplayNext]_replayVars

----------------------------------------------------------------------------
ReplayTypeOK ==
    /\ engine \in {"business", "benchmark"} /\ setting \in Settings(engine)
    /\ records \in [1 .. Months -> PortRecord] /\ month \in 0 .. LastStep
    /\ \A f \in {"queue", "backlog", "recovery", "yard", "gate", "gap"} : now[f] \in Nat
    /\ chosen \in BusinessAction \cup BenchmarkAction \cup {"none"}

\* Shifted demand is not dropped (README.md:376): what arrived, with the queue of the
\* first state, was served, sent to a neighbour, waits in the queue or is deferred.
DemandIsKept ==
    flow.arrived + FirstState(engine, RecordAt(0)).queue
        = flow.served + flow.diverted + now.queue + now.backlog

\* Deferral cannot be stretched for ever: however often demand is deferred, the backlog
\* stays below a fixed share of the arrivals, surged, of one of the records.
MostArrivals(r, noise) == Per(Per(r.arrivals, 1080), 1000 + noise)

BacklogIsBounded ==
    \E k \in DOMAIN records, noise \in Residual \cup {0} :
        3 * now.backlog <= 10 * (Per(MostArrivals(records[k], noise), 20) + 2)

\* The gate of the champion asks for a projection rate of zero
\* (portBusinessRlEngine.ts:794): who follows the mask is never corrected, neither in
\* training nor in a replay.
MaskIsEnough == flow.projected = 0

\* "One decision interval of cool-down" (portBusinessControlPlane.ts:144): what is learnt
\* never intervenes twice in a row; the optimizer may.
RestsBetween ==
    engine = "business" /\ controller = "learnt" => flow.doubled = 0

\* An episode keeps its vessels, and its learner what the masks say.
ReplayIsSound ==
    ReplayTypeOK /\ DemandIsKept /\ BacklogIsBounded /\ MaskIsEnough /\ RestsBetween
=============================================================================
