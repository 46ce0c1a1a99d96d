----------------------------- MODULE CorePlans -----------------------------
(***************************************************************************)
(* One decision of the factorized core policy: the interlocks, the masks   *)
(* of the ten heads, the ensemble's vote, the gates a plan passes, the     *)
(* effect of the plan and the envelope the simulator holds it against      *)
(* (server/coreOperationsRlEngine.ts, coreOperationsRlService.ts, the      *)
(* execute route of publicEvidencePlugin.ts and applyCoreControl).         *)
(*                                                                         *)
(* A situation is what the code tells apart of an observation: the         *)
(* troubles that close an interlock or a gate, and the heads whose signals *)
(* call for an action.  A plan is the set of choices that change           *)
(* something, at most one of a head; a head without one holds.  The        *)
(* weights are abstracted: a head may ask for any choice its mask leaves.  *)
(* Ratios are integers in thousandths, products in millionths.             *)
(***************************************************************************)
EXTENDS Integers, Sequences

CONSTANTS
    Situations,    \* bound: the situations decided on, [trouble, called]
    Abstentions    \* bound: the sets of heads fewer than three in five agree on

Heads ==
    {<<"arrival", "eco-speed-window">>, <<"arrival", "arrival-smoothing">>,
     <<"berth", "berth-reassign">>, <<"berth", "crane-rebalance">>,
     <<"yard", "yard-block-rebalance">>, <<"yard", "gate-slot-smoothing">>,
     <<"horizontal", "agv-rebalance">>, <<"horizontal", "truck-pool-rebalance">>,
     <<"navigation", "pilot-tug-priority">>, <<"navigation", "tide-window-sequence">>,
     <<"energy", "shore-power-priority">>, <<"energy", "battery-peak-shave">>,
     <<"load", "reefer-load-coordinate">>, <<"load", "building-demand-response">>,
     <<"maintenance", "preventive-maintenance-window">>,
     <<"maintenance", "fault-recovery-priority">>,
     <<"intermodal", "rail-barge-rebalance">>, <<"intermodal", "neighbor-port-advisory">>,
     <<"recovery", "recovery-capacity">>, <<"recovery", "controlled-backlog-release">>}

Domain == {h[1] : h \in Heads}
Choice == {h[2] : h \in Heads}
HeadOf == [c \in Choice |-> CHOOSE d \in Domain : <<d, c>> \in Heads]
HoldCorePlan == {}

Trouble ==
    {"silent", "poor", "incomplete", "strange",        \* link, data, range of the data
     "channel", "tide", "pilots", "tugs", "hazmat",    \* closed, short, restricted
     "cranes", "vehicles", "grid", "battery", "transfer", "full",
     "sound"}                                          \* no confirmed fault

ASSUME PlanAssumption ==
    /\ Situations \subseteq [trouble : SUBSET Trouble, called : SUBSET Domain]
    /\ Abstentions \subseteq SUBSET Domain

\* A core plan has one choice of a head; a plan here has at most one, for a hold is none.
OneOfAHead(plan) == \A c, e \in plan : HeadOf[c] = HeadOf[e] => c = e

----------------------------------------------------------------------------
\* actionReasons: the troubles that close a choice.
ClosedBy ==
    LET Closes(d) ==
            CASE d = "arrival" -> {"channel", "tide"}
              [] d = "navigation" -> {"channel", "tide", "pilots", "tugs"}
              [] d = "yard" -> {"hazmat"}
              [] d = "horizontal" -> {"hazmat", "vehicles"}
              [] d = "intermodal" -> {"transfer"}
              [] d = "recovery" -> {"full"}
              [] OTHER -> {}
        ClosesOnly(c) ==
            CASE c = "crane-rebalance" -> {"cranes"}
              [] c = "shore-power-priority" -> {"grid"}
              [] c = "battery-peak-shave" -> {"battery"}
              [] c = "fault-recovery-priority" -> {"sound"}
              [] OTHER -> {} IN
    [c \in Choice |-> {"silent", "poor"} \cup Closes(HeadOf[c]) \cup ClosesOnly(c)]

Closed(trouble) == {c \in Choice : ClosedBy[c] \cap trouble # {}}

\* projectCoreActionPlan: a head whose choice is closed holds.
Project(plan, trouble) == plan \ Closed(trouble)

\* applicableChoiceIndexes: what is called for and not closed, or the hold.
Askable(s) ==
    LET Applicable == {c \in Choice : HeadOf[c] \in s.called} \ Closed(s.trouble) IN
    {p \in SUBSET Applicable : OneOfAHead(p)}

----------------------------------------------------------------------------
\* effects, in the order of the heads: capacity, energy, peak and carbon multiply, the
\* others add up.
ChoiceEffect(choice, capacity, energy, peak, carbon, relief, defer, divert, yard, gate) ==
    [choice |-> choice, capacity |-> capacity, energy |-> energy, peak |-> peak,
     carbon |-> carbon, relief |-> relief, defer |-> defer, divert |-> divert,
     yard |-> yard, gate |-> gate]

CoreEffects ==
    <<ChoiceEffect("eco-speed-window", 1000, 985, 1000, 972, 15, 4, 0, 0, 0),
      ChoiceEffect("arrival-smoothing", 1000, 1000, 1000, 1000, 70, 12, 0, 8, 20),
      ChoiceEffect("berth-reassign", 1022, 1000, 1000, 1000, 30, 0, 0, 0, 0),
      ChoiceEffect("crane-rebalance", 1035, 1004, 1000, 1000, 45, 0, 0, 0, 0),
      ChoiceEffect("yard-block-rebalance", 1000, 1000, 1000, 1000, 0, 0, 0, 28, 18),
      ChoiceEffect("gate-slot-smoothing", 1000, 1000, 1000, 1000, 0, 0, 0, 12, 65),
      ChoiceEffect("agv-rebalance", 1012, 1000, 1000, 1000, 0, 0, 0, 10, 0),
      ChoiceEffect("truck-pool-rebalance", 1000, 1000, 1000, 1000, 0, 0, 0, 14, 22),
      ChoiceEffect("pilot-tug-priority", 1000, 1000, 1000, 1000, 25, 0, 0, 0, 0),
      ChoiceEffect("tide-window-sequence", 1000, 1000, 1000, 1000, 40, 6, 0, 0, 0),
      ChoiceEffect("shore-power-priority", 1000, 996, 1000, 958, 0, 0, 0, 0, 0),
      ChoiceEffect("battery-peak-shave", 1000, 982, 910, 982, 0, 0, 0, 0, 0),
      ChoiceEffect("reefer-load-coordinate", 1000, 988, 965, 1000, 0, 0, 0, 0, 0),
      ChoiceEffect("building-demand-response", 1000, 982, 952, 1000, 0, 0, 0, 0, 0),
      ChoiceEffect("preventive-maintenance-window", 997, 1000, 1000, 1000, 0, 0, 0, 0, 0),
      ChoiceEffect("fault-recovery-priority", 1018, 1000, 1000, 1000, 0, 0, 0, 0, 0),
      ChoiceEffect("rail-barge-rebalance", 1000, 1000, 1000, 995, 0, 0, 0, 35, 18),
      ChoiceEffect("neighbor-port-advisory", 1000, 1000, 1000, 1000, 0, 0, 6, 18, 0),
      ChoiceEffect("recovery-capacity", 1025, 1006, 1000, 1000, 55, 0, 0, 12, 0),
      ChoiceEffect("controlled-backlog-release", 1012, 1000, 1000, 1000, 45, 0, 0, 0, 0)>>

\* A ratio of thousandths in millionths.
Fine(ratio) == 1000 * ratio

neutralEffect ==
    [capacity |-> Fine(1000), energy |-> Fine(1000), peak |-> Fine(1000), carbon |-> Fine(1000),
     relief |-> 0, defer |-> 0, divert |-> 0, yard |-> 0, gate |-> 0]

\* The effect of a plan and that of one more choice.
Joined(all, one) ==
    [capacity |-> (all.capacity * one.capacity) \div 1000,
     energy |-> (all.energy * one.energy) \div 1000,
     peak |-> (all.peak * one.peak) \div 1000, carbon |-> (all.carbon * one.carbon) \div 1000,
     relief |-> all.relief + one.relief, defer |-> all.defer + one.defer,
     divert |-> all.divert + one.divert, yard |-> all.yard + one.yard,
     gate |-> all.gate + one.gate]

\* The loop over the choices of a plan, before the clamps.
Unclamped(plan) ==
    LET upTo[n \in 0 .. Len(CoreEffects)] ==
            IF n = 0 THEN neutralEffect
            ELSE IF CoreEffects[n].choice \in plan THEN Joined(upTo[n - 1], CoreEffects[n])
            ELSE upTo[n - 1]
    IN  upTo[Len(CoreEffects)]

Between(low, n, high) == IF n < low THEN low ELSE IF n > high THEN high ELSE n

\* Mutation: the products and sums are passed on as they are.
EffectUnclamped(plan) == Unclamped(plan)

corePlanEffect(plan) ==
    LET all == Unclamped(plan)
    IN  [capacity |-> Between(Fine(970), all.capacity, Fine(1090)),
         energy |-> Between(Fine(930), all.energy, Fine(1050)),
         peak |-> Between(Fine(840), all.peak, Fine(1040)),
         carbon |-> Between(Fine(900), all.carbon, Fine(1050)),
         relief |-> all.relief, yard |-> all.yard, gate |-> all.gate,
         defer |-> Between(0, all.defer, 20), divert |-> Between(0, all.divert, 10)]

----------------------------------------------------------------------------
\* resolveCoreRuntimePlan: heads that disagree hold; the whole plan passes the
\* gates or nothing of it does.
Confident(plan, abstained) == {c \in plan : HeadOf[c] \notin abstained}

Checks(plan, trouble) ==
    LET projected == Project(plan, trouble)
        effect == corePlanEffect(projected) IN
    /\ trouble \cap {"incomplete", "silent", "strange"} = {}
    /\ projected # HoldCorePlan
    /\ effect.defer + effect.divert <= 15
    /\ projected = plan

resolveCoreRuntimePlan(plan, abstained, trouble) ==
    LET confident == Confident(plan, abstained) IN
    IF Checks(confident, trouble) THEN Project(confident, trouble) ELSE HoldCorePlan

\* sopPlan looks only at the interlocks named here; its signals are free.
SopPlans(trouble) ==
    SUBSET ({"arrival-smoothing", "crane-rebalance", "yard-block-rebalance",
             "fault-recovery-priority", "battery-peak-shave", "recovery-capacity"} \
            Closed(trouble \ {"silent", "poor"}))

\* The execute route: what the simulator is asked to do for eight ticks.
Smaller(a, b) == IF a < b THEN a ELSE b

Control(plan) ==
    LET effect == corePlanEffect(plan)
        First(a, x, b, y, z) == IF a \in plan THEN x ELSE IF b \in plan THEN y ELSE z IN
    [queueRelief |-> Smaller(800, 5 * effect.relief),
     capacity |-> effect.capacity, carbon |-> effect.carbon,
     energy |-> effect.energy, peak |-> effect.peak, diversion |-> effect.divert,
     yardOutflow |-> Smaller(1400, 1000 + 5 * effect.yard),
     gateOutflow |-> Smaller(1300, 1000 + 3 * effect.gate),
     intermodal |-> First("rail-barge-rebalance", 1180, "neighbor-port-advisory", 1080, 1000),
     reefer |-> First("reefer-load-coordinate", 970, "building-demand-response", 990, 1000),
     bonus |-> First("fault-recovery-priority", 2, "preventive-maintenance-window", 1, 0),
     battery |-> IF "battery-peak-shave" \in plan THEN 1200 ELSE 0,
     maintenance |-> First("fault-recovery-priority", 3, "preventive-maintenance-window", 2, 0)]

\* applyCoreControl throws outside this envelope.
Envelope(control) ==
    /\ control.queueRelief \in 0..800
    /\ control.capacity \in Fine(970)..Fine(1090) /\ control.carbon \in Fine(900)..Fine(1050)
    /\ control.energy \in Fine(930)..Fine(1050) /\ control.peak \in Fine(840)..Fine(1040)
    /\ control.diversion \in 0..10
    /\ control.yardOutflow \in 1000..1400 /\ control.gateOutflow \in 1000..1300
    /\ control.intermodal \in 1000..1350 /\ control.reefer \in 940..1020
    /\ control.bonus \in 0..2 /\ control.battery \in 0..1500 /\ control.maintenance \in 0..4

\* operationalActionFromPlan: the action the proposal is shown under.
PrimaryAction(plan) ==
    IF plan \cap {"arrival-smoothing", "tide-window-sequence"} # {} THEN "arrival-window"
    ELSE IF plan \cap {"eco-speed-window", "shore-power-priority", "battery-peak-shave",
                       "reefer-load-coordinate", "building-demand-response"} # {}
         THEN "eco-speed"
    ELSE IF "neighbor-port-advisory" \in plan THEN "port-diversion"
    ELSE IF plan \subseteq {"pilot-tug-priority", "preventive-maintenance-window"}
         THEN "hold-plan"
    ELSE "capacity-control"

----------------------------------------------------------------------------
VARIABLES
    situation,   \* the observation the decision is about
    asked,       \* the plan the heads ask for and the heads that disagree
    decision     \* who decides, the plan carried out, how it ended

planVars == <<situation, asked, decision>>

Undecided == [by |-> "nobody", plan |-> HoldCorePlan, shown |-> "hold-plan", ended |-> "open"]

PlanInit ==
    /\ situation \in Situations
    /\ asked = [plan |-> HoldCorePlan, abstained |-> {}]
    /\ decision = Undecided

Decided(by, plan, abstained, executed) ==
    /\ asked' = [plan |-> plan, abstained |-> abstained]
    /\ decision' = [by |-> by, plan |-> executed, shown |-> PrimaryAction(executed),
                    ended |-> "decided"]
    /\ UNCHANGED situation

\* inferCoreOperationsChampion with an admitted champion.
Serve(plan, abstained) ==
    Decided("serving", plan, abstained,
            resolveCoreRuntimePlan(plan, abstained, situation.trouble))

\* evaluateCorePolicy, one hour: a policy of the ladder is replayed alone, the
\* fitted ensemble through the gates, the operating procedure as it is.
Replay(plan, abstained) ==
    \/ Decided("replay", plan, abstained, Project(plan, situation.trouble))
    \/ Decided("fitted replay", plan, abstained,
               resolveCoreRuntimePlan(plan, abstained, situation.trouble))

ReplaySop(plan) ==
    Decided("procedure", plan, {}, Project(plan, situation.trouble))

\* POST .../execute of an approved proposal; only admitted plans are approved.
ExecutePlan ==
    /\ decision.by = "serving" /\ decision.ended = "decided"
    /\ Checks(Confident(asked.plan, asked.abstained), situation.trouble)
    /\ decision' = [decision EXCEPT !.ended =
                       IF Envelope(Control(decision.plan)) THEN "applied" ELSE "outside"]
    /\ UNCHANGED <<situation, asked>>

Observe(s) ==
    /\ decision.by # "nobody"
    /\ situation' = s
    /\ asked' = [plan |-> HoldCorePlan, abstained |-> {}]
    /\ decision' = Undecided

PlanNext ==
    \/ /\ decision.by = "nobody"
       /\ \/ \E plan \in Askable(situation), abstained \in Abstentions :
                Serve(plan, abstained) \/ Replay(plan, abstained)
          \/ \E plan \in SopPlans(situation.trouble) : ReplaySop(plan)
    \/ ExecutePlan
    \/ \E s \in Situations : Observe(s)

PlanSpec == PlanInit /\ [][PlanNext]_planVars

PlanTypeOK ==
    /\ situation \in [trouble : SUBSET Trouble, called : SUBSET Domain]
    /\ asked.abstained \subseteq Domain
    /\ \A p \in {asked.plan, decision.plan} :
          p \subseteq Choice /\ OneOfAHead(p)
    /\ decision.by \in {"nobody", "serving", "replay", "fitted replay", "procedure"}
    /\ decision.ended \in {"open", "decided", "applied", "outside"}

\* Whoever decides, no choice is carried out whose interlock is closed.
InterlocksHold ==
    decision.plan \cap Closed(situation.trouble) = {}

\* A served plan is the whole of what the agreeing heads asked for, or nothing;
\* what is served holds back at most 1.5 percent of the traffic.
NothingHalf ==
    decision.by \in {"serving", "fitted replay"} =>
        /\ decision.plan \in {HoldCorePlan, Confident(asked.plan, asked.abstained)}
        /\ \A c \in decision.plan : HeadOf[c] \notin asked.abstained
        /\ Unclamped(decision.plan).defer + Unclamped(decision.plan).divert <= 15

\* A plan that two people approved is one the simulator accepts: the effect the
\* route makes of the plan stays within the envelope of applyCoreControl.
ApprovedFits == decision.ended # "outside"

\* The decisions of the core policy are safe: interlocks, gates and envelope
\* agree whatever the heads ask for.
PlansAreSafe == PlanTypeOK /\ InterlocksHold /\ NothingHalf /\ ApprovedFits

\* "The same abstention, range and throughput gates are used in replay and
\* serving" (server/coreOperationsRlEngine.ts:1125): a replayed hour carries out
\* what serving would have carried out for the same votes.
ReplayIsServing ==
    decision.by \in {"replay", "fitted replay"} =>
        decision.plan =
            resolveCoreRuntimePlan(asked.plan, asked.abstained, situation.trouble)
=============================================================================
