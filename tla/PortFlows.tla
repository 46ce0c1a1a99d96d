----------------------------- MODULE PortFlows -----------------------------
(***************************************************************************)
(* The physics of one simulated tick and the paired execution of a core    *)
(* plan (PortOperationsSimulator of server/operationalSimulator.ts): the   *)
(* queue, the yard and the battery under the scenario and the control      *)
(* effect, the ticks kept for the reports, and the counterfactual: the     *)
(* baseline tick is run, undone, and run again under the plan.             *)
(*                                                                         *)
(* What the seed and the hour decide is a constant table, one row a tick.  *)
(* Vessels are counted in hundredths, TEU in units, charge in hundredths   *)
(* of a percent, factors in percent and the control's in thousandths.      *)
(* Grid load, cost, carbon and safety follow from these and are left out;  *)
(* the wall clock is that of PortSimulator, here a snapshot catches up     *)
(* with any number of ticks.                                               *)
(***************************************************************************)
EXTENDS Integers, Sequences, SequencesExt

CONSTANTS
    Sea,         \* per tick: arrivals, weather, storm, tide, outflow, faults, peak
    Effects,     \* bound: the control effects that are installed
    Conditions,  \* bound: the scenarios that are injected
    LastTick,    \* bound: ticks
    KeptTicks    \* recentTicks keeps this many (192 in the code)

\* What decides a tick: the gates of the crane faults, the tide and the weather are closed
\* by a factor, and a regular fault takes one crane.
SeaRow ==
    [arrivals : Nat, weather : 0 .. 100, storm : 0 .. 100, tide : {72, 100}, outflow : Nat,
     faults : 0 .. 1, peak : BOOLEAN]

\* applyCoreControl refuses an effect outside of these ranges; applyAction's are inside.
ControlEnvelope ==
    [left : 1 .. 12, relief : 0 .. 80, capacity : 970 .. 1090, diversion : 0 .. 10,
     yardOut : 1000 .. 1400, bonus : 0 .. 2, battery : 0 .. 1500]

ASSUME FlowAssumption ==
    /\ LastTick \in Nat /\ KeptTicks \in Nat \ {0}
    /\ Sea \in [0 .. LastTick -> SeaRow]
    /\ Effects \subseteq ControlEnvelope /\ "normal" \in Conditions

VARIABLES
    port,      \* state and activeControl
    recent,    \* recentTicks
    mode,      \* running and scenario
    pair       \* the last paired execution, at most one

flowVars == <<port, recent, mode, pair>>

Lower(a, b) == IF a < b THEN a ELSE b
Upper(a, b) == IF a > b THEN a ELSE b
Within(low, n, high) == Upper(low, Lower(n, high))
Part(n, factor, unit) == (n * factor) \div unit

\* Yard: what is always there, where its release aims, a saturated one, its capacity.
YardFloor == 8 * 1000
YardTarget == 48 * 1000
YardSaturated == 74 * 1000
YardCapacity == 80 * 1000

\* The battery is kept between these charges and supplies or takes at most this power (kW).
SocFloor == 15 * 100
SocCeiling == 95 * 100
PowerLimit == 30 * 100

\* A control that is not there leaves everything as it is.
Neutral ==
    [left |-> 0, relief |-> 0, capacity |-> 1000, diversion |-> 0, yardOut |-> 1000,
     bonus |-> 0, battery |-> 0]
Current(control) == IF control = {} THEN Neutral ELSE CHOOSE c \in control : TRUE

\* An effect loses a tick with every tick and is dropped with its last.
AgedOnce(control) == {[c EXCEPT !.left = @ - 1] : c \in {e \in control : e.left > 1}}

----------------------------------------------------------------------------
\* step(): what a tick makes of the port, in the order of the code.
ArrivalsOf(row, scenario) ==
    LET multiplier == CASE scenario = "peak-arrivals" -> 155
                        [] scenario = "channel-congestion" -> 118
                        [] OTHER -> 100 IN
    (row.arrivals * multiplier + 50) \div 100

WeatherOf(row, scenario) ==
    CASE scenario = "channel-closure" -> 0
      [] scenario = "extreme-weather" -> row.storm
      [] OTHER -> row.weather

Cranes(row, scenario, c) ==
    10 - Upper(0, (IF scenario = "equipment-failure" THEN 3 ELSE row.faults) - c.bonus)

YardBefore(p, scenario) ==
    IF scenario = "yard-saturation" THEN Upper(p.yard, YardSaturated) ELSE p.yard

\* Capacity in hundredths of a vessel; a full yard slows the cranes down.
CapacityOf(p, row, scenario, c) ==
    LET yard == YardBefore(p, scenario)
        yardFactor == IF 100 * yard > 92 * YardCapacity THEN 66
                      ELSE IF 100 * yard > 85 * YardCapacity THEN 82 ELSE 100
        calm == Part(52 * 100 * Cranes(row, scenario, c), yardFactor, 100)
        weathered == Part(calm, WeatherOf(row, scenario), 100) IN
    (Part(Part(weathered, row.tide, 100), c.capacity, 1000) + 50) \div 100

\* Off-peak the battery charges, in the peak it supplies; the control adds to it.
BatteryPower(p, row, c) ==
    LET own == IF row.peak /\ p.soc > 25 * 100 THEN 1800
               ELSE IF ~row.peak /\ p.soc < 88 * 100 THEN -1200 ELSE 0 IN
    Within(-PowerLimit, own + c.battery, PowerLimit)

\* A quarter of an hour of 12 MWh, at 94 and 92 percent efficiency.
Charge(kW) == IF kW >= 0 THEN 0 - Part(kW, 1000, 48 * 94) ELSE Part(0 - kW, 92, 480)

Tick(p, scenario) ==
    LET row == Sea[p.seq + 1]
        c == Current(p.control)
        arrivals == ArrivalsOf(row, scenario)
        diverted == Lower(arrivals, (arrivals * c.diversion + 500) \div 1000)
        demand == p.queue + 100 * (arrivals - diverted)
        serviced == Lower(demand, 100 * (CapacityOf(p, row, scenario, c) \div 100))
        teu == Part(serviced, 680, 100)
        before == YardBefore(p, scenario)
        outflow == Part(row.outflow, c.yardOut, 1000) + Upper(0, before - YardTarget) \div 40
        kW == BatteryPower(p, row, c) IN
    [seq |-> p.seq + 1, before |-> p.queue, arrivals |-> arrivals, diverted |-> diverted,
     serviced |-> serviced, relief |-> c.relief,
     queue |-> Upper(0, demand - serviced - c.relief),
     teu |-> teu, total |-> p.total + teu,
     yardBefore |-> p.yard,
     yard |-> Within(YardFloor, before + Part(teu, 18, 100) - outflow, YardCapacity),
     kW |-> kW, soc |-> Within(SocFloor, p.soc + Charge(kW), SocCeiling)]

\* The state after a tick and the ticks kept.
Stepped(p, tick) ==
    [seq |-> tick.seq, queue |-> tick.queue, yard |-> tick.yard, soc |-> tick.soc,
     total |-> tick.total, control |-> AgedOnce(p.control)]
Kept(ticks, tick) ==
    LET all == Append(ticks, tick) IN
    IF Len(all) > KeptTicks THEN Tail(all) ELSE all

----------------------------------------------------------------------------
FlowInit ==
    LET idle == [seq |-> -1, queue |-> 18 * 100, yard |-> YardTarget, soc |-> 58 * 100, total |-> 0,
                 control |-> {}] IN
    /\ port = Stepped(idle, Tick(idle, "normal"))
    /\ recent = <<Tick(idle, "normal")>>
    /\ mode = [running |-> TRUE, scenario |-> "normal"]
    /\ pair = {}

\* advance(now) in front of every snapshot, a tick at a time; forceAdvance(1).
CatchUp ==
    /\ mode.running /\ port.seq < LastTick
    /\ \E tick \in {Tick(port, mode.scenario)} :
          /\ port' = Stepped(port, tick)
          /\ recent' = Kept(recent, tick)
    /\ UNCHANGED <<mode, pair>>

\* applyAction: the slot is replaced, then a tick is forced unless stopped.
ApplyAction(c) ==
    /\ port.seq < LastTick
    /\ \E p \in {[port EXCEPT !.control = {c}]} :
          IF mode.running
          THEN \E tick \in {Tick(p, mode.scenario)} :
                  port' = Stepped(p, tick) /\ recent' = Kept(recent, tick)
          ELSE port' = p /\ UNCHANGED recent
    /\ UNCHANGED <<mode, pair>>

\* Mutation: restore does not empty recentTicks before it pushes the checkpoint's.
RestoreOnto(checkpoint, ticks) == [port |-> checkpoint.port, recent |-> ticks \o checkpoint.recent]

\* restore(): what the baseline did to the simulator is undone.
Restore(checkpoint, ticks) == checkpoint

\* applyCoreControlWithCounterfactual, behind the gates of executeCorePlan: a
\* tick as things are, back to the checkpoint, the same tick under the plan.
ApplyCoreControl(c) ==
    /\ mode.running /\ mode.scenario # "data-loss" /\ port.seq < LastTick
    /\ \E baseline \in {Tick(port, mode.scenario)} :
       \E back \in {Restore([port |-> port, recent |-> recent], Kept(recent, baseline))} :
       \E controlled \in {Tick([back.port EXCEPT !.control = {c}], mode.scenario)} :
          /\ port' = Stepped([back.port EXCEPT !.control = {c}], controlled)
          /\ recent' = Kept(back.recent, controlled)
          /\ pair' = {[baseline |-> baseline, controlled |-> controlled]}
    /\ UNCHANGED mode

\* setRunning and setScenario.
SwitchRun == mode' = [mode EXCEPT !.running = ~@] /\ UNCHANGED <<port, recent, pair>>

SwitchScenario(s) ==
    /\ s # mode.scenario
    /\ mode' = [mode EXCEPT !.scenario = s]
    /\ UNCHANGED <<port, recent, pair>>

FlowNext ==
    \/ CatchUp
    \/ \E c \in Effects : ApplyAction(c) \/ ApplyCoreControl(c)
    \/ SwitchRun
    \/ \E s \in Conditions : SwitchScenario(s)

FlowSpec == FlowInit /\ [][FlowNext]_flowVars

----------------------------------------------------------------------------
FlowTypeOK ==
    /\ port.seq \in 0..LastTick /\ port.queue \in Nat /\ port.total \in Nat
    /\ port.yard \in YardFloor..YardCapacity /\ port.soc \in SocFloor..SocCeiling
    /\ \A c \in port.control : c.left \in 1..12
    /\ mode.running \in BOOLEAN /\ mode.scenario \in Conditions
    /\ Len(recent) \in 1..KeptTicks

\* The ticks kept are one history that ends in the state: each starts from the
\* queue, the yard and the throughput its predecessor left, and none of them is
\* a tick that a counterfactual took back.
HistoryIsOne ==
    /\ \A i \in 1..Len(recent) - 1 :
          /\ recent[i + 1].seq = recent[i].seq + 1
          /\ recent[i + 1].before = recent[i].queue
          /\ recent[i + 1].yardBefore = recent[i].yard
          /\ recent[i + 1].total = recent[i].total + recent[i + 1].teu
    /\ \E last \in {Last(recent)} :
          /\ last.seq = port.seq /\ last.queue = port.queue
          /\ last.yard = port.yard /\ last.soc = port.soc /\ last.total = port.total

\* "same_state_same_seed_same_tick" (server/operationalSimulator.ts:1508): the two
\* sides of a receipt start from one state and meet the same arrivals.
PairIsFair ==
    \A two \in pair : \A f \in {"seq", "before", "arrivals", "yardBefore"} :
        two.baseline[f] = two.controlled[f]

\* Paired executions leave one history, and pairs that can be compared.
FlowsAreOneHistory == FlowTypeOK /\ HistoryIsOne /\ PairIsFair
=============================================================================
