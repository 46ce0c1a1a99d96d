------------------------------- MODULE MCEngines -------------------------------
(***************************************************************************)
(* The parts nobody waits for, about which only safety is asked: the       *)
(* routes of the core proposals on the control slot, the decision of the   *)
(* core policy, the physics of a tick, the data, the environments and the  *)
(* selection of the learners, and the state store.  They share no state    *)
(* and each is checked on its own in one run: the part `focus` moves in a  *)
(* behaviour, and the others stand still.                                  *)
(***************************************************************************)
EXTENDS MCCoreProposals, MCCorePlans, PortFlows, PortReplay, LearningBenchmark,
        LearnerEvidence, MCTrainingData, DurableStateStore

VARIABLE focus

\* The parts other than f stand still.
Only(f) ==
    /\ UNCHANGED focus
    /\ IF f = "proposals" THEN TRUE ELSE UNCHANGED allVars
    /\ IF f = "plans" THEN TRUE ELSE UNCHANGED planVars
    /\ IF f = "flows" THEN TRUE ELSE UNCHANGED flowVars
    /\ IF f = "replay" THEN TRUE ELSE UNCHANGED replayVars
    /\ IF f = "benchmark" THEN TRUE ELSE UNCHANGED benchVars
    /\ IF f = "champion" THEN TRUE ELSE UNCHANGED championVars
    /\ IF f = "fitted" THEN TRUE ELSE UNCHANGED fittedVars
    /\ IF f = "data" THEN TRUE ELSE UNCHANGED dataVars
    /\ IF f = "store" THEN TRUE ELSE UNCHANGED storeVars

EnginesInit ==
    /\ focus \in {"proposals", "plans", "flows", "replay", "benchmark", "champion", "fitted",
                  "data", "store"}
    /\ ProposalInit /\ FlowInit /\ BenchInit /\ FittedInit
    \* A part that stands still needs one initial state.
    /\ PlanInit /\ (focus = "plans" \/ situation = CHOOSE s \in Situations : TRUE)
    /\ ReplayInit
    /\ \/ focus = "replay"
       \/ /\ engine = "benchmark" /\ setting = "historical-replay" /\ controller = "sop"
          /\ \A k \in 1..Months : records[k] = CHOOSE r \in PortRecord : TRUE
    /\ ChampionInit /\ (focus = "champion" \/ learner = "core")
    /\ DataInit /\ (focus = "data" \/ (manifest = NoManifest /\ source = 1))
    /\ StoreInit /\ (focus = "store" \/ \A c \in Client : payload[c] = CHOOSE v \in Payload : TRUE)

EnginesNext ==
    \/ focus = "proposals" /\ ProposalNext /\ Only("proposals")
    \/ focus = "plans" /\ PlanNext /\ Only("plans")
    \/ focus = "flows" /\ FlowNext /\ Only("flows")
    \/ focus = "replay" /\ ReplayNext /\ Only("replay")
    \/ focus = "benchmark" /\ BenchNext /\ Only("benchmark")
    \/ focus = "champion" /\ ChampionNext /\ Only("champion")
    \/ focus = "fitted" /\ FittedNext /\ Only("fitted")
    \/ focus = "data" /\ DataNext /\ Only("data")
    \/ focus = "store" /\ StoreNext /\ Only("store")

EnginesSpec ==
    /\ EnginesInit
    /\ [][EnginesNext]_<<allVars, planVars, flowVars, replayVars, benchVars, championVars,
                         fittedVars, dataVars, storeVars, focus>>

----------------------------------------------------------------------------
\* The instances.
\* A storm in every second tick, a low tide in the third, a fault in the fourth and a
\* peak tariff from the third on.
SeaOfTicks ==
    [t \in 0..LastTick |->
        [arrivals |-> IF t % 3 = 1 THEN 7 ELSE 4, weather |-> 100,
         storm |-> IF t % 2 = 0 THEN 0 ELSE 82, tide |-> IF t = 2 THEN 72 ELSE 100,
         outflow |-> 400, faults |-> IF t = 3 THEN 1 ELSE 0, peak |-> t >= 2]]

StrongAndWeak ==
    {[left |-> 2, relief |-> 80, capacity |-> 1090, diversion |-> 10, yardOut |-> 1400,
      bonus |-> 2, battery |-> 1200],
     [left |-> 1, relief |-> 12, capacity |-> 1000, diversion |-> 0, yardOut |-> 1000,
      bonus |-> 0, battery |-> 0]}

\* A calm month, a busy one with a closed channel and broken cranes, a busy one with a
\* full yard.
Calm ==
    [arrivals |-> 900, capacity |-> 1000, channel |-> TRUE, tide |-> TRUE, pilots |-> 900,
     hazmat |-> FALSE, cranes |-> 900, shorePower |-> 800, transfer |-> 300, loss |-> 0,
     safety |-> 200, yard |-> 700, gate |-> 500, skew |-> 100, carbon |-> 1030,
     productivity |-> 1000]
BusyMonth ==
    [Calm EXCEPT !.arrivals = 1200, !.yard = 820, !.gate = 800, !.skew = 300,
                 !.carbon = 1050, !.transfer = 60, !.loss = 30]
ClosedMonth ==
    [BusyMonth EXCEPT !.channel = FALSE, !.hazmat = TRUE, !.cranes = 700, !.shorePower = 100]
FullMonth ==
    [BusyMonth EXCEPT !.yard = 1080, !.safety = 600, !.loss = 300, !.transfer = 200]
ThreeMonths == {Calm, ClosedMonth, FullMonth}
Noise == {-27, 27}

\* Two configurations of two algorithms: ties, and algorithms whose best are equal.
SomeScores == {<<1, 2, 2, 1>>, <<1, 1, 2, 2>>}
=============================================================================
