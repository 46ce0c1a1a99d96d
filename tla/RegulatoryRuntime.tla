--------------------------- MODULE RegulatoryRuntime ---------------------------
(***************************************************************************)
(* The regulatory supplement of the simulator                              *)
(* (server/regulatoryResilienceRuntime.ts).  It has no clock: a snapshot   *)
(* steps it over the sequence numbers the simulator has gone through since *)
(* the last one, at most CatchUp of them, and a new scenario steps the     *)
(* present one at once.                                                    *)
(*                                                                         *)
(* The ratios of a scenario are whole numbers: so many vessels are held a  *)
(* step, and the authorities let go one in ReleaseOneIn of those held.     *)
(* Delay, energy, carbon and cost follow from the rest and are left out.   *)
(***************************************************************************)
EXTENDS Integers, FiniteSets

CONSTANTS
    Scenario, Baseline,
    Inspected,          \* per scenario the vessels each authority holds in a step
    ReleaseOneIn,
    Processing,         \* released vessels the port can process in a step
    CatchUp,            \* 192
    MaxSequence, MaxScenarioChanges

ASSUME RegulatoryAssumption ==
    /\ Baseline \in Scenario
    /\ Inspected \in [Scenario -> [maritime: Nat, customs: Nat]]
    /\ {ReleaseOneIn, CatchUp} \subseteq Nat \ {0}
    /\ {Processing, MaxSequence, MaxScenarioChanges} \subseteq Nat

VARIABLES
    sequence,           \* the simulator's
    scenario,
    last,               \* lastSequence; scenarioDirty lasts no longer than a handler
    held,               \* state: vessels held by either authority, and released but not processed
    changes,            \* scenario changes so far
    counted,            \* history: vessels inspected and processed
    steps               \* history: how often each sequence was stepped

regulatoryVars == <<sequence, scenario, last, held, changes, counted, steps>>

RegulatoryTypeOK ==
    /\ sequence \in 0..MaxSequence /\ last \in -1..MaxSequence
    /\ scenario \in Scenario
    /\ held \in [maritime: Nat, customs: Nat, released: Nat]
    /\ counted \in [inspected: Nat, processed: Nat]
    /\ steps \in [0..MaxSequence -> Nat]
    /\ \A s \in 0..MaxSequence : s > sequence => steps[s] = 0

RegulatoryInit ==
    /\ sequence \in 0..MaxSequence /\ scenario = Baseline /\ last = -1
    /\ held = [maritime |-> 0, customs |-> 0, released |-> 0]
    /\ changes = 0
    /\ counted = [inspected |-> 0, processed |-> 0]
    /\ steps = [s \in 0..MaxSequence |-> 0]

----------------------------------------------------------------------------

Processable(released, stillHeld) == IF Processing <= released THEN Processing ELSE released

\* step(): w holds the vessels and the counts.
StepOnce(w, of) ==
    LET maritime == w.held.maritime + Inspected[of].maritime
        customs == w.held.customs + Inspected[of].customs
        letGo == maritime \div ReleaseOneIn + customs \div ReleaseOneIn
        released == w.held.released + letGo
        processed == Processable(released, maritime + customs - letGo)
    IN  [held |-> [maritime |-> maritime - maritime \div ReleaseOneIn,
                   customs |-> customs - customs \div ReleaseOneIn,
                   released |-> IF processed <= released THEN released - processed ELSE 0],
         counted |-> [inspected |-> w.counted.inspected + Inspected[of].maritime + Inspected[of].customs,
                      processed |-> w.counted.processed + processed]]

\* What so many steps under `of` make of w.
StepsFrom(w, of) ==
    LET after[n \in 0..CatchUp] == IF n = 0 THEN w ELSE StepOnce(after[n - 1], of) IN after

\* Mutation: the last sequence is stepped again.
DueFromLast(forced) ==
    IF forced \/ last < 0 THEN {sequence}
    ELSE {s \in 0..sequence : s >= last /\ s > sequence - CatchUp}

\* The sequences to step: the present one when forced, else those since the last one.
Due(forced) ==
    IF forced \/ last < 0 THEN {sequence}
    ELSE {s \in 0..sequence : s > last /\ s > sequence - CatchUp}

\* snapshot() under the scenario `of`.
Observe(of, forced) ==
    LET stepped ==
            StepsFrom([held |-> held, counted |-> counted], of)[Cardinality(Due(forced))]
    IN  /\ held' = stepped.held /\ counted' = stepped.counted
        /\ steps' = [s \in DOMAIN steps |-> steps[s] + IF s \in Due(forced) THEN 1 ELSE 0]
        /\ last' = sequence

\* GET /api/operations/regulatory-resilience
Snapshot == Observe(scenario, FALSE) /\ UNCHANGED <<sequence, scenario, changes>>

\* POST .../scenario: setScenario and a snapshot in one handler, so that the steps due under the
\* old scenario are not made up.
SetScenario(new) ==
    /\ changes < MaxScenarioChanges /\ changes' = changes + 1
    /\ scenario' = new /\ Observe(new, TRUE)
    /\ UNCHANGED sequence

\* The simulator moves on.
SimulatorMoves(to) ==
    /\ to > sequence /\ sequence' = to
    /\ UNCHANGED <<scenario, last, held, changes, counted, steps>>

RegulatoryNext ==
    \/ Snapshot
    \/ \E new \in Scenario : SetScenario(new)
    \/ \E to \in 0..MaxSequence : SimulatorMoves(to)

RegulatorySpec == RegulatoryInit /\ [][RegulatoryNext]_regulatoryVars

----------------------------------------------------------------------------
\* No vessel is made or lost between inspection and recovery, in any number of steps at a time
\* under any change of scenario: the port processes only what both authorities have let go.
VesselsAreConserved ==
    held.maritime + held.customs + held.released + counted.processed = counted.inspected

\* Polling makes up every step since the last snapshot (as far back as CatchUp) once: how often
\* anyone looks does not change what is held.  Only a change of scenario repeats a step.
PollingStepsOnce ==
    [][changes' = changes => \A s \in 0..MaxSequence :
        steps'[s] - steps[s] =
            IF last' > last /\ s \in (IF last < 0 THEN {last'} ELSE last + 1..last') /\ s > last' - CatchUp
            THEN 1 ELSE 0]_regulatoryVars

\* The backlog of the authorities is exact, however it is looked at.
BacklogIsExact == [](RegulatoryTypeOK /\ VesselsAreConserved) /\ PollingStepsOnce
=============================================================================
