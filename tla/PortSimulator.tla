--------------------------- MODULE PortSimulator ---------------------------
(***************************************************************************)
(* The clock and the control slot of PortOperationsSimulator               *)
(* (server/operationalSimulator.ts).  The physics of one tick is left out: *)
(* a tick is identified by its sequence number, which is what snapshotHash *)
(* distinguishes.  What is kept is everything that moves the sequence, the *)
(* running flag, the scenario and the single active control effect.        *)
(*                                                                         *)
(* Time is counted in wall ticks of wallTickMs, at least one second, so a  *)
(* synchronous handler meets at most one boundary between two ticks.  A    *)
(* second snapshot() in a handler that forced a tick in between therefore  *)
(* finds nothing left to catch up with.                                    *)
(***************************************************************************)
EXTENDS Integers

CONSTANTS
    Subject,       \* what installs a control: a decision or a core plan
    Action,        \* OperationalActionId
    HoldPlan,      \* 'hold-plan', the action a rollback applies
    Scenario,      \* OperationalScenarioId
    Normal,        \* the initial scenario
    DataLoss,      \* the scenario in which every telemetry field is null
    HoldTicks,     \* remainingTicks of 'hold-plan' (4 in the code)
    ActionTicks,   \* remainingTicks of every other control (8 in the code)
    MaxWall,       \* bound: wall ticks that elapse
    MaxSeq         \* bound: simulated ticks

ASSUME SimulatorAssumption ==
    /\ HoldPlan \in Action
    /\ {Normal, DataLoss} \subseteq Scenario
    /\ HoldTicks \in Nat \ {0}
    /\ ActionTicks \in Nat \ {0}
    /\ MaxWall \in Nat
    /\ MaxSeq \in Nat

VARIABLES
    wall,      \* floor((now - startedAtMs) / wallTickMs)
    seq,       \* state.sequence
    running,   \* running
    scenario,  \* scenario
    control    \* activeControl: the empty set for null, else one effect

simVars == <<wall, seq, running, scenario, control>>

\* An effect carries who installed it and the tick it was installed at; both
\* are auxiliary, the code keeps the action and the remaining ticks only.
Effect == [by: Subject, action: Action, left: Nat, since: Nat]

SimTypeOK ==
    /\ wall \in 0..MaxWall
    /\ seq \in 0..MaxSeq
    /\ running \in BOOLEAN
    /\ scenario \in Scenario
    /\ control \in SUBSET Effect

SimInit ==
    /\ wall = 0
    /\ seq = 0
    /\ running = TRUE
    /\ scenario = Normal
    /\ control = {}

----------------------------------------------------------------------------
TicksOf(a) == IF a = HoldPlan THEN HoldTicks ELSE ActionTicks

\* Mutation: an effect that ran out stays in the slot.
AgedWithoutEnd(effects, n) == {[c EXCEPT !.left = @ - n] : c \in effects}

\* n steps decrement remainingTicks and drop the effect when it reaches zero.
Aged(effects, n) ==
    {[c EXCEPT !.left = @ - n] : c \in {e \in effects : e.left > n}}

\* advance(now): a running simulator steps up to the wall clock; it never steps
\* back when forceAdvance has taken it ahead.
Lag == IF running /\ wall > seq THEN wall - seq ELSE 0

Advance ==
    /\ seq + Lag <= MaxSeq
    /\ seq' = seq + Lag
    /\ control' = Aged(control, Lag)

\* applyAction / applyCoreControl after 'caughtUp' ticks of advance: the slot is
\* replaced whatever it holds, then forceAdvance(1) steps unless stopped.
Forced == IF running THEN 1 ELSE 0

Install(by, a, caughtUp) ==
    /\ seq + caughtUp + Forced <= MaxSeq
    /\ seq' = seq + caughtUp + Forced
    /\ control' = Aged({[by |-> by, action |-> a, left |-> TicksOf(a),
                         since |-> seq + caughtUp]}, Forced)

----------------------------------------------------------------------------
\* Actions of the simulator proper.
WallTick ==
    /\ wall < MaxWall
    /\ wall' = wall + 1
    /\ UNCHANGED <<seq, running, scenario, control>>

\* GET /api/operations/snapshot, and every handler that reads a snapshot and
\* then stops at a gate.
Snapshot ==
    /\ Lag > 0
    /\ Advance
    /\ UNCHANGED <<wall, running, scenario>>

\* controlSimulator('start' | 'stop'): no tick is taken, so a stopped simulator
\* catches up with all the missed ticks at the first snapshot after a start.
SetRunning(on) ==
    /\ running # on
    /\ running' = on
    /\ UNCHANGED <<wall, seq, scenario, control>>

\* injectScenario: the new scenario is set before the snapshot catches up.
InjectScenario(s) ==
    /\ scenario # s
    /\ scenario' = s
    /\ Advance
    /\ UNCHANGED <<wall, running>>

GateOpen == running /\ scenario # DataLoss

============================================================================
