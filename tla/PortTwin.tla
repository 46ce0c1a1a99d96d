------------------------------- MODULE PortTwin -------------------------------
(***************************************************************************)
(* The coupled port twin (server/highFidelityPortTwin.ts): one step sails  *)
(* the calls, gives them berths, works them with the cranes there are and  *)
(* books the moves in the yard, which may refuse the step.                 *)
(*                                                                         *)
(* One crane makes one move a step, a knot is one unit of the channel a    *)
(* step, a call either discharges or loads all it exchanges, and the tide  *)
(* is high or low.  Energy, carbon and the clock follow from the rest and  *)
(* are left out.                                                           *)
(***************************************************************************)
EXTENDS Integers, Sequences

CONSTANTS
    CallOrder,            \* the calls by callID
    BerthOrder,           \* the berths as the profile lists them
    NoBerth,
    DeepDraught,          \* calls whose keel needs the high tide
    LongEnough,           \* <<call, berth>> with berth.lengthM >= call.lengthM * 1.1
    MaximumCranes,        \* per berth
    AvailableCranes,
    Exchange, Discharges, \* exchangeTeu; whether it is all discharged
    ChannelLength, MaximumSpeed,
    YardCapacity, InitialInventory, GateOutPerStep

Vessel == {CallOrder[n] : n \in DOMAIN CallOrder}
Berth == {BerthOrder[n] : n \in DOMAIN BerthOrder}

ASSUME TwinAssumption ==
    /\ CallOrder \in Seq(Vessel) /\ BerthOrder \in Seq(Berth) /\ NoBerth \notin Berth
    \* The constructor throws duplicate_call_id.
    /\ \A m, n \in DOMAIN CallOrder : CallOrder[m] = CallOrder[n] => m = n
    /\ DeepDraught \subseteq Vessel /\ LongEnough \subseteq Vessel \X Berth
    /\ MaximumCranes \in [Berth -> Nat \ {0}] /\ AvailableCranes \in Nat \ {0}
    /\ Exchange \in [Vessel -> Nat] /\ Discharges \in [Vessel -> BOOLEAN]
    /\ {ChannelLength, MaximumSpeed, YardCapacity, GateOutPerStep} \subseteq Nat
    /\ InitialInventory \in 0..YardCapacity

VARIABLES
    calls,          \* per call its phase, berth, position, speed and remaining moves
    inventory,      \* yardInventoryTeu
    ledger,         \* cumulative discharged, loaded and gate-out TEU
    lost            \* history: moves of the steps the yard refused

twinVars == <<calls, inventory, ledger, lost>>

Phase == {"INBOUND", "ANCHORAGE", "BERTHED", "OUTBOUND", "COMPLETED"}

TwinTypeOK ==
    /\ \A v \in Vessel :
        /\ calls[v].phase \in Phase
        /\ calls[v].berth \in Berth \cup {NoBerth}
        /\ calls[v].berth # NoBerth <=> calls[v].phase = "BERTHED"
        /\ calls[v].position \in 0..ChannelLength
        /\ calls[v].speed \in 0..MaximumSpeed + 1
        /\ calls[v].remaining \in 0..Exchange[v]
    /\ inventory \in 0..YardCapacity
    /\ ledger \in [discharged: Nat, loaded: Nat, gateOut: Nat]
    /\ lost \in Nat

TwinInit ==
    /\ \E position \in [Vessel -> 0..ChannelLength] :
        calls = [v \in Vessel |-> [phase |-> "INBOUND", berth |-> NoBerth, speed |-> MaximumSpeed,
                                   position |-> position[v], remaining |-> Exchange[v]]]
    /\ inventory = InitialInventory
    /\ ledger = [discharged |-> 0, loaded |-> 0, gateOut |-> 0]
    /\ lost = 0

----------------------------------------------------------------------------
\* step(), part by part; `in` is the control input and the state of the sea.
Lesser(a, b) == IF a < b THEN a ELSE b
Greater(a, b) == IF a > b THEN a ELSE b
Deep(v, in) == in.high \/ v \notin DeepDraught

\* A call that is not commanded keeps the speed it has over ground, the current included.
Sail(v, in) ==
    LET call == calls[v]
        command == Lesser(MaximumSpeed, IF v \in in.commanded THEN in.speed ELSE call.speed)
        speed == (IF Deep(v, in) THEN command ELSE 0) + in.current
        position == IF call.phase = "INBOUND" THEN Greater(0, call.position - speed)
                    ELSE Lesser(ChannelLength, call.position + speed)
    IN  IF call.phase \notin {"INBOUND", "OUTBOUND"} THEN call
        ELSE [call EXCEPT !.speed = speed, !.position = position,
                          !.phase = IF @ = "OUTBOUND" /\ position = ChannelLength
                                    THEN "COMPLETED" ELSE @]

FreeBerths(fleet, v, in) ==
    {n \in DOMAIN BerthOrder : /\ <<v, BerthOrder[n]>> \in LongEnough /\ Deep(v, in)
                               /\ \A u \in Vessel : fleet[u].berth # BerthOrder[n]}

AtBerth(call, b) == [call EXCEPT !.phase = "BERTHED", !.speed = 0, !.berth = b]
AtAnchor(call) == [call EXCEPT !.phase = "ANCHORAGE", !.speed = 0]

\* A waiting call goes to the first free berth that fits it.
Moor(fleet, v, in) ==
    LET free == FreeBerths(fleet, v, in)
    IN  IF fleet[v].phase \notin {"INBOUND", "ANCHORAGE"} \/ fleet[v].position > 0 THEN fleet
        ELSE IF free = {} THEN [fleet EXCEPT ![v] = AtAnchor(@)]
        ELSE [fleet EXCEPT ![v] =
                  AtBerth(@, BerthOrder[CHOOSE n \in free : \A m \in free : n <= m])]

\* Mutation: every call has all cranes.
CranesForAll(w, v, in) ==
    Lesser(MaximumCranes[w.fleet[v].berth], IF in.single THEN 1 ELSE AvailableCranes)

\* min(requested, berth.maximumCranes, cranesRemaining)
Cranes(w, v, in) ==
    Lesser(Lesser(MaximumCranes[w.fleet[v].berth], w.cranes),
           IF in.single THEN 1 ELSE MaximumCranes[w.fleet[v].berth])

Moves(call, cranes) == Lesser(call.remaining, cranes)

Leaving(call) == [call EXCEPT !.phase = "OUTBOUND", !.berth = NoBerth]

\* What working a berthed call makes of it; with no moves left it leaves its berth.
Worked(call, moves) ==
    LET left == [call EXCEPT !.remaining = @ - moves]
    IN  IF left.remaining > 0 THEN left ELSE Leaving(left)

Work(w, v, in) ==
    LET cranes == Cranes(w, v, in)
        moves == Moves(w.fleet[v], cranes)
    IN  IF w.fleet[v].phase # "BERTHED" THEN w
        ELSE [fleet |-> [w.fleet EXCEPT ![v] = Worked(@, moves)],
              cranes |-> w.cranes - cranes,
              discharged |-> w.discharged + (IF Discharges[v] THEN moves ELSE 0),
              loaded |-> w.loaded + (IF Discharges[v] THEN 0 ELSE moves)]

\* The calls one after the other: first all are moored, then all are worked.
Sailed(in) == [v \in Vessel |-> Sail(v, in)]

Moored(in) ==
    LET fleet[n \in 0 .. Len(CallOrder)] ==
            IF n = 0 THEN Sailed(in) ELSE Moor(fleet[n - 1], CallOrder[n], in)
    IN  fleet[Len(CallOrder)]

AtWork(fleet) == [fleet |-> fleet, cranes |-> AvailableCranes, discharged |-> 0, loaded |-> 0]

\* What a step makes of the calls, the cranes left and the moves made.
Handled(in) ==
    LET w[n \in 0 .. Len(CallOrder)] ==
            IF n = 0 THEN AtWork(Moored(in)) ELSE Work(w[n - 1], CallOrder[n], in)
    IN  w[Len(CallOrder)]

GateOut(w) == Lesser(GateOutPerStep, Greater(0, inventory + w.discharged - w.loaded))

\* YARD_CAPACITY_BREACH and YARD_INVENTORY_NEGATIVE are thrown when the calls have been
\* changed: the step is not booked and its moves are gone.
Book(w) ==
    LET next == inventory + w.discharged - w.loaded - GateOut(w)
    IN  IF next \in 0..YardCapacity
        THEN /\ inventory' = next
             /\ ledger' = [discharged |-> ledger.discharged + w.discharged,
                           loaded |-> ledger.loaded + w.loaded,
                           gateOut |-> ledger.gateOut + GateOut(w)]
             /\ UNCHANGED lost
        ELSE /\ lost' = lost + w.discharged + w.loaded
             /\ UNCHANGED <<inventory, ledger>>

Step(in) == \E w \in {Handled(in)} : calls' = w.fleet /\ Book(w)

\* Every call may be commanded or none; requestedCranes is one each or not given.
Input ==
    [high: BOOLEAN, commanded: {{}, Vessel}, speed: 0..MaximumSpeed, current: {0, 1},
     single: BOOLEAN]

TwinNext == \E in \in Input : Step(in)

TwinSpec == TwinInit /\ [][TwinNext]_twinVars

----------------------------------------------------------------------------
\* A berth has one call at a time, and one that fits it.
BerthsAreExclusive ==
    \A u, v \in Vessel : calls[v].phase = "BERTHED" =>
        /\ <<v, calls[v].berth>> \in LongEnough
        /\ calls[u].berth = calls[v].berth => u = v

\* The sum of the numbers f gives the calls.
OverCalls(f) ==
    LET sum[n \in 0 .. Len(CallOrder)] ==
            IF n = 0 THEN 0 ELSE sum[n - 1] + f[CallOrder[n]]
    IN  sum[Len(CallOrder)]

\* TEU are conserved: the yard holds what the ledger says, and the moves the calls have made
\* are in the ledger but for those of the steps the yard refused, which are in neither.
CargoIsConserved ==
    /\ inventory = InitialInventory + ledger.discharged - ledger.loaded - ledger.gateOut
    /\ OverCalls([v \in Vessel |-> Exchange[v] - calls[v].remaining])
            = ledger.discharged + ledger.loaded + lost

\* A step makes no more moves than there are cranes, over all berths.
MovesWithinCranes ==
    [][OverCalls([v \in Vessel |-> calls[v].remaining - calls'[v].remaining])
            <= AvailableCranes]_twinVars

\* The twin obeys the berths, the cranes and the cargo there are.
TwinIsPhysical ==
    [](TwinTypeOK /\ BerthsAreExclusive /\ CargoIsConserved) /\ MovesWithinCranes
=============================================================================
