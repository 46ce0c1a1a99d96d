------------------------------ MODULE AisGateway ------------------------------
(***************************************************************************)
(* The gateway to the live AIS stream (server/realtimeAisGateway.ts): one  *)
(* WebSocket at a time, reconnected by a timer after it closed, stopped    *)
(* and started again by its owner while the events of sockets it has       *)
(* dropped are still to come.                                              *)
(*                                                                         *)
(* A WebSocket is external: after close() it only ever sends 'close', and  *)
(* only an open one delivers messages.  The gateway has its API key.  The  *)
(* delay of the timer is left out (it is bounded, and the timer fires).    *)
(***************************************************************************)
EXTENDS Naturals, FiniteSets

CONSTANTS
    Socket,          \* the sockets the factory returns, each used once
    NoSocket,
    StaleAfter,      \* staleAfterMs
    MaxAisTime       \* bound

ASSUME AisAssumption ==
    NoSocket \notin Socket /\ IsFiniteSet(Socket) /\ {StaleAfter, MaxAisTime} \subseteq Nat

VARIABLES
    aisState,        \* state
    socket,          \* this.socket
    wire,            \* what each socket is: unused, connecting, open, closing, closed
    reconnect,       \* whether reconnectTimer is set
    vessel,          \* the cached position of one vessel
    aisNow

aisVars == <<aisState, socket, wire, reconnect, vessel, aisNow>>

NoVessel == [observed |-> 0, received |-> 0, heard |-> FALSE]

AisTypeOK ==
    /\ aisState \in {"connecting", "connected", "degraded", "stopped"}
    /\ socket \in Socket \cup {NoSocket}
    /\ wire \in [Socket -> {"unused", "connecting", "open", "closing", "closed"}]
    /\ socket # NoSocket => wire[socket] \in {"connecting", "open", "closing"}
    /\ reconnect \in BOOLEAN
    /\ aisState = "stopped" => ~reconnect /\ socket = NoSocket
    /\ vessel \in [observed: Nat, received: 0..MaxAisTime, heard: BOOLEAN]
    /\ aisNow \in 0..MaxAisTime

AisInit ==
    /\ aisState = "stopped" /\ socket = NoSocket
    /\ wire = [s \in Socket |-> "unused"]
    /\ reconnect = FALSE /\ vessel = NoVessel /\ aisNow = 0

----------------------------------------------------------------------------

\* Mutation: no timer is set.
DegradeForGood ==
    aisState' = "degraded" /\ reconnect' = reconnect

\* degrade(): one timer at a time.
Degrade ==
    aisState' = "degraded" /\ reconnect' = TRUE

\* connect(), with the timer as it is: the factory returns a socket or throws.
Connect(timer) ==
    \/ \E s \in Socket :
        /\ wire[s] = "unused"
        /\ wire' = [wire EXCEPT ![s] = "connecting"]
        /\ socket' = s /\ aisState' = "connecting" /\ reconnect' = timer
    \/ Degrade /\ UNCHANGED <<socket, wire>>

StartAis ==
    /\ socket = NoSocket /\ aisState \notin {"connecting", "connected"}
    /\ Connect(reconnect)
    /\ UNCHANGED <<vessel, aisNow>>

StopAis ==
    /\ aisState' = "stopped" /\ reconnect' = FALSE /\ socket' = NoSocket
    /\ IF socket = NoSocket THEN UNCHANGED wire ELSE wire' = [wire EXCEPT ![socket] = "closing"]
    /\ UNCHANGED <<vessel, aisNow>>

TimerFires ==
    /\ reconnect
    /\ IF socket = NoSocket
       THEN Connect(FALSE)
       ELSE reconnect' = FALSE /\ UNCHANGED <<aisState, socket, wire>>
    /\ UNCHANGED <<vessel, aisNow>>

\* The events of a socket.
Opens(s) ==
    /\ wire[s] = "connecting"
    /\ wire' = [wire EXCEPT ![s] = "open"]
    /\ aisState' = "connected"
    /\ UNCHANGED <<socket, reconnect, vessel, aisNow>>

\* A position report, stamped by the provider; the newest to arrive is kept.  Others, and
\* what does not parse, change nothing.
Position(s, observed) ==
    /\ wire[s] = "open"
    /\ vessel' = [observed |-> observed, received |-> aisNow, heard |-> TRUE]
    /\ UNCHANGED <<aisState, socket, wire, reconnect, aisNow>>

ProviderError(s) ==
    /\ wire[s] = "open"
    /\ aisState' = "degraded"
    /\ UNCHANGED <<socket, wire, reconnect, vessel, aisNow>>

\* Mutation: the handler takes any socket's close for its own.
CloseOfAny(s) ==
    /\ wire[s] \in {"connecting", "open", "closing"}
    /\ wire' = [wire EXCEPT ![s] = "closed"]
    /\ socket' = NoSocket
    /\ IF aisState = "stopped" THEN UNCHANGED <<aisState, reconnect>> ELSE Degrade
    /\ UNCHANGED <<vessel, aisNow>>

Closes(s) ==
    /\ wire[s] \in {"connecting", "open", "closing"}
    /\ wire' = [wire EXCEPT ![s] = "closed"]
    /\ IF socket = s
       THEN /\ socket' = NoSocket
            /\ IF aisState = "stopped" THEN UNCHANGED <<aisState, reconnect>> ELSE Degrade
       ELSE UNCHANGED <<socket, aisState, reconnect>>
    /\ UNCHANGED <<vessel, aisNow>>

TickAis ==
    /\ aisNow < MaxAisTime
    /\ aisNow' = aisNow + 1
    /\ UNCHANGED <<aisState, socket, wire, reconnect, vessel>>

AisNext ==
    \/ StartAis \/ StopAis \/ TimerFires \/ TickAis
    \/ \E s \in Socket :
        \/ Opens(s) \/ Closes(s) \/ ProviderError(s)
        \/ \E observed \in {aisNow, aisNow + StaleAfter + 1} : Position(s, observed)

AisSpec == AisInit /\ [][AisNext]_aisVars

----------------------------------------------------------------------------
\* snapshot(): the cache survives a connection, the claim does not.
Distance(a, b) == IF a > b THEN a - b ELSE b - a

LiveDataVerified ==
    /\ aisState = "connected"
    /\ vessel.heard
    /\ Distance(aisNow, vessel.observed) <= StaleAfter
    /\ aisNow - vessel.received <= StaleAfter

----------------------------------------------------------------------------
\* A socket that may still deliver is the one the gateway holds, so positions of a stopped
\* gateway, or of two streams at once, are never taken.
NoLeakedSocket ==
    \A s \in Socket : wire[s] \in {"connecting", "open"} => s = socket

\* Data is called live only while the gateway holds an open stream, whatever events of older
\* sockets came in between.
VerifiedIsOpen == LiveDataVerified => socket # NoSocket /\ wire[socket] = "open"

\* What is called live comes over the one open stream the gateway holds.
LiveMeansLive == AisTypeOK /\ NoLeakedSocket /\ VerifiedIsOpen
=============================================================================
