----------------------------- MODULE Gateways_proofs -----------------------------
(***************************************************************************)
(* Theorems about the server's gateways to the outside, its registry and   *)
(* its regulatory supplement: the AIS stream (AisGateway), for every       *)
(* number of sockets, the registry of core models (CoreModelRegistry), for *)
(* every number of models and of commands, the port community              *)
(* (PortCommunity), for every number of calls and messages, the operator's *)
(* feeds (OperatorIntake), for every number of adapters and envelopes, the *)
(* vessels the authorities hold (RegulatoryRuntime), for every scenario    *)
(* and number of steps, and the port twin (PortTwin), for every port.      *)
(***************************************************************************)
EXTENDS AisGateway, CoreModelRegistry, PortCommunity, OperatorIntake, RegulatoryRuntime,
        PortTwin, FiniteSetTheorems, SequenceTheorems, WellFoundedInduction,
        NaturalsInduction, TLAPS

----------------------------------------------------------------------------
(* The AIS stream.  What is called live depends on the clock and the cache; *)
(* that it comes over an open stream depends on neither.                    *)

ConnectedIsOpen == aisState = "connected" => socket # NoSocket /\ wire[socket] = "open"

AisInv == AisTypeOK /\ NoLeakedSocket /\ ConnectedIsOpen

\* connect(), called without a socket: a new one, or none and the timer.
LEMMA ConnectInv ==
    ASSUME AisInv, NEW timer \in BOOLEAN, socket = NoSocket, Connect(timer),
           UNCHANGED <<vessel, aisNow>>
    PROVE  AisInv'
<1> USE AisAssumption
<1>1. ASSUME NEW s \in Socket, wire[s] = "unused", wire' = [wire EXCEPT ![s] = "connecting"],
             socket' = s, aisState' = "connecting", reconnect' = timer
      PROVE  AisInv'
    <2>1. AisTypeOK'
        BY <1>1 DEF AisInv, AisTypeOK
    <2>2. NoLeakedSocket' /\ ConnectedIsOpen'
        BY <1>1 DEF AisInv, AisTypeOK, NoLeakedSocket, ConnectedIsOpen
    <2> QED
        BY <2>1, <2>2 DEF AisInv
<1>2. CASE Degrade /\ UNCHANGED <<socket, wire>>
    BY <1>2 DEF Degrade, AisInv, AisTypeOK, NoLeakedSocket, ConnectedIsOpen
<1> QED
    BY <1>1, <1>2 DEF Connect

LEMMA SocketEventInv ==
    ASSUME AisInv, NEW s \in Socket, Opens(s) \/ Closes(s) \/ ProviderError(s)
    PROVE  AisInv'
<1> USE AisAssumption
<1>1. wire \in [Socket -> {"unused", "connecting", "open", "closing", "closed"}]
    BY DEF AisInv, AisTypeOK
<1>2. CASE Opens(s)
    <2>1. s = socket /\ socket # NoSocket
        BY <1>2 DEF Opens, AisInv, NoLeakedSocket
    <2> QED
        BY <1>1, <1>2, <2>1 DEF Opens, AisInv, AisTypeOK, NoLeakedSocket, ConnectedIsOpen
<1>3. CASE Closes(s)
    <2>1. CASE socket = s
        <3>1. aisState # "stopped"
            BY <2>1 DEF AisInv, AisTypeOK
        <3> QED
            BY <1>1, <1>3, <2>1, <3>1
               DEF Closes, Degrade, AisInv, AisTypeOK, NoLeakedSocket, ConnectedIsOpen
    <2>2. CASE socket # s
        BY <1>1, <1>3, <2>2
           DEF Closes, AisInv, AisTypeOK, NoLeakedSocket, ConnectedIsOpen
    <2> QED
        BY <2>1, <2>2
<1>4. CASE ProviderError(s)
    <2>1. s = socket /\ socket # NoSocket
        BY <1>4 DEF ProviderError, AisInv, NoLeakedSocket
    <2> QED
        BY <1>4, <2>1 DEF ProviderError, AisInv, AisTypeOK, NoLeakedSocket, ConnectedIsOpen
<1> QED
    BY <1>2, <1>3, <1>4

LEMMA AisStep == ASSUME AisInv, AisNext PROVE AisInv'
<1> USE AisAssumption
<1>1. CASE StartAis
    BY <1>1, ConnectInv DEF StartAis, AisInv, AisTypeOK
<1>2. CASE StopAis
    <2>1. aisState' = "stopped" /\ reconnect' = FALSE /\ socket' = NoSocket
          /\ UNCHANGED <<vessel, aisNow>>
        BY <1>2 DEF StopAis
    <2>2. wire' \in [Socket -> {"unused", "connecting", "open", "closing", "closed"}]
        BY <1>2 DEF StopAis, AisInv, AisTypeOK
    <2>3. NoLeakedSocket'
        BY <1>2 DEF StopAis, AisInv, AisTypeOK, NoLeakedSocket
    <2> QED
        BY <2>1, <2>2, <2>3 DEF AisInv, AisTypeOK, ConnectedIsOpen
<1>3. CASE TimerFires
    <2>1. CASE socket = NoSocket
        BY <1>3, <2>1, ConnectInv DEF TimerFires
    <2>2. CASE socket # NoSocket
        BY <1>3, <2>2 DEF TimerFires, AisInv, AisTypeOK, NoLeakedSocket, ConnectedIsOpen
    <2> QED
        BY <2>1, <2>2
<1>4. CASE TickAis
    BY <1>4 DEF TickAis, AisInv, AisTypeOK, NoLeakedSocket, ConnectedIsOpen
<1>5. ASSUME NEW s \in Socket, Opens(s) \/ Closes(s) \/ ProviderError(s) PROVE AisInv'
    BY <1>5, SocketEventInv
<1>6. ASSUME NEW s \in Socket, NEW observed \in {aisNow, aisNow + StaleAfter + 1},
             Position(s, observed)
      PROVE  AisInv'
    <2>1. observed \in Nat /\ aisNow \in 0..MaxAisTime
        BY DEF AisInv, AisTypeOK
    <2> QED
        BY <1>6, <2>1 DEF Position, AisInv, AisTypeOK, NoLeakedSocket, ConnectedIsOpen
<1> QED
    BY <1>1, <1>2, <1>3, <1>4, <1>5, <1>6 DEF AisNext

\* The inductive invariant of the AIS gateway, for every number of sockets.
THEOREM AisInvariance == AisSpec => []AisInv
<1>1. AisInit => AisInv
    <2> SUFFICES ASSUME AisInit PROVE AisInv
        OBVIOUS
    <2>1. 0 \in 0..MaxAisTime /\ 0 \in Nat
        BY AisAssumption
    <2>2. vessel \in [observed: Nat, received: 0..MaxAisTime, heard: BOOLEAN]
        BY <2>1 DEF AisInit, NoVessel
    <2>3. AisTypeOK
        BY <2>1, <2>2 DEF AisInit, AisTypeOK
    <2> QED
        BY <2>3 DEF AisInit, AisInv, NoLeakedSocket, ConnectedIsOpen
<1>2. AisInv /\ [AisNext]_aisVars => AisInv'
    <2> SUFFICES ASSUME AisInv, [AisNext]_aisVars PROVE AisInv'
        OBVIOUS
    <2>1. CASE AisNext
        BY <2>1, AisStep
    <2>2. CASE UNCHANGED aisVars
        BY <2>2 DEF aisVars, AisInv, AisTypeOK, NoLeakedSocket, ConnectedIsOpen
    <2> QED
        BY <2>1, <2>2
<1> QED
    BY <1>1, <1>2, PTL DEF AisSpec

\* What is called live comes over the one open stream the gateway holds
\* (realtimeAisGateway.ts, snapshot), whatever events of sockets it has dropped are still to
\* come: stopping, starting and reconnecting leave no second stream behind.
THEOREM LiveComesFromOneStream == AisSpec => []LiveMeansLive
<1>1. AisInv => LiveMeansLive
    BY DEF AisInv, LiveMeansLive, VerifiedIsOpen, LiveDataVerified, ConnectedIsOpen
<1> QED
    BY <1>1, AisInvariance, PTL

----------------------------------------------------------------------------
(* The registry.  Damage only grows, so whatever verifies now verified when *)
(* a command that is still running began.                                   *)

CommandState ==
    [at: {"idle", "read", "loaded", "written"}, candidate: Model \cup {None},
     rollback: Model \cup {None}, sound: SUBSET Model]

NamedBy(c) == [active |-> command[c].candidate, rollback |-> command[c].rollback]

RegistryInv ==
    /\ RegistryTypeOK
    /\ command \in [Command -> CommandState] /\ deaths \in Nat
    /\ \A c \in Command :
        /\ command[c].at # "idle" =>
            Model \ damaged \subseteq command[c].sound /\ command[c].candidate \in command[c].sound
        /\ command[c].at \in {"loaded", "written"} => command[c].rollback \in command[c].sound
        /\ command[c].at = "written" => NamedBy(c) \in manifests
    /\ deaths = 0 => \A m \in manifests :
        m \in receipted \/ \E c \in Command : command[c].at = "written" /\ m = NamedBy(c)

LEMMA ActivateInv ==
    ASSUME RegistryInv, NEW c \in Command, NEW m \in Model, Activate(c, m) PROVE RegistryInv'
<1> DEFINE new == [at |-> "read", candidate |-> m, rollback |-> None, sound |-> Model \ damaged]
<1>1. new \in CommandState /\ new.at = "read" /\ new.candidate = m /\ new.sound = Model \ damaged
    BY DEF CommandState
<1>2. m \in Model \ damaged /\ activations' \in 0..MaxActivations /\ command[c].at = "idle"
    BY RegistryAssumption DEF Activate, Verifies, RegistryInv, RegistryTypeOK
<1>3. command' = [command EXCEPT ![c] = new]
    BY DEF Activate, Become
<1> HIDE DEF new
<1>4. /\ command' \in [Command -> CommandState] /\ command'[c] = new
      /\ \A d \in Command : d # c => command'[d] = command[d]
    BY <1>1, <1>3 DEF RegistryInv
<1>5. UNCHANGED <<manifest, damaged, manifests, receipted, deaths>>
    BY DEF Activate
<1>6. RegistryTypeOK'
    BY <1>1, <1>2, <1>4, <1>5 DEF RegistryInv, RegistryTypeOK
<1>7. \A d \in Command : command[d].at = "written" =>
        command'[d].at = "written" /\ NamedBy(d)' = NamedBy(d)
    BY <1>2, <1>4 DEF NamedBy
<1> QED
    BY <1>1, <1>2, <1>4, <1>5, <1>6, <1>7 DEF RegistryInv, NamedBy

LEMMA LoadPreviousInv ==
    ASSUME RegistryInv, NEW c \in Command, LoadPrevious(c) PROVE RegistryInv'
<1>1. UNCHANGED <<manifest, damaged, manifests, receipted, activations, deaths>>
      /\ command[c].at = "read" /\ command[c] \in CommandState
    BY DEF LoadPrevious, RegistryInv
<1>2. /\ Loaded.model \in (Model \ damaged) \cup {None}
      /\ Loaded = [model |-> Loaded.model, selection |-> Loaded.selection]
    BY RegistryAssumption DEF Loaded, Verifies, RegistryInv, RegistryTypeOK, NoManifest, Manifest
<1>3. PICK new : /\ command' = [command EXCEPT ![c] = new]
                 /\ \/ new = Idle
                    \/ new = [command[c] EXCEPT !.at = "loaded", !.rollback = Loaded.model]
                       /\ Loaded.model \in Model \ damaged
    <2>1. Loaded.model = None => Loaded \in {[model |-> None, selection |-> Loaded.selection]}
        BY <1>2
    <2>2. CASE command' = [command EXCEPT ![c] = Idle]
        BY <2>2
    <2>3. CASE command' = [command EXCEPT ![c] =
                              [command[c] EXCEPT !.at = "loaded", !.rollback = Loaded.model]]
        <3>1. Loaded.model # None \/ command' = [command EXCEPT ![c] = Idle]
            BY <2>1 DEF LoadPrevious, Become
        <3> QED
            BY <1>2, <2>2, <2>3, <3>1
    <2> QED
        BY <2>2, <2>3 DEF LoadPrevious, Become
<1>4. /\ new \in CommandState /\ new.at \in {"idle", "loaded"}
      /\ new.at = "loaded" =>
            /\ new.candidate = command[c].candidate /\ new.sound = command[c].sound
            /\ new.rollback = Loaded.model /\ Loaded.model \in Model \ damaged
    <2>1. CASE new = Idle
        BY <2>1 DEF CommandState, Idle
    <2>2. ASSUME NEW m \in Model \ damaged, m = Loaded.model,
                 new = [command[c] EXCEPT !.at = "loaded", !.rollback = m]
          PROVE  /\ new \in CommandState /\ new.at = "loaded" /\ new.rollback = m
                 /\ new.candidate = command[c].candidate /\ new.sound = command[c].sound
        BY <1>1, <2>2 DEF CommandState
    <2> QED
        BY <1>3, <2>1, <2>2
<1>5. /\ command' \in [Command -> CommandState] /\ command'[c] = new
      /\ \A d \in Command : d # c => command'[d] = command[d]
    BY <1>3, <1>4 DEF RegistryInv
<1>6. /\ Model \ damaged \subseteq command[c].sound /\ command[c].candidate \in command[c].sound
      /\ command[c].sound \subseteq Model
    BY <1>1 DEF RegistryInv, CommandState
<1>7. RegistryTypeOK'
    BY <1>1, <1>4, <1>5, <1>6 DEF RegistryInv, RegistryTypeOK
<1>8. \A d \in Command : command[d].at = "written" =>
        command'[d].at = "written" /\ NamedBy(d)' = NamedBy(d)
    BY <1>1, <1>5 DEF NamedBy
<1> QED
    BY <1>1, <1>4, <1>5, <1>6, <1>7, <1>8 DEF RegistryInv, NamedBy

\* The new manifest and the command that wrote it; what the command holds verified when it
\* began.
LEMMA WriteNames ==
    ASSUME RegistryInv, NEW c \in Command, Write(c)
    PROVE  /\ NamedBy(c) \in Manifest /\ manifest' = NamedBy(c)
           /\ {manifest'.active, manifest'.rollback} \subseteq command[c].sound
<1>1. /\ command[c].candidate \in command[c].sound /\ command[c].rollback \in command[c].sound
      /\ command[c].sound \subseteq Model
    BY DEF Write, RegistryInv, CommandState
<1>2. manifest' = NamedBy(c)
    BY DEF Write, NamedBy
<1>3. manifest'.active = command[c].candidate /\ manifest'.rollback = command[c].rollback
    BY <1>2 DEF NamedBy
<1> QED
    BY <1>1, <1>2, <1>3 DEF NamedBy, Manifest

LEMMA WriteInv ==
    ASSUME RegistryInv, NEW c \in Command, Write(c) PROVE RegistryInv'
<1> DEFINE new == [command[c] EXCEPT !.at = "written"]
<1>1. command[c] \in CommandState /\ command[c].at = "loaded"
    BY DEF Write, RegistryInv
<1>2. /\ new \in CommandState /\ new.at = "written" /\ new.candidate = command[c].candidate
      /\ new.rollback = command[c].rollback /\ new.sound = command[c].sound
    BY <1>1 DEF CommandState
<1>3. command' = [command EXCEPT ![c] = new]
    BY DEF Write, Become
<1> HIDE DEF new
<1>4. /\ command' \in [Command -> CommandState] /\ command'[c] = new
      /\ \A d \in Command : d # c => command'[d] = command[d]
    BY <1>2, <1>3 DEF RegistryInv
<1>5. /\ UNCHANGED <<damaged, receipted, activations, deaths>>
      /\ manifests' = manifests \cup {NamedBy(c)}
    BY WriteNames DEF Write
<1>6. /\ NamedBy(c) \in Manifest /\ manifest' = NamedBy(c)
    BY WriteNames
<1>7. \A d \in Command : NamedBy(d)' = NamedBy(d)
    BY <1>2, <1>4 DEF NamedBy
<1>8. {new.candidate, new.rollback} \subseteq Model
    BY <1>1, <1>2 DEF RegistryInv, CommandState
<1>9. RegistryTypeOK'
    BY <1>2, <1>4, <1>5, <1>6, <1>8 DEF RegistryInv, RegistryTypeOK
<1>10. (deaths = 0 => \A m \in manifests :
            m \in receipted \/ \E d \in Command : command[d].at = "written" /\ m = NamedBy(d))'
    <2> SUFFICES ASSUME deaths = 0, NEW m \in manifests \cup {NamedBy(c)}
                 PROVE  m \in receipted \/ \E d \in Command :
                            command'[d].at = "written" /\ m = NamedBy(d)
        BY <1>5, <1>7
    <2>1. CASE m = NamedBy(c)
        BY <1>2, <1>4, <2>1
    <2>2. CASE m \in manifests
        BY <1>2, <1>4, <2>2 DEF RegistryInv
    <2> QED
        BY <2>1, <2>2
<1>11. (\A d \in Command :
        /\ command[d].at # "idle" =>
            Model \ damaged \subseteq command[d].sound /\ command[d].candidate \in command[d].sound
        /\ command[d].at \in {"loaded", "written"} => command[d].rollback \in command[d].sound
        /\ command[d].at = "written" => NamedBy(d) \in manifests)'
    <2> SUFFICES ASSUME NEW d \in Command
                 PROVE  /\ command'[d].at # "idle" =>
                            /\ Model \ damaged \subseteq command'[d].sound
                            /\ command'[d].candidate \in command'[d].sound
                        /\ command'[d].at \in {"loaded", "written"} =>
                            command'[d].rollback \in command'[d].sound
                        /\ command'[d].at = "written" => NamedBy(d) \in manifests'
        BY <1>5, <1>7
    <2>1. CASE d = c
        BY <1>1, <1>2, <1>4, <1>5, <2>1 DEF RegistryInv
    <2>2. CASE d # c
        BY <1>4, <1>5, <2>2 DEF RegistryInv
    <2> QED
        BY <2>1, <2>2
<1> QED
    BY <1>4, <1>5, <1>9, <1>10, <1>11 DEF RegistryInv

\* A command is over: what it wrote has its receipt, or it has died.
LEMMA EndInv ==
    ASSUME RegistryInv, NEW c \in Command, Receipt(c) \/ Die(c) PROVE RegistryInv'
<1>1. Idle \in CommandState /\ Idle.at = "idle"
    BY DEF Idle, CommandState
<1>2. /\ command' \in [Command -> CommandState] /\ command'[c] = Idle
      /\ \A d \in Command : d # c => command'[d] = command[d]
    BY <1>1 DEF Receipt, Die, Become, RegistryInv
<1>3. UNCHANGED <<manifest, damaged, manifests, activations>>
    BY DEF Receipt, Die
<1>4. \A d \in Command : command'[d].at # "idle" => d # c /\ NamedBy(d)' = NamedBy(d)
    BY <1>1, <1>2 DEF NamedBy
<1>5. \/ Die(c) /\ deaths' # 0 /\ deaths' \in 0..MaxDeaths /\ receipted' = receipted
      \/ Receipt(c) /\ deaths' = deaths /\ receipted' = receipted \cup {NamedBy(c)}
         /\ NamedBy(c) \in manifests
    BY RegistryAssumption DEF Receipt, Die, NamedBy, RegistryInv, RegistryTypeOK
<1>6. RegistryTypeOK' /\ deaths' \in Nat
    <2>1. receipted' \subseteq manifests' /\ deaths' \in 0..MaxDeaths
        BY <1>3, <1>5 DEF RegistryInv, RegistryTypeOK
    <2>2. \A d \in Command :
            /\ command'[d].at \in {"idle", "read", "loaded", "written"}
            /\ command'[d].at \in {"loaded", "written"} =>
                {command'[d].candidate, command'[d].rollback} \subseteq Model
        BY <1>1, <1>2 DEF RegistryInv, RegistryTypeOK
    <2> QED
        BY <1>3, <2>1, <2>2 DEF RegistryInv, RegistryTypeOK
<1>7. (deaths = 0 => \A m \in manifests :
            m \in receipted \/ \E d \in Command : command[d].at = "written" /\ m = NamedBy(d))'
    <2> SUFFICES ASSUME deaths' = 0, NEW m \in manifests
                 PROVE  m \in receipted' \/ \E d \in Command :
                            command'[d].at = "written" /\ m = NamedBy(d)'
        BY <1>3
    <2>1. deaths = 0 /\ receipted' = receipted \cup {NamedBy(c)}
        BY <1>5
    <2>2. m \in receipted \/ \E d \in Command : command[d].at = "written" /\ m = NamedBy(d)
        BY <2>1 DEF RegistryInv
    <2>3. ASSUME NEW d \in Command, command[d].at = "written", m = NamedBy(d), d # c
          PROVE  command'[d].at = "written" /\ m = NamedBy(d)'
        BY <1>2, <2>3 DEF NamedBy
    <2> QED
        BY <2>1, <2>2, <2>3
<1>8. (\A d \in Command :
        /\ command[d].at # "idle" =>
            Model \ damaged \subseteq command[d].sound /\ command[d].candidate \in command[d].sound
        /\ command[d].at \in {"loaded", "written"} => command[d].rollback \in command[d].sound
        /\ command[d].at = "written" => NamedBy(d) \in manifests)'
    BY <1>1, <1>2, <1>3, <1>4 DEF RegistryInv
<1> QED
    BY <1>2, <1>6, <1>7, <1>8 DEF RegistryInv

LEMMA DamageInv ==
    ASSUME RegistryInv, NEW m \in Model, Damage(m) PROVE RegistryInv'
BY DEF Damage, RegistryInv, RegistryTypeOK, NamedBy

LEMMA RegistryStep == ASSUME RegistryInv, RegistryNext PROVE RegistryInv'
BY ActivateInv, LoadPreviousInv, WriteInv, EndInv, DamageInv DEF RegistryNext

\* The inductive invariant of the registry, for every number of models, commands, deaths and
\* damaged reports: the commands' guesses about what verifies are never too small.
THEOREM RegistryInvariance == RegistrySpec => []RegistryInv
<1>1. RegistryInit => RegistryInv
    <2> SUFFICES ASSUME RegistryInit PROVE RegistryInv
        OBVIOUS
    <2>1. Idle \in CommandState /\ Idle.at = "idle"
        BY DEF Idle, CommandState
    <2>2. command \in [Command -> CommandState]
          /\ \A c \in Command : command[c] = Idle
        BY <2>1 DEF RegistryInit
    <2>3. 0 \in 0..MaxActivations /\ 0 \in 0..MaxDeaths
        BY RegistryAssumption
    <2>4. RegistryTypeOK
        BY <2>1, <2>2, <2>3 DEF RegistryInit, RegistryTypeOK
    <2> QED
        BY <2>1, <2>2, <2>4 DEF RegistryInit, RegistryInv
<1>2. RegistryInv /\ [RegistryNext]_registryVars => RegistryInv'
    <2> SUFFICES ASSUME RegistryInv, [RegistryNext]_registryVars PROVE RegistryInv'
        OBVIOUS
    <2>1. CASE RegistryNext
        BY <2>1, RegistryStep
    <2>2. CASE UNCHANGED registryVars
        BY <2>2 DEF registryVars, RegistryInv, RegistryTypeOK, NamedBy
    <2> QED
        BY <2>1, <2>2
<1> QED
    BY <1>1, <1>2, PTL DEF RegistrySpec

\* Only Write changes the manifest, and then only one command gets written.
LEMMA WritersNameSoundModels ==
    ASSUME RegistryInv, RegistryNext, NEW c \in Command, manifest' # manifest,
           command'[c].at = "written", command[c].at # "written"
    PROVE  {manifest'.active, manifest'.rollback} \subseteq command[c].sound
<1>1. PICK d \in Command : Write(d)
    BY DEF RegistryNext, Activate, LoadPrevious, Receipt, Die, Damage
<1>2. c = d
    BY <1>1 DEF Write, Become, RegistryInv
<1> QED
    BY <1>1, <1>2, WriteNames

\* A manifest that comes into force names two reports that verified after its activation
\* began, however commands overtook one another and whatever was damaged or died, and no
\* manifest is without a receipt but for a death (coreOperationsModelRegistry.ts,
\* activateCoreModel).
THEOREM RegistryKeepsModelsLoadable == RegistrySpec => ModelsStayLoadable
<1>1. RegistryInv => RegistryTypeOK /\ AllReceipted
    BY DEF RegistryInv, AllReceipted
<1>2. RegistryInv /\ [RegistryNext]_registryVars =>
        [\A c \in Command : manifest' # manifest /\ command'[c].at = "written" =>
            \/ command[c].at = "written"
            \/ {manifest'.active, manifest'.rollback} \subseteq command[c].sound
        ]_registryVars
    BY WritersNameSoundModels
<1> QED
    BY <1>1, <1>2, RegistryInvariance, PTL DEF RegistrySpec, ModelsStayLoadable, KeepsAWayBack

----------------------------------------------------------------------------
(* The port community.  The ids number the mail, so an id in `messages` is  *)
(* a message of the chain, and an idempotency key belongs to one of them.   *)

Key(m) == <<m.sender, m.key>>

MailIsNumbered ==
    /\ mail \subseteq Message /\ IsFiniteSet(mail) /\ IsFiniteSet(messages)
    /\ \A m \in mail : m.id <= Cardinality(mail)
    /\ \A m, n \in mail : m.id = n.id => m = n

KeysAreKept == \A i \in DOMAIN audit : Key(audit[i]) \in idempotency

CommunityInv == ClearancesAreExplained /\ MailIsNumbered /\ KeysAreKept

LEMMA MessageFields ==
    ASSUME NEW m \in Message
    PROVE  /\ m.id \in Nat /\ m.key \in 1..MaxMail /\ m.sender \in ClearanceType
           /\ m.call \in Call /\ m.clearance \in BOOLEAN /\ m.status \in Status
           /\ m.effectiveAt \in Nat
           /\ <<m.call, m.sender>> \in Call \X ClearanceType
           /\ Decision(m).status = m.status /\ Decision(m).effectiveAt = m.effectiveAt
           /\ Decision(m) # NoDecision
BY CommunityAssumption DEF Message, Decision, NoDecision, Status

\* A partner's next message has the next number and leaves what was accepted alone.
LEMMA SendInv ==
    ASSUME CommunityInv, NEW m \in Message, Cardinality(mail) < MaxMail, Send(m)
    PROVE  CommunityInv'
<1>1. /\ mail' = mail \cup {m} /\ m.id = Cardinality(mail) + 1
      /\ UNCHANGED <<messages, idempotency, clearances, audit, communityNow, communityRestarts>>
    BY DEF Send
<1>2. Cardinality(mail) \in Nat /\ \A n \in mail : n.id \in Nat /\ n.id # m.id
    <2>1. Cardinality(mail) \in Nat
        BY FS_CardinalityType DEF CommunityInv, MailIsNumbered
    <2>2. ASSUME NEW n \in mail PROVE n.id \in Nat /\ n.id <= Cardinality(mail)
        BY MessageFields DEF CommunityInv, MailIsNumbered
    <2> QED
        BY <1>1, <2>1, <2>2
<1>3. m \notin mail
    BY <1>2
<1>4. MailIsNumbered'
    <2>1. IsFiniteSet(mail') /\ Cardinality(mail') = Cardinality(mail) + 1
        BY <1>1, <1>3, FS_AddElement DEF CommunityInv, MailIsNumbered
    <2>2. \A n \in mail' : n.id <= Cardinality(mail')
        <3>1. \A n \in mail : n.id <= Cardinality(mail)
            BY DEF CommunityInv, MailIsNumbered
        <3> QED
            BY <1>1, <1>2, <2>1, <3>1
    <2>3. \A n, o \in mail' : n.id = o.id => n = o
        BY <1>1, <1>2 DEF CommunityInv, MailIsNumbered
    <2> QED
        BY <1>1, <2>1, <2>2, <2>3 DEF CommunityInv, MailIsNumbered
<1>5. CommunityTypeOK'
    <2>1. audit' \in Seq(mail')
        BY <1>1 DEF CommunityInv, ClearancesAreExplained, CommunityTypeOK
    <2>2. clearances' \in [Call \X ClearanceType -> {NoDecision} \cup {Decision(n) : n \in mail'}]
        BY <1>1 DEF CommunityInv, ClearancesAreExplained, CommunityTypeOK
    <2> QED
        BY <1>1, <2>1, <2>2 DEF CommunityInv, ClearancesAreExplained, CommunityTypeOK
<1>6. m.id \notin messages
    BY <1>2 DEF CommunityInv, ClearancesAreExplained, CommunityTypeOK
<1>7. AuditIsExact'
    BY <1>1, <1>6 DEF CommunityInv, ClearancesAreExplained, AuditIsExact
<1>8. LaterDecisionStands' /\ KeysAreKept'
    BY <1>1 DEF CommunityInv, ClearancesAreExplained, LaterDecisionStands, KeysAreKept
<1> QED
    BY <1>4, <1>5, <1>7, <1>8 DEF CommunityInv, ClearancesAreExplained

\* A decision that stands is there for a reason, and a decision of the chain stands or has
\* been superseded: so one that supersedes what stands is later than all of the chain.
LEMMA SupersedesAll ==
    ASSUME CommunityInv, NEW m \in mail, Supersedes(m), NEW i \in DOMAIN audit,
           audit[i].clearance, audit[i].call = m.call, audit[i].sender = m.sender
    PROVE  m.effectiveAt > audit[i].effectiveAt
<1> DEFINE standing == clearances[<<m.call, m.sender>>]
<1>1. audit[i] \in mail /\ audit[i] \in Message /\ m \in Message
    BY DEF CommunityInv, ClearancesAreExplained, CommunityTypeOK, MailIsNumbered
<1>2. /\ standing.effectiveAt >= audit[i].effectiveAt
      /\ standing.effectiveAt = audit[i].effectiveAt => standing = Decision(audit[i])
    BY DEF CommunityInv, ClearancesAreExplained, LaterDecisionStands
<1>3. standing # NoDecision
    <2>1. audit[i].effectiveAt \in Nat /\ Decision(audit[i]) # NoDecision
        BY <1>1, MessageFields
    <2> QED
        BY <1>2, <2>1 DEF NoDecision
<1>4. standing.effectiveAt \in Nat
    <2>1. standing \in {Decision(n) : n \in mail}
        BY <1>1, <1>3, MessageFields DEF CommunityInv, ClearancesAreExplained, CommunityTypeOK
    <2>2. PICK n \in mail : standing = Decision(n)
        BY <2>1
    <2>3. n \in Message
        BY DEF CommunityInv, MailIsNumbered
    <2> QED
        BY <2>2, <2>3, MessageFields
<1> QED
    BY <1>1, <1>2, <1>3, <1>4, MessageFields DEF Supersedes

LEMMA IngestInv ==
    ASSUME CommunityInv, NEW m \in mail, Ingest(m) PROVE CommunityInv'
<1>1. /\ m \in Message /\ m.id \notin messages /\ Key(m) \notin idempotency
      /\ messages' = messages \cup {m.id} /\ idempotency' = idempotency \cup {Key(m)}
      /\ audit' = Append(audit, m) /\ UNCHANGED <<mail, communityNow, communityRestarts>>
    BY DEF Ingest, Admissible, Key, CommunityInv, MailIsNumbered
<1>2. /\ audit \in Seq(mail) /\ audit' \in Seq(mail) /\ Len(audit') = Len(audit) + 1
      /\ Len(audit) \in Nat
      /\ \A i \in DOMAIN audit : audit'[i] = audit[i]
      /\ audit'[Len(audit) + 1] = m
      /\ DOMAIN audit = 1..Len(audit) /\ DOMAIN audit' = 1..(Len(audit) + 1)
    BY <1>1 DEF CommunityInv, ClearancesAreExplained, CommunityTypeOK
<1>3. \A i \in DOMAIN audit' : i \in DOMAIN audit \/ (i = Len(audit) + 1 /\ audit'[i] = m)
    BY <1>2
<1>4. ToSet(audit') = ToSet(audit) \cup {m}
    <2>1. Len(audit) + 1 \in DOMAIN audit' /\ DOMAIN audit \subseteq DOMAIN audit'
        BY <1>2
    <2> QED
        BY <1>2, <1>3, <2>1 DEF ToSet
<1>5. IsFiniteSet(messages') /\ Cardinality(messages') = Cardinality(messages) + 1
    BY <1>1, FS_AddElement DEF CommunityInv, MailIsNumbered
<1>6. MailIsNumbered'
    BY <1>1, <1>5 DEF CommunityInv, MailIsNumbered
<1>7. KeysAreKept'
    BY <1>1, <1>2, <1>3 DEF CommunityInv, KeysAreKept
<1>8. \A k \in Call \X ClearanceType :
        clearances'[k] = IF m.clearance /\ k = <<m.call, m.sender>>
                         THEN Decision(m) ELSE clearances[k]
    BY DEF Ingest, CommunityInv, ClearancesAreExplained, CommunityTypeOK
<1>9. CommunityTypeOK'
    <2>1. clearances' \in [Call \X ClearanceType -> {NoDecision} \cup {Decision(n) : n \in mail}]
        BY DEF Ingest, CommunityInv, ClearancesAreExplained, CommunityTypeOK
    <2>2. Key(m) \in ClearanceType \X (1..MaxMail)
        BY <1>1, MessageFields DEF Key
    <2> QED
        BY <1>1, <1>2, <1>5, <2>1, <2>2
           DEF CommunityInv, ClearancesAreExplained, CommunityTypeOK
<1>10. LaterDecisionStands'
    <2> SUFFICES ASSUME NEW i \in DOMAIN audit', audit'[i].clearance,
                        NEW k, k = <<audit'[i].call, audit'[i].sender>>
                 PROVE  /\ clearances'[k].effectiveAt >= audit'[i].effectiveAt
                        /\ clearances'[k].effectiveAt = audit'[i].effectiveAt =>
                            clearances'[k] = Decision(audit'[i])
        BY DEF LaterDecisionStands, Decision
    <2>1. CASE i \notin DOMAIN audit
        BY <1>1, <1>3, <1>8, <2>1, MessageFields
    <2>2. CASE i \in DOMAIN audit
        <3>1. audit'[i] = audit[i] /\ audit[i] \in Message
            BY <1>2, <2>2 DEF CommunityInv, MailIsNumbered
        <3>2. k \in Call \X ClearanceType
            BY <3>1, MessageFields
        <3>3. CASE m.clearance /\ k = <<m.call, m.sender>>
            <4>1. m.effectiveAt > audit[i].effectiveAt
                BY <2>2, <3>1, <3>3, SupersedesAll DEF Ingest
            <4>2. clearances'[k] = Decision(m)
                BY <1>8, <3>2, <3>3
            <4>3. m.effectiveAt \in Nat /\ audit[i].effectiveAt \in Nat
                  /\ Decision(m).effectiveAt = m.effectiveAt
                BY <1>1, <3>1, MessageFields
            <4> QED
                BY <3>1, <4>1, <4>2, <4>3
        <3>4. CASE ~(m.clearance /\ k = <<m.call, m.sender>>)
            <4>1. clearances'[k] = clearances[k]
                BY <1>8, <3>2, <3>4
            <4> QED
                BY <2>2, <3>1, <4>1
                   DEF CommunityInv, ClearancesAreExplained, LaterDecisionStands
        <3> QED
            BY <3>3, <3>4
    <2> QED
        BY <2>1, <2>2
<1>11. AuditIsExact'
    <2>1. ToSet(audit') = {n \in mail' : n.id \in messages'}
        <3>1. \A n \in mail : n.id = m.id => n = m
            BY DEF CommunityInv, MailIsNumbered
        <3> QED
            BY <1>1, <1>4, <3>1 DEF CommunityInv, ClearancesAreExplained, AuditIsExact
    <2>2. ASSUME NEW i \in DOMAIN audit', NEW j \in DOMAIN audit', i # j
          PROVE  Key(audit'[i]) # Key(audit'[j])
        <3>1. \A l \in DOMAIN audit : Key(audit'[l]) # Key(m)
            BY <1>1, <1>2 DEF CommunityInv, KeysAreKept
        <3>2. CASE i \in DOMAIN audit /\ j \in DOMAIN audit
            BY <1>2, <2>2, <3>2
               DEF CommunityInv, ClearancesAreExplained, AuditIsExact, Key
        <3>3. CASE ~(i \in DOMAIN audit /\ j \in DOMAIN audit)
            BY <1>3, <2>2, <3>1, <3>3
        <3> QED
            BY <3>2, <3>3
    <2>3. ASSUME NEW k \in Call \X ClearanceType, clearances'[k] # NoDecision
          PROVE  \E n \in ToSet(audit') :
                    n.clearance /\ <<n.call, n.sender>> = k /\ clearances'[k] = Decision(n)
        <3>1. CASE m.clearance /\ k = <<m.call, m.sender>>
            BY <1>4, <1>8, <3>1
        <3>2. CASE ~(m.clearance /\ k = <<m.call, m.sender>>)
            BY <1>4, <1>8, <2>3, <3>2
               DEF CommunityInv, ClearancesAreExplained, AuditIsExact
        <3> QED
            BY <3>1, <3>2
    <2> QED
        BY <2>1, <2>2, <2>3 DEF AuditIsExact, Key
<1> QED
    BY <1>6, <1>7, <1>9, <1>10, <1>11 DEF CommunityInv, ClearancesAreExplained

\* Nothing is accepted and nothing stands in a new process.
LEMMA FreshProcess ==
    ASSUME mail \subseteq Message, messages = {}, idempotency = {}, audit = <<>>,
           clearances = [k \in Call \X ClearanceType |-> NoDecision],
           communityNow \in 0..MaxCommunityTime, communityRestarts \in 0..MaxCommunityRestarts,
           IsFiniteSet(mail), \A m \in mail : m.id <= Cardinality(mail),
           \A m, n \in mail : m.id = n.id => m = n
    PROVE  CommunityInv
<1>1. audit \in Seq(mail) /\ DOMAIN audit = {} /\ Len(audit) = 0 /\ ToSet(audit) = {}
    BY DEF ToSet
<1>2. IsFiniteSet(messages) /\ Cardinality(messages) = 0
    BY FS_EmptySet
<1> QED
    BY <1>1, <1>2 DEF CommunityInv, ClearancesAreExplained, CommunityTypeOK, AuditIsExact,
        LaterDecisionStands, MailIsNumbered, KeysAreKept

LEMMA CommunityStep == ASSUME CommunityInv, CommunityNext PROVE CommunityInv'
<1>1. ASSUME NEW key \in 1..MaxMail, NEW sender \in ClearanceType, NEW call \in Call,
             NEW status \in Status, NEW decides \in BOOLEAN, NEW delay \in 0..1,
             NEW ahead \in {0, Future + 1}, Cardinality(mail) < MaxMail
      PROVE  [id |-> Cardinality(mail) + 1, key |-> key, sender |-> sender,
              sentAt |-> communityNow + ahead, call |-> call, clearance |-> decides,
              status |-> status, effectiveAt |-> communityNow + delay] \in Message
    <2>1. Cardinality(mail) \in Nat /\ communityNow \in Nat /\ MaxMail \in Nat /\ Future \in Nat
        BY FS_CardinalityType, CommunityAssumption
           DEF CommunityInv, MailIsNumbered, ClearancesAreExplained, CommunityTypeOK
    <2>2. /\ Cardinality(mail) + 1 \in 1..MaxMail /\ communityNow + ahead \in Nat
          /\ communityNow + delay \in Nat
        BY <1>1, <2>1
    <2> QED
        BY <2>2 DEF Message
<1>2. ASSUME NEW m \in mail, Ingest(m) PROVE CommunityInv'
    BY <1>2, IngestInv
<1>3. CASE RestartCommunity
    <2>1. communityRestarts' \in 0..MaxCommunityRestarts /\ communityNow' \in 0..MaxCommunityTime
        BY <1>3, CommunityAssumption
           DEF RestartCommunity, CommunityInv, ClearancesAreExplained, CommunityTypeOK
    <2>2. /\ mail' = mail /\ messages' = {} /\ idempotency' = {} /\ audit' = <<>>
          /\ clearances' = [k \in Call \X ClearanceType |-> NoDecision]
        BY <1>3 DEF RestartCommunity
    <2>3. audit' \in Seq(mail') /\ DOMAIN audit' = {} /\ Len(audit') = 0 /\ ToSet(audit') = {}
        BY <2>2 DEF ToSet
    <2>4. IsFiniteSet(messages') /\ Cardinality(messages') = 0
        BY <2>2, FS_EmptySet
    <2> QED
        BY <2>1, <2>2, <2>3, <2>4 DEF CommunityInv, ClearancesAreExplained, CommunityTypeOK,
            AuditIsExact, LaterDecisionStands, MailIsNumbered, KeysAreKept
<1>4. CASE TickCommunity
    <2>1. communityNow' \in 0..MaxCommunityTime
        BY <1>4, CommunityAssumption
           DEF TickCommunity, CommunityInv, ClearancesAreExplained, CommunityTypeOK
    <2> QED
        BY <1>4, <2>1 DEF TickCommunity, CommunityInv, ClearancesAreExplained, CommunityTypeOK,
            AuditIsExact, LaterDecisionStands, MailIsNumbered, KeysAreKept
<1>5. ASSUME Cardinality(mail) < MaxMail, NEW m \in Message, Send(m) PROVE CommunityInv'
    BY <1>5, SendInv
<1>6. CASE \E key \in 1..MaxMail, sender \in ClearanceType, call \in Call, status \in Status,
              decides \in BOOLEAN, delay \in 0..1, ahead \in {0, Future + 1} :
            /\ Cardinality(mail) < MaxMail
            /\ ~decides => delay = 0 /\ status = "GRANTED"
            /\ Send([id |-> Cardinality(mail) + 1, key |-> key, sender |-> sender,
                     sentAt |-> communityNow + ahead, call |-> call, clearance |-> decides,
                     status |-> status, effectiveAt |-> communityNow + delay])
    <2>1. PICK key \in 1..MaxMail, sender \in ClearanceType, call \in Call, status \in Status,
               decides \in BOOLEAN, delay \in 0..1, ahead \in {0, Future + 1} :
            /\ Cardinality(mail) < MaxMail
            /\ Send([id |-> Cardinality(mail) + 1, key |-> key, sender |-> sender,
                     sentAt |-> communityNow + ahead, call |-> call, clearance |-> decides,
                     status |-> status, effectiveAt |-> communityNow + delay])
        BY <1>6
    <2> DEFINE m == [id |-> Cardinality(mail) + 1, key |-> key, sender |-> sender,
                     sentAt |-> communityNow + ahead, call |-> call, clearance |-> decides,
                     status |-> status, effectiveAt |-> communityNow + delay]
    <2>2. m \in Message
        BY <1>1, <2>1
    <2>3. Send(m)
        BY <2>1
    <2> HIDE DEF m
    <2> QED
        BY <1>5, <2>1, <2>2, <2>3
<1> QED
    BY <1>2, <1>3, <1>4, <1>6 DEF CommunityNext

\* The inductive invariant of the port community gateway, for every number of calls, types
\* and messages.
THEOREM CommunityInvariance == CommunitySpec => []CommunityInv
<1>1. CommunityInit => CommunityInv
    <2> SUFFICES ASSUME CommunityInit PROVE CommunityInv
        OBVIOUS
    <2>1. IsFiniteSet(mail) /\ mail = {}
        BY FS_EmptySet DEF CommunityInit
    <2>2. 0 \in 0..MaxCommunityTime /\ 0 \in 0..MaxCommunityRestarts
        BY CommunityAssumption
    <2> QED
        BY <2>1, <2>2, FreshProcess DEF CommunityInit
<1>2. CommunityInv /\ [CommunityNext]_communityVars => CommunityInv'
    <2> SUFFICES ASSUME CommunityInv, [CommunityNext]_communityVars PROVE CommunityInv'
        OBVIOUS
    <2>1. CASE CommunityNext
        BY <2>1, CommunityStep
    <2>2. CASE UNCHANGED communityVars
        BY <2>2 DEF communityVars, CommunityInv, ClearancesAreExplained, CommunityTypeOK,
            AuditIsExact, LaterDecisionStands, MailIsNumbered, KeysAreKept
    <2> QED
        BY <2>1, <2>2
<1> QED
    BY <1>1, <1>2, PTL DEF CommunitySpec

\* The standing clearance is the accepted decision that takes effect last, and the audit chain
\* has each accepted message once, in whatever order the network delivers, repeats and
\* withholds them and however often the process restarts (portCommunityGateway.ts, ingest).
THEOREM CommunityExplainsClearances == CommunitySpec => []ClearancesAreExplained
<1>1. CommunityInv => ClearancesAreExplained
    BY DEF CommunityInv
<1> QED
    BY <1>1, CommunityInvariance, PTL

----------------------------------------------------------------------------
(* The operator's intake.  The window of accepted envelopes ascends, names  *)
(* each id once and ends with the newest; what is in memory may be a repeat *)
(* of any of them, of which only the payload is compared.                   *)

Latest == MaxTime + Skew + 1

SentRight(s) ==
    /\ s \in Seq(Envelope)
    /\ \A i \in 1..Len(s) : s[i].sequence = i /\ s[i].observed <= Latest

Ascends(s) ==
    \A i, j \in 1..Len(s) : i < j => s[i].sequence < s[j].sequence /\ s[i].id # s[j].id

EvidenceOf(s) == [envelope: ToSet(s), recent: Seq(ToSet(s))]

\* What the gateway keeps of an adapter whose source has sent s.
EvidenceRight(ev, s) ==
    \/ ev = NoEvidence
    \/ /\ ev \in EvidenceOf(s) /\ Ascends(ev.recent)
       /\ Len(ev.recent) \in 1..MaxRecent
       /\ ev.recent[Len(ev.recent)] = ev.envelope

Evidence == [envelope: Envelope \cup {NoEnvelope}, recent: Seq(Envelope)]

IntakeInv ==
    /\ sent \in [Adapter -> Seq(Envelope)]
    /\ evidence \in [Adapter -> Evidence] /\ file \in [Adapter -> Evidence]
    /\ resident \in [Adapter -> Envelope \cup {NoEnvelope}]
    /\ acked \in [Adapter -> 0..MaxSent] /\ now \in 0..MaxTime /\ faults \in 0..MaxIntakeFaults
    /\ \A a \in Adapter :
        /\ SentRight(sent[a]) /\ Len(sent[a]) <= MaxSent
        /\ EvidenceRight(evidence[a], sent[a]) /\ EvidenceRight(file[a], sent[a])
        /\ resident[a] \in ToSet(sent[a]) \cup {NoEnvelope}
        /\ resident[a].observed <= now + Skew
        /\ acked[a] <= file[a].envelope.sequence
        /\ file[a].envelope.sequence <= evidence[a].envelope.sequence

LEMMA SentBySequence ==
    ASSUME NEW s, SentRight(s), NEW e \in ToSet(s)
    PROVE  /\ e \in Envelope /\ e.sequence \in 1..Len(s) /\ e = s[e.sequence]
           /\ e.observed \in Nat /\ e.observed <= Latest /\ e # NoEnvelope
           /\ \A f \in ToSet(s) : f.sequence = e.sequence => f = e
<1>1. \A f \in ToSet(s) : f \in Envelope /\ f.sequence \in 1..Len(s) /\ f = s[f.sequence]
                         /\ f.observed <= Latest
    BY DEF SentRight, ToSet
<1>2. e.observed \in Nat
    BY <1>1 DEF Envelope
<1>3. e # NoEnvelope
    BY <1>1 DEF NoEnvelope, SentRight
<1> QED
    BY <1>1, <1>2, <1>3

LEMMA EvidenceEnvelope ==
    ASSUME NEW s, SentRight(s), NEW ev, EvidenceRight(ev, s)
    PROVE  /\ ev = NoEvidence => ev.envelope.sequence = 0 /\ ev.envelope = NoEnvelope
           /\ ev # NoEvidence =>
                /\ ev.envelope \in ToSet(s) /\ ev.recent # <<>> /\ Last(ev.recent) = ev.envelope
                /\ ev.envelope.sequence \in 1..Len(s)
           /\ ev.envelope.sequence \in Nat
           /\ \A e \in ToSet(ev.recent) : e \in ToSet(s) /\ e.sequence <= ev.envelope.sequence
           /\ Len(ev.recent) \in 0..MaxRecent /\ Ascends(ev.recent)
<1>1. CASE ev = NoEvidence
    <2>1. ev.recent = <<>> /\ ev.envelope = NoEnvelope
        BY <1>1 DEF NoEvidence
    <2>2. Len(ev.recent) = 0 /\ ToSet(ev.recent) = {} /\ Ascends(ev.recent)
        BY <2>1 DEF ToSet, Ascends
    <2>3. ev.envelope.sequence = 0
        BY <2>1 DEF NoEnvelope
    <2> QED
        BY <1>1, <2>1, <2>2, <2>3, IntakeAssumption
<1>2. CASE ev # NoEvidence
    <2>1. /\ ev.envelope \in ToSet(s) /\ ev.recent \in Seq(ToSet(s)) /\ Ascends(ev.recent)
          /\ Len(ev.recent) \in 1..MaxRecent /\ ev.recent[Len(ev.recent)] = ev.envelope
        BY <1>2 DEF EvidenceRight, EvidenceOf
    <2>2. ev.recent # <<>> /\ Len(ev.recent) \in Nat /\ 1 <= Len(ev.recent)
          /\ Len(ev.recent) \in 0..MaxRecent
        BY <2>1, IntakeAssumption
    <2>3. ev.envelope.sequence \in 1..Len(s) /\ Len(s) \in Nat
        BY <2>1, SentBySequence DEF SentRight
    <2>4. ASSUME NEW e \in ToSet(ev.recent)
          PROVE  e \in ToSet(s) /\ e.sequence <= ev.envelope.sequence
        <3>1. PICK i \in 1..Len(ev.recent) : e = ev.recent[i]
            BY <2>1, <2>4 DEF ToSet
        <3>2. e \in ToSet(s)
            BY <2>1, <3>1
        <3>3. e.sequence \in Nat
            BY <2>3, <3>2, SentBySequence
        <3>4. CASE i = Len(ev.recent)
            BY <2>1, <2>3, <3>1, <3>2, <3>4
        <3>5. CASE i < Len(ev.recent)
            <4>1. e.sequence < ev.envelope.sequence
                BY <2>1, <2>2, <3>1, <3>5 DEF Ascends
            <4> QED
                BY <2>3, <3>2, <3>3, <4>1
        <3> QED
            BY <2>2, <3>1, <3>4, <3>5
    <2> QED
        BY <1>2, <2>1, <2>2, <2>3, <2>4 DEF Last
<1> QED
    BY <1>1, <1>2

\* Evidence stays right when its source has sent more.
LEMMA EvidenceGrows ==
    ASSUME NEW s, NEW t, NEW ev, EvidenceRight(ev, s), ToSet(s) \subseteq ToSet(t)
    PROVE  EvidenceRight(ev, t)
BY DEF EvidenceRight, EvidenceOf

LEMMA SuffixIs ==
    ASSUME NEW S, NEW q \in Seq(S), NEW m \in 1..Len(q)
    PROVE  /\ SubSeq(q, m, Len(q)) \in Seq(S) /\ Len(SubSeq(q, m, Len(q))) = Len(q) - m + 1
           /\ \A i \in 1..(Len(q) - m + 1) : SubSeq(q, m, Len(q))[i] = q[m + i - 1]
BY SubSeqProperties

\* The window with one more, newer envelope.
LEMMA AcceptedEvidence ==
    ASSUME NEW s, SentRight(s), NEW ev, EvidenceRight(ev, s), NEW e \in ToSet(s),
           e.sequence > ev.envelope.sequence, \A q \in ToSet(ev.recent) : q.id # e.id
    PROVE  EvidenceRight([envelope |-> e, recent |-> Newest(Append(ev.recent, e))], s)
<1> DEFINE all == Append(ev.recent, e)
           n == Len(all)
           first == IF n > MaxRecent THEN n - MaxRecent + 1 ELSE 1
           kept == SubSeq(all, first, n)
<1>1. ev.recent \in Seq(ToSet(s)) /\ Ascends(ev.recent) /\ Len(ev.recent) \in Nat
    <2>1. CASE ev = NoEvidence
        BY <2>1, EvidenceEnvelope DEF NoEvidence
    <2>2. CASE ev # NoEvidence
        BY <2>2 DEF EvidenceRight, EvidenceOf
    <2> QED
        BY <2>1, <2>2
<1>2. /\ all \in Seq(ToSet(s)) /\ n = Len(ev.recent) + 1 /\ all[n] = e
      /\ \A i \in 1..Len(ev.recent) : all[i] = ev.recent[i]
    BY <1>1
<1>3. \A i \in 1..Len(ev.recent) : all[i].sequence < e.sequence /\ all[i].id # e.id
    <2> SUFFICES ASSUME NEW i \in 1..Len(ev.recent)
                 PROVE  ev.recent[i].sequence < e.sequence /\ ev.recent[i].id # e.id
        BY <1>2
    <2>1. ev.recent[i] \in ToSet(ev.recent) /\ ev.recent[i] \in ToSet(s)
        BY <1>1 DEF ToSet
    <2>2. ev.recent[i].sequence \in Nat /\ e.sequence \in Nat /\ ev.envelope.sequence \in Nat
        BY <2>1, SentBySequence, EvidenceEnvelope DEF SentRight
    <2>3. ev.recent[i].sequence <= ev.envelope.sequence
        BY <2>1, EvidenceEnvelope
    <2> QED
        BY <2>1, <2>2, <2>3
<1>4. Ascends(all)
    <2> SUFFICES ASSUME NEW i \in 1..n, NEW j \in 1..n, i < j
                 PROVE  all[i].sequence < all[j].sequence /\ all[i].id # all[j].id
        BY DEF Ascends
    <2>1. i \in 1..Len(ev.recent)
        BY <1>1, <1>2
    <2>2. CASE j = n
        BY <1>2, <1>3, <2>1, <2>2
    <2>3. CASE j # n
        <3>1. j \in 1..Len(ev.recent)
            BY <1>1, <1>2, <2>3
        <3> QED
            BY <1>1, <1>2, <2>1, <3>1 DEF Ascends
    <2> QED
        BY <2>2, <2>3
<1> HIDE DEF all
<1>5. n \in Nat /\ n >= 1 /\ MaxRecent \in Nat \ {0}
    BY <1>1, <1>2, IntakeAssumption
<1>6. first \in 1..n /\ n - first + 1 \in 1..MaxRecent
    BY <1>5
<1> HIDE DEF first, n
<1>7. /\ kept \in Seq(ToSet(s)) /\ Len(kept) = n - first + 1
      /\ \A i \in 1..Len(kept) : kept[i] = all[first + i - 1]
    <2>1. n = Len(all)
        BY DEF n
    <2>2. all \in Seq(ToSet(s)) /\ first \in 1..Len(all)
        BY <1>2, <1>6, <2>1
    <2>3. /\ SubSeq(all, first, Len(all)) \in Seq(ToSet(s))
          /\ Len(SubSeq(all, first, Len(all))) = Len(all) - first + 1
          /\ \A i \in 1..(Len(all) - first + 1) : SubSeq(all, first, Len(all))[i] = all[first + i - 1]
        BY <2>2, SuffixIs
    <2> QED
        BY <2>1, <2>3
<1>8. kept = Newest(all)
    BY DEF Newest, first, n
<1> HIDE DEF kept
<1>9. kept[Len(kept)] = e
    <2>1. Len(kept) \in 1..Len(kept) /\ first + Len(kept) - 1 = n
        BY <1>5, <1>6, <1>7
    <2>2. kept[Len(kept)] = all[first + Len(kept) - 1]
        BY <1>7, <2>1
    <2> QED
        BY <1>2, <2>1, <2>2
<1>10. Ascends(kept)
    <2> SUFFICES ASSUME NEW i \in 1..Len(kept), NEW j \in 1..Len(kept), i < j
                 PROVE  kept[i].sequence < kept[j].sequence /\ kept[i].id # kept[j].id
        BY DEF Ascends
    <2>1. first + i - 1 \in 1..n /\ first + j - 1 \in 1..n /\ first + i - 1 < first + j - 1
        BY <1>5, <1>6, <1>7
    <2>2. /\ all[first + i - 1].sequence < all[first + j - 1].sequence
          /\ all[first + i - 1].id # all[first + j - 1].id
        BY <1>4, <2>1 DEF Ascends, n
    <2> QED
        BY <1>7, <2>2
<1>11. PICK new : new = [envelope |-> e, recent |-> kept]
    OBVIOUS
<1>12. new \in EvidenceOf(s) /\ new.recent = kept /\ new.envelope = e
    BY <1>7, <1>11 DEF EvidenceOf
<1>13. EvidenceRight(new, s)
    BY <1>6, <1>7, <1>9, <1>10, <1>12 DEF EvidenceRight
<1>14. new = [envelope |-> e, recent |-> Newest(Append(ev.recent, e))]
    BY <1>8, <1>11 DEF all
<1> QED
    BY <1>13, <1>14

LEMMA EvidenceTyped ==
    ASSUME NEW s, SentRight(s), NEW ev, EvidenceRight(ev, s) PROVE ev \in Evidence
<1>1. ToSet(s) \subseteq Envelope
    BY SentBySequence
<1>2. NoEvidence \in Evidence
    BY DEF NoEvidence, Evidence
<1>3. ASSUME ev \in EvidenceOf(s) PROVE ev \in Evidence
    BY <1>1, <1>3 DEF EvidenceOf, Evidence
<1> QED
    BY <1>2, <1>3 DEF EvidenceRight

LEMMA EmitInv ==
    ASSUME IntakeInv, NEW a \in Adapter, NEW id \in 1..Len(sent[a]) + 1,
           NEW payload \in Payload, NEW ahead \in {0, Skew + 1}, Emit(a, id, payload, now + ahead)
    PROVE  IntakeInv'
<1>1. PICK e : e = [id |-> id, payload |-> payload, sequence |-> Len(sent[a]) + 1,
                    observed |-> now + ahead]
    OBVIOUS
<1>2. /\ Len(sent[a]) < MaxSent /\ sent' = [sent EXCEPT ![a] = Append(sent[a], e)]
      /\ UNCHANGED <<evidence, resident, file, acked, now, faults>>
    BY <1>1 DEF Emit, IntakeInv
<1>3. /\ sent[a] \in Seq(Envelope) /\ Len(sent[a]) \in Nat /\ MaxSent \in Nat /\ SentRight(sent[a])
    BY IntakeAssumption DEF IntakeInv
<1>4. e \in Envelope /\ e.sequence = Len(sent[a]) + 1 /\ e.observed <= Latest
    <2>1. now \in 0..MaxTime /\ Skew \in Nat /\ MaxTime \in Nat
        BY IntakeAssumption DEF IntakeInv
    <2>2. now + ahead \in Nat /\ now + ahead <= Latest
        BY <2>1 DEF Latest
    <2>3. id \in 1..MaxSent /\ Len(sent[a]) + 1 \in 1..MaxSent
        BY <1>2, <1>3
    <2> QED
        BY <1>1, <2>2, <2>3 DEF Envelope
<1>5. PICK t : t = Append(sent[a], e)
    OBVIOUS
<1>6. /\ t \in Seq(Envelope) /\ Len(t) = Len(sent[a]) + 1 /\ t[Len(t)] = e
      /\ \A i \in 1..Len(sent[a]) : t[i] = sent[a][i]
    BY <1>3, <1>4, <1>5
<1>7. SentRight(t) /\ Len(t) <= MaxSent
    <2>1. ASSUME NEW i \in 1..Len(t) PROVE t[i].sequence = i /\ t[i].observed <= Latest
        <3>1. CASE i = Len(t)
            BY <1>3, <1>4, <1>6, <3>1
        <3>2. CASE i # Len(t)
            <4>1. i \in 1..Len(sent[a]) /\ t[i] = sent[a][i]
                BY <1>3, <1>6, <3>2
            <4> QED
                BY <1>3, <4>1 DEF SentRight
        <3> QED
            BY <3>1, <3>2
    <2> QED
        BY <1>2, <1>3, <1>6, <2>1 DEF SentRight
<1>8. ToSet(sent[a]) \subseteq ToSet(t)
    <2>1. \A i \in 1..Len(sent[a]) : i \in 1..Len(t) /\ sent[a][i] = t[i]
        BY <1>3, <1>6
    <2>2. DOMAIN sent[a] = 1..Len(sent[a]) /\ DOMAIN t = 1..Len(t)
        BY <1>3, <1>6
    <2> QED
        BY <2>1, <2>2 DEF ToSet
<1>9. /\ sent' \in [Adapter -> Seq(Envelope)] /\ sent'[a] = t
      /\ \A b \in Adapter : b # a => sent'[b] = sent[b]
    BY <1>2, <1>5, <1>6 DEF IntakeInv
<1>10. ASSUME NEW b \in Adapter
       PROVE  /\ SentRight(sent'[b]) /\ Len(sent'[b]) <= MaxSent
              /\ EvidenceRight(evidence[b], sent'[b]) /\ EvidenceRight(file[b], sent'[b])
              /\ resident[b] \in ToSet(sent'[b]) \cup {NoEnvelope}
    <2>1. SentRight(sent'[b]) /\ Len(sent'[b]) <= MaxSent /\ ToSet(sent[b]) \subseteq ToSet(sent'[b])
        BY <1>7, <1>8, <1>9 DEF IntakeInv
    <2> QED
        BY <2>1, EvidenceGrows DEF IntakeInv
<1> QED
    BY <1>2, <1>9, <1>10 DEF IntakeInv

LEMMA ReplayInv ==
    ASSUME IntakeInv, NEW a \in Adapter, NEW e \in ToSet(sent[a]), Replay(a, e) PROVE IntakeInv'
<1>1. e \in Envelope
    BY SentBySequence DEF IntakeInv
<1>2. /\ resident' \in [Adapter -> Envelope \cup {NoEnvelope}] /\ resident'[a] = e
      /\ \A b \in Adapter : b # a => resident'[b] = resident[b]
      /\ e.observed <= now + Skew
    BY <1>1 DEF Replay, Timely, IntakeInv
<1>3. UNCHANGED <<sent, evidence, file, acked, now, faults>>
    BY DEF Replay
<1>4. \A b \in Adapter : /\ resident'[b] \in ToSet(sent[b]) \cup {NoEnvelope}
                         /\ resident'[b].observed <= now + Skew
    BY <1>2 DEF IntakeInv
<1> QED
    BY <1>2, <1>3, <1>4 DEF IntakeInv

LEMMA AcceptInv ==
    ASSUME IntakeInv, NEW a \in Adapter, NEW e \in ToSet(sent[a]), NEW saved \in BOOLEAN,
           Accept(a, e, saved)
    PROVE  IntakeInv'
<1>1. SentRight(sent[a]) /\ EvidenceRight(evidence[a], sent[a])
    BY DEF IntakeInv
<1>2. /\ e \in Envelope /\ e.sequence > evidence[a].envelope.sequence /\ e.sequence \in 1..MaxSent
      /\ \A q \in ToSet(evidence[a].recent) : q.id # e.id
      /\ e.observed <= now + Skew
    BY <1>1, SentBySequence DEF Accept, Envelope, Known, Timely
<1>3. PICK ev : ev = [envelope |-> e, recent |-> Newest(Append(evidence[a].recent, e))]
    OBVIOUS
<1>4. EvidenceRight(ev, sent[a]) /\ ev \in Evidence /\ ev.envelope = e
    BY <1>1, <1>2, <1>3, AcceptedEvidence, EvidenceTyped
<1>5. /\ evidence' = [evidence EXCEPT ![a] = ev] /\ resident' = [resident EXCEPT ![a] = e]
      /\ UNCHANGED <<sent, now>>
    BY <1>3 DEF Accept
<1>6. /\ evidence' \in [Adapter -> Evidence] /\ evidence'[a] = ev
      /\ \A b \in Adapter : b # a => evidence'[b] = evidence[b]
      /\ resident' \in [Adapter -> Envelope \cup {NoEnvelope}] /\ resident'[a] = e
      /\ \A b \in Adapter : b # a => resident'[b] = resident[b]
    BY <1>2, <1>4, <1>5 DEF IntakeInv
<1>7. ASSUME NEW b \in Adapter
      PROVE  /\ EvidenceRight(evidence'[b], sent[b]) /\ resident'[b] \in ToSet(sent[b]) \cup {NoEnvelope}
             /\ resident'[b].observed <= now + Skew
             /\ evidence[b].envelope.sequence \in Nat /\ evidence'[b].envelope.sequence \in Nat
             /\ evidence[b].envelope.sequence <= evidence'[b].envelope.sequence
             /\ file[b].envelope.sequence \in Nat /\ acked[b] \in 0..MaxSent
             /\ acked[b] <= file[b].envelope.sequence
             /\ file[b].envelope.sequence <= evidence[b].envelope.sequence
    <2>1. /\ EvidenceRight(evidence'[b], sent[b]) /\ resident'[b] \in ToSet(sent[b]) \cup {NoEnvelope}
          /\ resident'[b].observed <= now + Skew
        BY <1>2, <1>4, <1>6 DEF IntakeInv
    <2>2. /\ evidence[b].envelope.sequence \in Nat /\ evidence'[b].envelope.sequence \in Nat
          /\ file[b].envelope.sequence \in Nat
        BY <2>1, EvidenceEnvelope DEF IntakeInv
    <2>3. evidence[b].envelope.sequence <= evidence'[b].envelope.sequence
        BY <1>2, <1>4, <1>6, <2>2
    <2> QED
        BY <2>1, <2>2, <2>3 DEF IntakeInv
<1>8. CASE saved
    <2>1. file' = evidence' /\ faults' = faults /\ acked' = [acked EXCEPT ![a] = e.sequence]
        BY <1>8 DEF Accept
    <2>2. acked' \in [Adapter -> 0..MaxSent] /\ acked'[a] = e.sequence
          /\ \A b \in Adapter : b # a => acked'[b] = acked[b]
        <3>1. e.sequence \in 0..MaxSent
            BY <1>2, IntakeAssumption
        <3> QED
            BY <2>1, <3>1 DEF IntakeInv
    <2>3. ASSUME NEW b \in Adapter
          PROVE  /\ acked'[b] <= file'[b].envelope.sequence
                 /\ file'[b].envelope.sequence <= evidence'[b].envelope.sequence
        <3>1. CASE b = a
            BY <1>4, <1>6, <1>7, <2>1, <2>2, <3>1
        <3>2. CASE b # a
            BY <1>6, <1>7, <2>1, <2>2, <3>2
        <3> QED
            BY <3>1, <3>2
    <2> QED
        BY <1>5, <1>6, <1>7, <2>1, <2>2, <2>3 DEF IntakeInv
<1>9. CASE ~saved
    <2>1. faults < MaxIntakeFaults /\ faults' = faults + 1 /\ UNCHANGED <<file, acked>>
        BY <1>9 DEF Accept
    <2>2. faults' \in 0..MaxIntakeFaults
        BY <2>1, IntakeAssumption DEF IntakeInv
    <2>3. \A b \in Adapter : file[b].envelope.sequence <= evidence'[b].envelope.sequence
        BY <1>7
    <2> QED
        BY <1>5, <1>6, <1>7, <2>1, <2>2, <2>3 DEF IntakeInv
<1> QED
    BY <1>8, <1>9

LEMMA RestartIntakeInv == ASSUME IntakeInv, RestartIntake PROVE IntakeInv'
<1>1. faults' \in 0..MaxIntakeFaults
    BY IntakeAssumption DEF RestartIntake, IntakeInv
<1>2. /\ evidence' = file /\ UNCHANGED <<sent, file, acked, now>>
      /\ resident' \in [Adapter -> Envelope \cup {NoEnvelope}]
      /\ \A a \in Adapter : resident'[a] = NoEnvelope
    BY DEF RestartIntake
<1>3. \A a \in Adapter : file[a].envelope.sequence \in Nat
    BY EvidenceEnvelope DEF IntakeInv
<1>4. \A a \in Adapter : resident'[a].observed <= now + Skew
    BY <1>2, IntakeAssumption DEF NoEnvelope, IntakeInv
<1> QED
    BY <1>1, <1>2, <1>3, <1>4 DEF IntakeInv

LEMMA IntakeStep == ASSUME IntakeInv, IntakeNext PROVE IntakeInv'
<1>1. CASE TickIntake
    <2>1. now' \in 0..MaxTime
        <3>1. now \in 0..MaxTime /\ MaxTime \in Nat
            BY IntakeAssumption DEF IntakeInv
        <3>2. now < MaxTime /\ now' = now + 1
            BY <1>1 DEF TickIntake
        <3> QED
            BY <3>1, <3>2
    <2>2. \A a \in Adapter : resident[a].observed <= now' + Skew
        <3> SUFFICES ASSUME NEW a \in Adapter PROVE resident[a].observed <= now' + Skew
            OBVIOUS
        <3>1. resident[a].observed \in Nat /\ resident[a].observed <= now + Skew
            BY DEF IntakeInv, Envelope, NoEnvelope
        <3>2. now \in Nat /\ Skew \in Nat /\ now' = now + 1
            BY <1>1, IntakeAssumption DEF IntakeInv, TickIntake
        <3> QED
            BY <3>1, <3>2
    <2> QED
        BY <1>1, <2>1, <2>2 DEF TickIntake, IntakeInv
<1> QED
    BY <1>1, EmitInv, ReplayInv, AcceptInv, RestartIntakeInv DEF IntakeNext

\* The inductive invariant of the intake, for every number of adapters and envelopes, every
\* length of the window and every number of failed writes and restarts.
THEOREM IntakeInvariance == IntakeSpec => []IntakeInv
<1>1. IntakeInit => IntakeInv
    <2> SUFFICES ASSUME IntakeInit PROVE IntakeInv
        OBVIOUS
    <2>1. NoEvidence \in Evidence /\ NoEvidence.envelope.sequence = 0 /\ NoEnvelope.sequence = 0
        BY DEF NoEvidence, NoEnvelope, Evidence
    <2>2. <<>> \in Seq(Envelope) /\ Len(<<>>) = 0 /\ SentRight(<<>>)
        BY DEF SentRight
    <2>3. /\ 0 \in 0..MaxSent /\ 0 \in 0..MaxTime /\ 0 \in 0..MaxIntakeFaults /\ 0 <= MaxSent
          /\ NoEnvelope.observed <= 0 + Skew
        BY IntakeAssumption DEF NoEnvelope
    <2>4. /\ sent \in [Adapter -> Seq(Envelope)]
          /\ evidence \in [Adapter -> Evidence] /\ file \in [Adapter -> Evidence]
          /\ resident \in [Adapter -> Envelope \cup {NoEnvelope}] /\ acked \in [Adapter -> 0..MaxSent]
          /\ now = 0 /\ faults = 0
        BY <2>1, <2>2, <2>3 DEF IntakeInit
    <2>5. \A a \in Adapter : /\ sent[a] = <<>> /\ evidence[a] = NoEvidence /\ file[a] = NoEvidence
                             /\ resident[a] = NoEnvelope /\ acked[a] = 0
        BY DEF IntakeInit
    <2>6. ASSUME NEW a \in Adapter
          PROVE  /\ SentRight(sent[a]) /\ Len(sent[a]) <= MaxSent
                 /\ EvidenceRight(evidence[a], sent[a]) /\ EvidenceRight(file[a], sent[a])
                 /\ resident[a] \in ToSet(sent[a]) \cup {NoEnvelope}
                 /\ resident[a].observed <= now + Skew
                 /\ acked[a] <= file[a].envelope.sequence
                 /\ file[a].envelope.sequence <= evidence[a].envelope.sequence
        BY <2>1, <2>2, <2>3, <2>4, <2>5 DEF EvidenceRight
    <2> QED
        BY <2>3, <2>4, <2>6 DEF IntakeInv
<1>2. IntakeInv /\ [IntakeNext]_intakeVars => IntakeInv'
    <2> SUFFICES ASSUME IntakeInv, [IntakeNext]_intakeVars PROVE IntakeInv'
        OBVIOUS
    <2>1. CASE IntakeNext
        BY <2>1, IntakeStep
    <2>2. CASE UNCHANGED intakeVars
        BY <2>2 DEF intakeVars, IntakeInv
    <2> QED
        BY <2>1, <2>2
<1> QED
    BY <1>1, <1>2, PTL DEF IntakeSpec

\* The least-number principle, and the maximum of a bounded set.
LEMMA Least ==
    ASSUME NEW T \in SUBSET Nat, T # {}
    PROVE  \E x \in T : \A y \in T : x <= y
<1> DEFINE R == OpToRel(<, Nat)
<1>1. \A x, y \in Nat : <<x, y>> \in R <=> x < y
    BY DEF OpToRel
<1>2. IsWellFoundedOn(R, Nat)
    BY NatLessThanWellFounded
<1> HIDE DEF R
<1>3. PICK x \in T : \A y \in T : ~ (<<y, x>> \in R)
    BY <1>2, WFMin
<1>4. \A y \in T : ~ (y < x)
    BY <1>1, <1>3
<1> QED
    BY <1>4

LEMMA MaxIs ==
    ASSUME NEW T \in SUBSET Nat, T # {}, NEW bound \in Nat, \A x \in T : x <= bound
    PROVE  Max(T) \in T /\ \A y \in T : Max(T) >= y
<1> DEFINE below == {bound - x : x \in T}
<1>1. below \in SUBSET Nat /\ below # {}
    <2>1. \A x \in T : bound - x \in Nat
        OBVIOUS
    <2>2. PICK x \in T : TRUE
        OBVIOUS
    <2>3. bound - x \in below
        OBVIOUS
    <2> QED
        BY <2>1, <2>3
<1>2. PICK d \in below : \A e \in below : d <= e
    BY <1>1, Least
<1>3. PICK m \in T : d = bound - m
    OBVIOUS
<1>4. ASSUME NEW y \in T PROVE m >= y
    <2>1. bound - y \in below
        OBVIOUS
    <2>2. bound - m <= bound - y
        BY <1>2, <1>3, <2>1
    <2> QED
        BY <2>2
<1>5. \A y \in T : m >= y
    BY <1>4
<1> QED
    BY <1>5 DEF Max

\* In the window an id stands once.
LEMMA IdOnce ==
    ASSUME NEW S, NEW q \in Seq(S), Ascends(q), NEW r \in ToSet(q), NEW p \in ToSet(q), r.id = p.id
    PROVE  r = p
<1>1. PICK i \in 1..Len(q), j \in 1..Len(q) : r = q[i] /\ p = q[j]
    BY DEF ToSet
<1>2. i \in Nat /\ j \in Nat /\ Len(q) \in Nat
    OBVIOUS
<1>3. CASE i < j
    BY <1>1, <1>3 DEF Ascends
<1>4. CASE j < i
    BY <1>1, <1>4 DEF Ascends
<1>5. CASE i = j
    BY <1>1, <1>5
<1> QED
    BY <1>2, <1>3, <1>4, <1>5

\* What is in memory of a ready adapter is a repeat of its newest accepted envelope, and of
\* no other the window knows.
LEMMA ReadyIsNewest ==
    ASSUME IntakeInv, NEW a \in Adapter, AdapterReady(a)
    PROVE  /\ evidence[a].envelope \in ToSet(evidence[a].recent)
           /\ resident[a].id = evidence[a].envelope.id
           /\ resident[a].payload = evidence[a].envelope.payload
           /\ \A r \in Known(a, resident[a]) : r = evidence[a].envelope
           /\ Age(evidence[a].envelope.observed) <= MaxAge[a]
           /\ \A q \in ToSet(evidence[a].recent) : q.sequence <= evidence[a].envelope.sequence
           /\ acked[a] <= evidence[a].envelope.sequence
<1>1. SentRight(sent[a]) /\ EvidenceRight(evidence[a], sent[a]) /\ evidence[a] # NoEvidence
    BY DEF IntakeInv, AdapterReady, Fresh
<1>2. /\ evidence[a].recent \in Seq(ToSet(sent[a])) /\ Ascends(evidence[a].recent)
      /\ Len(evidence[a].recent) \in 1..MaxRecent
      /\ evidence[a].recent[Len(evidence[a].recent)] = evidence[a].envelope
    BY <1>1 DEF EvidenceRight, EvidenceOf
<1>3. evidence[a].envelope \in ToSet(evidence[a].recent)
    <2>1. Len(evidence[a].recent) \in 1..Len(evidence[a].recent)
        BY <1>2, IntakeAssumption
    <2> QED
        BY <1>2, <2>1 DEF ToSet
<1>4. /\ resident[a].id = evidence[a].envelope.id
      /\ resident[a].payload = evidence[a].envelope.payload
      /\ Age(evidence[a].envelope.observed) <= MaxAge[a]
    BY DEF AdapterReady, Fresh
<1>5. \A r \in Known(a, resident[a]) : r = evidence[a].envelope
    BY <1>2, <1>3, <1>4, IdOnce DEF Known
<1>6. acked[a] <= evidence[a].envelope.sequence
    <2>1. acked[a] <= file[a].envelope.sequence
          /\ file[a].envelope.sequence <= evidence[a].envelope.sequence
        BY DEF IntakeInv
    <2>2. /\ acked[a] \in Nat /\ file[a].envelope.sequence \in Nat
          /\ evidence[a].envelope.sequence \in Nat
        BY EvidenceEnvelope, IntakeAssumption DEF IntakeInv
    <2> QED
        BY <2>1, <2>2
<1> QED
    BY <1>1, <1>3, <1>4, <1>5, <1>6, EvidenceEnvelope

LEMMA CutIsOne == ASSUME IntakeInv PROVE ReleasesOneCut
<1> DEFINE Brought(a) == {r \in Known(a, resident[a]) : r.payload = resident[a].payload}
           T == {resident[a].observed : a \in Adapter \ {Ais}}
<1>0. Ais \in Adapter /\ \A a \in Adapter : a # Ais => a \in Adapter \ {Ais}
    BY IntakeAssumption
<1> SUFFICES ASSUME ShadowReady
             PROVE  /\ \A a \in Adapter : \E r \in Brought(a) :
                        /\ \A q \in ToSet(evidence[a].recent) : q.sequence <= r.sequence
                        /\ acked[a] <= r.sequence
                        /\ Age(r.observed) <= MaxAge[a]
                    /\ \A a, b \in Dynamic : \A r \in Brought(a), q \in Brought(b) :
                        r.observed <= q.observed + Alignment
                    /\ Max(T) <= now + Skew
    BY <1>0, IntakeAssumption DEF ReleasesOneCut, ShadowSnapshot
<1>1. \A a \in Adapter : AdapterReady(a)
    BY DEF ShadowReady
<1>2. ASSUME NEW a \in Adapter
      PROVE  \E r \in Brought(a) :
                /\ \A q \in ToSet(evidence[a].recent) : q.sequence <= r.sequence
                /\ acked[a] <= r.sequence
                /\ Age(r.observed) <= MaxAge[a]
    <2>1. evidence[a].envelope \in Brought(a)
        BY <1>1, ReadyIsNewest DEF Known
    <2> QED
        BY <1>1, <2>1, ReadyIsNewest
<1>3. ASSUME NEW a \in Dynamic, NEW b \in Dynamic, NEW r \in Brought(a), NEW q \in Brought(b)
      PROVE  r.observed <= q.observed + Alignment
    <2>1. a \in Adapter /\ b \in Adapter
        BY IntakeAssumption
    <2>2. r = evidence[a].envelope /\ q = evidence[b].envelope
        BY <1>1, <2>1, ReadyIsNewest
    <2> QED
        BY <2>2 DEF ShadowReady
<1>4. Max(T) <= now + Skew
    <2>1. PICK b \in Dynamic \ {Ais} : b \in Adapter \ {Ais}
        BY IntakeAssumption
    <2>2. \A a \in Adapter : resident[a].observed \in Nat /\ resident[a].observed <= now + Skew
        BY DEF IntakeInv, Envelope, NoEnvelope
    <2>3. now + Skew \in Nat
        <3>1. now \in 0..MaxTime /\ MaxTime \in Nat /\ Skew \in Nat
            BY IntakeAssumption DEF IntakeInv
        <3> QED
            BY <3>1
    <2>4. T \in SUBSET Nat /\ T # {} /\ \A x \in T : x <= now + Skew
        BY <2>1, <2>2
    <2> HIDE DEF T
    <2>5. Max(T) \in T
        BY <2>3, <2>4, MaxIs
    <2> QED
        BY <2>4, <2>5
<1> QED
    BY <1>2, <1>3, <1>4

LEMMA IntakeIsSafe == ASSUME IntakeInv PROVE IntakeTypeOK /\ ReleasesOneCut /\ AckedIsRemembered
<1>1. ASSUME NEW a \in Adapter
      PROVE  /\ {evidence[a].envelope, file[a].envelope, resident[a]} \subseteq
                    ToSet(sent[a]) \cup {NoEnvelope}
             /\ Len(evidence[a].recent) <= MaxRecent
             /\ \A i, j \in 1..Len(evidence[a].recent) :
                    i < j => /\ evidence[a].recent[i].sequence < evidence[a].recent[j].sequence
                             /\ evidence[a].recent[i].id # evidence[a].recent[j].id
             /\ evidence[a] # NoEvidence => Last(evidence[a].recent) = evidence[a].envelope
             /\ acked[a] <= file[a].envelope.sequence
             /\ acked[a] <= evidence[a].envelope.sequence
    <2>1. /\ SentRight(sent[a]) /\ EvidenceRight(evidence[a], sent[a])
          /\ EvidenceRight(file[a], sent[a]) /\ resident[a] \in ToSet(sent[a]) \cup {NoEnvelope}
        BY DEF IntakeInv
    <2>2. /\ evidence[a].envelope \in ToSet(sent[a]) \cup {NoEnvelope}
          /\ file[a].envelope \in ToSet(sent[a]) \cup {NoEnvelope}
        BY <2>1, EvidenceEnvelope
    <2>3. /\ Len(evidence[a].recent) \in 0..MaxRecent /\ Ascends(evidence[a].recent)
          /\ evidence[a] # NoEvidence => Last(evidence[a].recent) = evidence[a].envelope
        BY <2>1, EvidenceEnvelope
    <2>4. Len(evidence[a].recent) <= MaxRecent
        BY <2>3, IntakeAssumption
    <2>5. file[a].envelope.sequence \in Nat /\ evidence[a].envelope.sequence \in Nat
        BY <2>1, EvidenceEnvelope
    <2>6. acked[a] \in Nat /\ acked[a] <= file[a].envelope.sequence
          /\ file[a].envelope.sequence <= evidence[a].envelope.sequence
        BY IntakeAssumption DEF IntakeInv
    <2> QED
        BY <2>1, <2>2, <2>3, <2>4, <2>5, <2>6 DEF Ascends
<1> QED
    BY <1>1, CutIsOne DEF IntakeInv, IntakeTypeOK, AckedIsRemembered

\* What a step can do to a ready feed.
LEMMA ReadyFeedStep ==
    ASSUME IntakeInv, IntakeNext, NEW a \in Adapter, AdapterReady(a), ~AdapterReady(a)'
    PROVE  \/ now' > now
           \/ resident'[a] = NoEnvelope
           \/ \E r \in Known(a, resident'[a]) : /\ r.payload = resident'[a].payload
                                                /\ r.sequence < evidence[a].envelope.sequence
<1>1. CASE RestartIntake
    BY <1>1 DEF RestartIntake
<1>2. CASE TickIntake
    BY <1>2 DEF TickIntake, IntakeInv
<1>3. ASSUME NEW b \in Adapter, NEW id, NEW payload, NEW observed, Emit(b, id, payload, observed)
      PROVE  FALSE
    BY <1>3 DEF Emit, AdapterReady, Fresh, Age
<1>4. ASSUME NEW b \in Adapter, NEW e \in ToSet(sent[b]), Replay(b, e)
      PROVE  \E r \in Known(a, resident'[a]) : /\ r.payload = resident'[a].payload
                                                /\ r.sequence < evidence[a].envelope.sequence
    <2>1. evidence' = evidence /\ now' = now /\ resident' = [resident EXCEPT ![b] = e]
        BY <1>4 DEF Replay
    <2>2. CASE b # a
        <3>1. resident'[a] = resident[a]
            BY <2>1, <2>2 DEF IntakeInv
        <3> QED
            BY <2>1, <3>1 DEF AdapterReady, Fresh, Age
    <2>3. CASE b = a
        <3>1. resident'[a] = e
            BY <2>1, <2>3 DEF IntakeInv
        <3>2. PICK r \in Known(a, e) : r.payload = e.payload
            BY <1>4, <2>3 DEF Replay
        <3>3. r \in ToSet(evidence[a].recent) /\ r.id = e.id
            BY <3>2 DEF Known
        <3>4. e.id # evidence[a].envelope.id \/ e.payload # evidence[a].envelope.payload
            BY <2>1, <3>1 DEF AdapterReady, Fresh, Age
        <3>5. r # evidence[a].envelope
            BY <3>2, <3>3, <3>4
        <3>6. SentRight(sent[a]) /\ EvidenceRight(evidence[a], sent[a]) /\ evidence[a] # NoEvidence
            BY DEF IntakeInv, AdapterReady, Fresh
        <3>7. /\ r \in ToSet(sent[a]) /\ r.sequence <= evidence[a].envelope.sequence
              /\ evidence[a].envelope \in ToSet(sent[a])
            BY <3>3, <3>6, EvidenceEnvelope
        <3>8. r.sequence # evidence[a].envelope.sequence
            BY <3>5, <3>6, <3>7, SentBySequence
        <3>9. r.sequence \in 1..Len(sent[a]) /\ evidence[a].envelope.sequence \in 1..Len(sent[a])
              /\ Len(sent[a]) \in Nat
            BY <3>6, <3>7, SentBySequence DEF SentRight
        <3>10. r.sequence < evidence[a].envelope.sequence
            BY <3>7, <3>8, <3>9
        <3> QED
            BY <3>1, <3>2, <3>10
    <2> QED
        BY <2>2, <2>3
<1>5. ASSUME NEW b \in Adapter, NEW e \in ToSet(sent[b]), NEW saved \in BOOLEAN, Accept(b, e, saved)
      PROVE  FALSE
    <2>1. PICK ev : ev = [envelope |-> e, recent |-> Newest(Append(evidence[b].recent, e))]
        OBVIOUS
    <2>2. /\ evidence' = [evidence EXCEPT ![b] = ev] /\ resident' = [resident EXCEPT ![b] = e]
          /\ now' = now /\ Age(e.observed) <= MaxAge[b] /\ ev.envelope = e
        BY <1>5, <2>1 DEF Accept, Timely
    <2>3. CASE b # a
        <3>1. resident'[a] = resident[a] /\ evidence'[a] = evidence[a]
            BY <2>2, <2>3 DEF IntakeInv
        <3> QED
            BY <2>2, <3>1 DEF AdapterReady, Fresh, Age
    <2>4. CASE b = a
        <3>1. resident'[a] = e /\ evidence'[a] = ev
            BY <2>2, <2>4 DEF IntakeInv
        <3>2. e # NoEnvelope
            BY <1>5, SentBySequence DEF IntakeInv
        <3>3. ev # NoEvidence
            BY <2>2, <3>2 DEF NoEvidence
        <3> QED
            BY <2>2, <2>4, <3>1, <3>3 DEF AdapterReady, Fresh, Age
    <2> QED
        BY <2>3, <2>4
<1> QED
    BY <1>1, <1>2, <1>3, <1>4, <1>5 DEF IntakeNext

\* The payloads that shadow mode releases are one cut of what was accepted, what was acknowledged
\* is remembered, and a ready feed is made unready only by time, a restart or a repeat of an older
\* snapshot (operatorIntegrationGateway.ts), for every number of adapters and every window, with
\* ids that are sent again with another payload, another sequence and another time.
THEOREM IntakeIsTrustworthy == IntakeSpec => ShadowIsTrustworthy
<1>1. IntakeInv => IntakeTypeOK /\ ReleasesOneCut /\ AckedIsRemembered
    BY IntakeIsSafe
<1>2. IntakeInv /\ [IntakeNext]_intakeVars =>
        [\A a \in Adapter : AdapterReady(a) /\ ~AdapterReady(a)' =>
            \/ now' > now
            \/ resident'[a] = NoEnvelope
            \/ \E r \in Known(a, resident'[a]) : /\ r.payload = resident'[a].payload
                                                 /\ r.sequence < evidence[a].envelope.sequence
        ]_intakeVars
    BY ReadyFeedStep
<1> QED
    BY <1>1, <1>2, IntakeInvariance, PTL DEF IntakeSpec, ShadowIsTrustworthy, FeedStaysReady

----------------------------------------------------------------------------
(* The regulatory supplement.  Each step keeps the vessels, and so do as    *)
(* many as are due; the sequences due are at most CatchUp, none twice.      *)

HeldRecord == [maritime: Nat, customs: Nat, released: Nat]
CountRecord == [inspected: Nat, processed: Nat]
Backlog == [held : HeldRecord, counted : CountRecord]
Balanced(w) ==
    w.held.maritime + w.held.customs + w.held.released + w.counted.processed = w.counted.inspected

RegulatoryInv == RegulatoryTypeOK /\ VesselsAreConserved /\ changes \in Nat

\* What is let go is a part of what is held.
LEMMA LetGoIs ==
    ASSUME NEW n \in Nat
    PROVE  n \div ReleaseOneIn \in Nat /\ n - n \div ReleaseOneIn \in Nat
<1>1. ReleaseOneIn \in Nat \ {0}
    BY RegulatoryAssumption
<1>2. PICK q \in Int : q = n \div ReleaseOneIn
    BY <1>1
<1>3. q \in Nat
    BY <1>1, <1>2
<1>4. q <= n
    BY <1>1, <1>2
<1> QED
    BY <1>2, <1>3, <1>4

\* A step keeps every vessel.
LEMMA StepKeeps ==
    ASSUME NEW w \in Backlog, Balanced(w), NEW of \in Scenario
    PROVE  StepOnce(w, of) \in Backlog /\ Balanced(StepOnce(w, of))
<1>1. /\ Inspected[of].maritime \in Nat /\ Inspected[of].customs \in Nat /\ Processing \in Nat
    BY RegulatoryAssumption
<1>2. PICK h \in HeldRecord : h = w.held
    BY DEF Backlog
<1>3. PICK k \in CountRecord : k = w.counted
    BY DEF Backlog
<1>4. /\ h.maritime \in Nat /\ h.customs \in Nat /\ h.released \in Nat
      /\ k.inspected \in Nat /\ k.processed \in Nat
    BY DEF HeldRecord, CountRecord
<1>5. PICK m \in Nat : m = h.maritime + Inspected[of].maritime
    BY <1>1, <1>4
<1>6. PICK c \in Nat : c = h.customs + Inspected[of].customs
    BY <1>1, <1>4
<1>7. PICK freed \in Nat : freed = m \div ReleaseOneIn /\ m - freed \in Nat
    BY LetGoIs
<1>8. PICK passed \in Nat : passed = c \div ReleaseOneIn /\ c - passed \in Nat
    BY LetGoIs
<1>9. PICK released \in Nat : released = h.released + (freed + passed)
    BY <1>4
<1>10. PICK processed \in Nat :
        /\ processed = Processable(released, m + c - (freed + passed))
        /\ processed <= released
    BY <1>1 DEF Processable
<1>11. PICK after : after = [maritime |-> m - freed, customs |-> c - passed,
                             released |-> released - processed]
    OBVIOUS
<1>12. PICK count : count = [inspected |-> k.inspected + Inspected[of].maritime + Inspected[of].customs,
                             processed |-> k.processed + processed]
    OBVIOUS
<1>13. StepOnce(w, of) = [held |-> after, counted |-> count]
    <2>1. /\ m = w.held.maritime + Inspected[of].maritime
          /\ c = w.held.customs + Inspected[of].customs
          /\ released = w.held.released + (freed + passed)
        BY <1>2, <1>5, <1>6, <1>9
    <2>2. after = [maritime |-> m - freed, customs |-> c - passed,
                   released |-> IF processed <= released THEN released - processed ELSE 0]
        BY <1>10, <1>11
    <2>3. count = [inspected |-> w.counted.inspected + Inspected[of].maritime + Inspected[of].customs,
                   processed |-> w.counted.processed + processed]
        BY <1>3, <1>12
    <2> QED
        BY <1>7, <1>8, <1>10, <2>1, <2>2, <2>3 DEF StepOnce
<1>14. after \in HeldRecord
    BY <1>7, <1>8, <1>10, <1>11 DEF HeldRecord
<1>15. count \in CountRecord
    BY <1>1, <1>4, <1>12 DEF CountRecord
<1>16. StepOnce(w, of) \in Backlog
    BY <1>13, <1>14, <1>15 DEF Backlog
<1>17. h.maritime + h.customs + h.released + k.processed = k.inspected
    BY <1>2, <1>3 DEF Balanced
<1>18. after.maritime + after.customs + after.released + count.processed = count.inspected
    BY <1>1, <1>4, <1>5, <1>6, <1>7, <1>8, <1>9, <1>10, <1>11, <1>12, <1>17
<1> QED
    BY <1>13, <1>16, <1>18 DEF Balanced

\* f is w after each number of steps up to N.  There is such a function for every N.
Iterates(f, N, w, of) == f = [n \in 0 .. N |-> IF n = 0 THEN w ELSE StepOnce(f[n - 1], of)]

LEMMA StepsExist ==
    ASSUME NEW w, NEW of, NEW N \in Nat
    PROVE  \E f : Iterates(f, N, w, of)
<1> DEFINE without == {M \in Nat : ~ \E f : Iterates(f, M, w, of)}
<1>1. ASSUME without # {} PROVE FALSE
    <2> HIDE DEF without
    <2>1. without \in SUBSET Nat
        BY DEF without
    <2>2. PICK M \in without : \A K \in without : M <= K
        BY <1>1, <2>1, Least
    <2>3. M \in Nat /\ ~ \E f : Iterates(f, M, w, of)
        BY <2>2 DEF without
    <2>4. M # 0
        <3>1. Iterates([n \in 0 .. 0 |-> w], 0, w, of)
            BY DEF Iterates
        <3> QED
            BY <2>3, <3>1
    <2>5. PICK g : Iterates(g, M - 1, w, of)
        <3>1. M - 1 \in Nat /\ M - 1 \notin without
            BY <2>2, <2>3, <2>4
        <3> QED
            BY <3>1 DEF without
    <2>6. PICK f : f = [n \in 0 .. M |-> IF n = 0 THEN w ELSE StepOnce(g[n - 1], of)]
        OBVIOUS
    <2>7. \A n \in 0 .. M - 1 : f[n] = g[n]
        BY <2>3, <2>5, <2>6 DEF Iterates
    <2>8. \A n \in 0 .. M : f[n] = IF n = 0 THEN w ELSE StepOnce(f[n - 1], of)
        <3> SUFFICES ASSUME NEW n \in 0 .. M, n # 0 PROVE f[n] = StepOnce(f[n - 1], of)
            BY <2>3, <2>6
        <3>1. n - 1 \in 0 .. M - 1
            BY <2>3
        <3> QED
            BY <2>6, <2>7, <3>1
    <2>9. Iterates(f, M, w, of)
        BY <2>6, <2>8 DEF Iterates
    <2> QED
        BY <2>3, <2>9
<1> QED
    BY <1>1

\* However many steps there are, they keep every vessel.
LEMMA StepsKeep ==
    ASSUME NEW w \in Backlog, Balanced(w), NEW of \in Scenario, NEW k \in 0 .. CatchUp
    PROVE  StepsFrom(w, of)[k] \in Backlog /\ Balanced(StepsFrom(w, of)[k])
<1>1. CatchUp \in Nat
    BY RegulatoryAssumption
<1>2. PICK f : f = StepsFrom(w, of)
    OBVIOUS
<1>3. f = [n \in 0 .. CatchUp |-> IF n = 0 THEN w ELSE StepOnce(f[n - 1], of)]
    <2>1. \E g : Iterates(g, CatchUp, w, of)
        BY <1>1, StepsExist
    <2>2. f = CHOOSE g : Iterates(g, CatchUp, w, of)
        BY <1>2, Zenon DEF StepsFrom, Iterates
    <2>3. Iterates(f, CatchUp, w, of)
        BY <2>1, <2>2, Zenon
    <2> QED
        BY <2>3 DEF Iterates
<1>4. f[0] = w
    BY <1>1, <1>3
<1>5. \A n \in 1 .. CatchUp : f[n] = StepOnce(f[n - 1], of)
    BY <1>1, <1>3
<1> DEFINE bad == {n \in 0 .. CatchUp : ~ (f[n] \in Backlog /\ Balanced(f[n]))}
<1>6. ASSUME bad # {} PROVE FALSE
    <2>1. bad \in SUBSET Nat
        BY <1>1
    <2> HIDE DEF bad
    <2>2. PICK n \in bad : \A m \in bad : n <= m
        BY <1>6, <2>1, Least
    <2>3. n \in 0 .. CatchUp /\ ~ (f[n] \in Backlog /\ Balanced(f[n]))
        BY <2>2 DEF bad
    <2>4. n # 0
        BY <1>4, <2>3
    <2>5. n - 1 \in 0 .. CatchUp /\ n - 1 \notin bad
        BY <1>1, <2>1, <2>2, <2>3, <2>4
    <2>6. f[n - 1] \in Backlog /\ Balanced(f[n - 1])
        BY <2>5 DEF bad
    <2>7. f[n] = StepOnce(f[n - 1], of)
        BY <1>1, <1>5, <2>3, <2>4
    <2> QED
        BY <2>3, <2>6, <2>7, StepKeeps
<1> QED
    BY <1>2, <1>6

\* What is due was not stepped before, unless forced, and is not more than CatchUp.
LEMMA DueIs ==
    ASSUME RegulatoryTypeOK, NEW forced \in BOOLEAN
    PROVE  /\ Due(forced) \subseteq 0 .. sequence
           /\ Cardinality(Due(forced)) \in 0 .. CatchUp
<1>1. /\ CatchUp \in Nat \ {0} /\ MaxSequence \in Nat /\ sequence \in Nat /\ last \in Int
    BY RegulatoryAssumption DEF RegulatoryTypeOK
<1>2. CASE forced \/ last < 0
    <2>1. Due(forced) = {sequence}
        BY <1>2 DEF Due
    <2> QED
        BY <1>1, <2>1, FS_Singleton
<1>3. CASE ~ (forced \/ last < 0)
    <2>1. Due(forced) \subseteq 0 .. sequence
        BY <1>3 DEF Due
    <2>2. PICK first \in Int : first = sequence - CatchUp + 1
        BY <1>1
    <2>3. Due(forced) \in SUBSET (first .. sequence)
        BY <1>1, <1>3, <2>2 DEF Due
    <2>4. IsFiniteSet(first .. sequence) /\ Cardinality(first .. sequence) = CatchUp
        <3>1. /\ IsFiniteSet(first .. sequence)
              /\ Cardinality(first .. sequence) = IF first > sequence THEN 0 ELSE sequence - first + 1
            BY <1>1, FS_Interval
        <3> QED
            BY <1>1, <2>2, <3>1
    <2>5. IsFiniteSet(Due(forced)) /\ Cardinality(Due(forced)) <= Cardinality(first .. sequence)
        BY <2>3, <2>4, FS_Subset
    <2>6. Cardinality(Due(forced)) \in Nat
        BY <2>5, FS_CardinalityType
    <2> QED
        BY <1>1, <2>1, <2>4, <2>5, <2>6
<1> QED
    BY <1>2, <1>3

LEMMA ObserveKeeps ==
    ASSUME RegulatoryInv, NEW of \in Scenario, NEW forced \in BOOLEAN, Observe(of, forced),
           sequence' = sequence
    PROVE  /\ held' \in HeldRecord /\ counted' \in CountRecord /\ VesselsAreConserved'
           /\ steps' \in [0 .. MaxSequence -> Nat] /\ last' \in -1 .. MaxSequence
           /\ \A s \in 0 .. MaxSequence : s > sequence' => steps'[s] = 0
<1> USE DEF RegulatoryInv
<1>1. PICK w : w = [held |-> held, counted |-> counted]
    OBVIOUS
<1>2. w \in Backlog /\ Balanced(w)
    BY <1>1 DEF RegulatoryTypeOK, VesselsAreConserved, Backlog, HeldRecord, CountRecord, Balanced
<1>3. PICK k \in 0 .. CatchUp : k = Cardinality(Due(forced))
    BY DueIs
<1>4. PICK stepped : stepped = StepsFrom(w, of)[k]
    OBVIOUS
<1>5. stepped \in Backlog /\ Balanced(stepped)
    BY <1>2, <1>4, StepsKeep
<1>6. held' = stepped.held /\ counted' = stepped.counted
    BY <1>1, <1>3, <1>4 DEF Observe
<1>7. held' \in HeldRecord /\ counted' \in CountRecord /\ VesselsAreConserved'
    BY <1>5, <1>6 DEF Backlog, Balanced, VesselsAreConserved
<1>8. steps \in [0 .. MaxSequence -> Nat] /\ sequence \in 0 .. MaxSequence
    BY DEF RegulatoryTypeOK
<1>9. steps' = [s \in 0 .. MaxSequence |-> steps[s] + IF s \in Due(forced) THEN 1 ELSE 0]
    BY <1>8 DEF Observe
<1>10. steps' \in [0 .. MaxSequence -> Nat]
    BY <1>8, <1>9
<1>11. \A s \in 0 .. MaxSequence : s > sequence' => steps'[s] = 0
    <2> SUFFICES ASSUME NEW s \in 0 .. MaxSequence, s > sequence PROVE steps'[s] = 0
        OBVIOUS
    <2>1. s \notin Due(forced)
        BY <1>8, DueIs
    <2>2. steps[s] = 0
        BY DEF RegulatoryTypeOK
    <2> QED
        BY <1>9, <2>1, <2>2
<1>12. last' \in -1 .. MaxSequence
    BY <1>8, RegulatoryAssumption DEF Observe
<1> QED
    BY <1>7, <1>10, <1>11, <1>12

LEMMA RegulatoryStep == RegulatoryInv /\ RegulatoryNext => RegulatoryInv'
<1> SUFFICES ASSUME RegulatoryInv, RegulatoryNext PROVE RegulatoryInv'
    OBVIOUS
<1>1. CASE Snapshot
    <2>1. /\ Observe(scenario, FALSE) /\ UNCHANGED <<sequence, scenario, changes>>
          /\ scenario \in Scenario
        BY <1>1 DEF Snapshot, RegulatoryInv, RegulatoryTypeOK
    <2>2. /\ held' \in HeldRecord /\ counted' \in CountRecord /\ VesselsAreConserved'
          /\ steps' \in [0 .. MaxSequence -> Nat] /\ last' \in -1 .. MaxSequence
          /\ \A s \in 0 .. MaxSequence : s > sequence' => steps'[s] = 0
        BY <2>1, ObserveKeeps
    <2> QED
        BY <2>1, <2>2 DEF RegulatoryInv, RegulatoryTypeOK, HeldRecord, CountRecord
<1>2. ASSUME NEW new \in Scenario, SetScenario(new) PROVE RegulatoryInv'
    <2>1. /\ Observe(new, TRUE) /\ sequence' = sequence /\ changes' = changes + 1
          /\ scenario' = new
        BY <1>2 DEF SetScenario
    <2>2. /\ held' \in HeldRecord /\ counted' \in CountRecord /\ VesselsAreConserved'
          /\ steps' \in [0 .. MaxSequence -> Nat] /\ last' \in -1 .. MaxSequence
          /\ \A s \in 0 .. MaxSequence : s > sequence' => steps'[s] = 0
        BY <2>1, ObserveKeeps
    <2> QED
        BY <2>1, <2>2 DEF RegulatoryInv, RegulatoryTypeOK, HeldRecord, CountRecord
<1>3. ASSUME NEW to \in 0 .. MaxSequence, SimulatorMoves(to) PROVE RegulatoryInv'
    BY <1>3 DEF SimulatorMoves, RegulatoryInv, RegulatoryTypeOK, VesselsAreConserved
<1> QED
    BY <1>1, <1>2, <1>3 DEF RegulatoryNext

\* The inductive invariant of the regulatory supplement.
THEOREM RegulatoryInvariance == RegulatorySpec => []RegulatoryInv
<1>1. RegulatoryInit => RegulatoryInv
    BY RegulatoryAssumption
       DEF RegulatoryInit, RegulatoryInv, RegulatoryTypeOK, VesselsAreConserved
<1>2. RegulatoryInv /\ [RegulatoryNext]_regulatoryVars => RegulatoryInv'
    <2>1. CASE UNCHANGED regulatoryVars
        BY <2>1 DEF regulatoryVars, RegulatoryInv, RegulatoryTypeOK, VesselsAreConserved
    <2> QED
        BY <2>1, RegulatoryStep
<1> QED
    BY <1>1, <1>2, PTL DEF RegulatorySpec

\* A step of a sequence is made up once, when the first snapshot after it is taken.
LEMMA StepsAreMadeUpOnce ==
    ASSUME RegulatoryInv, RegulatoryNext, changes' = changes, NEW s \in 0 .. MaxSequence
    PROVE  steps'[s] - steps[s] =
             IF last' > last /\ s \in (IF last < 0 THEN {last'} ELSE last + 1..last') /\ s > last' - CatchUp
             THEN 1 ELSE 0
<1>1. /\ CatchUp \in Nat \ {0} /\ MaxSequence \in Nat /\ sequence \in 0 .. MaxSequence
      /\ last \in -1 .. MaxSequence /\ steps \in [0 .. MaxSequence -> Nat] /\ changes \in Nat
    BY RegulatoryAssumption DEF RegulatoryInv, RegulatoryTypeOK
<1>2. steps[s] \in Nat
    BY <1>1
<1>3. CASE Snapshot
    <2>1. /\ last' = sequence
          /\ steps'[s] = steps[s] + IF s \in Due(FALSE) THEN 1 ELSE 0
        BY <1>1, <1>3 DEF Snapshot, Observe
    <2>2. s \in Due(FALSE) <=>
            last' > last /\ s \in (IF last < 0 THEN {last'} ELSE last + 1..last') /\ s > last' - CatchUp
        <3>1. CASE last < 0
            BY <1>1, <2>1, <3>1 DEF Due
        <3>2. CASE ~ (last < 0)
            BY <1>1, <2>1, <3>2 DEF Due
        <3> QED
            BY <3>1, <3>2
    <2>3. CASE s \in Due(FALSE)
        <3>1. steps'[s] - steps[s] = 1
            BY <1>2, <2>1, <2>3
        <3> QED
            BY <2>2, <2>3, <3>1
    <2>4. CASE s \notin Due(FALSE)
        <3>1. steps'[s] - steps[s] = 0
            BY <1>2, <2>1, <2>4
        <3> QED
            BY <2>2, <2>4, <3>1
    <2> QED
        BY <2>3, <2>4
<1>4. ASSUME NEW new \in Scenario, SetScenario(new) PROVE FALSE
    BY <1>1, <1>4 DEF SetScenario
<1>5. CASE \E to \in 0 .. MaxSequence : SimulatorMoves(to)
    <2>1. steps' = steps /\ last' = last
        BY <1>5 DEF SimulatorMoves
    <2> QED
        BY <1>1, <1>2, <2>1
<1> QED
    BY <1>3, <1>4, <1>5 DEF RegulatoryNext

\* However often anyone looks and whatever the scenario: no vessel is made or lost between
\* inspection and recovery, and every step since the last snapshot is made up once, as far
\* back as CatchUp (RegulatoryResilienceRuntime.snapshot).
THEOREM BacklogStaysExact == RegulatorySpec => BacklogIsExact
<1>1. RegulatoryInv => RegulatoryTypeOK /\ VesselsAreConserved
    BY DEF RegulatoryInv
<1>2. RegulatoryInv /\ [RegulatoryNext]_regulatoryVars =>
        [changes' = changes => \A s \in 0..MaxSequence :
            steps'[s] - steps[s] =
                IF last' > last /\ s \in (IF last < 0 THEN {last'} ELSE last + 1..last') /\ s > last' - CatchUp
                THEN 1 ELSE 0]_regulatoryVars
    BY StepsAreMadeUpOnce
<1> QED
    BY <1>1, <1>2, RegulatoryInvariance, PTL
       DEF RegulatorySpec, BacklogIsExact, PollingStepsOnce

----------------------------------------------------------------------------
(* The port twin.  A step goes over the calls twice, in their order, and   *)
(* what it keeps is kept call by call.                                     *)

LEMMA TwinSorts ==
    /\ Len(CallOrder) \in Nat /\ \A n \in 1 .. Len(CallOrder) : CallOrder[n] \in Vessel
    /\ \A v \in Vessel : \E n \in 1 .. Len(CallOrder) : CallOrder[n] = v
    /\ DOMAIN BerthOrder \in SUBSET Nat /\ \A n \in DOMAIN BerthOrder : BerthOrder[n] \in Berth
<1>1. Len(CallOrder) \in Nat /\ DOMAIN CallOrder = 1 .. Len(CallOrder)
    BY TwinAssumption DEF TwinAssumption
<1>2. Len(BerthOrder) \in Nat /\ DOMAIN BerthOrder = 1 .. Len(BerthOrder)
    BY TwinAssumption DEF TwinAssumption
<1>3. \A n \in 1 .. Len(CallOrder) : CallOrder[n] \in Vessel
    BY <1>1 DEF Vessel
<1>4. \A v \in Vessel : \E n \in 1 .. Len(CallOrder) : CallOrder[n] = v
    BY <1>1 DEF Vessel
<1>5. DOMAIN BerthOrder \in SUBSET Nat
    BY <1>2
<1>6. \A n \in DOMAIN BerthOrder : BerthOrder[n] \in Berth
    BY DEF Berth
<1> QED
    BY <1>1, <1>3, <1>4, <1>5, <1>6

\* What holds at first and is kept by every round of a loop holds after all of them.
LEMMA RoundByRound ==
    ASSUME NEW N \in Nat, NEW good, 0 \in good, \A n \in 1 .. N : n - 1 \in good => n \in good
    PROVE  \A n \in 0 .. N : n \in good
<1> DEFINE bad == {n \in 0 .. N : n \notin good}
<1>1. ASSUME bad # {} PROVE FALSE
    <2>1. bad \in SUBSET Nat
        OBVIOUS
    <2> HIDE DEF bad
    <2>2. PICK n \in bad : \A m \in bad : n <= m
        BY <1>1, <2>1, Least
    <2>3. n \in 0 .. N /\ n \notin good
        BY <2>2 DEF bad
    <2>4. n # 0
        BY <2>3
    <2>5. n \in 1 .. N /\ n - 1 \in 0 .. N /\ n - 1 \notin bad
        BY <2>1, <2>2, <2>3, <2>4
    <2>6. n - 1 \in good
        BY <2>5 DEF bad
    <2> QED
        BY <2>3, <2>5, <2>6
<1> QED
    BY <1>1

\* The values of a loop of N rounds that starts with w and in round n makes next[n] of them.
Rounds(f, N, S, w, next) ==
    /\ f \in [0 .. N -> S]
    /\ f[0] = w
    /\ \A n \in 1 .. N : f[n] = next[n][f[n - 1]]

\* There is such a function for every number of rounds.
LEMMA RoundsExist ==
    ASSUME NEW N \in Nat, NEW S, NEW w \in S, NEW next \in [1 .. N -> [S -> S]]
    PROVE  \E f : Rounds(f, N, S, w, next)
<1> DEFINE good == {M \in 0 .. N : \E f : Rounds(f, M, S, w, next)}
<1>1. 0 \in good
    <2>1. Rounds([n \in 0 .. 0 |-> w], 0, S, w, next)
        BY DEF Rounds
    <2> QED
        BY <2>1
<1>2. ASSUME NEW M \in 1 .. N, M - 1 \in good PROVE M \in good
    <2>1. PICK g : Rounds(g, M - 1, S, w, next)
        BY <1>2
    <2>2. M \in Nat /\ M - 1 \in 0 .. M - 1 /\ g[M - 1] \in S
        BY <2>1 DEF Rounds
    <2>3. PICK x \in S : x = next[M][g[M - 1]]
        BY <2>2
    <2>4. PICK f : f = [n \in 0 .. M |-> IF n = M THEN x ELSE g[n]]
        OBVIOUS
    <2>5. f \in [0 .. M -> S]
        <3>1. \A n \in 0 .. M : n # M => n \in 0 .. M - 1
            BY <2>2
        <3>2. \A n \in 0 .. M - 1 : g[n] \in S
            BY <2>1 DEF Rounds
        <3> QED
            BY <2>3, <2>4, <3>1, <3>2
    <2>6. f[M] = x /\ \A n \in 0 .. M - 1 : f[n] = g[n]
        BY <2>2, <2>4
    <2>7. f[0] = w
        BY <2>1, <2>2, <2>6 DEF Rounds
    <2>8. ASSUME NEW n \in 1 .. M PROVE f[n] = next[n][f[n - 1]]
        <3>1. n - 1 \in 0 .. M - 1
            BY <2>2
        <3>2. CASE n = M
            BY <2>3, <2>6, <3>1, <3>2
        <3>3. CASE n # M
            <4>1. n \in 1 .. M - 1 /\ n \in 0 .. M - 1
                BY <2>2, <3>3
            <4>2. g[n] = next[n][g[n - 1]]
                BY <2>1, <4>1 DEF Rounds
            <4> QED
                BY <2>6, <3>1, <4>1, <4>2
        <3> QED
            BY <3>2, <3>3
    <2>9. Rounds(f, M, S, w, next)
        BY <2>5, <2>7, <2>8 DEF Rounds
    <2> QED
        BY <1>2, <2>9
<1> HIDE DEF good
<1>3. \A M \in 0 .. N : M \in good
    BY <1>1, <1>2, RoundByRound
<1>4. N \in good
    BY <1>3
<1> QED
    BY <1>4 DEF good

----------------------------------------------------------------------------
IsSumOver(s, f) ==
    s = [n \in 0 .. Len(CallOrder) |-> IF n = 0 THEN 0 ELSE s[n - 1] + f[CallOrder[n]]]

\* The sum over the calls adds up call by call.
LEMMA OverCallsIs ==
    ASSUME NEW f \in [Vessel -> Int]
    PROVE  \E s \in [0 .. Len(CallOrder) -> Int] :
              /\ s[0] = 0 /\ OverCalls(f) = s[Len(CallOrder)]
              /\ \A n \in 1 .. Len(CallOrder) : s[n] = s[n - 1] + f[CallOrder[n]]
<1>1. PICK N \in Nat : N = Len(CallOrder)
    BY TwinSorts
<1>2. \A n \in 1 .. N : CallOrder[n] \in Vessel
    BY <1>1, TwinSorts
<1>3. PICK next : next = [n \in 1 .. N |-> [x \in Int |-> x + f[CallOrder[n]]]]
    OBVIOUS
<1>4. next \in [1 .. N -> [Int -> Int]]
    BY <1>2, <1>3
<1>5. PICK s : Rounds(s, N, Int, 0, next)
    <2>1. 0 \in Int
        OBVIOUS
    <2> QED
        BY <1>4, <2>1, RoundsExist, Zenon
<1>6. IsSumOver(s, f)
    <2>1. s = [n \in 0 .. N |-> s[n]]
        BY <1>5 DEF Rounds
    <2>2. ASSUME NEW n \in 0 .. N PROVE s[n] = IF n = 0 THEN 0 ELSE s[n - 1] + f[CallOrder[n]]
        <3>1. CASE n = 0
            BY <1>5, <3>1 DEF Rounds
        <3>2. CASE n # 0
            <4>1. n \in 1 .. N /\ n - 1 \in 0 .. N
                BY <3>2
            <4>2. s[n - 1] \in Int
                BY <1>5, <4>1 DEF Rounds
            <4>3. s[n] = next[n][s[n - 1]]
                BY <1>5, <4>1 DEF Rounds
            <4> QED
                BY <1>3, <3>2, <4>1, <4>2, <4>3
        <3> QED
            BY <3>1, <3>2
    <2> QED
        BY <1>1, <2>1, <2>2 DEF IsSumOver
<1>7. PICK t : t = CHOOSE g : IsSumOver(g, f)
    OBVIOUS
<1>8. OverCalls(f) = t[Len(CallOrder)]
    BY <1>7, Zenon DEF OverCalls, IsSumOver
<1>9. IsSumOver(t, f)
    BY <1>6, <1>7, Zenon
<1>10. t[0] = 0 /\ \A n \in 1 .. N : t[n] = t[n - 1] + f[CallOrder[n]]
    <2>1. t = [n \in 0 .. N |-> IF n = 0 THEN 0 ELSE t[n - 1] + f[CallOrder[n]]]
        BY <1>1, <1>9 DEF IsSumOver
    <2>2. \A n \in 0 .. N : t[n] = IF n = 0 THEN 0 ELSE t[n - 1] + f[CallOrder[n]]
        BY <2>1
    <2>3. \A n \in 1 .. N : n \in 0 .. N /\ n # 0
        OBVIOUS
    <2> QED
        BY <2>2, <2>3
<1>11. \A n \in 0 .. N : t[n] \in Int
    <2> DEFINE good == {n \in 0 .. N : t[n] \in Int}
    <2>1. 0 \in good
        BY <1>10
    <2>2. \A n \in 1 .. N : n - 1 \in good => n \in good
        BY <1>2, <1>10
    <2> HIDE DEF good
    <2>3. \A n \in 0 .. N : n \in good
        BY <2>1, <2>2, RoundByRound
    <2> QED
        BY <2>3 DEF good
<1>12. t \in [0 .. N -> Int]
    <2>1. t = [n \in 0 .. N |-> t[n]]
        BY <1>1, <1>9 DEF IsSumOver
    <2> QED
        BY <1>11, <2>1
<1> QED
    BY <1>1, <1>8, <1>10, <1>12

\* The sum of a sum.
LEMMA SumsAdd ==
    ASSUME NEW f \in [Vessel -> Int], NEW g \in [Vessel -> Int], NEW h \in [Vessel -> Int],
           \A v \in Vessel : h[v] = f[v] + g[v]
    PROVE  /\ OverCalls(f) \in Int /\ OverCalls(g) \in Int
           /\ OverCalls(h) = OverCalls(f) + OverCalls(g)
<1>1. PICK N \in Nat : N = Len(CallOrder)
    BY TwinSorts
<1>2. \A n \in 1 .. N : CallOrder[n] \in Vessel
    BY <1>1, TwinSorts
<1>3. PICK s \in [0 .. N -> Int] :
         /\ s[0] = 0 /\ OverCalls(f) = s[N] /\ \A n \in 1 .. N : s[n] = s[n - 1] + f[CallOrder[n]]
    BY <1>1, OverCallsIs
<1>4. PICK t \in [0 .. N -> Int] :
         /\ t[0] = 0 /\ OverCalls(g) = t[N] /\ \A n \in 1 .. N : t[n] = t[n - 1] + g[CallOrder[n]]
    BY <1>1, OverCallsIs
<1>5. PICK u \in [0 .. N -> Int] :
         /\ u[0] = 0 /\ OverCalls(h) = u[N] /\ \A n \in 1 .. N : u[n] = u[n - 1] + h[CallOrder[n]]
    BY <1>1, OverCallsIs
<1> DEFINE good == {n \in 0 .. N : u[n] = s[n] + t[n]}
<1>6. 0 \in good
    BY <1>3, <1>4, <1>5
<1>7. ASSUME NEW n \in 1 .. N, n - 1 \in good PROVE n \in good
    <2>1. CallOrder[n] \in Vessel /\ n - 1 \in 0 .. N /\ n \in 0 .. N
        BY <1>2
    <2>2. h[CallOrder[n]] = f[CallOrder[n]] + g[CallOrder[n]]
        BY <2>1
    <2>3. u[n - 1] = s[n - 1] + t[n - 1]
        BY <1>7
    <2>4. /\ s[n] = s[n - 1] + f[CallOrder[n]] /\ t[n] = t[n - 1] + g[CallOrder[n]]
          /\ u[n] = u[n - 1] + h[CallOrder[n]]
        BY <1>3, <1>4, <1>5
    <2>5. s[n - 1] \in Int /\ t[n - 1] \in Int /\ f[CallOrder[n]] \in Int /\ g[CallOrder[n]] \in Int
        BY <2>1
    <2>6. h[CallOrder[n]] \in Int /\ u[n - 1] \in Int
        BY <2>1
    <2>7. u[n] = s[n] + t[n]
        <3>1. PICK a \in Int, b \in Int : a = f[CallOrder[n]] /\ b = g[CallOrder[n]]
            BY <2>5
        <3>2. PICK x \in Int, y \in Int : x = s[n - 1] /\ y = t[n - 1]
            BY <2>5
        <3>3. u[n] = (x + y) + (a + b) /\ s[n] = x + a /\ t[n] = y + b
            BY <2>2, <2>3, <2>4, <3>1, <3>2
        <3> QED
            BY <3>3
    <2> QED
        BY <2>1, <2>7
<1> HIDE DEF good
<1>8. \A n \in 0 .. N : n \in good
    BY <1>6, <1>7, RoundByRound
<1>9. N \in good
    BY <1>8
<1> QED
    BY <1>3, <1>4, <1>5, <1>9 DEF good

\* One call counts once.
LEMMA SumOfOneMore ==
    ASSUME NEW f \in [Vessel -> Int], NEW g \in [Vessel -> Int], NEW v \in Vessel, NEW d \in Int,
           g[v] = f[v] + d, \A u \in Vessel : u # v => g[u] = f[u]
    PROVE  OverCalls(f) \in Int /\ OverCalls(g) = OverCalls(f) + d
<1>1. PICK N \in Nat : N = Len(CallOrder)
    BY TwinSorts
<1>2. \A n \in 1 .. N : CallOrder[n] \in Vessel
    BY <1>1, TwinSorts
<1>3. PICK k \in 1 .. N : CallOrder[k] = v
    BY <1>1, TwinSorts
<1>4. \A n \in 1 .. N : n # k => CallOrder[n] # v
    <2>1. DOMAIN CallOrder = 1 .. N
        BY <1>1, TwinAssumption DEF TwinAssumption
    <2> QED
        BY <1>3, <2>1, TwinAssumption DEF TwinAssumption
<1>5. PICK s \in [0 .. N -> Int] :
         /\ s[0] = 0 /\ OverCalls(f) = s[N] /\ \A n \in 1 .. N : s[n] = s[n - 1] + f[CallOrder[n]]
    BY <1>1, OverCallsIs
<1>6. PICK t \in [0 .. N -> Int] :
         /\ t[0] = 0 /\ OverCalls(g) = t[N] /\ \A n \in 1 .. N : t[n] = t[n - 1] + g[CallOrder[n]]
    BY <1>1, OverCallsIs
<1> DEFINE good == {n \in 0 .. N : t[n] = IF n < k THEN s[n] ELSE s[n] + d}
<1>7. 0 \in good
    BY <1>5, <1>6
<1>8. ASSUME NEW n \in 1 .. N, n - 1 \in good PROVE n \in good
    <2>1. CallOrder[n] \in Vessel /\ n - 1 \in 0 .. N /\ n \in 0 .. N
        BY <1>2
    <2>2. t[n - 1] = IF n - 1 < k THEN s[n - 1] ELSE s[n - 1] + d
        BY <1>8
    <2>3. s[n] = s[n - 1] + f[CallOrder[n]] /\ t[n] = t[n - 1] + g[CallOrder[n]]
        BY <1>5, <1>6
    <2>4. s[n - 1] \in Int /\ f[CallOrder[n]] \in Int
        BY <2>1
    <2>5. g[CallOrder[n]] = IF n = k THEN f[CallOrder[n]] + d ELSE f[CallOrder[n]]
        BY <1>3, <1>4, <2>1
    <2>6. t[n] = IF n < k THEN s[n] ELSE s[n] + d
        <3>1. CASE n < k
            BY <2>1, <2>2, <2>3, <2>4, <2>5, <3>1
        <3>2. CASE n = k
            BY <2>1, <2>2, <2>3, <2>4, <2>5, <3>2
        <3>3. CASE n > k
            <4>1. ~ (n - 1 < k) /\ ~ (n < k) /\ n # k
                BY <3>3
            <4>2. t[n - 1] = s[n - 1] + d /\ g[CallOrder[n]] = f[CallOrder[n]]
                BY <2>2, <2>5, <4>1
            <4>3. PICK a \in Int, x \in Int : a = f[CallOrder[n]] /\ x = s[n - 1]
                BY <2>4
            <4>4. t[n] = (x + d) + a /\ s[n] = x + a
                BY <2>3, <4>2, <4>3
            <4> QED
                BY <4>1, <4>4
        <3> QED
            BY <3>1, <3>2, <3>3
    <2> QED
        BY <2>1, <2>6
<1> HIDE DEF good
<1>9. \A n \in 0 .. N : n \in good
    BY <1>7, <1>8, RoundByRound
<1>10. N \in good /\ ~ (N < k)
    BY <1>9
<1> QED
    BY <1>5, <1>6, <1>10 DEF good

----------------------------------------------------------------------------
CallRecord(moves) ==
    [phase: Phase, berth: Berth \cup {NoBerth}, position: 0 .. ChannelLength,
     speed: 0 .. MaximumSpeed + 1, remaining: moves]

\* A call is where its phase says, with moves left as it had at most.
CallIs(v, call) ==
    /\ call \in CallRecord(0 .. Exchange[v])
    /\ call.berth # NoBerth <=> call.phase = "BERTHED"
    /\ call.phase = "BERTHED" => <<v, call.berth>> \in LongEnough

FleetIs(fleet) ==
    /\ fleet = [v \in Vessel |-> fleet[v]]
    /\ \A v \in Vessel : CallIs(v, fleet[v])
    /\ \A u, v \in Vessel : fleet[v].berth # NoBerth /\ fleet[u].berth = fleet[v].berth => u = v

\* The moves the calls have made.
MovesOf(fleet) == [v \in Vessel |-> Exchange[v] - fleet[v].remaining]
Made(fleet) == OverCalls(MovesOf(fleet))

TwinInv ==
    /\ FleetIs(calls) /\ lost \in Nat
    /\ inventory \in 0 .. YardCapacity
    /\ ledger \in [discharged: Nat, loaded: Nat, gateOut: Nat]
    /\ CargoIsConserved

\* The moves of a call are a number.
LEMMA MovesAre == ASSUME NEW fleet, FleetIs(fleet) PROVE MovesOf(fleet) \in [Vessel -> Int]
<1>1. ASSUME NEW v \in Vessel PROVE Exchange[v] - fleet[v].remaining \in Int
    <2>1. Exchange[v] \in Nat
        BY TwinAssumption DEF TwinAssumption
    <2>2. fleet[v].remaining \in 0 .. Exchange[v]
        BY DEF FleetIs, CallIs, CallRecord
    <2> QED
        BY <2>1, <2>2
<1> QED
    BY <1>1 DEF MovesOf

\* Who replaces one call by one as good keeps the fleet, if the berth is free or its own.
LEMMA ReplaceOne ==
    ASSUME NEW fleet, FleetIs(fleet), NEW v \in Vessel, NEW call, CallIs(v, call),
           \A u \in Vessel : u # v /\ call.berth # NoBerth => fleet[u].berth # call.berth
    PROVE  FleetIs([fleet EXCEPT ![v] = call])
<1>1. PICK next : next = [fleet EXCEPT ![v] = call]
    OBVIOUS
<1>2. fleet = [u \in Vessel |-> fleet[u]]
    BY DEF FleetIs
<1>3. next = [u \in Vessel |-> next[u]] /\ next[v] = call
    BY <1>1, <1>2
<1>4. \A u \in Vessel : u # v => next[u] = fleet[u]
    BY <1>1, <1>2
<1>5. \A u \in Vessel : CallIs(u, next[u])
    BY <1>3, <1>4, Zenon DEF FleetIs
<1>6. ASSUME NEW a \in Vessel, NEW b \in Vessel,
             next[b].berth # NoBerth, next[a].berth = next[b].berth
      PROVE  a = b
    <2>1. CASE a = v /\ b # v
        BY <1>3, <1>4, <1>6, <2>1, Zenon
    <2>2. CASE a # v /\ b = v
        BY <1>3, <1>4, <1>6, <2>2, Zenon
    <2>3. CASE a # v /\ b # v
        <3>1. next[a] = fleet[a] /\ next[b] = fleet[b]
            BY <1>4, <2>3
        <3> QED
            BY <1>6, <3>1, Zenon DEF FleetIs
    <2> QED
        BY <2>1, <2>2, <2>3
<1>7. FleetIs(next)
    BY <1>3, <1>5, <1>6, Zenon DEF FleetIs
<1> QED
    BY <1>1, <1>7

LEMMA LesserIs ==
    ASSUME NEW a \in Int, NEW b \in Int
    PROVE  /\ Lesser(a, b) \in Int /\ Lesser(a, b) <= a /\ Lesser(a, b) <= b
           /\ Lesser(a, b) \in {a, b}
    BY DEF Lesser

LEMMA GreaterIs ==
    ASSUME NEW a \in Int, NEW b \in Int
    PROVE  /\ Greater(a, b) \in Int /\ Greater(a, b) >= a /\ Greater(a, b) >= b
           /\ Greater(a, b) \in {a, b}
    BY DEF Greater

\* Sailing keeps berth and moves.
LEMMA SailKeeps ==
    ASSUME FleetIs(calls), NEW v \in Vessel, NEW in \in Input
    PROVE  /\ CallIs(v, Sail(v, in)) /\ Sail(v, in).berth = calls[v].berth
           /\ Sail(v, in).remaining = calls[v].remaining
<1>1. /\ MaximumSpeed \in Nat /\ ChannelLength \in Nat
    BY TwinAssumption DEF TwinAssumption
<1>2. CallIs(v, calls[v])
    BY DEF FleetIs
<1>3. in.speed \in 0 .. MaximumSpeed /\ in.current \in {0, 1}
    BY DEF Input
<1>4. calls[v].speed \in 0 .. MaximumSpeed + 1 /\ calls[v].position \in 0 .. ChannelLength
    BY <1>2 DEF CallIs, CallRecord
<1>5. CASE calls[v].phase \notin {"INBOUND", "OUTBOUND"}
    BY <1>2, <1>5 DEF Sail
<1>6. CASE calls[v].phase \in {"INBOUND", "OUTBOUND"}
    <2>1. PICK ordered : ordered = Lesser(MaximumSpeed, IF v \in in.commanded THEN in.speed
                                                        ELSE calls[v].speed)
        OBVIOUS
    <2>2. ordered \in 0 .. MaximumSpeed
        BY <1>1, <1>3, <1>4, <2>1 DEF Lesser
    <2>3. PICK speed : speed = (IF Deep(v, in) THEN ordered ELSE 0) + in.current
        OBVIOUS
    <2>4. speed \in 0 .. MaximumSpeed + 1
        BY <1>1, <1>3, <2>2, <2>3
    <2>5. PICK position : position =
              IF calls[v].phase = "INBOUND" THEN Greater(0, calls[v].position - speed)
              ELSE Lesser(ChannelLength, calls[v].position + speed)
        OBVIOUS
    <2>6. position \in 0 .. ChannelLength
        BY <1>1, <1>4, <2>4, <2>5 DEF Greater, Lesser
    <2>7. PICK phase : phase = IF calls[v].phase = "OUTBOUND" /\ position = ChannelLength
                               THEN "COMPLETED" ELSE calls[v].phase
        OBVIOUS
    <2>8. phase \in Phase /\ phase # "BERTHED" /\ calls[v].phase # "BERTHED"
        BY <1>6, <2>7 DEF Phase
    <2>9. Sail(v, in) = [calls[v] EXCEPT !.speed = speed, !.position = position, !.phase = phase]
        BY <1>6, <2>1, <2>3, <2>5, <2>7, Zenon DEF Sail
    <2>10. Sail(v, in) \in CallRecord(0 .. Exchange[v])
        BY <1>2, <2>4, <2>6, <2>8, <2>9 DEF CallIs, CallRecord
    <2>11. /\ Sail(v, in).berth = calls[v].berth /\ Sail(v, in).remaining = calls[v].remaining
           /\ Sail(v, in).phase = phase
        BY <1>2, <2>9 DEF CallIs
    <2>12. CallIs(v, Sail(v, in))
        BY <1>2, <2>8, <2>10, <2>11, Zenon DEF CallIs
    <2> QED
        BY <2>11, <2>12
<1> QED
    BY <1>5, <1>6

\* What is kept of the fleet up to its work.
Alike(fleet) == FleetIs(fleet) /\ MovesOf(fleet) = MovesOf(calls)

LEMMA SailedIsAlike ==
    ASSUME FleetIs(calls), NEW in \in Input
    PROVE  Alike(Sailed(in))
<1>1. PICK next : next = Sailed(in)
    OBVIOUS
<1>2. next = [v \in Vessel |-> Sail(v, in)]
    BY <1>1 DEF Sailed
<1>3. \A v \in Vessel : /\ CallIs(v, next[v]) /\ next[v].berth = calls[v].berth
                        /\ next[v].remaining = calls[v].remaining
    BY <1>2, SailKeeps
<1>4. FleetIs(next)
    <2>1. next = [v \in Vessel |-> next[v]]
        BY <1>2
    <2>2. ASSUME NEW u \in Vessel, NEW v \in Vessel,
                 next[v].berth # NoBerth, next[u].berth = next[v].berth
          PROVE  u = v
        BY <1>3, <2>2, Zenon DEF FleetIs
    <2> QED
        BY <1>3, <2>1, <2>2, Zenon DEF FleetIs
<1>5. MovesOf(next) = MovesOf(calls)
    BY <1>3, Zenon DEF MovesOf
<1> QED
    BY <1>1, <1>4, <1>5 DEF Alike

\* A call that waits has a berth of its own or none.
LEMMA MoorKeeps ==
    ASSUME NEW fleet, Alike(fleet), NEW v \in Vessel, NEW in
    PROVE  Alike(Moor(fleet, v, in))
<1>1. PICK free : free = FreeBerths(fleet, v, in)
    OBVIOUS
<1>2. FleetIs(fleet) /\ CallIs(v, fleet[v]) /\ fleet = [u \in Vessel |-> fleet[u]]
    BY DEF Alike, FleetIs
<1>3. CASE fleet[v].phase \notin {"INBOUND", "ANCHORAGE"} \/ fleet[v].position > 0
    <2>1. Moor(fleet, v, in) = fleet
        BY <1>3, Zenon DEF Moor
    <2> QED
        BY <2>1
<1>4. ASSUME fleet[v].phase \in {"INBOUND", "ANCHORAGE"}, NEW call, CallIs(v, call),
             call.remaining = fleet[v].remaining,
             \A u \in Vessel : u # v /\ call.berth # NoBerth => fleet[u].berth # call.berth
      PROVE  Alike([fleet EXCEPT ![v] = call])
    <2>1. PICK next : next = [fleet EXCEPT ![v] = call]
        OBVIOUS
    <2>2. FleetIs(next)
        BY <1>2, <1>4, <2>1, ReplaceOne
    <2>3. \A u \in Vessel : next[u].remaining = fleet[u].remaining
        BY <1>2, <1>4, <2>1
    <2>4. MovesOf(next) = MovesOf(fleet)
        BY <2>3, Zenon DEF MovesOf
    <2> QED
        BY <2>1, <2>2, <2>4 DEF Alike
<1>5. CASE fleet[v].phase \in {"INBOUND", "ANCHORAGE"} /\ ~ (fleet[v].position > 0)
    <2>1. fleet[v].berth = NoBerth
        BY <1>2, <1>5 DEF CallIs
    <2>2. MaximumSpeed \in Nat
        BY TwinAssumption DEF TwinAssumption
    <2>3. CASE free = {}
        <3>1. PICK call : call = AtAnchor(fleet[v])
            OBVIOUS
        <3>2. /\ call.remaining = fleet[v].remaining /\ call.berth = NoBerth
              /\ call.phase = "ANCHORAGE"
            BY <1>2, <2>1, <3>1 DEF CallIs, AtAnchor
        <3>3. call \in CallRecord(0 .. Exchange[v])
            <4>1. "ANCHORAGE" \in Phase /\ 0 \in 0 .. MaximumSpeed + 1
                BY <2>2 DEF Phase
            <4>2. PICK waits : waits = [fleet[v] EXCEPT !.phase = "ANCHORAGE"]
                OBVIOUS
            <4>3. call = [waits EXCEPT !.speed = 0]
                BY <1>2, <3>1, <4>2 DEF CallIs, AtAnchor
            <4>4. waits \in CallRecord(0 .. Exchange[v])
                BY <1>2, <4>1, <4>2 DEF CallIs, CallRecord
            <4> QED
                BY <4>1, <4>3, <4>4 DEF CallRecord
        <3>4. CallIs(v, call)
            BY <3>2, <3>3 DEF CallIs
        <3>5. Moor(fleet, v, in) = [fleet EXCEPT ![v] = call]
            BY <1>1, <1>5, <2>3, <3>1, Zenon DEF Moor
        <3> QED
            BY <1>4, <1>5, <3>2, <3>4, <3>5
    <2>4. CASE free # {}
        <3>1. free \in SUBSET Nat
            BY <1>1, TwinSorts DEF FreeBerths
        <3>2. PICK first : first = CHOOSE n \in free : \A m \in free : n <= m
            OBVIOUS
        <3>3. first \in free
            <4>1. \E n \in free : \A m \in free : n <= m
                BY <2>4, <3>1, Least
            <4> QED
                BY <3>2, <4>1
        <3>4. /\ first \in DOMAIN BerthOrder /\ <<v, BerthOrder[first]>> \in LongEnough
              /\ \A u \in Vessel : fleet[u].berth # BerthOrder[first]
            BY <1>1, <3>3 DEF FreeBerths
        <3>5. PICK b : b = BerthOrder[first]
            OBVIOUS
        <3>6. b \in Berth /\ b # NoBerth
            BY <3>4, <3>5, TwinSorts, TwinAssumption DEF TwinAssumption
        <3>7. PICK call : call = AtBerth(fleet[v], b)
            OBVIOUS
        <3>8. /\ call.remaining = fleet[v].remaining /\ call.berth = b
              /\ call.phase = "BERTHED"
            BY <1>2, <3>7 DEF CallIs, AtBerth
        <3>9. call \in CallRecord(0 .. Exchange[v])
            <4>1. "BERTHED" \in Phase /\ 0 \in 0 .. MaximumSpeed + 1 /\ b \in Berth \cup {NoBerth}
                BY <2>2, <3>6 DEF Phase
            <4>2. PICK lies : lies = [fleet[v] EXCEPT !.phase = "BERTHED"]
                OBVIOUS
            <4>3. PICK still : still = [lies EXCEPT !.speed = 0]
                OBVIOUS
            <4>4. call = [still EXCEPT !.berth = b]
                BY <1>2, <3>7, <4>2, <4>3 DEF CallIs, AtBerth
            <4>5. lies \in CallRecord(0 .. Exchange[v])
                BY <1>2, <4>1, <4>2 DEF CallIs, CallRecord
            <4>6. still \in CallRecord(0 .. Exchange[v])
                BY <4>1, <4>3, <4>5 DEF CallRecord
            <4> QED
                BY <4>1, <4>4, <4>6 DEF CallRecord
        <3>10. CallIs(v, call)
            BY <3>4, <3>5, <3>6, <3>8, <3>9 DEF CallIs
        <3>11. Moor(fleet, v, in) = [fleet EXCEPT ![v] = call]
            BY <1>1, <1>5, <2>4, <3>2, <3>5, <3>7, Zenon DEF Moor
        <3> QED
            BY <1>4, <1>5, <3>4, <3>5, <3>8, <3>10, <3>11
    <2> QED
        BY <2>3, <2>4
<1> QED
    BY <1>3, <1>5

LEMMA FleetIsOfCalls == ASSUME NEW fleet, FleetIs(fleet) PROVE fleet \in [Vessel -> CallRecord(Nat)]
<1>1. fleet = [v \in Vessel |-> fleet[v]]
    BY DEF FleetIs
<1>2. ASSUME NEW v \in Vessel PROVE fleet[v] \in CallRecord(Nat)
    <2>1. fleet[v] \in CallRecord(0 .. Exchange[v])
        BY DEF FleetIs, CallIs
    <2>2. Exchange[v] \in Nat
        BY TwinAssumption DEF TwinAssumption
    <2>3. 0 .. Exchange[v] \subseteq Nat
        BY <2>2
    <2> QED
        BY <2>1, <2>3 DEF CallRecord
<1> QED
    BY <1>1, <1>2

\* The loop of berthing.
IsMooring(f, in) ==
    f = [n \in 0 .. Len(CallOrder) |->
            IF n = 0 THEN Sailed(in) ELSE Moor(f[n - 1], CallOrder[n], in)]

LEMMA MooredIsAlike ==
    ASSUME FleetIs(calls), NEW in \in Input
    PROVE  Alike(Moored(in))
<1>1. PICK N \in Nat : N = Len(CallOrder)
    BY TwinSorts
<1>2. \A n \in 1 .. N : CallOrder[n] \in Vessel
    BY <1>1, TwinSorts
<1>3. PICK S : S = {x \in [Vessel -> CallRecord(Nat)] : Alike(x)}
    OBVIOUS
<1>4. \A x : x \in S <=> Alike(x)
    BY <1>3, FleetIsOfCalls DEF Alike
<1>5. PICK w : w = Sailed(in)
    OBVIOUS
<1>6. w \in S
    BY <1>4, <1>5, SailedIsAlike
<1>7. PICK next : next = [n \in 1 .. N |-> [x \in S |-> Moor(x, CallOrder[n], in)]]
    OBVIOUS
<1>8. next \in [1 .. N -> [S -> S]]
    <2>1. ASSUME NEW n \in 1 .. N, NEW x \in S PROVE Moor(x, CallOrder[n], in) \in S
        BY <1>2, <1>4, MoorKeeps
    <2> QED
        BY <1>7, <2>1
<1>9. PICK f : Rounds(f, N, S, w, next)
    BY <1>6, <1>8, RoundsExist, Zenon
<1>10. IsMooring(f, in)
    <2>1. f = [n \in 0 .. N |-> f[n]]
        BY <1>9 DEF Rounds
    <2>2. ASSUME NEW n \in 0 .. N
          PROVE  f[n] = IF n = 0 THEN Sailed(in) ELSE Moor(f[n - 1], CallOrder[n], in)
        <3>1. CASE n = 0
            BY <1>5, <1>9, <3>1 DEF Rounds
        <3>2. CASE n # 0
            <4>1. n \in 1 .. N /\ n - 1 \in 0 .. N
                BY <3>2
            <4>2. f[n - 1] \in S
                BY <1>9, <4>1 DEF Rounds
            <4>3. f[n] = next[n][f[n - 1]]
                BY <1>9, <4>1 DEF Rounds
            <4> QED
                BY <1>7, <3>2, <4>1, <4>2, <4>3
        <3> QED
            BY <3>1, <3>2
    <2> QED
        BY <1>1, <2>1, <2>2 DEF IsMooring
<1>11. PICK g : g = CHOOSE h : IsMooring(h, in)
    OBVIOUS
<1>12. Moored(in) = g[N]
    BY <1>1, <1>11, Zenon DEF Moored, IsMooring
<1>13. IsMooring(g, in)
    BY <1>10, <1>11, Zenon
<1>14. g[0] = w /\ \A n \in 1 .. N : g[n] = Moor(g[n - 1], CallOrder[n], in)
    <2>1. g = [n \in 0 .. N |-> IF n = 0 THEN w ELSE Moor(g[n - 1], CallOrder[n], in)]
        BY <1>1, <1>5, <1>13 DEF IsMooring
    <2>2. \A n \in 0 .. N : g[n] = IF n = 0 THEN w ELSE Moor(g[n - 1], CallOrder[n], in)
        BY <2>1
    <2>3. \A n \in 1 .. N : n \in 0 .. N /\ n # 0
        OBVIOUS
    <2> QED
        BY <2>2, <2>3
<1> DEFINE good == {n \in 0 .. N : g[n] \in S}
<1>15. 0 \in good
    BY <1>6, <1>14
<1>16. ASSUME NEW n \in 1 .. N, n - 1 \in good PROVE n \in good
    <2>1. Alike(g[n - 1])
        BY <1>4, <1>16
    <2>2. Alike(Moor(g[n - 1], CallOrder[n], in))
        BY <1>2, <2>1, MoorKeeps
    <2> QED
        BY <1>4, <1>14, <2>2
<1> HIDE DEF good
<1>17. \A n \in 0 .. N : n \in good
    BY <1>15, <1>16, RoundByRound
<1>18. N \in good
    BY <1>17
<1> QED
    BY <1>4, <1>12, <1>18 DEF good

\* What the loop of the work keeps: the moves that were made are the moves the calls have
\* less to make, and a crane that made one is gone.
WorkIs(w) ==
    /\ FleetIs(w.fleet)
    /\ w.cranes \in Nat /\ w.discharged \in Nat /\ w.loaded \in Nat
    /\ w.discharged + w.loaded + w.cranes <= AvailableCranes
    /\ Made(calls) \in Int /\ Made(w.fleet) = Made(calls) + w.discharged + w.loaded

\* The moves made are a number.
LEMMA MadeIs == ASSUME NEW fleet, FleetIs(fleet) PROVE Made(fleet) \in Int
<1>1. MovesOf(fleet) \in [Vessel -> Int]
    BY MovesAre
<1>2. PICK zero : zero = [v \in Vessel |-> 0] /\ zero \in [Vessel -> Int]
    <2>1. [v \in Vessel |-> 0] \in [Vessel -> Int]
        OBVIOUS
    <2> QED
        BY <2>1
<1>3. \A v \in Vessel : MovesOf(fleet)[v] = zero[v] + MovesOf(fleet)[v]
    BY <1>1, <1>2
<1> QED
    BY <1>1, <1>2, <1>3, SumsAdd DEF Made

LEMMA AtWorkIs ==
    ASSUME FleetIs(calls), NEW in \in Input
    PROVE  WorkIs(AtWork(Moored(in)))
<1>1. Alike(Moored(in))
    BY MooredIsAlike
<1>2. PICK fleet : fleet = Moored(in)
    OBVIOUS
<1>3. FleetIs(fleet) /\ Made(fleet) = Made(calls) /\ Made(calls) \in Int
    BY <1>1, <1>2, MadeIs DEF Alike, Made
<1>4. AvailableCranes \in Nat
    BY TwinAssumption DEF TwinAssumption
<1> QED
    BY <1>2, <1>3, <1>4 DEF WorkIs, AtWork

LEMMA WorkKeeps ==
    ASSUME NEW w, WorkIs(w), NEW v \in Vessel, NEW in
    PROVE  WorkIs(Work(w, v, in))
<1>1. CallIs(v, w.fleet[v]) /\ w.fleet = [u \in Vessel |-> w.fleet[u]]
    BY DEF WorkIs, FleetIs
<1>2. CASE w.fleet[v].phase # "BERTHED"
    <2>1. Work(w, v, in) = w
        BY <1>2, Zenon DEF Work
    <2> QED
        BY <2>1
<1>3. CASE w.fleet[v].phase = "BERTHED"
    <2>1. PICK call : call = w.fleet[v]
        OBVIOUS
    <2>2. /\ call \in CallRecord(0 .. Exchange[v])
          /\ call.phase = "BERTHED" /\ call.berth \in Berth /\ call.berth # NoBerth
          /\ <<v, call.berth>> \in LongEnough
        BY <1>1, <1>3, <2>1 DEF CallIs, CallRecord
    <2>3. Exchange[v] \in Nat /\ MaximumCranes[call.berth] \in Nat
        BY <2>2, TwinAssumption DEF TwinAssumption
    <2>4. PICK cranes : cranes = Cranes(w, v, in)
        OBVIOUS
    <2>5. cranes \in Nat /\ cranes <= w.cranes
        BY <2>1, <2>3, <2>4 DEF Cranes, Lesser, WorkIs
    <2>6. PICK moves : moves = Moves(call, cranes)
        OBVIOUS
    <2>7. moves \in Nat /\ moves <= cranes /\ moves <= call.remaining /\ call.remaining \in Nat
        BY <2>2, <2>3, <2>5, <2>6 DEF Moves, Lesser, CallRecord
    <2>8. PICK worked : worked = Worked(call, moves)
        OBVIOUS
    <2>9. PICK left : left = [call EXCEPT !.remaining = call.remaining - moves]
        OBVIOUS
    <2>10. CallIs(v, left) /\ left.remaining = call.remaining - moves /\ left.berth = call.berth
        <3>1. call.remaining - moves \in 0 .. Exchange[v]
            BY <2>2, <2>3, <2>7 DEF CallRecord
        <3>2. left \in CallRecord(0 .. Exchange[v])
            BY <2>2, <2>9, <3>1 DEF CallRecord
        <3>3. left.remaining = call.remaining - moves /\ left.berth = call.berth /\ left.phase = "BERTHED"
            BY <2>2, <2>9
        <3> QED
            BY <2>2, <3>2, <3>3 DEF CallIs
    <2>11. /\ CallIs(v, worked) /\ worked.remaining = call.remaining - moves
           /\ worked.berth \in {call.berth, NoBerth}
        <3>1. worked = IF left.remaining > 0 THEN left ELSE Leaving(left)
            BY <2>8, <2>9, Zenon DEF Worked
        <3>2. CASE left.remaining > 0
            BY <2>10, <3>1, <3>2
        <3>3. CASE ~ (left.remaining > 0)
            <4>1. worked = Leaving(left)
                BY <3>1, <3>3
            <4>2. PICK out : out = [left EXCEPT !.phase = "OUTBOUND"]
                OBVIOUS
            <4>3. "OUTBOUND" \in Phase
                BY DEF Phase
            <4>4. out \in CallRecord(0 .. Exchange[v])
                BY <2>10, <4>2, <4>3 DEF CallIs, CallRecord
            <4>5. worked = [out EXCEPT !.berth = NoBerth]
                BY <2>10, <4>1, <4>2 DEF Leaving, CallIs
            <4>6. worked \in CallRecord(0 .. Exchange[v])
                BY <4>4, <4>5 DEF CallRecord
            <4>7. /\ worked.phase = "OUTBOUND" /\ worked.berth = NoBerth
                  /\ worked.remaining = left.remaining
                BY <2>10, <4>2, <4>4, <4>5 DEF CallIs
            <4> QED
                BY <2>10, <4>6, <4>7 DEF CallIs
        <3> QED
            BY <3>2, <3>3
    <2>12. PICK fleet : fleet = [w.fleet EXCEPT ![v] = worked]
        OBVIOUS
    <2>13. FleetIs(fleet)
        <3>1. \A u \in Vessel : u # v /\ worked.berth # NoBerth => w.fleet[u].berth # worked.berth
            <4>1. \A u \in Vessel : w.fleet[v].berth # NoBerth /\ w.fleet[u].berth = w.fleet[v].berth
                                    => u = v
                BY DEF WorkIs, FleetIs
            <4> QED
                BY <2>1, <2>2, <2>11, <4>1
        <3>2. FleetIs(w.fleet)
            BY DEF WorkIs
        <3> QED
            BY <2>11, <2>12, <3>1, <3>2, ReplaceOne
    <2>14. Made(fleet) = Made(w.fleet) + moves
        <3>1. MovesOf(w.fleet) \in [Vessel -> Int] /\ MovesOf(fleet) \in [Vessel -> Int]
            BY <2>13, MovesAre DEF WorkIs
        <3>2. fleet[v] = worked /\ \A u \in Vessel : u # v => fleet[u] = w.fleet[u]
            BY <1>1, <2>12
        <3>3. MovesOf(fleet)[v] = Exchange[v] - (call.remaining - moves)
            BY <2>11, <3>2 DEF MovesOf
        <3>4. MovesOf(w.fleet)[v] = Exchange[v] - call.remaining
            BY <2>1 DEF MovesOf
        <3>5. MovesOf(fleet)[v] = MovesOf(w.fleet)[v] + moves
            BY <2>3, <2>7, <3>3, <3>4
        <3>6. \A u \in Vessel : u # v => MovesOf(fleet)[u] = MovesOf(w.fleet)[u]
            BY <3>2 DEF MovesOf
        <3>7. moves \in Int
            BY <2>7
        <3> QED
            BY <3>1, <3>5, <3>6, <3>7, SumOfOneMore DEF Made
    <2>15. PICK next : next = Work(w, v, in)
        OBVIOUS
    <2>16. next = [fleet |-> fleet, cranes |-> w.cranes - cranes,
                   discharged |-> w.discharged + (IF Discharges[v] THEN moves ELSE 0),
                   loaded |-> w.loaded + (IF Discharges[v] THEN 0 ELSE moves)]
        BY <1>3, <2>1, <2>4, <2>6, <2>8, <2>12, <2>15, Zenon DEF Work
    <2>17. /\ next.fleet = fleet /\ next.cranes = w.cranes - cranes
           /\ next.discharged + next.loaded = w.discharged + w.loaded + moves
           /\ next.discharged \in Nat /\ next.loaded \in Nat
        BY <2>7, <2>16 DEF WorkIs
    <2>18. next.cranes \in Nat
        BY <2>5, <2>17 DEF WorkIs
    <2>19. /\ next.discharged + next.loaded + next.cranes <= AvailableCranes
           /\ Made(next.fleet) = Made(calls) + next.discharged + next.loaded
        <3>1. PICK c \in Nat, d \in Nat, l \in Nat, all \in Nat, made \in Int :
                  /\ c = w.cranes /\ d = w.discharged /\ l = w.loaded /\ all = AvailableCranes
                  /\ made = Made(calls)
            BY TwinAssumption DEF WorkIs, TwinAssumption
        <3>2. PICK e \in Nat, m \in Nat : e = next.discharged /\ m = next.loaded
            BY <2>17
        <3>3. d + l + c <= all /\ e + m = d + l + moves
            BY <2>17, <3>1, <3>2 DEF WorkIs
        <3>4. e + m + (c - cranes) <= all
            BY <2>5, <2>7, <3>1, <3>3
        <3>5. Made(next.fleet) = made + d + l + moves
            BY <2>14, <2>17, <3>1 DEF WorkIs
        <3>6. made + d + l + moves = made + e + m
            BY <2>7, <3>3
        <3> QED
            BY <2>17, <3>1, <3>2, <3>4, <3>5, <3>6
    <2> QED
        BY <2>13, <2>15, <2>17, <2>18, <2>19 DEF WorkIs
<1> QED
    BY <1>2, <1>3

\* The loop of the work.
IsHandling(f, in) ==
    f = [n \in 0 .. Len(CallOrder) |->
            IF n = 0 THEN AtWork(Moored(in)) ELSE Work(f[n - 1], CallOrder[n], in)]

LEMMA HandledIs ==
    ASSUME FleetIs(calls), NEW in \in Input
    PROVE  WorkIs(Handled(in))
<1>1. PICK N \in Nat : N = Len(CallOrder)
    BY TwinSorts
<1>2. \A n \in 1 .. N : CallOrder[n] \in Vessel
    BY <1>1, TwinSorts
<1>3. PICK S : S = {x \in [fleet: [Vessel -> CallRecord(Nat)], cranes: Nat, discharged: Nat,
                           loaded: Nat] : WorkIs(x)}
    OBVIOUS
<1>4. \A x \in S : WorkIs(x)
    BY <1>3
<1>5. PICK w : w = AtWork(Moored(in))
    OBVIOUS
<1>6. WorkIs(w) /\ w \in S
    <2>1. WorkIs(w)
        BY <1>5, AtWorkIs
    <2>2. PICK fleet : fleet = Moored(in)
        OBVIOUS
    <2>3. w = [fleet |-> fleet, cranes |-> AvailableCranes, discharged |-> 0, loaded |-> 0]
        BY <1>5, <2>2 DEF AtWork
    <2>4. fleet \in [Vessel -> CallRecord(Nat)] /\ AvailableCranes \in Nat
        BY FleetIsOfCalls, <2>1, <2>3, TwinAssumption DEF WorkIs, TwinAssumption
    <2> QED
        BY <1>3, <2>1, <2>3, <2>4
<1>7. ASSUME NEW n \in 1 .. N, NEW x \in S PROVE Work(x, CallOrder[n], in) \in S
    <2>1. PICK v \in Vessel : v = CallOrder[n]
        BY <1>2
    <2>2. WorkIs(Work(x, v, in))
        BY <1>4, WorkKeeps
    <2>3. PICK y : y = Work(x, v, in)
        OBVIOUS
    <2>4. CASE x.fleet[v].phase # "BERTHED"
        BY <2>1, <2>4, Zenon DEF Work
    <2>5. CASE x.fleet[v].phase = "BERTHED"
        <3>1. PICK f, c, d, l : y = [fleet |-> f, cranes |-> c, discharged |-> d, loaded |-> l]
            BY <2>3, <2>5, Zenon DEF Work
        <3>2. f \in [Vessel -> CallRecord(Nat)] /\ c \in Nat /\ d \in Nat /\ l \in Nat
            BY FleetIsOfCalls, <2>2, <2>3, <3>1 DEF WorkIs
        <3> QED
            BY <1>3, <2>1, <2>2, <2>3, <3>1, <3>2
    <2> QED
        BY <2>4, <2>5
<1>8. PICK next : next = [n \in 1 .. N |-> [x \in S |-> Work(x, CallOrder[n], in)]]
    OBVIOUS
<1>9. next \in [1 .. N -> [S -> S]]
    BY <1>7, <1>8
<1>10. PICK f : Rounds(f, N, S, w, next)
    BY <1>6, <1>9, RoundsExist, Zenon
<1>11. IsHandling(f, in)
    <2>1. f = [n \in 0 .. N |-> f[n]]
        BY <1>10 DEF Rounds
    <2>2. ASSUME NEW n \in 0 .. N
          PROVE  f[n] = IF n = 0 THEN AtWork(Moored(in)) ELSE Work(f[n - 1], CallOrder[n], in)
        <3>1. CASE n = 0
            BY <1>5, <1>10, <3>1 DEF Rounds
        <3>2. CASE n # 0
            <4>1. n \in 1 .. N /\ n - 1 \in 0 .. N
                BY <3>2
            <4>2. f[n - 1] \in S
                BY <1>10, <4>1 DEF Rounds
            <4>3. f[n] = next[n][f[n - 1]]
                BY <1>10, <4>1 DEF Rounds
            <4> QED
                BY <1>8, <3>2, <4>1, <4>2, <4>3
        <3> QED
            BY <3>1, <3>2
    <2> QED
        BY <1>1, <2>1, <2>2 DEF IsHandling
<1>12. PICK g : g = CHOOSE h : IsHandling(h, in)
    OBVIOUS
<1>13. Handled(in) = g[N]
    BY <1>1, <1>12, Zenon DEF Handled, IsHandling
<1>14. IsHandling(g, in)
    BY <1>11, <1>12, Zenon
<1>15. g[0] = w /\ \A n \in 1 .. N : g[n] = Work(g[n - 1], CallOrder[n], in)
    <2>1. g = [n \in 0 .. N |-> IF n = 0 THEN w ELSE Work(g[n - 1], CallOrder[n], in)]
        BY <1>1, <1>5, <1>14 DEF IsHandling
    <2>2. \A n \in 0 .. N : g[n] = IF n = 0 THEN w ELSE Work(g[n - 1], CallOrder[n], in)
        BY <2>1
    <2>3. \A n \in 1 .. N : n \in 0 .. N /\ n # 0
        OBVIOUS
    <2> QED
        BY <2>2, <2>3
<1> DEFINE good == {n \in 0 .. N : WorkIs(g[n])}
<1>16. 0 \in good
    BY <1>6, <1>15
<1>17. ASSUME NEW n \in 1 .. N, n - 1 \in good PROVE n \in good
    <2>1. WorkIs(g[n - 1])
        BY <1>17
    <2>2. WorkIs(Work(g[n - 1], CallOrder[n], in))
        BY <1>2, <2>1, WorkKeeps
    <2> QED
        BY <1>15, <2>2
<1> HIDE DEF good
<1>18. \A n \in 0 .. N : n \in good
    BY <1>16, <1>17, RoundByRound
<1>19. N \in good
    BY <1>18
<1> QED
    BY <1>13, <1>19 DEF good

----------------------------------------------------------------------------
LEMMA TwinBegins == TwinInit => TwinInv
<1> SUFFICES ASSUME TwinInit PROVE TwinInv
    OBVIOUS
<1>1. PICK position \in [Vessel -> 0 .. ChannelLength] :
        calls = [v \in Vessel |-> [phase |-> "INBOUND", berth |-> NoBerth, speed |-> MaximumSpeed,
                                   position |-> position[v], remaining |-> Exchange[v]]]
    BY DEF TwinInit
<1>2. MaximumSpeed \in Nat /\ \A v \in Vessel : Exchange[v] \in Nat
    BY TwinAssumption DEF TwinAssumption
<1>3. \A v \in Vessel :
        /\ calls[v] \in CallRecord(0 .. Exchange[v])
        /\ calls[v].phase = "INBOUND" /\ calls[v].berth = NoBerth
        /\ calls[v].remaining = Exchange[v]
    BY <1>1, <1>2 DEF Phase, CallRecord
<1>4. FleetIs(calls)
    <2>1. calls = [v \in Vessel |-> calls[v]]
        BY <1>1
    <2> QED
        BY <1>3, <2>1 DEF FleetIs, CallIs
<1>5. Made(calls) = 0
    <2>1. MovesOf(calls) \in [Vessel -> Int]
        BY <1>4, MovesAre
    <2>2. \A v \in Vessel : MovesOf(calls)[v] = MovesOf(calls)[v] + MovesOf(calls)[v]
        <3>1. \A v \in Vessel : MovesOf(calls)[v] = 0
            BY <1>2, <1>3 DEF MovesOf
        <3> QED
            BY <3>1
    <2>3. OverCalls(MovesOf(calls)) \in Int
          /\ OverCalls(MovesOf(calls)) = OverCalls(MovesOf(calls)) + OverCalls(MovesOf(calls))
        BY <2>1, <2>2, SumsAdd
    <2>4. PICK x \in Int : x = OverCalls(MovesOf(calls)) /\ x = x + x
        BY <2>3
    <2>5. x = 0
        <3>1. \A y \in Int : y = y + y => y = 0
            OBVIOUS
        <3> QED
            BY <2>4, <3>1
    <2> QED
        BY <2>4, <2>5 DEF Made
<1>6. /\ InitialInventory \in 0 .. YardCapacity /\ InitialInventory \in Int
    BY TwinAssumption DEF TwinAssumption
<1>7. CargoIsConserved
    <2>1. inventory = InitialInventory + ledger.discharged - ledger.loaded - ledger.gateOut
        BY <1>6 DEF TwinInit
    <2>2. OverCalls([v \in Vessel |-> Exchange[v] - calls[v].remaining])
            = ledger.discharged + ledger.loaded + lost
        BY <1>5 DEF TwinInit, Made, MovesOf
    <2> QED
        BY <2>1, <2>2 DEF CargoIsConserved
<1> QED
    BY <1>4, <1>6, <1>7 DEF TwinInit, TwinInv

\* A step that the yard books, or refuses when its moves are made.
LEMMA StepIs ==
    ASSUME TwinInv, NEW in \in Input, Step(in)
    PROVE  TwinInv' /\ Made(calls)' <= Made(calls) + AvailableCranes
<1>1. PICK w : w = Handled(in) /\ calls' = w.fleet /\ Book(w)
    BY DEF Step
<1>2. WorkIs(w)
    BY <1>1, HandledIs DEF TwinInv
<1>3. PICK d \in Nat, l \in Nat, c \in Nat, all \in Nat, made \in Int :
          /\ d = w.discharged /\ l = w.loaded /\ c = w.cranes /\ all = AvailableCranes
          /\ made = Made(calls)
    BY <1>2, TwinAssumption DEF WorkIs, TwinAssumption
<1>4. Made(calls)' = made + d + l /\ d + l + c <= all
    <2>1. Made(calls)' = Made(w.fleet)
        BY <1>1 DEF Made, MovesOf
    <2> QED
        BY <1>2, <1>3, <2>1 DEF WorkIs
<1>5. FleetIs(calls)'
    <2>1. FleetIs(w.fleet)
        BY <1>2 DEF WorkIs
    <2> QED
        BY <1>1, <2>1 DEF FleetIs
<1>6. PICK had \in Nat, i \in Int, x \in Nat, y \in Nat, z \in Nat, gone \in Nat :
          /\ had = InitialInventory /\ i = inventory /\ gone = lost
          /\ x = ledger.discharged /\ y = ledger.loaded /\ z = ledger.gateOut
    <2>1. ledger \in [discharged: Nat, loaded: Nat, gateOut: Nat] /\ lost \in Nat
        BY DEF TwinInv
    <2>2. InitialInventory \in Nat
        BY TwinAssumption DEF TwinAssumption
    <2>3. inventory \in Int
        BY DEF TwinInv
    <2>4. ledger.discharged \in Nat /\ ledger.loaded \in Nat /\ ledger.gateOut \in Nat
        BY <2>1
    <2> QED
        BY <2>1, <2>2, <2>3, <2>4, Zenon
<1>7. i = had + x - y - z /\ made = x + y + gone
    <2>1. CargoIsConserved
        BY DEF TwinInv
    <2>2. inventory = InitialInventory + ledger.discharged - ledger.loaded - ledger.gateOut
        BY <2>1 DEF CargoIsConserved
    <2>3. Made(calls) = ledger.discharged + ledger.loaded + lost
        BY <2>1, Zenon DEF CargoIsConserved, Made, MovesOf
    <2> QED
        BY <1>3, <1>6, <2>2, <2>3
<1>8. PICK out \in Nat : out = GateOut(w)
    <2>1. GateOutPerStep \in Nat
        BY TwinAssumption DEF TwinAssumption
    <2> QED
        BY <1>3, <1>6, <2>1 DEF GateOut, Lesser, Greater
<1>9. CASE i + d - l - out \in 0 .. YardCapacity
    <2>1. /\ inventory' = i + d - l - out /\ lost' = gone
          /\ ledger' = [discharged |-> x + d, loaded |-> y + l, gateOut |-> z + out]
        BY <1>1, <1>3, <1>6, <1>8, <1>9 DEF Book
    <2>2. inventory' = had + (x + d) - (y + l) - (z + out)
        BY <1>7, <2>1
    <2>3. made + d + l = (x + d) + (y + l) + gone
        BY <1>7
    <2>4. CargoIsConserved'
        BY <1>4, <1>6, <2>1, <2>2, <2>3 DEF CargoIsConserved, Made, MovesOf
    <2> QED
        BY <1>3, <1>4, <1>5, <1>9, <2>1, <2>4 DEF TwinInv
<1>10. CASE i + d - l - out \notin 0 .. YardCapacity
    <2>1. inventory' = i /\ ledger' = ledger /\ lost' = gone + d + l
        BY <1>1, <1>3, <1>6, <1>8, <1>10 DEF Book
    <2>2. made + d + l = x + y + (gone + d + l)
        BY <1>7
    <2>3. CargoIsConserved'
        BY <1>4, <1>6, <1>7, <2>1, <2>2 DEF CargoIsConserved, Made, MovesOf
    <2> QED
        BY <1>3, <1>4, <1>5, <1>6, <2>1, <2>3 DEF TwinInv
<1> QED
    BY <1>9, <1>10

\* The moves of a step are what the calls have made more than before.
LEMMA MovesOfAStep ==
    ASSUME TwinInv, TwinInv'
    PROVE  OverCalls([v \in Vessel |-> calls[v].remaining - calls'[v].remaining])
              = Made(calls)' - Made(calls)
<1>1. PICK before : before = calls
    OBVIOUS
<1>2. PICK after : after = calls'
    OBVIOUS
<1>3. FleetIs(before) /\ FleetIs(after)
    BY <1>1, <1>2 DEF TwinInv, FleetIs
<1>4. PICK less : less = [v \in Vessel |-> before[v].remaining - after[v].remaining]
    OBVIOUS
<1>5. \A v \in Vessel : /\ Exchange[v] \in Int /\ before[v].remaining \in Int
                        /\ after[v].remaining \in Int
    <2>1. \A v \in Vessel : Exchange[v] \in Nat
        BY TwinAssumption DEF TwinAssumption
    <2>2. \A v \in Vessel : /\ before[v].remaining \in 0 .. Exchange[v]
                            /\ after[v].remaining \in 0 .. Exchange[v]
        BY <1>3 DEF FleetIs, CallIs, CallRecord
    <2> QED
        BY <2>1, <2>2
<1>6. less \in [Vessel -> Int]
    BY <1>4, <1>5
<1>7. MovesOf(before) \in [Vessel -> Int] /\ MovesOf(after) \in [Vessel -> Int]
    BY <1>3, MovesAre
<1>8. \A v \in Vessel : MovesOf(after)[v] = MovesOf(before)[v] + less[v]
    BY <1>4, <1>5 DEF MovesOf
<1>9. /\ Made(before) \in Int /\ OverCalls(less) \in Int
      /\ Made(after) = Made(before) + OverCalls(less)
    BY <1>6, <1>7, <1>8, SumsAdd DEF Made
<1>10. Made(calls)' = Made(after) /\ Made(calls) = Made(before)
    BY <1>1, <1>2 DEF Made, MovesOf
<1>11. OverCalls(less) = Made(after) - Made(before)
    BY <1>9
<1> QED
    BY <1>1, <1>2, <1>4, <1>10, <1>11

LEMMA TwinInvIsPhysical == TwinInv => TwinTypeOK /\ BerthsAreExclusive /\ CargoIsConserved
<1> SUFFICES ASSUME TwinInv PROVE TwinTypeOK /\ BerthsAreExclusive /\ CargoIsConserved
    OBVIOUS
<1>1. TwinTypeOK
    BY DEF TwinInv, TwinTypeOK, FleetIs, CallIs, CallRecord
<1>2. BerthsAreExclusive
    BY DEF TwinInv, BerthsAreExclusive, FleetIs, CallIs
<1> QED
    BY <1>1, <1>2 DEF TwinInv

\* Whatever calls, berths, inputs and number of steps: a berth has one call and one that fits
\* it, the yard holds what the ledger says and never more than it can, every move a call has
\* made is in the ledger unless the yard refused its step, and no step makes more moves than
\* there are cranes over all berths.
THEOREM TwinStaysPhysical == TwinSpec => TwinIsPhysical
<1>1. TwinInit => TwinInv
    BY TwinBegins
<1>2. TwinInv /\ [TwinNext]_twinVars => TwinInv'
    <2> SUFFICES ASSUME TwinInv, [TwinNext]_twinVars PROVE TwinInv'
        OBVIOUS
    <2>1. CASE TwinNext
        BY <2>1, StepIs DEF TwinNext
    <2>2. CASE UNCHANGED twinVars
        BY <2>2 DEF twinVars, TwinInv, FleetIs, CargoIsConserved
    <2> QED
        BY <2>1, <2>2
<1>3. TwinInv /\ TwinInv' /\ [TwinNext]_twinVars =>
        [OverCalls([v \in Vessel |-> calls[v].remaining - calls'[v].remaining])
            <= AvailableCranes]_twinVars
    <2> SUFFICES ASSUME TwinInv, TwinInv', TwinNext
                 PROVE  OverCalls([v \in Vessel |-> calls[v].remaining - calls'[v].remaining])
                            <= AvailableCranes
        OBVIOUS
    <2>1. Made(calls)' <= Made(calls) + AvailableCranes
        BY StepIs DEF TwinNext
    <2>2. Made(calls) \in Int /\ AvailableCranes \in Int
        BY MadeIs, TwinAssumption DEF TwinInv, TwinAssumption
    <2>3. Made(calls)' \in Int
        <3>1. FleetIs(calls')
            BY DEF TwinInv, FleetIs
        <3>2. Made(calls') \in Int
            BY <3>1, MadeIs
        <3> QED
            BY <3>2 DEF Made, MovesOf
    <2>4. Made(calls)' - Made(calls) <= AvailableCranes
        BY <2>1, <2>2, <2>3
    <2> QED
        BY <2>4, MovesOfAStep
<1> QED
    BY <1>1, <1>2, <1>3, TwinInvIsPhysical, PTL DEF TwinSpec, TwinIsPhysical, MovesWithinCranes
==================================================================================
