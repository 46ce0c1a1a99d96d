----------------------------- MODULE PortCommunity -----------------------------
(***************************************************************************)
(* The port community gateway (server/portCommunityGateway.ts): partners   *)
(* send signed messages over a network that delays, repeats and reorders   *)
(* them; clearance decisions replace one another by effective time; every  *)
(* accepted message is chained into an audit hash.  All of it is in memory *)
(* (a hash of a chain stands for the chain).                               *)
(*                                                                         *)
(* Partners are honest and registered: a message that does not parse or is *)
(* not signed, authorised or addressed properly changes nothing and is     *)
(* left out, and so is the answer to a repeated or refused one.            *)
(***************************************************************************)
EXTENDS Naturals, Sequences, FiniteSets, SequencesExt

CONSTANTS
    Call,                  \* port calls
    ClearanceType,         \* each with its one authority
    MaxMessageAge,         \* maximumMessageAgeSeconds
    Future,                \* the 30 s a sender's clock may be ahead
    MaxMail, MaxCommunityTime, MaxCommunityRestarts     \* bounds

ASSUME CommunityAssumption ==
    /\ IsFiniteSet(Call) /\ IsFiniteSet(ClearanceType)
    /\ {MaxMessageAge, Future, MaxMail, MaxCommunityTime, MaxCommunityRestarts} \subseteq Nat

VARIABLES
    mail,             \* everything the partners have sent
    messages,         \* ids of the accepted messages
    idempotency,      \* <<sender, key>> of the accepted messages
    clearances,       \* the standing decision, or NoDecision, per call and type
    audit,            \* the chain behind auditHead
    communityNow, communityRestarts

communityVars ==
    <<mail, messages, idempotency, clearances, audit, communityNow, communityRestarts>>

Status == {"GRANTED", "REVOKED"}     \* and PENDING, REJECTED: all that is not GRANTED
NoDecision == [status |-> "none", effectiveAt |-> 0]

\* A clearance decision, or (clearance FALSE) a port call event or an acknowledgement, whose
\* payload is checked and kept but decides nothing.
Message ==
    [id: 1..MaxMail, key: 1..MaxMail, sender: ClearanceType, sentAt: Nat, call: Call,
     clearance: BOOLEAN, status: Status, effectiveAt: Nat]

Decision(m) == [status |-> m.status, effectiveAt |-> m.effectiveAt]

CommunityTypeOK ==
    /\ mail \subseteq Message
    /\ messages \subseteq {m.id : m \in mail}
    /\ idempotency \subseteq ClearanceType \X (1..MaxMail)
    /\ clearances \in [Call \X ClearanceType -> {NoDecision} \cup {Decision(m) : m \in mail}]
    /\ audit \in Seq(mail) /\ Len(audit) = Cardinality(messages)
    /\ communityNow \in 0..MaxCommunityTime
    /\ communityRestarts \in 0..MaxCommunityRestarts

CommunityInit ==
    /\ mail = {} /\ messages = {} /\ idempotency = {} /\ audit = <<>>
    /\ clearances = [k \in Call \X ClearanceType |-> NoDecision]
    /\ communityNow = 0 /\ communityRestarts = 0

----------------------------------------------------------------------------
\* A partner sends a new message, with a key of its own or (a resend) one it has used, by a
\* clock that may be ahead.
Send(m) ==
    /\ m.id = Cardinality(mail) + 1
    /\ m.key = m.id \/ \E n \in mail : n.sender = m.sender /\ n.key = m.key
    /\ m.sentAt \in {communityNow, communityNow + Future + 1}
    /\ mail' = mail \cup {m}
    /\ UNCHANGED <<messages, idempotency, clearances, audit, communityNow, communityRestarts>>

Admissible(m) ==
    /\ m.sentAt <= communityNow + Future
    /\ communityNow <= m.sentAt + MaxMessageAge
    /\ m.id \notin messages
    /\ <<m.sender, m.key>> \notin idempotency

\* Mutation: the newest to arrive stands.
SupersedesAny(m) == TRUE

\* clearance_effective_time_not_increasing
Supersedes(m) ==
    LET previous == clearances[<<m.call, m.sender>>]
    IN  previous = NoDecision \/ m.effectiveAt > previous.effectiveAt

\* ingest() of a message that is accepted.
Ingest(m) ==
    /\ Admissible(m)
    /\ m.clearance => Supersedes(m)
    /\ clearances' = IF m.clearance
                     THEN [clearances EXCEPT ![<<m.call, m.sender>>] = Decision(m)] ELSE clearances
    /\ audit' = Append(audit, m)
    /\ messages' = messages \cup {m.id}
    /\ idempotency' = idempotency \cup {<<m.sender, m.key>>}
    /\ UNCHANGED <<mail, communityNow, communityRestarts>>

\* A new process: nothing is persisted.
RestartCommunity ==
    /\ communityRestarts < MaxCommunityRestarts
    /\ communityRestarts' = communityRestarts + 1
    /\ messages' = {} /\ idempotency' = {} /\ audit' = <<>>
    /\ clearances' = [k \in Call \X ClearanceType |-> NoDecision]
    /\ UNCHANGED <<mail, communityNow>>

TickCommunity ==
    /\ communityNow < MaxCommunityTime
    /\ communityNow' = communityNow + 1
    /\ UNCHANGED <<mail, messages, idempotency, clearances, audit, communityRestarts>>

\* A decision takes effect when it is sent or one tick later.
CommunityNext ==
    \/ \E key \in 1..MaxMail, sender \in ClearanceType, call \in Call, status \in Status,
          decides \in BOOLEAN, delay \in 0..1, ahead \in {0, Future + 1} :
        /\ Cardinality(mail) < MaxMail
        /\ ~decides => delay = 0 /\ status = "GRANTED"
        /\ Send([id |-> Cardinality(mail) + 1, key |-> key, sender |-> sender,
                 sentAt |-> communityNow + ahead, call |-> call, clearance |-> decides,
                 status |-> status, effectiveAt |-> communityNow + delay])
    \/ \E m \in mail : Ingest(m)
    \/ RestartCommunity \/ TickCommunity

CommunitySpec == CommunityInit /\ [][CommunityNext]_communityVars

----------------------------------------------------------------------------
\* However the network reordered them, the decision that stands is the accepted one that
\* takes effect last, so a late grant never undoes a revocation (since the last restart:
\* nothing survives one).
LaterDecisionStands ==
    \A i \in DOMAIN audit : audit[i].clearance =>
        LET m == audit[i]
            standing == clearances[<<m.call, m.sender>>]
        IN  /\ standing.effectiveAt >= m.effectiveAt
            /\ standing.effectiveAt = m.effectiveAt => standing = Decision(m)

\* The audit chain has every accepted message once and in an order that explains what
\* stands: no sender's key twice, and every standing decision in it.
AuditIsExact ==
    /\ ToSet(audit) = {m \in mail : m.id \in messages}
    /\ \A i, j \in DOMAIN audit :
        i # j => <<audit[i].sender, audit[i].key>> # <<audit[j].sender, audit[j].key>>
    /\ \A k \in Call \X ClearanceType : clearances[k] # NoDecision =>
        \E m \in ToSet(audit) :
            m.clearance /\ <<m.call, m.sender>> = k /\ clearances[k] = Decision(m)

\* Every standing clearance is the latest decision, and the audit chain explains it.
ClearancesAreExplained == CommunityTypeOK /\ LaterDecisionStands /\ AuditIsExact
=============================================================================
