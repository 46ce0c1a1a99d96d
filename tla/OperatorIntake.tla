---------------------------- MODULE OperatorIntake ----------------------------
(***************************************************************************)
(* The intake of signed operator snapshots                                 *)
(* (server/operatorIntegrationGateway.ts): each adapter's source sends     *)
(* numbered envelopes over a network that delays, repeats and reorders     *)
(* them; the gateway keeps the evidence of the newest in a file, and the   *)
(* envelope itself in memory only; what it releases is assembled from the  *)
(* envelopes in memory.                                                    *)
(*                                                                         *)
(* An envelope that does not parse, is not signed with the adapter's key,  *)
(* or does not match the manifest changes nothing and is left out.  A      *)
(* digest is only compared with another under the same id: a payload is    *)
(* the first its source made for that id, or a changed one.                *)
(***************************************************************************)
EXTENDS Naturals, Sequences, FiniteSets, SequencesExt

CONSTANTS
    Adapter, Ais,     \* ais_vessel_feed brings positions, the others terminal fields
    Dynamic,          \* all but intermodal_transfer_feed
    MaxAge,           \* maxAgeSeconds of an adapter
    Skew,             \* maxClockSkewSeconds
    Alignment,        \* MAX_DYNAMIC_ALIGNMENT_SECONDS
    MaxRecent,        \* recent_snapshot_ids kept (100)
    ApprovedAt, ExpiresAt,
    MaxSent, MaxTime, MaxIntakeFaults     \* bounds

ASSUME IntakeAssumption ==
    /\ Ais \in Dynamic /\ Dynamic \subseteq Adapter /\ IsFiniteSet(Adapter)
    /\ Dynamic \ {Ais} # {}
    /\ MaxAge \in [Adapter -> Nat]
    /\ {Skew, Alignment, ApprovedAt, ExpiresAt, MaxSent, MaxTime, MaxIntakeFaults} \subseteq Nat
    /\ MaxRecent \in Nat \ {0}

VARIABLES
    sent,         \* per adapter, the envelopes its source has sent
    evidence,     \* state.adapters
    resident,     \* residentEnvelopes
    file,         \* the state file
    acked,        \* history: the highest sequence answered as accepted and new
    now, faults

intakeVars == <<sent, evidence, resident, file, acked, now, faults>>

Payload == {"first", "changed"}
Envelope == [id: 1..MaxSent, payload: Payload, sequence: 1..MaxSent, observed: Nat]
NoEnvelope == [id |-> 0, payload |-> "first", sequence |-> 0, observed |-> 0]
NoEvidence == [envelope |-> NoEnvelope, recent |-> <<>>]

IntakeTypeOK ==
    /\ sent \in [Adapter -> Seq(Envelope)]
    /\ \A a \in Adapter :
        /\ {evidence[a].envelope, file[a].envelope, resident[a]} \subseteq
                ToSet(sent[a]) \cup {NoEnvelope}
        /\ Len(evidence[a].recent) <= MaxRecent
        /\ \A i, j \in 1..Len(evidence[a].recent) :
            i < j => /\ evidence[a].recent[i].sequence < evidence[a].recent[j].sequence
                     /\ evidence[a].recent[i].id # evidence[a].recent[j].id
        /\ evidence[a] # NoEvidence => Last(evidence[a].recent) = evidence[a].envelope
    /\ acked \in [Adapter -> 0..MaxSent]
    /\ now \in 0..MaxTime /\ faults \in 0..MaxIntakeFaults

IntakeInit ==
    /\ sent = [a \in Adapter |-> <<>>]
    /\ evidence = [a \in Adapter |-> NoEvidence]
    /\ resident = [a \in Adapter |-> NoEnvelope]
    /\ file = [a \in Adapter |-> NoEvidence]
    /\ acked = [a \in Adapter |-> 0]
    /\ now = 0 /\ faults = 0

----------------------------------------------------------------------------
\* The source: a new snapshot, or an id again with the same or a changed payload (a source
\* that was restarted), under the next sequence; its clock may be ahead.  A sequence that falls
\* back is what the network makes of two envelopes when it turns their order.
Emit(a, id, payload, observed) ==
    /\ Len(sent[a]) < MaxSent
    /\ payload = "changed" => \E e \in ToSet(sent[a]) : e.id = id
    /\ sent' = [sent EXCEPT ![a] = Append(@,
            [id |-> id, payload |-> payload, sequence |-> Len(@) + 1, observed |-> observed])]
    /\ UNCHANGED <<evidence, resident, file, acked, now, faults>>

\* assessOperatorSourceManifest() at this moment, for a manifest that is complete.
AuthorizationReady == ApprovedAt <= now /\ now < ExpiresAt

Age(observed) == IF observed > now THEN 0 ELSE now - observed

\* The errors that need the clock.
Timely(a, e) ==
    /\ AuthorizationReady
    /\ e.observed <= now + Skew
    /\ Age(e.observed) <= MaxAge[a]

\* recent_snapshot_ids[id] is in the window of the newest accepted ids, with the payload the
\* id was accepted with.
Known(a, e) == {r \in ToSet(evidence[a].recent) : r.id = e.id}

\* An id again with the payload the window has for it: the envelope goes into memory, also
\* when the snapshot is not the newest, whatever its sequence and its time of observation.
\* The evidence stays that of the envelope which was accepted.  With another payload it is
\* refused (snapshot_id_digest_conflict).
Replay(a, e) ==
    /\ Timely(a, e)
    /\ \E r \in Known(a, e) : r.payload = e.payload
    /\ resident' = [resident EXCEPT ![a] = e]
    /\ UNCHANGED <<sent, evidence, file, acked, now, faults>>

\* Object.entries(recent).slice(-100)
Newest(s) == SubSeq(s, IF Len(s) > MaxRecent THEN Len(s) - MaxRecent + 1 ELSE 1, Len(s))

\* Mutation: the envelope is not kept in memory.
AcceptEvidenceOnly(a, e, saved) ==
    /\ Timely(a, e)
    /\ Known(a, e) = {} /\ e.sequence > evidence[a].envelope.sequence
    /\ evidence' = [evidence EXCEPT ![a] =
            [envelope |-> e, recent |-> Newest(Append(@.recent, e))]]
    /\ file' = evidence' /\ faults' = faults
    /\ acked' = [acked EXCEPT ![a] = e.sequence]
    /\ UNCHANGED <<sent, now, resident>>

\* A new snapshot with a greater sequence.  persistState() writes all adapters' evidence and
\* renames; when it throws, memory keeps what the client is told has failed.
Accept(a, e, saved) ==
    /\ Timely(a, e)
    /\ Known(a, e) = {} /\ e.sequence > evidence[a].envelope.sequence
    /\ evidence' = [evidence EXCEPT ![a] =
            [envelope |-> e, recent |-> Newest(Append(@.recent, e))]]
    /\ resident' = [resident EXCEPT ![a] = e]
    /\ IF saved
       THEN file' = evidence' /\ acked' = [acked EXCEPT ![a] = e.sequence] /\ UNCHANGED faults
       ELSE faults < MaxIntakeFaults /\ faults' = faults + 1 /\ UNCHANGED <<file, acked>>
    /\ UNCHANGED <<sent, now>>

\* loadState() in the constructor: the payloads are gone.
RestartIntake ==
    /\ faults < MaxIntakeFaults
    /\ faults' = faults + 1
    /\ evidence' = file
    /\ resident' = [a \in Adapter |-> NoEnvelope]
    /\ UNCHANGED <<sent, file, acked, now>>

TickIntake ==
    /\ now < MaxTime
    /\ now' = now + 1
    /\ UNCHANGED <<sent, evidence, resident, file, acked, faults>>

IntakeNext ==
    \/ \E a \in Adapter :
        \/ \E id \in 1..Len(sent[a]) + 1, payload \in Payload, ahead \in {0, Skew + 1} :
            Emit(a, id, payload, now + ahead)
        \/ \E e \in ToSet(sent[a]) :
            Replay(a, e) \/ \E saved \in BOOLEAN : Accept(a, e, saved)
    \/ RestartIntake \/ TickIntake


IntakeSpec == IntakeInit /\ [][IntakeNext]_intakeVars

----------------------------------------------------------------------------
\* status()

Fresh(a) == evidence[a] # NoEvidence /\ Age(evidence[a].envelope.observed) <= MaxAge[a]

AdapterReady(a) ==
    /\ Fresh(a)
    /\ resident[a].id = evidence[a].envelope.id
    /\ resident[a].payload = evidence[a].envelope.payload

ShadowReady ==
    /\ AuthorizationReady
    /\ \A a \in Adapter : AdapterReady(a)
    /\ \A a, b \in Dynamic :
        evidence[a].envelope.observed <= evidence[b].envelope.observed + Alignment

\* One record of every field, only when every gate is open.
ShadowSnapshot ==
    [released |-> ShadowReady,
     terminal |-> [a \in Adapter \ {Ais} |-> resident[a]],
     vessels |-> resident[Ais],
     timestamp |-> Max({resident[a].observed : a \in Adapter \ {Ais}})]

----------------------------------------------------------------------------
\* What shadowSnapshot() releases is one cut of what was accepted: of every adapter the payload
\* of the newest envelope the window knows, accepted no earlier than anything answered as new
\* and still fresh by its own time of observation, those of the dynamic adapters within the
\* alignment of one another; however the network repeated or reordered envelopes, and whatever
\* was lost in a restart.  Only payloads are in one cut: the sequence and the time shown beside
\* them are those of the envelope in memory, a repeat that nothing compared with the evidence,
\* of which it holds only that the time is not ahead of the clock by more than the skew.
ReleasesOneCut ==
    ShadowSnapshot.released =>
        LET Part(a) == IF a = Ais THEN ShadowSnapshot.vessels ELSE ShadowSnapshot.terminal[a]
            Brought(a) == {r \in Known(a, Part(a)) : r.payload = Part(a).payload}
        IN  /\ \A a \in Adapter : \E r \in Brought(a) :
                /\ \A q \in ToSet(evidence[a].recent) : q.sequence <= r.sequence
                /\ acked[a] <= r.sequence
                /\ Age(r.observed) <= MaxAge[a]
            /\ \A a, b \in Dynamic : \A r \in Brought(a), q \in Brought(b) :
                r.observed <= q.observed + Alignment
            /\ ShadowSnapshot.timestamp <= now + Skew

\* A sequence that was answered as accepted and new is never so accepted again, also after
\* a restart between failed writes of the state file.
AckedIsRemembered ==
    \A a \in Adapter : /\ acked[a] <= file[a].envelope.sequence
                       /\ acked[a] <= evidence[a].envelope.sequence

\* A ready feed stops being ready only with time, with a restart, or when a snapshot accepted
\* before the newest is repeated.
FeedStaysReady ==
    [][\A a \in Adapter : AdapterReady(a) /\ ~AdapterReady(a)' =>
            \/ now' > now
            \/ resident'[a] = NoEnvelope
            \/ \E r \in Known(a, resident'[a]) : /\ r.payload = resident'[a].payload
                                                 /\ r.sequence < evidence[a].envelope.sequence
      ]_intakeVars

\* Shadow mode shows what the operator sent: one cut, nothing acknowledged forgotten, and no
\* repeat or overtaken envelope makes a ready feed unready.
ShadowIsTrustworthy ==
    [](IntakeTypeOK /\ ReleasesOneCut /\ AckedIsRemembered) /\ FeedStaysReady
=============================================================================
