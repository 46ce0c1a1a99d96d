------------------------- MODULE DurableStateStore -------------------------
(***************************************************************************)
(* DurableStateStore (server/reliableStateStore.ts): one state file, the   *)
(* copy of the generation before it, and a hash-chained journal.           *)
(*                                                                         *)
(* A commit is synchronous, but every file operation in it is a step that  *)
(* a crash, and the commit of another process on the same directory, can   *)
(* come before or after.                                                   *)
(*                                                                         *)
(* Digests are injective: the envelope of generation n contains the digest *)
(* of generation n-1, so an envelope is the sequence of the n payloads it  *)
(* was built from, and a journal line, which contains the hash of the line *)
(* before it, is the sequence of the envelopes it testifies to.            *)
(***************************************************************************)
EXTENDS Naturals, Sequences, SequencesExt

CONSTANTS
    Client,         \* callers of commit
    Payload,
    Absent,         \* a file that does not exist
    Torn,           \* content no check accepts
    OneProcess,     \* TRUE when all clients live in one event loop
    MaxGeneration,  \* bound: generations
    MaxCrashes,     \* bound: crashes and power losses
    MaxFileDamage   \* bound: files damaged on the disk

StateEnvelope == UNION {[1..n -> Payload] : n \in 1..MaxGeneration}

ASSUME StoreAssumption ==
    /\ OneProcess \in BOOLEAN
    /\ {MaxGeneration, MaxCrashes, MaxFileDamage} \subseteq Nat
    /\ Absent # Torn /\ Absent \notin StateEnvelope /\ Torn \notin StateEnvelope

VARIABLES
    primary,     \* state.json
    previous,    \* state.previous.json
    journal,     \* the lines of journal.jsonl
    terminated,  \* journal.jsonl is empty or ends with a newline
    at,          \* next step of a client's commit, "idle" outside commit
    seen,        \* the state a client read before, whose generation it expects
    base,        \* the state a commit loaded
    payload,     \* the payload of a commit
    head,        \* the journal head a commit verified
    acked, \* auxiliary: envelopes commit has returned
    crashes, damage

commitVars == <<seen, base, payload, head>>
storeVars == <<primary, previous, journal, terminated, at, commitVars, acked, crashes, damage>>

File == StateEnvelope \cup {Absent, Torn}
CommitStep == {"idle", "journal", "copy", "copying", "write", "append"}

StoreTypeOK ==
    /\ {primary, previous} \subseteq File
    /\ \A i \in 1..Len(journal) : journal[i] = Torn \/ journal[i] \in Seq(StateEnvelope)
    /\ terminated \in BOOLEAN
    /\ at \in [Client -> CommitStep]
    /\ \A c \in Client : {seen[c], base[c]} \subseteq StateEnvelope \cup {<<>>}
    /\ payload \in [Client -> Payload]
    /\ \A c \in Client : head[c] \in Seq(StateEnvelope)
    /\ acked \subseteq StateEnvelope
    /\ crashes \in 0..MaxCrashes
    /\ damage \in 0..MaxFileDamage

StoreInit ==
    /\ primary = Absent
    /\ previous = Absent
    /\ journal = <<>>
    /\ terminated = TRUE
    /\ at = [c \in Client |-> "idle"]
    /\ seen = [c \in Client |-> <<>>]
    /\ base = [c \in Client |-> <<>>]
    /\ payload \in {[c \in Client |-> v] : v \in Payload}
    /\ head = [c \in Client |-> <<>>]
    /\ acked = {}
    /\ crashes = 0
    /\ damage = 0

----------------------------------------------------------------------------
Readable(file) == file \notin {Absent, Torn}

\* Mutation: the generations are tried in the wrong order.
LoadPreviousFirst == IF Readable(previous) THEN previous
                     ELSE IF Readable(primary) THEN primary ELSE <<>>

\* load: the primary, else the previous generation, else nothing (generation 0).
Load == IF Readable(primary) THEN primary
        ELSE IF Readable(previous) THEN previous ELSE <<>>

RecoveryErrors == primary = Torn \/ (primary = Absent /\ previous = Torn)

\* verifyJournal: every line parses, carries its number and extends the last.
Verified ==
    \A i \in 1..Len(journal) :
        /\ journal[i] # Torn
        /\ Len(journal[i]) = i
        /\ i > 1 => Front(journal[i]) = journal[i - 1]

JournalHead == IF journal = <<>> THEN <<>> ELSE Last(journal)

Quiet == \A c \in Client : at[c] = "idle"

\* In one event loop a synchronous commit is alone.
MayRun(c) == OneProcess => \A d \in Client \ {c} : at[d] = "idle"

New(c) == Append(base[c], payload[c])

----------------------------------------------------------------------------
\* A client reads the state it will base its next commit on.
Read(c) ==
    /\ at[c] = "idle" /\ MayRun(c)
    /\ seen[c] # Load
    /\ seen' = [seen EXCEPT ![c] = Load]
    /\ UNCHANGED <<primary, previous, journal, terminated, at, base, payload,
                   head, acked, crashes, damage>>

\* Mutation: a fallback is committed over.
LoadFallback(c, v) ==
    /\ at[c] = "idle" /\ MayRun(c)
    /\ Len(seen[c]) = Len(Load)
    /\ Len(Load) < MaxGeneration
    /\ base' = [base EXCEPT ![c] = Load]
    /\ payload' = [payload EXCEPT ![c] = v]
    /\ at' = [at EXCEPT ![c] = "journal"]
    /\ UNCHANGED <<primary, previous, journal, terminated, seen, head, acked, crashes, damage>>

\* commit, up to the generation check: it compares generations, not states.
LoadState(c, v) ==
    /\ at[c] = "idle" /\ MayRun(c)
    /\ ~RecoveryErrors
    /\ Len(seen[c]) = Len(Load)
    /\ Len(Load) < MaxGeneration
    /\ base' = [base EXCEPT ![c] = Load]
    /\ payload' = [payload EXCEPT ![c] = v]
    /\ at' = [at EXCEPT ![c] = "journal"]
    /\ UNCHANGED <<primary, previous, journal, terminated, seen, head, acked, crashes, damage>>

LoadJournal(c) ==
    /\ at[c] = "journal"
    /\ at' = [at EXCEPT ![c] = IF Verified THEN "copy" ELSE "idle"]
    /\ head' = [head EXCEPT ![c] = IF Verified THEN JournalHead ELSE @]
    /\ UNCHANGED <<primary, previous, journal, terminated, seen, base, payload,
                   acked, crashes, damage>>

\* copyFileSync truncates its target before it fills it.
OpenPrevious(c) ==
    /\ at[c] = "copy"
    /\ IF primary = Absent
       THEN at' = [at EXCEPT ![c] = "write"] /\ UNCHANGED previous
       ELSE at' = [at EXCEPT ![c] = "copying"] /\ previous' = Torn
    /\ UNCHANGED <<primary, journal, terminated, commitVars, acked, crashes, damage>>

\* Mutation: the primary is moved, not copied.
MovePrevious(c) ==
    /\ at[c] = "copying"
    /\ previous' = primary
    /\ primary' = Absent
    /\ at' = [at EXCEPT ![c] = "write"]
    /\ UNCHANGED <<journal, terminated, commitVars, acked, crashes, damage>>

CopyPrevious(c) ==
    /\ at[c] = "copying"
    /\ previous' = primary
    /\ at' = [at EXCEPT ![c] = "write"]
    /\ UNCHANGED <<primary, journal, terminated, commitVars, acked, crashes, damage>>

\* atomicWrite: what comes before its rename touches a file of its own.
ReplacePrimary(c) ==
    /\ at[c] = "write"
    /\ primary' = New(c)
    /\ at' = [at EXCEPT ![c] = "append"]
    /\ UNCHANGED <<previous, journal, terminated, commitVars, acked, crashes, damage>>

\* A line appended to a line without its newline spoils it.
WithLine(line) ==
    IF terminated THEN Append(journal, line) ELSE Append(Front(journal), Torn)

AppendJournal(c) ==
    /\ at[c] = "append"
    /\ journal' = WithLine(Append(head[c], New(c)))
    /\ terminated' = TRUE
    /\ acked' = acked \cup {New(c)}
    /\ at' = [at EXCEPT ![c] = "idle"]
    /\ UNCHANGED <<primary, previous, commitVars, crashes, damage>>

Commit(c) ==
    \/ \E v \in Payload : LoadState(c, v)
    \/ LoadJournal(c)
    \/ OpenPrevious(c)
    \/ CopyPrevious(c)
    \/ ReplacePrimary(c)
    \/ AppendJournal(c)

----------------------------------------------------------------------------
\* The process of a commit dies; a journal line it was writing may be missing,
\* cut, or complete but for its newline.
Crash(c) ==
    /\ crashes < MaxCrashes
    /\ crashes' = crashes + 1
    /\ at[c] # "idle"
    /\ at' = [at EXCEPT ![c] = "idle"]
    /\ \/ UNCHANGED <<journal, terminated>>
       \/ /\ at[c] = "append"
          /\ terminated' = FALSE
          /\ \E line \in {Torn, Append(head[c], New(c))} : journal' = WithLine(line)
    /\ UNCHANGED <<primary, previous, commitVars, acked, damage>>

\* The machine dies: the copy in previousFile was never synchronised.
PowerLoss ==
    /\ crashes < MaxCrashes
    /\ crashes' = crashes + 1
    /\ at' = [c \in Client |-> "idle"]
    /\ previous # Absent
    /\ previous' = Torn
    /\ UNCHANGED <<primary, journal, terminated, commitVars, acked, damage>>

DamageFile ==
    /\ damage < MaxFileDamage
    /\ damage' = damage + 1
    /\ \/ Readable(primary) /\ primary' = Torn /\ UNCHANGED previous
       \/ Readable(previous) /\ previous' = Torn /\ UNCHANGED primary
    /\ UNCHANGED <<journal, terminated, at, commitVars, acked, crashes>>

StoreNext ==
    \/ \E c \in Client : Read(c) \/ Commit(c) \/ Crash(c)
    \/ PowerLoss
    \/ DamageFile

StoreSpec == StoreInit /\ [][StoreNext]_storeVars

----------------------------------------------------------------------------
\* Crashes and power losses at any step lose no commit that was acknowledged:
\* what load returns was built on it, while the disk itself is sound.
AckedSurvives == damage = 0 => \A e \in acked : IsPrefix(e, Load)

\* While the journal verifies, it testifies to states that load's state was
\* built from, in the order they were committed, also after a crash between the
\* rename and the append.
JournalTestifies ==
    Verified /\ damage = 0 =>
        \A i \in 1..Len(journal) :
            /\ IsPrefix(Last(journal[i]), Load)
            /\ i > 1 => IsStrictPrefix(Last(journal[i - 1]), Last(journal[i]))

\* The generation check is enough to recognise the state: a commit of one event
\* loop is built on the very state its caller read.
BuiltOnWhatWasRead == \A c \in Client : at[c] # "idle" => base[c] = seen[c]

\* One damaged file costs at most the last generation, unless a power loss took
\* the other one.
FallsBackOneGeneration ==
    Quiet /\ crashes = 0 /\ damage <= 1 => \A e \in acked : IsPrefix(Front(e), Load)

\* What a crash, a power loss or one damaged file can cost.
LosesNothing == StoreTypeOK /\ AckedSurvives /\ BuiltOnWhatWasRead /\ FallsBackOneGeneration

\* What the store acknowledged is recovered after any crash, and its journal tells the
\* generations in their order and nothing that was not saved.
StoreKeepsItsWord == LosesNothing /\ JournalTestifies

\* A fallback is never committed over: a state that replaces the primary was
\* built on everything acknowledged, so no generation number is used twice.
NothingAckedIsReplaced ==
    [][primary' # primary /\ Readable(primary') =>
          \A e \in acked : IsPrefix(e, primary')]_storeVars

----------------------------------------------------------------------------
\* What docs/RELIABILITY_AND_DISASTER_RECOVERY.md says of the store, and the
\* code does not keep.

\* Every commit is in the journal.
EveryCommitIsJournaled ==
    Quiet /\ Verified => \A n \in 1..Len(Load) :
        \E i \in 1..Len(journal) : Last(journal[i]) = SubSeq(Load, 1, n)

\* The generation check keeps an old read from overwriting a new state: two
\* acknowledged states are never rivals.
NoRivals == \A e, f \in acked : IsPrefix(e, f) \/ IsPrefix(f, e)
=============================================================================
