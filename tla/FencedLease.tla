---------------------------- MODULE FencedLease ----------------------------
(***************************************************************************)
(* FileFencedLease (server/reliableStateStore.ts): processes of one host   *)
(* take turns as leader through a lease file, replaced under an update     *)
(* lock that is a file created exclusively.                                *)
(*                                                                         *)
(* An acquisition is a sequence of file operations that other processes    *)
(* and crashes come between; the clock moves between any two of them.      *)
(*                                                                         *)
(* leaseID is a fresh UUID: here the number of tokens made so far.         *)
(***************************************************************************)
EXTENDS Naturals

CONSTANTS
    Process,     \* holders, one lease object each
    Ttl,         \* ttlSeconds a holder may ask for
    MaxClock,    \* bound: the clock
    MaxTokens,   \* bound: tokens made
    MaxHolderDeaths \* bound: crashes and write errors in the middle of an acquisition

ASSUME LeaseAssumption ==
    /\ Ttl \subseteq Nat \ {0}
    /\ {MaxClock, MaxTokens, MaxHolderDeaths} \subseteq Nat

VARIABLES
    leaseClock,
    lease,    \* leader-lease.json: at most one token
    locked,   \* leader-lease.update.lock exists
    step,     \* next step of a process in acquire, "idle" outside
    askedAt,  \* the instant an acquisition read before it read the lease
    found,    \* the token an acquisition read, at most one
    ids,      \* UUIDs drawn so far
    tokens,   \* auxiliary: every token ever written
    holderDeaths

leaseVars == <<leaseClock, lease, locked, step, askedAt, found, ids, tokens, holderDeaths>>

Token == [leaseID: Nat, holderID: Process, fencingNumber: Nat,
          acquiredAt: Nat, expiresAt: Nat]
LeaseStep == {"idle", "read", "write", "unlock"}

LeaseTypeOK ==
    /\ leaseClock \in 0..MaxClock
    /\ lease \in SUBSET Token
    /\ locked \in BOOLEAN
    /\ step \in [Process -> LeaseStep]
    /\ askedAt \in [Process -> Nat]
    /\ found \in [Process -> SUBSET Token]
    /\ ids \in 0..MaxTokens
    /\ tokens \in SUBSET Token
    /\ holderDeaths \in Nat

LeaseInit ==
    /\ leaseClock = 0
    /\ lease = {}
    /\ locked = FALSE
    /\ step = [p \in Process |-> "idle"]
    /\ askedAt = [p \in Process |-> 0]
    /\ found = [p \in Process |-> {}]
    /\ ids = 0
    /\ tokens = {}
    /\ holderDeaths = 0

----------------------------------------------------------------------------
Tick ==
    /\ leaseClock < MaxClock
    /\ leaseClock' = leaseClock + 1
    /\ UNCHANGED <<lease, locked, step, askedAt, found, ids, tokens, holderDeaths>>

\* Mutation: the lock file is opened, not created exclusively.
LockShared(p) ==
    /\ step[p] = "idle"
    /\ locked' = TRUE
    /\ askedAt' = [askedAt EXCEPT ![p] = leaseClock]
    /\ step' = [step EXCEPT ![p] = "read"]
    /\ UNCHANGED <<leaseClock, lease, found, ids, tokens, holderDeaths>>

\* openSync(updateLockFile, 'wx') succeeds for one process and throws for the
\* others; then the clock is read.
Lock(p) ==
    /\ step[p] = "idle"
    /\ ~locked
    /\ locked' = TRUE
    /\ askedAt' = [askedAt EXCEPT ![p] = leaseClock]
    /\ step' = [step EXCEPT ![p] = "read"]
    /\ UNCHANGED <<leaseClock, lease, found, ids, tokens, holderDeaths>>

\* Mutation: nobody's lease is in the way.
HeldByNobody(p) == FALSE

\* A lease somebody else holds sends the acquisition to its finally block.
HeldByOther(p) == \E t \in lease : t.expiresAt > askedAt[p] /\ t.holderID # p

ReadLease(p) ==
    /\ step[p] = "read"
    /\ found' = [found EXCEPT ![p] = lease]
    /\ step' = [step EXCEPT ![p] = IF HeldByOther(p) THEN "unlock" ELSE "write"]
    /\ UNCHANGED <<leaseClock, lease, locked, askedAt, ids, tokens, holderDeaths>>

NextNumber(older) == IF older = {} THEN 1 ELSE (CHOOSE t \in older : TRUE).fencingNumber + 1

WriteLease(p, ttl) ==
    /\ step[p] = "write"
    /\ ids < MaxTokens
    /\ ids' = ids + 1
    /\ LET token == [leaseID |-> ids + 1, holderID |-> p,
                     fencingNumber |-> NextNumber(found[p]),
                     acquiredAt |-> askedAt[p], expiresAt |-> askedAt[p] + ttl]
       IN  /\ lease' = {token}
           /\ tokens' = tokens \cup {token}
    /\ step' = [step EXCEPT ![p] = "unlock"]
    /\ UNCHANGED <<leaseClock, locked, askedAt, found, holderDeaths>>

Unlock(p) ==
    /\ step[p] = "unlock"
    /\ locked' = FALSE
    /\ step' = [step EXCEPT ![p] = "idle"]
    /\ UNCHANGED <<leaseClock, lease, askedAt, found, ids, tokens, holderDeaths>>

\* The process dies inside acquire: its update lock stays.
HolderDies(p) ==
    /\ holderDeaths < MaxHolderDeaths
    /\ step[p] # "idle"
    /\ holderDeaths' = holderDeaths + 1
    /\ step' = [step EXCEPT ![p] = "idle"]
    /\ UNCHANGED <<leaseClock, lease, locked, askedAt, found, ids, tokens>>

\* Writing the lease fails before the rename: acquire throws through its finally
\* block.
WriteFails(p) ==
    /\ holderDeaths < MaxHolderDeaths
    /\ step[p] = "write"
    /\ holderDeaths' = holderDeaths + 1
    /\ step' = [step EXCEPT ![p] = "unlock"]
    /\ UNCHANGED <<leaseClock, lease, locked, askedAt, found, ids, tokens>>

Acquire(p) ==
    \/ Lock(p)
    \/ ReadLease(p)
    \/ \E ttl \in Ttl : WriteLease(p, ttl)
    \/ Unlock(p)

LeaseNext ==
    \/ Tick
    \/ \E p \in Process : Acquire(p) \/ HolderDies(p) \/ WriteFails(p)

LeaseSpec == LeaseInit /\ [][LeaseNext]_leaseVars

\* The processes keep calling acquire, an acquisition once begun goes on unless
\* it dies, and the clock goes on.
LeaseFairness ==
    /\ WF_leaseVars(Tick)
    /\ \A p \in Process : WF_leaseVars(Acquire(p))

LeaseFairSpec == LeaseSpec /\ LeaseFairness

----------------------------------------------------------------------------
\* assertCurrent: the token a leader presents is the one in the lease file and
\* has not expired.
Current(t) ==
    \E c \in lease : /\ c.leaseID = t.leaseID
                     /\ c.fencingNumber = t.fencingNumber
                     /\ c.expiresAt > leaseClock

\* Whoever passes the check holds the largest number ever handed out, so the
\* leader of the moment is never refused for the sake of an older one.
LeaderIsNewest == \A s, t \in tokens : Current(s) => t.fencingNumber <= s.fencingNumber

\* Fencing numbers are never handed out twice, also when acquisitions overlap or
\* die half way, so a resource that remembers the largest number it saw can
\* refuse every older leader.
NumbersAreUnique == \A s, t \in tokens : s.fencingNumber = t.fencingNumber => s = t

\* A resource that remembers the largest number can tell the leader from all before it.
FencingIsSound == LeaseTypeOK /\ LeaderIsNewest /\ NumbersAreUnique

\* Nobody but its holder replaces a lease before it expires.
HeldUntilExpiry ==
    [][\A t \in lease : lease' # lease /\ t.expiresAt > leaseClock =>
          \A c \in lease' : c.holderID = t.holderID]_leaseVars

\* Somebody leads; and the only excuse for nobody leading, an update lock whose owner died.
Led == \E t \in lease : t.expiresAt > leaseClock
LockLeftBehind == holderDeaths > 0 /\ locked /\ \A p \in Process : step[p] = "idle"

----------------------------------------------------------------------------
\* What docs/RELIABILITY_AND_DISASTER_RECOVERY.md says of the lease, and the code
\* does not keep.

\* The lease of a dead primary expires and a standby takes over.
StandbyTakesOver == ~Led ~> Led \/ ids = MaxTokens
=============================================================================
