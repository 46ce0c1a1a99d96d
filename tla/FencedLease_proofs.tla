-------------------------- MODULE FencedLease_proofs --------------------------
(***************************************************************************)
(* Theorems about FencedLease, for every set of processes, every set of    *)
(* lifetimes and every bound.                                              *)
(*                                                                         *)
(* The update lock carries the argument: whoever is inside acquire is      *)
(* alone there, so what it read of the lease file is still there when it   *)
(* replaces it, and the number it counts up is the newest.  A process that *)
(* dies inside leaves the lock, which keeps everybody out and the lease as *)
(* it is.                                                                  *)
(***************************************************************************)
EXTENDS FencedLease, TLAPS

\* Whoever is inside acquire has the lock, alone, by a clock that was read already.
Alone ==
    \A p \in Process : step[p] # "idle" =>
        /\ locked
        /\ \A q \in Process : step[q] # "idle" => q = p
        /\ askedAt[p] <= leaseClock

\* Who is about to write has read the lease that is there, and may replace it.
ReadIsCurrent ==
    \A p \in Process : step[p] = "write" =>
        /\ found[p] = lease
        /\ \A t \in lease : t.holderID = p \/ t.expiresAt <= askedAt[p]

\* The lease file has the newest of all tokens, once there is one.
LeaseIsNewest ==
    \/ lease = {} /\ tokens = {}
    \/ \E t \in tokens :
        /\ lease = {t}
        /\ \A s \in tokens : s # t => s.fencingNumber < t.fencingNumber

LeaseInv == LeaseTypeOK /\ Alone /\ ReadIsCurrent /\ LeaseIsNewest /\ NumbersAreUnique

----------------------------------------------------------------------------
\* The number a token gets is larger than that of every token before it.
LEMMA NextIsLarger ==
    ASSUME LeaseTypeOK, LeaseIsNewest
    PROVE  /\ NextNumber(lease) \in Nat
           /\ \A s \in tokens : s.fencingNumber < NextNumber(lease)
<1>1. CASE lease = {} /\ tokens = {}
  BY <1>1 DEF NextNumber
<1>2. ASSUME NEW t \in tokens, lease = {t},
             \A s \in tokens : s # t => s.fencingNumber < t.fencingNumber
      PROVE  /\ NextNumber(lease) \in Nat
             /\ \A s \in tokens : s.fencingNumber < NextNumber(lease)
  <2>1. (CHOOSE u \in lease : TRUE) = t
    BY <1>2
  <2>2. lease # {}
    BY <1>2
  <2>3. NextNumber(lease) = t.fencingNumber + 1
    BY <2>1, <2>2 DEF NextNumber
  <2>4. \A s \in tokens : s.fencingNumber \in Nat
    BY DEF LeaseTypeOK, Token
  <2>5. ASSUME NEW s \in tokens PROVE s.fencingNumber < t.fencingNumber + 1
    <3>1. CASE s = t
      BY <3>1, <2>4
    <3>2. CASE s # t
      BY <3>2, <1>2, <2>4
    <3>3. QED BY <3>1, <3>2
  <2>6. QED BY <2>3, <2>4, <2>5
<1>3. QED BY <1>1, <1>2 DEF LeaseIsNewest

\* A token that is written is well formed, the newest, and the only one of its number.
LEMMA WriteKeeps ==
    ASSUME LeaseInv, NEW p \in Process, NEW ttl \in Ttl, WriteLease(p, ttl)
    PROVE  /\ lease' \in SUBSET Token /\ tokens' \in SUBSET Token
           /\ LeaseIsNewest' /\ NumbersAreUnique'
<1> DEFINE number == NextNumber(found[p])
           token == [leaseID |-> ids + 1, holderID |-> p, fencingNumber |-> number,
                     acquiredAt |-> askedAt[p], expiresAt |-> askedAt[p] + ttl]
<1>1. found[p] = lease
  BY DEF WriteLease, LeaseInv, ReadIsCurrent
<1>2. number \in Nat /\ \A s \in tokens : s.fencingNumber < number
  BY <1>1, NextIsLarger DEF LeaseInv
<1>3. lease' = {token} /\ tokens' = tokens \cup {token}
  BY DEF WriteLease
<1>4. ids \in Nat /\ askedAt[p] \in Nat /\ ttl \in Nat
  BY LeaseAssumption DEF LeaseInv, LeaseTypeOK
<1>5. token \in Token
  BY <1>2, <1>4 DEF Token
<1>6. token.fencingNumber = number
  OBVIOUS
<1> HIDE DEF token
<1>7. lease' \in SUBSET Token /\ tokens' \in SUBSET Token
  BY <1>3, <1>5 DEF LeaseInv, LeaseTypeOK
<1>8. LeaseIsNewest'
  BY <1>2, <1>3, <1>6 DEF LeaseIsNewest
<1>9. NumbersAreUnique'
  <2> SUFFICES ASSUME NEW s \in tokens', NEW t \in tokens',
                      s.fencingNumber = t.fencingNumber
               PROVE  s = t
    BY DEF NumbersAreUnique
  <2>1. \A u \in tokens : u.fencingNumber \in Nat
    BY DEF LeaseInv, LeaseTypeOK, Token
  <2>2. CASE s \in tokens /\ t \in tokens
    BY <2>2 DEF LeaseInv, NumbersAreUnique
  <2>3. CASE s = token \/ t = token
    BY <2>1, <2>3, <1>2, <1>3, <1>6
  <2>4. QED BY <2>2, <2>3, <1>3
<1>10. QED BY <1>7, <1>8, <1>9

\* The invariant is inductive.
LEMMA LeaseInductive == LeaseInv /\ [LeaseNext]_leaseVars => LeaseInv'
<1> SUFFICES ASSUME LeaseInv, [LeaseNext]_leaseVars PROVE LeaseInv'
  OBVIOUS
<1> USE LeaseAssumption DEF LeaseAssumption, LeaseInv
<1>1. CASE UNCHANGED leaseVars
  BY <1>1 DEF leaseVars, LeaseTypeOK, Alone, ReadIsCurrent, LeaseIsNewest, NumbersAreUnique
<1>2. CASE Tick
  <2>1. LeaseTypeOK'
    BY <1>2 DEF Tick, LeaseTypeOK
  <2>2. Alone'
    BY <1>2 DEF Tick, LeaseTypeOK, Alone
  <2>3. QED
    BY <1>2, <2>1, <2>2 DEF Tick, ReadIsCurrent, LeaseIsNewest, NumbersAreUnique
<1>3. ASSUME NEW p \in Process, Lock(p) PROVE LeaseInv'
  <2>1. LeaseTypeOK'
    BY <1>3 DEF Lock, LeaseTypeOK, LeaseStep
  <2>2. Alone'
    BY <1>3 DEF Lock, LeaseTypeOK, Alone
  <2>3. ReadIsCurrent'
    BY <1>3 DEF Lock, LeaseTypeOK, ReadIsCurrent
  <2>4. QED
    BY <1>3, <2>1, <2>2, <2>3 DEF Lock, LeaseIsNewest, NumbersAreUnique
<1>4. ASSUME NEW p \in Process, ReadLease(p) PROVE LeaseInv'
  <2>1. LeaseTypeOK'
    BY <1>4 DEF ReadLease, LeaseTypeOK, LeaseStep
  <2>2. Alone'
    BY <1>4 DEF ReadLease, LeaseTypeOK, Alone
  <2>3. ReadIsCurrent'
    <3> SUFFICES ASSUME NEW q \in Process, step'[q] = "write"
                 PROVE  /\ found'[q] = lease'
                        /\ \A t \in lease' : t.holderID = q \/ t.expiresAt <= askedAt'[q]
      BY DEF ReadIsCurrent
    <3>1. q = p
      BY <1>4 DEF ReadLease, LeaseTypeOK, Alone
    <3>2. ~HeldByOther(p)
      BY <1>4, <3>1 DEF ReadLease, LeaseTypeOK
    <3>3. \A t \in lease : t.expiresAt \in Nat /\ askedAt[p] \in Nat
      BY DEF LeaseTypeOK, Token
    <3>4. QED
      BY <1>4, <3>1, <3>2, <3>3 DEF ReadLease, LeaseTypeOK, HeldByOther
  <2>4. QED
    BY <1>4, <2>1, <2>2, <2>3 DEF ReadLease, LeaseIsNewest, NumbersAreUnique
<1>5. ASSUME NEW p \in Process, NEW ttl \in Ttl, WriteLease(p, ttl) PROVE LeaseInv'
  <2>1. LeaseIsNewest' /\ NumbersAreUnique' /\ lease' \in SUBSET Token /\ tokens' \in SUBSET Token
    BY <1>5, WriteKeeps
  <2>2. LeaseTypeOK'
    BY <1>5, <2>1 DEF WriteLease, LeaseTypeOK, LeaseStep
  <2>3. Alone'
    BY <1>5 DEF WriteLease, LeaseTypeOK, Alone
  <2>4. ReadIsCurrent'
    BY <1>5 DEF WriteLease, LeaseTypeOK, Alone, ReadIsCurrent
  <2>5. QED BY <2>1, <2>2, <2>3, <2>4
<1>6. ASSUME NEW p \in Process, Unlock(p) PROVE LeaseInv'
  <2>1. LeaseTypeOK'
    BY <1>6 DEF Unlock, LeaseTypeOK, LeaseStep
  <2>2. Alone'
    BY <1>6 DEF Unlock, LeaseTypeOK, Alone
  <2>3. ReadIsCurrent'
    BY <1>6 DEF Unlock, LeaseTypeOK, ReadIsCurrent
  <2>4. QED
    BY <1>6, <2>1, <2>2, <2>3 DEF Unlock, LeaseIsNewest, NumbersAreUnique
<1>7. ASSUME NEW p \in Process, HolderDies(p) PROVE LeaseInv'
  <2>1. LeaseTypeOK'
    BY <1>7 DEF HolderDies, LeaseTypeOK, LeaseStep
  <2>2. Alone'
    BY <1>7 DEF HolderDies, LeaseTypeOK, Alone
  <2>3. ReadIsCurrent'
    BY <1>7 DEF HolderDies, LeaseTypeOK, ReadIsCurrent
  <2>4. QED
    BY <1>7, <2>1, <2>2, <2>3 DEF HolderDies, LeaseIsNewest, NumbersAreUnique
<1>8. ASSUME NEW p \in Process, WriteFails(p) PROVE LeaseInv'
  <2>1. LeaseTypeOK'
    BY <1>8 DEF WriteFails, LeaseTypeOK, LeaseStep
  <2>2. Alone'
    BY <1>8 DEF WriteFails, LeaseTypeOK, Alone
  <2>3. ReadIsCurrent'
    BY <1>8 DEF WriteFails, LeaseTypeOK, ReadIsCurrent
  <2>4. QED
    BY <1>8, <2>1, <2>2, <2>3 DEF WriteFails, LeaseIsNewest, NumbersAreUnique
<1>9. QED
  BY <1>1, <1>2, <1>3, <1>4, <1>5, <1>6, <1>7, <1>8 DEF LeaseNext, Acquire

\* The inductive invariant holds: who is inside acquire is alone there and what it read is
\* still so, and the lease file has the newest token.
THEOREM LeaseInvariance == LeaseSpec => []LeaseInv
<1>1. ASSUME LeaseInit PROVE LeaseInv
  <2>1. MaxClock \in Nat /\ MaxTokens \in Nat
    BY LeaseAssumption DEF LeaseAssumption
  <2>2. /\ step \in [Process -> LeaseStep]
        /\ askedAt \in [Process -> Nat]
        /\ found \in [Process -> SUBSET Token]
    BY <1>1 DEF LeaseInit, LeaseStep
  <2>3. LeaseTypeOK
    <3>1. leaseClock \in 0..MaxClock /\ ids \in 0..MaxTokens /\ holderDeaths \in Nat
      BY <1>1, <2>1 DEF LeaseInit
    <3>2. lease \in SUBSET Token /\ tokens \in SUBSET Token
      BY <1>1 DEF LeaseInit
    <3>3. locked \in BOOLEAN
      BY <1>1 DEF LeaseInit
    <3>4. QED BY <2>2, <3>1, <3>2, <3>3 DEF LeaseTypeOK
  <2>4. Alone /\ ReadIsCurrent
    BY <1>1 DEF LeaseInit, Alone, ReadIsCurrent
  <2>5. LeaseIsNewest /\ NumbersAreUnique
    BY <1>1 DEF LeaseInit, LeaseIsNewest, NumbersAreUnique
  <2>6. QED BY <2>3, <2>4, <2>5 DEF LeaseInv
<1>2. QED
  BY <1>1, LeaseInductive, PTL DEF LeaseSpec

\* A resource that remembers the largest fencing number can tell the leader from all before
\* it: numbers are never given twice, and who passes assertCurrent has the largest.
THEOREM Fencing == LeaseSpec => []FencingIsSound
<1>1. LeaseInv => FencingIsSound
  <2> SUFFICES ASSUME LeaseInv PROVE LeaderIsNewest
    BY DEF LeaseInv, FencingIsSound
  <2> SUFFICES ASSUME NEW s \in tokens, NEW t \in tokens, Current(s)
               PROVE  t.fencingNumber <= s.fencingNumber
    BY DEF LeaderIsNewest
  <2>1. PICK c \in tokens : /\ lease = {c}
                            /\ \A u \in tokens : u # c => u.fencingNumber < c.fencingNumber
    BY DEF LeaseInv, LeaseIsNewest
  <2>2. s.fencingNumber = c.fencingNumber
    BY <2>1 DEF Current
  <2>3. t.fencingNumber \in Nat /\ c.fencingNumber \in Nat
    BY DEF LeaseInv, LeaseTypeOK, Token
  <2>4. QED BY <2>1, <2>2, <2>3
<1>2. QED
  BY <1>1, LeaseInvariance, PTL

\* Nobody but its holder replaces a lease before it expires, however the clock, crashes and
\* other acquisitions come between the steps of one.
THEOREM Undisturbed == LeaseSpec => HeldUntilExpiry
<1>1. LeaseInv /\ [LeaseNext]_leaseVars =>
        [\A t \in lease : lease' # lease /\ t.expiresAt > leaseClock =>
            \A c \in lease' : c.holderID = t.holderID]_leaseVars
  <2> SUFFICES ASSUME LeaseInv, LeaseNext, NEW t \in lease, lease' # lease,
                      t.expiresAt > leaseClock, NEW c \in lease'
               PROVE  c.holderID = t.holderID
    OBVIOUS
  <2>1. PICK p \in Process : \E ttl \in Ttl : WriteLease(p, ttl)
    BY DEF LeaseNext, Acquire, Tick, Lock, ReadLease, Unlock, HolderDies, WriteFails
  <2>2. c.holderID = p
    BY <2>1 DEF WriteLease
  <2>3. step[p] = "write"
    BY <2>1 DEF WriteLease
  <2>4. t.holderID = p \/ t.expiresAt <= askedAt[p]
    BY <2>3 DEF LeaseInv, ReadIsCurrent
  <2>5. askedAt[p] <= leaseClock
    BY <2>3 DEF LeaseInv, Alone
  <2>6. t.expiresAt \in Nat /\ askedAt[p] \in Nat /\ leaseClock \in Nat
    BY LeaseAssumption DEF LeaseInv, LeaseTypeOK, Token
  <2>7. QED BY <2>2, <2>4, <2>5, <2>6
<1>2. QED
  BY <1>1, LeaseInvariance, PTL DEF LeaseSpec, HeldUntilExpiry
=============================================================================
