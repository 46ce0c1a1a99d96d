----------------------------- MODULE ReleaseGates -----------------------------
(***************************************************************************)
(* The two gates in front of production: evaluateProductionRelease         *)
(* (server/productionAuthorityGate.ts) over a decision, its approvals and  *)
(* an interlock receipt, and evaluateSiteAcceptance                        *)
(* (server/siteAcceptanceGate.ts) over the evidence of a site and its      *)
(* signoffs.  Both are functions of the bundle they are handed and of the  *)
(* clock, and change nothing.  What moves is what the bundles are made of: *)
(* people sign, the plant changes, decisions and evidence are edited after *)
(* they were signed, and time passes.                                      *)
(*                                                                         *)
(* Approvals, receipts and signoffs that verify are modelled: a bundle     *)
(* with one that is forged, of another audience or site, not of a human or *)
(* longer-lived than allowed is refused for that alone.  Digests are the   *)
(* revision they are of.  The checks of the site acceptance on figures     *)
(* (KPIs, tests, readiness) are one value per revision of the evidence.    *)
(***************************************************************************)
EXTENDS Integers, FiniteSets

CONSTANTS
    Person, Creator,     \* subjectIDs, and that of the decision's creator
    Login,               \* those who may sign: [subject, session, roles]
    ApprovalLife,        \* 10 min
    ApprovalSkew,        \* 30 s; no signer's clock is further ahead
    ReceiptAge,          \* 30 s
    ReceiptLife,         \* 60 s
    ReceiptSkew,         \* 5 s, and so for the interlock's
    WindowStart, WindowEnd,   \* the approved change window
    OwnerRole,           \* requiredRoles of the site acceptance
    SoundEvidence,       \* the revisions of the evidence whose figures pass
    MaxApprovals, MaxReceipts, MaxSignoffs, MaxRevisions, MaxGateTime

ASSUME GatesAssumption ==
    /\ Creator \in Person /\ \A l \in Login : l.subject \in Person
    /\ {ApprovalLife, ApprovalSkew, ReceiptAge, ReceiptLife, ReceiptSkew, WindowStart, WindowEnd,
        MaxApprovals, MaxReceipts, MaxSignoffs, MaxRevisions, MaxGateTime} \subseteq Nat
    /\ MaxRevisions > 0 /\ SoundEvidence \subseteq Nat

VARIABLES
    clock,
    plant,          \* whether the plant is safe, and history: when it last was
    revision,       \* the decision as it stands: decisionDigest and inputSnapshotHash
    approvals,      \* the approvals signed; signedAt is history
    receipts,       \* the interlock receipts issued; madeAt is history
    site,           \* the evidence as it stands: its content and the acceptanceDigest in it
    signoffs        \* the signoffs; `content` is history, what the signer saw

gatesVars == <<clock, plant, revision, approvals, receipts, site, signoffs>>

Approval == [login: Login, revision: 1..MaxRevisions,
             issued: Nat, expires: Nat, signedAt: Nat]

GatesTypeOK ==
    /\ clock \in 0..MaxGateTime
    /\ plant.safe \in BOOLEAN /\ plant.lastSafe \in 0..clock
    /\ revision \in 1..MaxRevisions
    /\ approvals \subseteq Approval
    /\ \A r \in receipts : r.revision \in 1..revision /\ r.madeAt <= clock
    /\ site.content \in 1..MaxRevisions /\ site.digest \in 1..site.content
    /\ \A s \in signoffs :
           s.subject \in Person /\ s.role \in OwnerRole /\ s.content \in 1..site.content

GatesInit ==
    /\ clock = 0 /\ plant = [safe |-> TRUE, lastSafe |-> 0] /\ revision = 1
    /\ approvals = {} /\ receipts = {}
    /\ site = [content |-> 1, digest |-> 1] /\ signoffs = {}

----------------------------------------------------------------------------
\* evaluateProductionRelease, part by part.
AcceptableApproval(a, of) ==
    /\ a.revision = of /\ a.login.subject # Creator
    /\ a.issued <= clock + ApprovalSkew /\ a.expires > clock

Separated(given) ==
    /\ Cardinality({a.login.subject : a \in given}) >= 2
    /\ Cardinality({a.login.session : a \in given}) >= 2
    /\ \E a, b \in given : /\ a.login.subject # b.login.subject
                            /\ "OPERATOR" \in a.login.roles /\ "SAFETY_OFFICER" \in b.login.roles

\* Mutation: a receipt that has not expired is fresh.
AcceptableUntilExpiry(r, of) ==
    /\ r.safe /\ r.revision = of
    /\ r.observed <= clock + ReceiptSkew /\ r.expires > clock

AcceptableReceipt(r, of) ==
    /\ r.safe /\ r.revision = of
    /\ r.observed <= clock + ReceiptSkew /\ clock - r.observed <= ReceiptAge
    /\ r.expires > clock

\* Every approval handed in must be acceptable, not two of them.
ReleaseReady(of, given, receipt) ==
    /\ \A a \in given : AcceptableApproval(a, of)
    /\ Separated(given) /\ AcceptableReceipt(receipt, of)
    /\ clock \in WindowStart..WindowEnd

ValidSignoffs(given) == {s \in given : s.digest = site.digest /\ site.digest = site.content}

\* evaluateSiteAcceptance: actualDigest is recomputed, signoffs that do not verify are dropped.
SiteReady(given) ==
    /\ site.content \in SoundEvidence
    /\ {s.role : s \in ValidSignoffs(given)} = OwnerRole
    /\ Cardinality({s.subject : s \in ValidSignoffs(given)}) >= Cardinality(OwnerRole)

----------------------------------------------------------------------------
\* Someone signs an approval of the decision as it stands, by a clock that may be ahead.
SignApproval(login, ahead) ==
    /\ Cardinality(approvals) < MaxApprovals
    /\ approvals' = approvals \cup
        {[login |-> login, revision |-> revision,
          issued |-> clock + ahead, expires |-> clock + ahead + ApprovalLife, signedAt |-> clock]}
    /\ UNCHANGED <<clock, plant, revision, receipts, site, signoffs>>

\* The interlock reads the plant for the decision as it stands.
IssueReceipt(ahead) ==
    /\ Cardinality(receipts) < MaxReceipts
    /\ receipts' = receipts \cup
        {[revision |-> revision, safe |-> plant.safe, observed |-> clock + ahead,
          expires |-> clock + ahead + ReceiptLife, madeAt |-> clock]}
    /\ UNCHANGED <<clock, plant, revision, approvals, site, signoffs>>

SignSite(p, role) ==
    /\ Cardinality(signoffs) < MaxSignoffs
    /\ signoffs' = signoffs \cup {[subject |-> p, role |-> role, digest |-> site.digest,
                                   content |-> site.content]}
    /\ UNCHANGED <<clock, plant, revision, approvals, receipts, site>>

\* The decision is edited, or its input snapshot replaced, after it was signed.
Revise ==
    /\ revision < MaxRevisions /\ revision' = revision + 1
    /\ UNCHANGED <<clock, plant, approvals, receipts, site, signoffs>>

\* So is the evidence, with or without a new acceptanceDigest.
EditSite(digested) ==
    /\ site.content < MaxRevisions
    /\ site' = [content |-> site.content + 1,
                digest |-> IF digested THEN site.content + 1 ELSE site.digest]
    /\ UNCHANGED <<clock, plant, revision, approvals, receipts, signoffs>>

PlantChanges ==
    /\ plant' = [safe |-> ~plant.safe, lastSafe |-> clock]
    /\ UNCHANGED <<clock, revision, approvals, receipts, site, signoffs>>

TickGates ==
    /\ clock < MaxGateTime /\ clock' = clock + 1
    /\ plant' = [plant EXCEPT !.lastSafe = IF plant.safe THEN clock + 1 ELSE @]
    /\ UNCHANGED <<revision, approvals, receipts, site, signoffs>>

ReleaseNext ==
    \/ \E login \in Login, ahead \in 0..ApprovalSkew : SignApproval(login, ahead)
    \/ \E ahead \in 0..ReceiptSkew : IssueReceipt(ahead)
    \/ Revise \/ PlantChanges \/ TickGates

SiteNext ==
    \/ \E p \in Person, role \in OwnerRole : SignSite(p, role)
    \/ \E digested \in BOOLEAN : EditSite(digested)

GatesNext == ReleaseNext \/ SiteNext

GatesSpec == GatesInit /\ [][GatesNext]_gatesVars

----------------------------------------------------------------------------
\* Whatever bundle is made of what was ever signed, a release is ready only if one person who
\* is not the creator approved this revision as operator and another as safety officer, neither
\* longer ago than an approval lives and a clock may be ahead.
ReleasedByTwo ==
    \A of \in 1..revision, given \in SUBSET approvals, r \in receipts :
        ReleaseReady(of, given, r) =>
            \E a, b \in given :
                /\ Creator \notin {a.login.subject, b.login.subject}
                /\ a.login.subject # b.login.subject
                /\ "OPERATOR" \in a.login.roles /\ "SAFETY_OFFICER" \in b.login.roles
                /\ \A c \in {a, b} : /\ c.revision = of
                                     /\ clock - c.signedAt < ApprovalLife + ApprovalSkew

\* Nor is it ready unless the plant was safe within the age of a receipt (and the skew of the
\* interlock's clock), however long the receipt says it is good for.
ReleasedWhileSafe ==
    \A of \in 1..revision, given \in SUBSET approvals, r \in receipts :
        ReleaseReady(of, given, r) => clock - plant.lastSafe <= ReceiptAge + ReceiptSkew

\* A site is ready only if what each owner saw when signing is what the evidence says now.
SiteIsWhatWasSigned ==
    \A given \in SUBSET signoffs : SiteReady(given) =>
        \A role \in OwnerRole : \E s \in given : s.role = role /\ s.content = site.content

\* Neither gate opens on what was signed or measured for something else, or too long ago.
GatesHold == GatesTypeOK /\ ReleasedByTwo /\ ReleasedWhileSafe /\ SiteIsWhatWasSigned
=============================================================================
