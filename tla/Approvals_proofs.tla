----------------------------- MODULE Approvals_proofs -----------------------------
(***************************************************************************)
(* Theorems about what people sign: the business proposals                 *)
(* (BusinessProposals), for every set of situations, actions and approvers *)
(* and every number of proposals, and the gates of a release and of a site *)
(* (ReleaseGates), for every set of people, logins and roles, every        *)
(* lifetime, age and skew, and every bound.                                *)
(*                                                                         *)
(* A proposal object never changes what it recommends, and an approval in  *)
(* flight holds an object, not an id: so the signatures of an approval     *)
(* stand in the object that was looked up, whatever its id stands for when *)
(* the body of the request has been read.                                  *)
(*                                                                         *)
(* The gates only see what is written into approvals, receipts and         *)
(* signoffs.  The invariant says what those fields tell of the moment they *)
(* were written in: how long ago that was, that the plant was safe then,   *)
(* and what the signer saw.                                                *)
(***************************************************************************)
EXTENDS BusinessProposals, ReleaseGates, FiniteSetTheorems, TLAPS

----------------------------------------------------------------------------
(* Business proposals. *)

ApprovalState == {"not_required", "pending_simulation_review", "approved_for_sandbox"}

Object == [id: Id, recommended: Action, signatures: SUBSET Signature, approval: ApprovalState]

SignedByTwo(p) ==
    /\ \E s, t \in p.signatures : s.approver # t.approver
    /\ \A role \in {"operator", "safety_officer"} : \E s \in p.signatures : s.role = role

\* The objects are numbered as they were made.
Numbered == \E n \in Nat : made \in [1..n -> Object]

\* An id that was ever proposed stands for one of its own objects.
EveryIdStands ==
    /\ proposals \in [Id -> Nat]
    /\ \A id \in Id : proposals[id] # 0 =>
           proposals[id] \in DOMAIN made /\ made[proposals[id]].id = id
    /\ \A i \in DOMAIN made : proposals[made[i].id] # 0

\* Only a proposed hold needs no approval, and no approval is ever begun of one.
HoldsNeedNone ==
    /\ \A i \in DOMAIN made : made[i].approval = "not_required" <=> made[i].recommended = Hold
    /\ \A i \in approving : i \in DOMAIN made /\ made[i].approval # "not_required"

\* Approved objects, in the map or not, were signed.
ApprovedAreSigned ==
    \A i \in DOMAIN made : made[i].approval = "approved_for_sandbox" => SignedByTwo(made[i])

BusinessInv ==
    Numbered /\ EveryIdStands /\ HoldsNeedNone /\ ApprovedAreSigned /\ NewestUnlessApproved

----------------------------------------------------------------------------
\* A set that counts at least two has two members.
LEMMA TwoMembers ==
    ASSUME NEW S, Cardinality(S) >= 2, IsFiniteSet(S)
    PROVE  \E a, b \in S : a # b
<1> SUFFICES ASSUME \A a, b \in S : a = b PROVE FALSE
  OBVIOUS
<1>1. S # {}
  BY FS_EmptySet
<1>2. PICK a \in S : S = {a}
  BY <1>1
<1>3. Cardinality(S) = 1
  BY <1>2, FS_Singleton
<1> QED
  BY <1>3

LEMMA QuorumSigns ==
    ASSUME NEW signatures \in SUBSET Signature, Quorum(signatures)
    PROVE  /\ \E s, t \in signatures : s.approver # t.approver
           /\ \A role \in {"operator", "safety_officer"} : \E s \in signatures : s.role = role
<1> DEFINE People == {s.approver : s \in signatures}
<1>1. Cardinality(People) >= 2
  BY DEF Quorum
<1>2. IsFiniteSet(People)
  <2>1. People \subseteq Identity
    BY DEF Signature
  <2> QED
    BY <2>1, BusinessAssumption, FS_Subset
<1>3. \E a, b \in People : a # b
  <2> HIDE DEF People
  <2> QED
    BY <1>1, <1>2, TwoMembers
<1> QED
  BY <1>3 DEF Quorum

LEMMA BusinessInitInv == BusinessInit => BusinessInv
<1> SUFFICES ASSUME BusinessInit PROVE BusinessInv
  OBVIOUS
<1>1. made \in [1..0 -> Object]
  BY DEF BusinessInit
<1>2. Numbered
  BY <1>1 DEF Numbered
<1> QED
  BY <1>2
  DEF BusinessInit, BusinessInv, EveryIdStands, HoldsNeedNone, ApprovedAreSigned,
      NewestUnlessApproved

----------------------------------------------------------------------------
LEMMA InferInv ==
    ASSUME BusinessInv,
           NEW situation \in Situation, NEW selected \in Action, NEW fallback \in Action,
           NEW feasible \in BOOLEAN, NEW sound \in BOOLEAN,
           Infer(situation, selected, feasible, sound, fallback)
    PROVE  BusinessInv'
<1> DEFINE id == <<situation, selected>>
           recommended == Recommendation(selected, feasible, sound, fallback)
           object == [id |-> id, recommended |-> recommended, signatures |-> {},
                      approval |-> IF recommended = Hold THEN "not_required"
                                   ELSE "pending_simulation_review"]
<1>1. PICK n \in Nat : made \in [1..n -> Object]
  BY DEF BusinessInv, Numbered
<1>2. Cardinality(DOMAIN made) = n
  BY <1>1, FS_Interval
<1>3. /\ made' = [i \in 1..(n + 1) |-> IF i < n + 1 THEN made[i] ELSE object]
      /\ proposals' = [proposals EXCEPT ![id] = n + 1]
      /\ approving' = approving
  BY <1>2 DEF Infer
<1>4. /\ object \in Object /\ id \in Id /\ object.id = id
      /\ object.approval # "approved_for_sandbox"
      /\ object.approval = "not_required" <=> object.recommended = Hold
  BY BusinessAssumption DEF Object, Id, Recommendation, ApprovalState
<1> HIDE DEF id, object, recommended
<1>5. /\ made' \in [1..(n + 1) -> Object]
      /\ DOMAIN made' = 1..(n + 1) /\ DOMAIN made = 1..n
      /\ \A i \in 1..n : made'[i] = made[i]
      /\ made'[n + 1] = object
  BY <1>1, <1>3, <1>4
<1>6. /\ proposals' \in [Id -> Nat] /\ proposals'[id] = n + 1
      /\ \A other \in Id \ {id} : proposals'[other] = proposals[other]
      /\ \A i \in 1..n : made[i].id \in Id
  BY <1>1, <1>3, <1>4 DEF BusinessInv, EveryIdStands, Object
<1>7. Numbered'
  BY <1>5 DEF Numbered
<1>8. EveryIdStands'
  <2>1. ASSUME NEW i \in 1..(n + 1)
        PROVE  proposals'[made'[i].id] # 0
    <3>1. CASE made'[i].id = id
      BY <3>1, <1>6
    <3>2. CASE made'[i].id # id
      <4>1. i \in 1..n /\ made'[i] = made[i] /\ made[i].id \in Id
        BY <3>2, <1>4, <1>5, <1>6
      <4> QED
        BY <3>2, <4>1, <1>5, <1>6 DEF BusinessInv, EveryIdStands
    <3> QED
      BY <3>1, <3>2
  <2>2. ASSUME NEW other \in Id, proposals'[other] # 0
        PROVE  proposals'[other] \in DOMAIN made' /\ made'[proposals'[other]].id = other
    <3>1. CASE other = id
      BY <3>1, <1>4, <1>5, <1>6
    <3>2. CASE other # id
      <4>1. proposals[other] \in 1..n /\ made[proposals[other]].id = other
        BY <2>2, <3>2, <1>5, <1>6 DEF BusinessInv, EveryIdStands
      <4> QED
        BY <3>2, <4>1, <1>5, <1>6
    <3> QED
      BY <3>1, <3>2
  <2> QED
    BY <1>5, <1>6, <2>1, <2>2 DEF EveryIdStands
<1>9. HoldsNeedNone'
  BY <1>3, <1>4, <1>5 DEF BusinessInv, HoldsNeedNone
<1>11. ApprovedAreSigned'
  <2> SUFFICES ASSUME NEW i \in 1..(n + 1), made'[i].approval = "approved_for_sandbox"
               PROVE  SignedByTwo(made'[i])
    BY <1>5 DEF ApprovedAreSigned
  <2>1. i \in 1..n /\ made'[i] = made[i]
    BY <1>4, <1>5
  <2>2. SignedByTwo(made[i])
    BY <1>5, <2>1 DEF BusinessInv, ApprovedAreSigned
  <2> QED
    BY <2>1, <2>2
<1>10. NewestUnlessApproved'
  <2> SUFFICES ASSUME NEW other \in Id, NEW i \in 1..(n + 1), made'[i].id = other,
                      i > proposals'[other]
               PROVE  made'[proposals'[other]].approval = "approved_for_sandbox"
    BY <1>5 DEF NewestUnlessApproved
  <2>1. other # id /\ i \in 1..n /\ made[i].id = other
    BY <1>4, <1>5, <1>6
  <2>2. proposals'[other] = proposals[other] /\ proposals[other] \in 1..n
    <3>1. proposals'[other] = proposals[other]
      BY <1>6, <2>1
    <3>2. proposals[other] # 0
      BY <2>1, <1>5 DEF BusinessInv, EveryIdStands
    <3> QED
      BY <1>5, <3>1, <3>2 DEF BusinessInv, EveryIdStands
  <2>3. made[proposals[other]].approval = "approved_for_sandbox"
    BY <1>5, <2>1, <2>2 DEF BusinessInv, NewestUnlessApproved
  <2> QED
    BY <1>5, <2>2, <2>3
<1> QED
  BY <1>7, <1>8, <1>9, <1>10, <1>11 DEF BusinessInv

LEMMA BeginApproveInv ==
    ASSUME BusinessInv, NEW id \in Id, BeginApprove(id)
    PROVE  BusinessInv'
BY DEF BusinessInv, BeginApprove, Numbered, EveryIdStands, HoldsNeedNone, ApprovedAreSigned,
       NewestUnlessApproved, SignedByTwo

LEMMA EndApproveInv ==
    ASSUME BusinessInv, NEW i \in approving, NEW signatures \in SUBSET Signature,
           EndApprove(i, signatures)
    PROVE  BusinessInv'
<1>1. PICK n \in Nat : made \in [1..n -> Object]
  BY DEF BusinessInv, Numbered
<1>2. i \in 1..n /\ made[i].approval # "not_required"
  BY <1>1 DEF BusinessInv, HoldsNeedNone
<1>3. approving' \subseteq approving
  BY DEF EndApprove
<1>4. CASE ~Quorum(signatures)
  BY <1>3, <1>4
  DEF BusinessInv, EndApprove, Numbered, EveryIdStands, HoldsNeedNone, ApprovedAreSigned,
      NewestUnlessApproved, SignedByTwo
<1>5. CASE Quorum(signatures)
  <2> DEFINE id == made[i].id
             object == [made[i] EXCEPT !.approval = "approved_for_sandbox",
                                       !.signatures = signatures]
  <2>1. made' = [made EXCEPT ![i] = object] /\ proposals' = [proposals EXCEPT ![id] = i]
    BY <1>1, <1>2, <1>5 DEF EndApprove, Object
  <2>2. /\ object \in Object /\ object.id = id /\ object.signatures = signatures
        /\ object.approval = "approved_for_sandbox" /\ object.recommended = made[i].recommended
        /\ id \in Id
    BY <1>1, <1>2 DEF Object, ApprovalState
  <2>3. SignedByTwo(object)
    BY <1>5, <2>2, QuorumSigns DEF SignedByTwo
  <2> HIDE DEF id, object
  <2>4. /\ made' \in [1..n -> Object] /\ DOMAIN made' = 1..n /\ DOMAIN made = 1..n
        /\ made'[i] = object
        /\ \A j \in 1..n \ {i} : made'[j] = made[j]
        /\ \A j \in 1..n : made'[j].id = made[j].id /\ made[j].id \in Id
    BY <1>1, <1>2, <2>1, <2>2 DEF id, Object
  <2>5. /\ proposals' \in [Id -> Nat] /\ proposals'[id] = i
        /\ \A other \in Id \ {id} : proposals'[other] = proposals[other]
    BY <1>1, <1>2, <2>1, <2>2 DEF BusinessInv, EveryIdStands
  <2>6. Numbered'
    BY <2>4 DEF Numbered
  <2>7. EveryIdStands'
    <3>1. ASSUME NEW j \in 1..n
          PROVE  proposals'[made'[j].id] # 0
      <4>1. made'[j].id = made[j].id /\ made[j].id \in Id /\ proposals[made[j].id] # 0
        BY <2>4 DEF BusinessInv, EveryIdStands
      <4> QED
        BY <1>2, <2>5, <4>1
    <3>2. ASSUME NEW other \in Id, proposals'[other] # 0
          PROVE  proposals'[other] \in 1..n /\ made'[proposals'[other]].id = other
      <4>1. CASE other = id
        BY <4>1, <1>2, <2>2, <2>4, <2>5
      <4>2. CASE other # id
        BY <3>2, <4>2, <2>4, <2>5 DEF BusinessInv, EveryIdStands
      <4> QED
        BY <4>1, <4>2
    <3> QED
      BY <2>4, <2>5, <3>1, <3>2 DEF EveryIdStands
  <2>8. HoldsNeedNone'
    <3>1. ASSUME NEW j \in 1..n
          PROVE  made'[j].approval = "not_required" <=> made'[j].recommended = Hold
      <4>1. made[j].approval = "not_required" <=> made[j].recommended = Hold
        BY <2>4 DEF BusinessInv, HoldsNeedNone
      <4> QED
        BY <1>2, <2>2, <2>4, <4>1
    <3>2. ASSUME NEW j \in approving'
          PROVE  j \in 1..n /\ made'[j].approval # "not_required"
      <4>1. j \in 1..n /\ made[j].approval # "not_required"
        BY <1>3, <2>4 DEF BusinessInv, HoldsNeedNone
      <4> QED
        BY <2>2, <2>4, <4>1
    <3> QED
      BY <2>4, <3>1, <3>2 DEF HoldsNeedNone
  <2>9. ApprovedAreSigned'
    <3> SUFFICES ASSUME NEW j \in 1..n, made'[j].approval = "approved_for_sandbox"
                 PROVE  SignedByTwo(made'[j])
      BY <2>4 DEF ApprovedAreSigned
    <3>1. CASE j = i
      BY <3>1, <2>3, <2>4
    <3>2. CASE j # i
      <4>1. made'[j] = made[j]
        BY <3>2, <2>4
      <4>2. SignedByTwo(made[j])
        BY <2>4, <4>1 DEF BusinessInv, ApprovedAreSigned
      <4> QED
        BY <4>1, <4>2
    <3> QED
      BY <3>1, <3>2
  <2>10. NewestUnlessApproved'
    <3> SUFFICES ASSUME NEW other \in Id, NEW j \in 1..n, made'[j].id = other,
                        j > proposals'[other]
                 PROVE  made'[proposals'[other]].approval = "approved_for_sandbox"
      BY <2>4 DEF NewestUnlessApproved
    <3>1. CASE other = id
      BY <3>1, <2>2, <2>4, <2>5
    <3>2. CASE other # id
      <4>1. proposals'[other] = proposals[other] /\ made[j].id = other
        BY <3>2, <2>4, <2>5
      <4>2. proposals[other] \in 1..n /\ made[proposals[other]].id = other
        BY <2>4, <4>1 DEF BusinessInv, EveryIdStands
      <4>3. made[proposals[other]].approval = "approved_for_sandbox"
        BY <2>4, <4>1 DEF BusinessInv, NewestUnlessApproved
      <4> QED
        BY <2>4, <3>2, <4>1, <4>2, <4>3 DEF id
    <3> QED
      BY <3>1, <3>2
  <2> QED
    BY <2>6, <2>7, <2>8, <2>9, <2>10 DEF BusinessInv
<1> QED
  BY <1>4, <1>5

LEMMA BusinessNextInv == BusinessInv /\ [BusinessNext]_businessVars => BusinessInv'
<1> SUFFICES ASSUME BusinessInv, [BusinessNext]_businessVars PROVE BusinessInv'
  OBVIOUS
<1>1. CASE UNCHANGED businessVars
  BY <1>1
  DEF businessVars, BusinessInv, Numbered, EveryIdStands, HoldsNeedNone, ApprovedAreSigned,
      NewestUnlessApproved, SignedByTwo
<1> QED
  BY <1>1, InferInv, BeginApproveInv, EndApproveInv DEF BusinessNext

\* However inferences and approvals interleave, every approved object was signed, and an id
\* that stands for an older object stands for an approved one.
THEOREM BusinessInvariance == BusinessSpec => []BusinessInv
BY BusinessInitInv, BusinessNextInv, PTL DEF BusinessSpec

\* What the page shows as approved is an intervention that two people signed in both roles,
\* and any other id stands for its newest inference.
THEOREM BusinessIsSigned == BusinessSpec => []ProposalsAreSigned
<1>1. BusinessInv => ProposalsAreSigned
  <2> SUFFICES ASSUME BusinessInv PROVE ProposalsAreSigned
    OBVIOUS
  <2>1. PICK n \in Nat : made \in [1..n -> Object]
    BY DEF BusinessInv, Numbered
  <2>2. BusinessTypeOK
    BY <2>1
    DEF BusinessInv, BusinessTypeOK, EveryIdStands, HoldsNeedNone, Object, ApprovalState
  <2>3. ApprovedByTwo
    BY <2>1
    DEF BusinessInv, ApprovedByTwo, EveryIdStands, HoldsNeedNone, ApprovedAreSigned, SignedByTwo,
        Object
  <2> QED
    BY <2>2, <2>3 DEF BusinessInv, ProposalsAreSigned
<1> QED
  BY <1>1, BusinessInvariance, PTL

----------------------------------------------------------------------------
(* The gates of a release and of a site. *)

Receipt == [revision: Nat, safe: BOOLEAN, observed: Nat, expires: Nat, madeAt: Nat]
Signoff == [subject: Person, role: OwnerRole, digest: Nat, content: Nat]

\* The records behind GatesTypeOK.
Shapes ==
    /\ clock \in Nat /\ revision \in Nat
    /\ plant \in [safe: BOOLEAN, lastSafe: Nat]
    /\ approvals \subseteq [login: Login, revision: 1..MaxRevisions, issued: Nat, expires: Nat,
                            signedAt: Nat]
    /\ receipts \subseteq Receipt
    /\ site \in [content: Nat, digest: Nat]
    /\ signoffs \subseteq Signoff

\* An approval is good for no longer than it lives by the fastest clock of a signer.
ApprovalsExpire ==
    \A a \in approvals : a.expires <= a.signedAt + ApprovalLife + ApprovalSkew

\* A plant that is safe was safe just now.
SafeIsNow == plant.safe => plant.lastSafe = clock

\* A receipt that says safe was made while the plant was, at most the skew before the time
\* it gives.
ReceiptsAreTrue ==
    \A r \in receipts :
        /\ r.observed <= r.madeAt + ReceiptSkew
        /\ r.safe => r.madeAt <= plant.lastSafe

\* A signoff carries a digest of what its signer saw, or an older one.
SignoffsAreTrue == \A s \in signoffs : s.digest <= s.content

GatesInv ==
    GatesTypeOK /\ Shapes /\ ApprovalsExpire /\ SafeIsNow /\ ReceiptsAreTrue /\ SignoffsAreTrue

----------------------------------------------------------------------------
LEMMA GatesInitInv == GatesInit => GatesInv
BY GatesAssumption
DEF GatesInit, GatesInv, GatesTypeOK, Shapes, ApprovalsExpire, SafeIsNow, ReceiptsAreTrue,
    SignoffsAreTrue, Approval, Receipt, Signoff

LEMMA GatesNextInv == GatesInv /\ [GatesNext]_gatesVars => GatesInv'
<1> SUFFICES ASSUME GatesInv, [GatesNext]_gatesVars
             PROVE  GatesInv'
  OBVIOUS
<1> USE GatesAssumption
    DEF GatesInv, GatesTypeOK, Shapes, ApprovalsExpire, SafeIsNow, ReceiptsAreTrue,
        SignoffsAreTrue
<1>1. ASSUME NEW login \in Login, NEW ahead \in 0..ApprovalSkew, SignApproval(login, ahead)
      PROVE  GatesInv'
  <2> DEFINE new == [login |-> login, revision |-> revision, issued |-> clock + ahead,
                     expires |-> clock + ahead + ApprovalLife, signedAt |-> clock]
  <2>1. new \in Approval
    BY DEF Approval
  <2>2. approvals' = approvals \cup {new}
    BY <1>1 DEF SignApproval
  <2>3. new.expires <= new.signedAt + ApprovalLife + ApprovalSkew
    OBVIOUS
  <2>4. approvals' \subseteq Approval /\ ApprovalsExpire'
    BY <2>1, <2>2, <2>3
  <2> QED
    BY <1>1, <2>4 DEF SignApproval, Approval
<1>2. ASSUME NEW ahead \in 0..ReceiptSkew, IssueReceipt(ahead)
      PROVE  GatesInv'
  <2> DEFINE new == [revision |-> revision, safe |-> plant.safe, observed |-> clock + ahead,
                     expires |-> clock + ahead + ReceiptLife, madeAt |-> clock]
  <2>1. new \in Receipt
    BY DEF Receipt
  <2>2. receipts' = receipts \cup {new}
    BY <1>2 DEF IssueReceipt
  <2>3. /\ new.observed <= new.madeAt + ReceiptSkew
        /\ new.safe => new.madeAt <= plant.lastSafe
        /\ new.revision \in 1..revision /\ new.madeAt <= clock
    OBVIOUS
  <2>4. UNCHANGED <<clock, plant, revision, approvals, site, signoffs>>
    BY <1>2 DEF IssueReceipt
  <2>5. receipts' \subseteq Receipt /\ ReceiptsAreTrue'
    BY <2>1, <2>2, <2>3, <2>4
  <2> QED
    BY <2>2, <2>3, <2>4, <2>5
<1>3. CASE Revise
  BY <1>3 DEF Revise, Approval, Receipt
<1>4. CASE PlantChanges
  BY <1>4 DEF PlantChanges, Receipt
<1>5. CASE TickGates
  BY <1>5 DEF TickGates, Receipt
<1>6. ASSUME NEW p \in Person, NEW role \in OwnerRole, SignSite(p, role)
      PROVE  GatesInv'
  <2> DEFINE new == [subject |-> p, role |-> role, digest |-> site.digest,
                     content |-> site.content]
  <2>1. new \in Signoff /\ new.digest <= new.content /\ new.content \in 1..site.content
    BY DEF Signoff
  <2>2. signoffs' = signoffs \cup {new}
        /\ UNCHANGED <<clock, plant, revision, approvals, receipts, site>>
    BY <1>6 DEF SignSite
  <2> QED
    BY <2>1, <2>2
<1>7. ASSUME NEW digested \in BOOLEAN, EditSite(digested)
      PROVE  GatesInv'
  BY <1>7 DEF EditSite, Signoff
<1>8. CASE UNCHANGED gatesVars
  BY <1>8 DEF gatesVars
<1> QED
  BY <1>1, <1>2, <1>3, <1>4, <1>5, <1>6, <1>7, <1>8 DEF GatesNext, ReleaseNext, SiteNext

\* The fields of approvals, receipts and signoffs are true of the moment they were written
\* in, however decisions, evidence and plant change afterwards.
THEOREM GatesInvariance == GatesSpec => []GatesInv
BY GatesInitInv, GatesNextInv, PTL DEF GatesSpec

----------------------------------------------------------------------------
LEMMA TwoReleased ==
    ASSUME GatesInv
    PROVE  ReleasedByTwo
<1> SUFFICES ASSUME NEW of \in 1..revision, NEW given \in SUBSET approvals, NEW r \in receipts,
                    ReleaseReady(of, given, r)
             PROVE  \E a, b \in given :
                       /\ Creator \notin {a.login.subject, b.login.subject}
                       /\ a.login.subject # b.login.subject
                       /\ "OPERATOR" \in a.login.roles /\ "SAFETY_OFFICER" \in b.login.roles
                       /\ \A c \in {a, b} : /\ c.revision = of
                                            /\ clock - c.signedAt < ApprovalLife + ApprovalSkew
  BY DEF ReleasedByTwo
<1>1. PICK a \in given, b \in given :
         /\ a.login.subject # b.login.subject
         /\ "OPERATOR" \in a.login.roles /\ "SAFETY_OFFICER" \in b.login.roles
  BY DEF ReleaseReady, Separated
<1>2. ASSUME NEW c \in given
      PROVE  /\ c.revision = of /\ c.login.subject # Creator
             /\ clock - c.signedAt < ApprovalLife + ApprovalSkew
  <2>1. AcceptableApproval(c, of)
    BY DEF ReleaseReady
  <2>2. c.expires <= c.signedAt + ApprovalLife + ApprovalSkew /\ c.expires > clock
    BY <2>1 DEF GatesInv, ApprovalsExpire, AcceptableApproval
  <2>3. {c.expires, c.signedAt, clock, ApprovalLife, ApprovalSkew} \subseteq Nat
    BY GatesAssumption DEF GatesInv, Shapes
  <2> QED
    BY <2>1, <2>2, <2>3 DEF AcceptableApproval
<1> QED
  BY <1>1, <1>2

LEMMA SafeReleased ==
    ASSUME GatesInv
    PROVE  ReleasedWhileSafe
<1> SUFFICES ASSUME NEW of \in 1..revision, NEW given \in SUBSET approvals, NEW r \in receipts,
                    ReleaseReady(of, given, r)
             PROVE  clock - plant.lastSafe <= ReceiptAge + ReceiptSkew
  BY DEF ReleasedWhileSafe
<1>1. r.safe /\ clock - r.observed <= ReceiptAge
  BY DEF ReleaseReady, AcceptableReceipt
<1>2. r.observed <= r.madeAt + ReceiptSkew /\ r.madeAt <= plant.lastSafe
  BY <1>1 DEF GatesInv, ReceiptsAreTrue
<1>3. {r.observed, r.madeAt, plant.lastSafe, clock, ReceiptAge, ReceiptSkew} \subseteq Nat
  BY GatesAssumption DEF GatesInv, Shapes, Receipt
<1> QED
  BY <1>1, <1>2, <1>3

LEMMA SiteSigned ==
    ASSUME GatesInv
    PROVE  SiteIsWhatWasSigned
<1> SUFFICES ASSUME NEW given \in SUBSET signoffs, SiteReady(given), NEW role \in OwnerRole
             PROVE  \E s \in given : s.role = role /\ s.content = site.content
  BY DEF SiteIsWhatWasSigned
<1>1. PICK s \in ValidSignoffs(given) : s.role = role
  BY DEF SiteReady
<1>2. s \in given /\ s.digest = site.content
  BY DEF ValidSignoffs
<1>3. s.digest <= s.content /\ s.content \in 1..site.content
  BY <1>2 DEF GatesInv, SignoffsAreTrue, GatesTypeOK
<1>4. s.digest \in Nat /\ site.content \in Nat
  BY <1>2 DEF GatesInv, Shapes, Signoff
<1> QED
  BY <1>1, <1>2, <1>3, <1>4

\* Whatever bundle is made of what was ever signed, neither gate opens on an approval,
\* receipt or signoff of something else, or of too long ago.
THEOREM GatesAreSafe == GatesSpec => []GatesHold
<1>1. GatesInv => GatesHold
  BY TwoReleased, SafeReleased, SiteSigned DEF GatesHold, GatesInv
<1> QED
  BY <1>1, GatesInvariance, PTL
=============================================================================
