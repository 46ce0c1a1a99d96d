--------------------------- MODULE BusinessProposals ---------------------------
(***************************************************************************)
(* The proposals of the port business policy (server/portBusinessRlPlugin  *)
(* and portBusinessRlService): an inference makes a proposal object and    *)
(* puts it in a map under its proposalId; an approval looks the object up, *)
(* awaits the body of its request, writes the approval into the object and *)
(* puts the object back.                                                   *)
(*                                                                         *)
(* The proposalId hashes the state, the time of the record and the action  *)
(* the policies selected, and nothing else of the record: what the record  *)
(* says of capacity, weather and data quality shows only in `feasible`,    *)
(* `sound` and `fallback`.  So two inferences may share an id and differ   *)
(* in what they recommend.                                                 *)
(***************************************************************************)
EXTENDS Integers, FiniteSets

CONSTANTS
    Action, Hold,        \* PORT_BUSINESS_ACTIONS, 'hold-plan'
    Situation,           \* a state with the timestamp of its record
    CoolingDown,         \* the situations whose previousActionId is an intervention
    Identity,            \* approverIds
    Roles,               \* the roles an approver may claim
    MaxProposals

ASSUME BusinessAssumption ==
    /\ Hold \in Action /\ CoolingDown \subseteq Situation
    /\ {"operator", "safety_officer"} \subseteq Roles
    /\ IsFiniteSet(Identity) /\ IsFiniteSet(Roles)   \* what a bounded request can name
    /\ MaxProposals \in Nat

VARIABLES
    made,           \* the proposal objects, numbered as they were made
    proposals,      \* the map: which object an id stands for, 0 if none
    approving       \* objects looked up by approvals that await their body; of one object there
                    \* may be several, so the end of one may leave it here

businessVars == <<made, proposals, approving>>

Id == Situation \X Action
Signature == [approver: Identity, role: Roles]

BusinessTypeOK ==
    /\ \A i \in DOMAIN made :
        /\ made[i].id \in Id /\ made[i].recommended \in Action
        /\ made[i].approval \in {"not_required", "pending_simulation_review", "approved_for_sandbox"}
        /\ made[i].approval = "not_required" <=> made[i].recommended = Hold
        /\ made[i].signatures \subseteq Signature
    /\ \A id \in Id : proposals[id] # 0 => made[proposals[id]].id = id
    /\ approving \subseteq DOMAIN made

BusinessInit == made = <<>> /\ proposals = [id \in Id |-> 0] /\ approving = {}

----------------------------------------------------------------------------
\* applicableBusinessActionIds: after an intervention the policies may only hold.
Applicable(situation) == IF situation \in CoolingDown THEN {Hold} ELSE Action

\* What is recommended: the selected action, projected, if every check passes, otherwise the
\* optimizer's, which ranks all that is feasible.
Recommendation(selected, feasible, sound, fallback) ==
    IF feasible /\ sound THEN selected ELSE fallback

\* POST infer.  hold-plan is always feasible.
Infer(situation, selected, feasible, sound, fallback) ==
    /\ Cardinality(DOMAIN made) < MaxProposals
    /\ selected \in Applicable(situation) /\ (selected = Hold => feasible)
    /\ LET new == Cardinality(DOMAIN made) + 1
           recommended == Recommendation(selected, feasible, sound, fallback)
       IN  /\ made' = [i \in 1..new |->
                IF i < new THEN made[i]
                ELSE [id |-> <<situation, selected>>, recommended |-> recommended, signatures |-> {},
                      approval |-> IF recommended = Hold THEN "not_required"
                                   ELSE "pending_simulation_review"]]
           /\ proposals' = [proposals EXCEPT ![<<situation, selected>>] = new]
    /\ UNCHANGED approving

\* POST approve up to `await readBody`.
BeginApprove(id) ==
    /\ proposals[id] # 0 /\ made[proposals[id]].approval # "not_required"
    /\ approving' = approving \cup {proposals[id]}
    /\ UNCHANGED <<made, proposals>>

\* Two ids and both roles, each somewhere in the list.
Quorum(signatures) ==
    /\ Cardinality({s.approver : s \in signatures}) >= 2
    /\ {"operator", "safety_officer"} \subseteq {s.role : s \in signatures}

\* Mutation: the object goes back into the map whether or not it was approved.
EndApproveAnyway(i, signatures) ==
    /\ i \in approving
    /\ proposals' = [proposals EXCEPT ![made[i].id] = i]
    /\ made' = IF ~Quorum(signatures) THEN made
               ELSE [made EXCEPT ![i].approval = "approved_for_sandbox", ![i].signatures = signatures]
    /\ approving' \in {approving, approving \ {i}}

\* POST approve from there on: the object looked up goes back, whatever the id stands for now.
EndApprove(i, signatures) ==
    /\ i \in approving
    /\ IF Quorum(signatures)
       THEN /\ made' = [made EXCEPT ![i].approval = "approved_for_sandbox",
                                    ![i].signatures = signatures]
            /\ proposals' = [proposals EXCEPT ![made[i].id] = i]
       ELSE UNCHANGED <<made, proposals>>
    /\ approving' \in {approving, approving \ {i}}

BusinessNext ==
    \/ \E s \in Situation, a, f \in Action, feasible, sound \in BOOLEAN : Infer(s, a, feasible, sound, f)
    \/ \E id \in Id : BeginApprove(id)
    \/ \E i \in approving, signatures \in SUBSET Signature : EndApprove(i, signatures)

BusinessSpec == BusinessInit /\ [][BusinessNext]_businessVars

----------------------------------------------------------------------------
\* What is shown as approved is an intervention, and two people signed for it, between them in
\* both roles (the requirement of line 200), however approvals and inferences interleave.
ApprovedByTwo ==
    \A id \in Id : LET p == made[proposals[id]] IN
        proposals[id] # 0 /\ p.approval = "approved_for_sandbox" =>
            /\ p.recommended # Hold
            /\ \E s, t \in p.signatures : s.approver # t.approver
            /\ \A role \in {"operator", "safety_officer"} : \E s \in p.signatures : s.role = role

\* An id stands for its newest inference unless an older one was approved meanwhile: an
\* approval that fails moves nothing, whatever was inferred while its body was read.
NewestUnlessApproved ==
    \A id \in Id : \A i \in DOMAIN made :
        made[i].id = id /\ i > proposals[id] => made[proposals[id]].approval = "approved_for_sandbox"

\* What the page shows of an id is its newest inference, or one that two people signed.
ProposalsAreSigned == BusinessTypeOK /\ ApprovedByTwo /\ NewestUnlessApproved
=============================================================================
