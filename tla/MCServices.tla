------------------------------ MODULE MCServices ------------------------------
(***************************************************************************)
(* The parts of the server that share no state with one another, each      *)
(* checked on its own in one run: a run of all of them would be any        *)
(* interleaving of runs of each.  The part `focus` moves in a behaviour,   *)
(* and the others stand still.                                             *)
(***************************************************************************)
EXTENDS OperatorIntake, AisGateway, PortCommunity, CoreModelRegistry, PortTwin,
        BusinessProposals, ReleaseGates, RegulatoryRuntime, RlTrainingJobs, FencedLease

VARIABLE focus

servicesVars == <<intakeVars, aisVars, communityVars, registryVars, twinVars, businessVars,
                  gatesVars, regulatoryVars, jobsVars, leaseVars, focus>>

\* The parts other than f stand still.
Only(f) ==
    /\ UNCHANGED focus
    /\ IF f = "intake" THEN TRUE ELSE UNCHANGED intakeVars
    /\ IF f = "ais" THEN TRUE ELSE UNCHANGED aisVars
    /\ IF f = "community" THEN TRUE ELSE UNCHANGED communityVars
    /\ IF f = "registry" THEN TRUE ELSE UNCHANGED registryVars
    /\ IF f = "twin" THEN TRUE ELSE UNCHANGED twinVars
    /\ IF f = "business" THEN TRUE ELSE UNCHANGED businessVars
    /\ IF f \in {"release", "site"} THEN TRUE ELSE UNCHANGED gatesVars
    /\ IF f = "regulatory" THEN TRUE ELSE UNCHANGED regulatoryVars
    /\ IF f = "jobs" THEN TRUE ELSE UNCHANGED jobsVars
    /\ IF f = "lease" THEN TRUE ELSE UNCHANGED leaseVars

Init ==
    /\ IntakeInit /\ AisInit /\ CommunityInit /\ RegistryInit /\ TwinInit /\ BusinessInit
    /\ GatesInit /\ RegulatoryInit /\ JobsInit /\ LeaseInit
    /\ focus \in {"intake", "ais", "community", "registry", "twin", "business", "release",
                  "site", "regulatory", "jobs", "lease"}
    \* A part that stands still needs one initial state.
    /\ focus = "twin" \/ \A v \in Vessel : calls[v].position = 0
    /\ focus = "regulatory" \/ sequence = 0

Next ==
    \/ focus = "intake" /\ IntakeNext /\ Only("intake")
    \/ focus = "ais" /\ AisNext /\ Only("ais")
    \/ focus = "community" /\ CommunityNext /\ Only("community")
    \/ focus = "registry" /\ RegistryNext /\ Only("registry")
    \/ focus = "twin" /\ TwinNext /\ Only("twin")
    \/ focus = "business" /\ BusinessNext /\ Only("business")
    \/ focus = "release" /\ ReleaseNext /\ Only("release")
    \/ focus = "site" /\ SiteNext /\ Only("site")
    \/ focus = "regulatory" /\ RegulatoryNext /\ Only("regulatory")
    \/ focus = "jobs" /\ JobsNext /\ Only("jobs")
    \/ focus = "lease" /\ LeaseNext /\ Only("lease")

\* The timer of the AIS gateway fires when it is set, the event loop runs the training
\* jobs that have a slot, processes keep asking for the lease and the clock goes on.
Spec ==
    /\ Init /\ [][Next]_servicesVars
    /\ WF_aisVars(focus = "ais" /\ TimerFires)
    /\ \A j \in Job : WF_jobsVars(focus = "jobs" /\ Run(j))
    /\ WF_leaseVars(focus = "lease" /\ Tick)
    /\ \A p \in Process : WF_leaseVars(focus = "lease" /\ Acquire(p))

----------------------------------------------------------------------------
\* The instances.
Adapters == [a \in Adapter |-> IF a = Ais THEN 1 ELSE 2]

Calls == <<"c1", "c2", "c3">>
Berths == <<"b1", "b2">>
FittingBerths == {<<"c1", "b1">>, <<"c2", "b1">>, <<"c2", "b2">>, <<"c3", "b1">>, <<"c3", "b2">>}
BerthCranes == [b \in Berth |-> IF b = "b1" THEN 2 ELSE 1]
CallExchange == [v \in Vessel |-> IF v = "c1" THEN 3 ELSE 2]
CallDischarges == [v \in Vessel |-> v # "c3"]

Logins ==
    {[subject |-> "c", session |-> "s", roles |-> {"OPERATOR", "SAFETY_OFFICER"}],
     [subject |-> "p", session |-> "s", roles |-> {"OPERATOR"}],
     [subject |-> "p", session |-> "s", roles |-> {"OPERATOR", "SAFETY_OFFICER"}],
     [subject |-> "q", session |-> "s", roles |-> {"SAFETY_OFFICER"}],
     [subject |-> "q", session |-> "t", roles |-> {"AUDITOR"}],
     [subject |-> "q", session |-> "t", roles |-> {"OPERATOR", "SAFETY_OFFICER"}]}

InspectedVessels ==
    [s \in Scenario |-> IF s = Baseline THEN [maritime |-> 0, customs |-> 1]
                                        ELSE [maritime |-> 2, customs |-> 1]]

\* What waits in the part that moves, for a job of the trainer, and what ends the wait.
Waits(j) ==
    CASE focus = "ais" -> aisState = "degraded" /\ socket = NoSocket
      [] focus = "jobs" -> status[j] \in {"queued", "running"}
      [] focus = "lease" -> ~Led
      [] OTHER -> FALSE

Ends(j) ==
    CASE focus = "ais" ->
            socket # NoSocket \/ aisState = "stopped" \/ \A s \in Socket : wire[s] # "unused"
      [] focus = "jobs" -> status[j] \in {"completed", "failed", "cancelled", "lost"}
      [] OTHER -> Led \/ ids = MaxTokens \/ LockLeftBehind

\* What waits comes to an end.  A lost stream is asked for again, unless the gateway is
\* stopped (or no socket is left to the bound).  A job that was accepted settles, however
\* many were accepted before it and however those end; one that a restart cut off is
\* restored as lost.  Leadership that expired is taken again as long as tokens last, unless
\* a process died and left its update lock behind.
WaitsEnd == \A j \in Job : Waits(j) ~> Ends(j)
=============================================================================
