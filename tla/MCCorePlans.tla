------------------------------ MODULE MCCorePlans ------------------------------
\* Small instances of CorePlans for TLC.
EXTENDS CorePlans

Situation(trouble, called) == [trouble |-> trouble, called |-> called]

SomeSituations ==
    {Situation({"sound"}, {"arrival", "berth", "navigation", "energy", "load"}),
     Situation({}, {"arrival", "berth", "horizontal", "maintenance", "intermodal", "recovery"}),
     Situation({}, {"yard", "horizontal", "navigation", "intermodal", "energy"}),
     Situation({"tide", "hazmat", "cranes", "battery"}, Domain),
     Situation({"poor", "incomplete"}, Domain),
     Situation({"strange", "full", "transfer", "grid"},
               {"arrival", "energy", "recovery", "intermodal"})}

SomeAbstentions == {{}, {"arrival"}, {"berth", "recovery"}}
=============================================================================
