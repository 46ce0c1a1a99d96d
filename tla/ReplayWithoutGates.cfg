SPECIFICATION PlanSpec
CONSTANTS
    Situations <- SomeSituations
    Abstentions <- SomeAbstentions
INVARIANTS
    ReplayIsServing
CHECK_DEADLOCK FALSE
