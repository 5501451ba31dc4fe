SPECIFICATION FairSpec
CONSTANT Switching = TRUE
INVARIANTS OffIsOff TimersArmed TurnedOffHolds
PROPERTIES SendUndisturbed DeafnessHeals CyclesGoOn
