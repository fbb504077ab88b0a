-------------------------- MODULE MCPlannedShutdown --------------------------
EXTENDS PlannedShutdown, TLC

\* The handlers of Runtime reports are interchangeable.
ObserverSymmetry == Permutations(Observer)
=============================================================================
