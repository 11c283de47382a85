-------------------------- MODULE MCUpdaterRuntime --------------------------
EXTENDS UpdaterRuntime
CONSTANTS c1, c2

\* Configurations are interchangeable: behaviours that start under c2 are
\* those that start under c1 with the two names exchanged.
FirstInit == Init /\ config # c2
FirstSpec == FirstInit /\ [][Next]_vars /\ Fairness
=============================================================================
