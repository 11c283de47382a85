-------------------------- MODULE MCServerPatches --------------------------
EXTENDS ServerPatches
CONSTANTS c1, c2

\* One device on each channel, one inside and one outside a rollout of 10%.
MCChannel == [c \in {c1, c2} |-> IF c = c1 THEN "stable" ELSE "beta"]
MCCohort == [c \in {c1, c2} |-> IF c = c1 THEN 999 ELSE 1000]
=============================================================================
