----------------------------- MODULE AlertFlowMC -----------------------------
EXTENDS AlertFlow, TLC

\* Alerts are interchangeable, and so are the workers.
Symmetry == Permutations(Alerts) \union Permutations(Workers)
=============================================================================
