------------------------------ MODULE MCSkills ------------------------------
\* Two names and three bodies, two of which the scan accepts.
EXTENDS Skills

Symmetric == Permutations(Names) \cup Permutations(Allowed)
=============================================================================
