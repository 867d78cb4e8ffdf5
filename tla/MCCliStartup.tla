---------------------------- MODULE MCCliStartup ----------------------------
\* Two runs at the same time, and a third before, after or among them.
EXTENDS CliStartup, TLC

CONSTANTS r1, r2, r3

ThreeRuns == {r1, r2, r3}
Symmetry == Permutations(ThreeRuns)
=============================================================================
