---------------------------- MODULE MCChainSetup ----------------------------
\* Three endpoints of the registry, all in a preferred domain, and a preferred host
\* that the registry does not list; files with no channel and with two.  Three
\* probes are the fewest that reach memory outside of the slice.
EXTENDS ChainSetup, TLC

Alike == Permutations(Registry)
=============================================================================
