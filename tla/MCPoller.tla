------------------------------ MODULE MCPoller ------------------------------
\* Two chains, so that the second is inserted while the first is looked up,
\* and two goroutines: both of one chain, one of each, or one of a program.
\* One chain publishes enough blocks to leave one out, the other only one.
EXTENDS Poller, TLC

Busy == CHOOSE c \in Chains : TRUE
MCMaxHeight == [c \in Chains |-> IF c = Busy THEN 3 ELSE 1]
=============================================================================
