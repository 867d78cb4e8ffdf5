--------------------------- MODULE MCHealthChecks ---------------------------
\* Two nodes; a timeout below the ticker's period, one above it, and none.
EXTENDS HealthChecks, TLC
MCTimeouts == {0, 2, 4}
=============================================================================
