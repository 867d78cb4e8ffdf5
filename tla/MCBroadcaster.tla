---------------------------- MODULE MCBroadcaster ----------------------------
\* Two calls, one after the other or at once, and polls that time out.
EXTENDS Broadcaster, TLC
=============================================================================
