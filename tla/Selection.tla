------------------------------ MODULE Selection ------------------------------
(***************************************************************************)
(* What a caller of GetChain may rely on for the endpoint it gets: a       *)
(* healthy one if there is any.  Only with two of them the races of the    *)
(* probes may spoil the choice, and only then a way to choose that has     *)
(* found some is given up for the next.                                    *)
(***************************************************************************)
CONSTANTS
    Endpoints,
    Pending, Failed,
    Garbled,    \* the result is a string that is not an endpoint's: it may be any
    Crashed     \* the process has ended, or has changed memory it should not have

VARIABLES
    healthy,    \* the endpoints the current scan has found healthy
    result      \* of the call

vars == <<healthy, result>>

Init == healthy = {} /\ result = Pending

\* Two probes, at least, append to the slice of the scan.
Races == \E d, e \in healthy : d # e

Find(e) == healthy' = healthy \cup {e} /\ UNCHANGED result

\* The next scan starts from nothing.
TryNext == (healthy = {} \/ Races) /\ healthy' = {} /\ UNCHANGED result

Choose(e) == e \in healthy /\ result' = e /\ UNCHANGED healthy

Fail == healthy = {} /\ result' = Failed /\ UNCHANGED healthy

Spoil == Races /\ result' \in {Garbled, Crashed} /\ UNCHANGED healthy

Next ==
    /\ result = Pending
    /\ TryNext \/ Fail \/ Spoil \/ \E e \in Endpoints : Find(e) \/ Choose(e)

Spec == Init /\ [][Next]_vars
=============================================================================
