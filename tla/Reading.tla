------------------------------- MODULE Reading -------------------------------
(***************************************************************************)
(* What a program relies on when it queries a node, whatever the query and *)
(* however many requests it takes: the answer is of a height the node has  *)
(* when it answers, of the one that was pinned or of none older than the   *)
(* query, and it comes in time.                                            *)
(***************************************************************************)
EXTENDS Integers

VARIABLES
    now,
    oldest, latest,     \* the heights the node has
    status,             \* of the query
    pinned,             \* the height it is for, 0 for the latest
    limit,              \* the time it may take
    began, since,       \* the time, and the height of the node, when it began
    height              \* of the answer, 0 before

parameters == <<pinned, limit, began, since>>
vars == <<now, oldest, latest, status, parameters, height>>

Unlimited == -1
Limits == Nat \cup {Unlimited}

Init ==
    /\ now = 0 /\ oldest = 1 /\ latest = 1
    /\ status = "idle" /\ pinned = 0 /\ limit \in Limits /\ began = 0 /\ since = 0
    /\ height = 0

\* The node may have a block before it can answer from its state.
Begin ==
    /\ status = "idle" /\ status' \in {"pending", "failed"}
    /\ pinned' \in Int /\ limit' \in Limits
    /\ began' = now /\ since' \in {latest - 1, latest}
    /\ UNCHANGED <<now, oldest, latest, height>>

InTime == limit # Unlimited => now < began + limit

Answer ==
    /\ status = "pending" /\ InTime
    /\ status' = "answered" /\ height' \in oldest..latest
    /\ IF pinned = 0 THEN height' >= since ELSE height' = pinned
    /\ UNCHANGED <<now, oldest, latest, parameters>>

Fail ==
    /\ status = "pending" /\ status' = "failed"
    /\ UNCHANGED <<now, oldest, latest, parameters, height>>

\* A query is over when its time is.
Tick ==
    /\ status = "pending" => InTime
    /\ now' = now + 1
    /\ UNCHANGED <<oldest, latest, status, parameters, height>>

Grow == latest' = latest + 1 /\ UNCHANGED <<now, oldest, status, parameters, height>>

Prune ==
    /\ oldest < latest /\ oldest' = oldest + 1
    /\ UNCHANGED <<now, latest, status, parameters, height>>

Next == Begin \/ Answer \/ Fail \/ Tick \/ Grow \/ Prune

Spec == Init /\ [][Next]_vars
=============================================================================
