----------------------------- MODULE Submission -----------------------------
(***************************************************************************)
(* What a caller of BroadcastTx may rely on: its call puts at most its own *)
(* transaction on the chain, a call that succeeds returns a transaction    *)
(* that is on the chain, and returns its own unless calls overlap.         *)
(***************************************************************************)
CONSTANTS
    Callers,    \* the calls, each with one transaction, named by the call
    Pending,    \* the outcome of a call that has not returned
    Failed      \* the outcome of a call that returned an error

VARIABLES
    overlap,    \* may calls run at the same time?
    chain,      \* the transactions included in a block
    outcome     \* Pending, Failed, or the transaction a call returned

vars == <<overlap, chain, outcome>>

Init == /\ overlap \in BOOLEAN
        /\ chain = {}
        /\ outcome = [c \in Callers |-> Pending]

\* A call may have failed, for the caller, when its transaction is included.
Include(c) ==
    /\ chain' = chain \cup {c}
    /\ UNCHANGED <<overlap, outcome>>

Return(c) ==
    /\ outcome[c] = Pending
    /\ \E t \in chain : /\ t = c \/ overlap
                        /\ outcome' = [outcome EXCEPT ![c] = t]
    /\ UNCHANGED <<overlap, chain>>

Fail(c) ==
    /\ outcome[c] = Pending
    /\ outcome' = [outcome EXCEPT ![c] = Failed]
    /\ UNCHANGED <<overlap, chain>>

Next == \E c \in Callers : Include(c) \/ Return(c) \/ Fail(c)

Spec == Init /\ [][Next]_vars
=============================================================================
