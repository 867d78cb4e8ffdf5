----------------------------- MODULE Broadcaster -----------------------------
(***************************************************************************)
(* BroadcastTx of client/broadcaster.go on one Broadcaster, whose buffer   *)
(* the SDK's tx.BroadcastTx writes its response to and the caller reads it *)
(* from.  A call is a goroutine; a transaction is named by its call.       *)
(*                                                                         *)
(* Of the buffer two things matter: whether it holds unread bytes, and the *)
(* response its array starts with.  Reset empties the buffer but leaves    *)
(* the array, which a slice returned by Bytes() still points into, and the *)
(* JSON decoder takes the first response of the bytes given it.  Nothing   *)
(* locks the buffer: where calls overlap, bytes are read while they are    *)
(* being written, and are then a mixture of two responses.                 *)
(***************************************************************************)
EXTENDS Naturals

CONSTANTS
    Callers,        \* calls of BroadcastTx
    Pending, Failed,
    NoResponse,     \* the array of a buffer nothing was written to
    NoHash,         \* the hash in mixed bytes that is of no transaction
    BufPolls,       \* polls of the buffer in 30 s, one in 5 s
    TxPolls         \* polls of QueryTx in 60 s, one in 5 s

ASSUME NamesAssumption == Pending # Failed /\ {Pending, Failed, NoHash} \cap Callers = {}
ASSUME ResponseAssumption == NoResponse \notin [tx : Callers \cup {NoHash}, accepted : BOOLEAN]
ASSUME PollsAssumption == BufPolls \in Nat \ {0, 1} /\ TxPolls \in Nat \ {0, 1}

VARIABLES
    overlap,        \* may calls run at the same time?  Never changes
    timed,          \* did Config.Timeout parse, is there an HTTP timeout?  Never changes
    filled,         \* buf.Len() > 0
    array,          \* the response at the start of the buffer's array
    mempool, chain, \* transactions the node has accepted, has in a block,
    dropped,        \* has given up
    pc, polls,
    txBytes,        \* the response a caller's txBytes began with when read
    outcome

vars == <<overlap, timed, filled, array, mempool, chain, dropped, pc, polls, txBytes, outcome>>

\* The response of JSON bytes; bytes that are no JSON are refused as one with a
\* code is.
Responses == [tx : Callers \cup {NoHash}, accepted : BOOLEAN]

\* What bytes decode as that were one response and are being overwritten by
\* another, of a different length before its code: any code, and either hash or none.
Mixtures(r, s) ==
    IF r = s THEN {r} ELSE [tx : {r.tx, s.tx, NoHash}, accepted : BOOLEAN]

Steps == {"idle", "account", "context", "send", "accepted", "rejected", "read",
          "wait", "unmarshal", "query", "done"}

Init ==
    /\ overlap \in BOOLEAN
    /\ timed \in BOOLEAN
    /\ filled = FALSE
    /\ array = NoResponse
    /\ mempool = {}
    /\ chain = {}
    /\ dropped = {}
    /\ pc = [c \in Callers |-> "idle"]
    /\ polls = [c \in Callers |-> 0]
    /\ txBytes = [c \in Callers |-> NoResponse]
    /\ outcome = [c \in Callers |-> Pending]

Goto(c, step) == pc' = [pc EXCEPT ![c] = step] /\ UNCHANGED outcome
Return(c, o) == pc' = [pc EXCEPT ![c] = "done"] /\ outcome' = [outcome EXCEPT ![c] = o]

\* defaultClientContext: "initialize a clean buffer each time".  Its variant
\* leaves the buffer as it is.
KeepBuffer == UNCHANGED filled
ResetBuffer == filled' = FALSE

Active(c) == pc[c] \notin {"idle", "done"}

\* GetFactory up to GetAccount.  The address of the user is parsed with the
\* global prefixes of the SDK, and refused if they are of another chain.
Begin(c) ==
    /\ pc[c] = "idle"
    /\ overlap \/ \A d \in Callers : ~Active(d)
    /\ \/ Goto(c, "account") /\ ResetBuffer
       \/ Return(c, Failed) /\ UNCHANGED filled
    /\ UNCHANGED <<overlap, timed, array, mempool, chain, dropped, polls, txBytes>>

\* GetAccount and the factory with its number and sequence.
Account(c) ==
    /\ pc[c] = "account"
    /\ Goto(c, "context") \/ Return(c, Failed)
    /\ UNCHANGED <<overlap, timed, filled, array, mempool, chain, dropped, polls, txBytes>>

\* GetClientContext once more, with its reset of the buffer.
Context(c) ==
    /\ pc[c] = "context"
    /\ \/ Goto(c, "send") /\ ResetBuffer
       \/ Return(c, Failed) /\ UNCHANGED filled
    /\ UNCHANGED <<overlap, timed, array, mempool, chain, dropped, polls, txBytes>>

\* tx.BroadcastTx of the SDK: simulate, sign and send, any of which may fail,
\* and CheckTx at the node.
Send(c) ==
    /\ pc[c] = "send"
    /\ \/ Goto(c, "accepted") /\ mempool' = mempool \cup {c}
       \/ Goto(c, "rejected") /\ UNCHANGED mempool
       \/ Return(c, Failed) /\ UNCHANGED mempool
    /\ UNCHANGED <<overlap, timed, filled, array, chain, dropped, polls, txBytes>>

\* The array after the response of c is written: after what is there, which it
\* mixes with if the two are written at once, both to the start of the array.
OwnResponse(c) == [tx |-> c, accepted |-> pc[c] = "accepted"]
Written(c) ==
    IF ~filled THEN {OwnResponse(c)}
    ELSE IF \E d \in Callers \ {c} : pc[d] = "read" THEN {array} \cup Mixtures(array, OwnResponse(c))
    ELSE {array}

\* Its answer, which is lost or written to the buffer.
Answer(c) ==
    /\ pc[c] \in {"accepted", "rejected"}
    /\ \/ /\ filled' = TRUE
          /\ array' \in Written(c)
          /\ Goto(c, "read")
       \/ Return(c, Failed) /\ UNCHANGED <<filled, array>>
    /\ UNCHANGED <<overlap, timed, mempool, chain, dropped, polls, txBytes>>

\* The first GetTxResponseBytes, whose error ends the call.
Read(c) ==
    /\ pc[c] = "read"
    /\ \/ filled /\ Goto(c, "wait")
       \/ ~filled /\ Return(c, Failed)
    /\ UNCHANGED <<overlap, timed, filled, array, mempool, chain, dropped, polls, txBytes>>

\* WaitForCondition: a poll, or the timeout, which may beat the last poll.
Poll(c, max) == polls[c] < max /\ polls' = [polls EXCEPT ![c] = @ + 1]
TimeOut(c, max) == polls[c] + 1 >= max /\ Return(c, Failed) /\ UNCHANGED polls

\* The second GetTxResponseBytes, five seconds later at the earliest.
Wait(c) ==
    /\ pc[c] = "wait"
    /\ \/ /\ filled
          /\ polls[c] < BufPolls
          /\ txBytes' = [txBytes EXCEPT ![c] = array]
          /\ polls' = [polls EXCEPT ![c] = 0]
          /\ Goto(c, "unmarshal")
       \/ ~filled /\ Poll(c, BufPolls) /\ UNCHANGED <<pc, outcome, txBytes>>
       \/ TimeOut(c, BufPolls) /\ UNCHANGED txBytes
    /\ UNCHANGED <<overlap, timed, filled, array, mempool, chain, dropped>>

\* Variants of Unmarshal: the response of the node is returned as it is; its
\* code is not looked at.
UnmarshalReturns(c) ==
    /\ pc[c] = "unmarshal"
    /\ IF txBytes[c].accepted THEN Return(c, txBytes[c]) ELSE Return(c, Failed)
    /\ UNCHANGED <<overlap, timed, filled, array, mempool, chain, dropped, polls, txBytes>>

UnmarshalIgnoresCode(c) ==
    /\ pc[c] = "unmarshal"
    /\ Goto(c, "query")
    /\ UNCHANGED <<overlap, timed, filled, array, mempool, chain, dropped, polls, txBytes>>

\* txBytes points into the array, which another call may have written since it
\* was read, or may be writing.
Unmarshal(c) ==
    /\ pc[c] = "unmarshal"
    /\ \E r \in Mixtures(txBytes[c], array) :
          /\ txBytes' = [txBytes EXCEPT ![c] = r]
          /\ IF r.accepted THEN Goto(c, "query") ELSE Return(c, Failed)
    /\ UNCHANGED <<overlap, timed, filled, array, mempool, chain, dropped, polls>>

\* Variants of Query: it polls for ever; the answer "not found" is taken for the
\* transaction.
QueryForEver(c) ==
    /\ pc[c] = "query"
    /\ txBytes[c].tx \in chain
    /\ Return(c, txBytes[c].tx)
    /\ UNCHANGED <<overlap, timed, filled, array, mempool, chain, dropped, polls, txBytes>>

QueryNotFound(c) ==
    /\ pc[c] = "query"
    /\ Return(c, txBytes[c].tx)
    /\ UNCHANGED <<overlap, timed, filled, array, mempool, chain, dropped, polls, txBytes>>

\* getFullyPopulatedResponse: QueryTx with the hash of the response.
Query(c) ==
    /\ pc[c] = "query"
    /\ \/ /\ polls[c] < TxPolls
          /\ txBytes[c].tx \in chain
          /\ Return(c, txBytes[c].tx)
          /\ UNCHANGED polls
       \/ Poll(c, TxPolls) /\ UNCHANGED <<pc, outcome>>
       \/ TimeOut(c, TxPolls)
    /\ UNCHANGED <<overlap, timed, filled, array, mempool, chain, dropped, txBytes>>

\* The chain includes a transaction of the mempool, or the node drops it.
Include(t) ==
    /\ t \in mempool
    /\ mempool' = mempool \ {t}
    /\ chain' = chain \cup {t}
    /\ UNCHANGED <<overlap, timed, filled, array, dropped, pc, polls, txBytes, outcome>>

Drop(t) ==
    /\ t \in mempool
    /\ mempool' = mempool \ {t}
    /\ dropped' = dropped \cup {t}
    /\ UNCHANGED <<overlap, timed, filled, array, chain, pc, polls, txBytes, outcome>>

Step(c) == Begin(c) \/ Account(c) \/ Context(c) \/ Send(c) \/ Answer(c) \/ Read(c)
             \/ Wait(c) \/ Unmarshal(c) \/ Query(c)

Next == \E c \in Callers : Step(c) \/ Include(c) \/ Drop(c)

Spec == Init /\ [][Next]_vars

\* Where a call waits for the node: GetAccount, the requests of tx.BroadcastTx and
\* QueryTx, all with context.Background().
AtRequest(c) == pc[c] \in {"account", "send", "accepted", "rejected", "query"}

\* Every goroutine runs; a request ends if the HTTP client has a timeout.  The node
\* need not include anything.
FairSpec ==
    /\ Spec
    /\ \A c \in Callers : /\ WF_vars(~AtRequest(c) /\ Step(c))
                         /\ WF_vars(timed /\ Step(c))

-----------------------------------------------------------------------------
\* Every variable keeps its type.
TypeOK ==
    /\ overlap \in BOOLEAN /\ timed \in BOOLEAN /\ filled \in BOOLEAN
    /\ array \in Responses \cup {NoResponse}
    /\ mempool \in SUBSET Callers /\ chain \in SUBSET Callers /\ dropped \in SUBSET Callers
    /\ pc \in [Callers -> Steps]
    /\ polls \in [Callers -> Nat]
    /\ txBytes \in [Callers -> Responses \cup {NoResponse}]
    /\ outcome \in [Callers -> Callers \cup {Pending, Failed}]

\* Without overlapping calls the buffer holds the caller's own response from
\* the answer of the node on: no call reads that of an earlier one, and none
\* finds the buffer empty.
AnswerKept ==
    \A c \in Callers :
        ~overlap /\ pc[c] \in {"read", "wait", "unmarshal"} => filled /\ array.tx = c

\* The transactions the node has accepted at CheckTx.
Accepted == mempool \cup chain \cup dropped

\* Without overlapping calls a call polls for its own transaction, which the node
\* has accepted: none waits for one it has refused.  (With them, a mixture of two
\* responses may have the hash of a refused transaction and the code 0.)
QueriesAccepted ==
    \A c \in Callers :
        ~overlap /\ pc[c] = "query" => txBytes[c].tx = c /\ c \in Accepted

\* BroadcastTx implements what its callers rely on.
S == INSTANCE Submission WITH
    overlap <- overlap,
    chain <- chain,
    outcome <- outcome
ImplementsSubmission == S!Spec

\* Every call that has begun returns, whether its transaction is ever included or
\* not, unless the node does not answer a request that has no timeout: the deadlines
\* of WaitForCondition are not looked at during a request.
EveryCallEnds ==
    \A c \in Callers :
        (pc[c] = "account") ~> (pc[c] = "done" \/ (~timed /\ []AtRequest(c)))

\* The comment at client/broadcaster.go:156: BroadcastTx broadcasts "all the
\* provided messages" and "The sdk.TxResponse and an error are returned", that
\* of those messages.
ReturnsOwnResponse == \A c \in Callers : outcome[c] \in {Pending, Failed, c}
=============================================================================
