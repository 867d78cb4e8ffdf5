------------------------------- MODULE Poller -------------------------------
(***************************************************************************)
(* The block poller: the busy loop awaitBlocks and the goroutines of       *)
(* getLatestBlocks it spawns (poller/poller.go), and the websocket loop    *)
(* AwaitBlocks (poller/rpc.go), which a program may also run by itself     *)
(* with a receiver of its own.                                             *)
(*                                                                         *)
(* A session is a goroutine in getLatestBlocks or in an AwaitBlocks of its *)
(* own.  The channel of a session is unbuffered and nobody else has it.    *)
(***************************************************************************)
EXTENDS Naturals

CONSTANTS
    Chains,
    Sessions,       \* bound on the goroutines spawned
    NoChain, NoSession,
    MaxHeight       \* bound on the heights published, per chain

ASSUME NamesAssumption == NoChain \notin Chains /\ NoSession \notin Sessions

VARIABLES
    observed,       \* chains with an observer, never changes
    height,         \* latest block the chain's node has published
    mutexes,        \* keys of the map activeBlockHeightQueries
    holder,         \* session holding the mutex of a chain
    todo,           \* chains awaitBlocks has still to visit in this pass
    inserting,      \* chain whose mutex awaitBlocks is writing to the map
    pc, chainOf,
    own,            \* sessions of a program that runs AwaitBlocks itself
    seen,           \* last height a session has read from its websocket
    received,       \* last height received from a session's channel
    notified,       \* chains whose observers Notify was called for
    crashed         \* fatal error: concurrent map read and map write

loop == <<todo, inserting, mutexes>>
session == <<pc, chainOf, own, seen, received>>
vars == <<observed, height, loop, holder, session, notified, crashed>>

Streaming == {"subscribed", "stream", "send"}
Querying == {"dial", "receive"} \cup Streaming
Held == {"deferUnlock", "choose"} \cup Querying
Steps == {"free", "findMutex", "lock", "done"} \cup Held

Init ==
    /\ observed \in SUBSET Chains
    /\ height = [c \in Chains |-> 0]
    /\ mutexes = {}
    /\ holder = [c \in Chains |-> NoSession]
    /\ todo = {}
    /\ inserting = NoChain
    /\ pc = [g \in Sessions |-> "free"]
    /\ chainOf = [g \in Sessions |-> NoChain]
    /\ own = {}
    /\ seen = [g \in Sessions |-> 0]
    /\ received = [g \in Sessions |-> 0]
    /\ notified = {}
    /\ crashed = FALSE

At(g, step) == ~crashed /\ pc[g] = step
Goto(g, step) == pc' = [pc EXCEPT ![g] = step]

-----------------------------------------------------------------------------
\* awaitBlocks: for { for range observedChains { insert; spawn } }
NextPass ==
    /\ ~crashed /\ todo = {} /\ inserting = NoChain
    /\ todo' = observed
    /\ UNCHANGED <<observed, height, mutexes, inserting, holder, session,
                   notified, crashed>>

\* Variant of BeginInsert: without "if !ok", each pass makes new mutexes.
BeginInsertAgain(c) ==
    /\ ~crashed /\ c \in todo /\ inserting = NoChain
    /\ inserting' = c
    /\ UNCHANGED <<observed, height, mutexes, todo, holder, session, notified,
                   crashed>>

BeginInsert(c) ==
    /\ ~crashed /\ c \in todo \ mutexes /\ inserting = NoChain
    /\ inserting' = c
    /\ UNCHANGED <<observed, height, mutexes, todo, holder, session,
                   notified, crashed>>

\* Variant of EndInsert: an entry is made for no chain at all.
EndInsertAny ==
    /\ ~crashed
    /\ mutexes' = mutexes \cup {inserting}
    /\ inserting' = NoChain
    /\ UNCHANGED <<observed, height, todo, holder, session, notified, crashed>>

EndInsert ==
    /\ ~crashed /\ inserting # NoChain
    /\ mutexes' = mutexes \cup {inserting}
    /\ inserting' = NoChain
    /\ UNCHANGED <<observed, height, todo, holder, session, notified,
                   crashed>>

\* Variant of Spawn: without "go", the loop waits for the session to end.
SpawnAndWait(c, g) ==
    /\ ~crashed /\ c \in todo \cap mutexes /\ inserting = NoChain
    /\ pc[g] = "free" /\ \A h \in Sessions \ own : pc[h] \in {"free", "done"}
    /\ todo' = todo \ {c}
    /\ chainOf' = [chainOf EXCEPT ![g] = c]
    /\ Goto(g, "findMutex")
    /\ UNCHANGED <<observed, height, mutexes, inserting, holder, own, seen,
                   received, notified, crashed>>

\* go q.getLatestBlocks(chain), without waiting for anything.
Spawn(c, g) ==
    /\ ~crashed /\ c \in todo \cap mutexes /\ inserting = NoChain
    /\ pc[g] = "free"
    /\ todo' = todo \ {c}
    /\ chainOf' = [chainOf EXCEPT ![g] = c]
    /\ Goto(g, "findMutex")
    /\ UNCHANGED <<observed, height, mutexes, inserting, holder, own, seen,
                   received, notified, crashed>>

\* A program calls AwaitBlocks in a goroutine and receives in another.
CallAwaitBlocks(c, g) ==
    /\ At(g, "free")
    /\ own' = own \cup {g}
    /\ chainOf' = [chainOf EXCEPT ![g] = c]
    /\ Goto(g, "dial")
    /\ UNCHANGED <<observed, height, loop, holder, seen, received, notified,
                   crashed>>

-----------------------------------------------------------------------------
\* getLatestBlocks reads the map twice, for Lock and for the deferred Unlock;
\* the runtime may detect that awaitBlocks is writing to it.
ReadMap(g, from, to) ==
    /\ At(g, from)
    /\ \/ Goto(g, to) /\ UNCHANGED crashed
       \/ inserting # NoChain /\ crashed' = TRUE /\ UNCHANGED pc
    /\ UNCHANGED <<observed, height, loop, holder, chainOf, own, seen,
                   received, notified>>

FindMutex(g) == ReadMap(g, "findMutex", "lock")
DeferUnlock(g) == ReadMap(g, "deferUnlock", "choose")

\* Variant of Lock: the mutex does not exclude anybody.
LockShared(g) ==
    /\ At(g, "lock")
    /\ holder' = [holder EXCEPT ![chainOf[g]] = g]
    /\ Goto(g, "deferUnlock")
    /\ UNCHANGED <<observed, height, loop, chainOf, own, seen, received, notified,
                   crashed>>

Lock(g) ==
    /\ At(g, "lock")
    /\ holder[chainOf[g]] = NoSession
    /\ holder' = [holder EXCEPT ![chainOf[g]] = g]
    /\ Goto(g, "deferUnlock")
    /\ UNCHANGED <<observed, height, loop, chainOf, own, seen, received,
                   notified, crashed>>

\* randLiveChain: any active client will do, without one the session is over.
\* The health checks of the chain's clients decide at any time which it is.
Choose(g) ==
    /\ At(g, "choose")
    /\ \/ Goto(g, "dial") /\ UNCHANGED holder
       \/ /\ holder' = [holder EXCEPT ![chainOf[g]] = NoSession]
          /\ Goto(g, "done")
    /\ UNCHANGED <<observed, height, loop, chainOf, own, seen, received,
                   notified, crashed>>

\* Variant of Returned: getLatestBlocks returns with AwaitBlocks.
ReturnedToo(g) == "done"

\* AwaitBlocks returns, to a receive loop that nobody sends to, or to the
\* program, whose receiver it leaves waiting.
Returned(g) == IF g \in own THEN "done" ELSE "receive"

\* The host of the wss URL that is dialled: a program gives one, getLatestBlocks the
\* RPCAddr of a client.  That is a URL itself, of which no host can be dialled, or
\* else the address of a port where the health checks were answered without TLS.
UsableHost(g) == g \in own

Dial(g) ==
    /\ At(g, "dial")
    /\ \/ /\ UsableHost(g)
          /\ Goto(g, "subscribed")
          /\ seen' = [seen EXCEPT ![g] = height[chainOf[g]]]
       \/ Goto(g, Returned(g)) /\ UNCHANGED seen
    /\ UNCHANGED <<observed, height, loop, holder, chainOf, own, received,
                   notified, crashed>>

\* Variant of ReadMessage: only the latest of the blocks published is read.
ReadLatest(g) ==
    /\ \/ At(g, "subscribed") /\ Goto(g, "stream") /\ UNCHANGED seen
       \/ /\ At(g, "stream")
          /\ seen[g] < height[chainOf[g]]
          /\ seen' = [seen EXCEPT ![g] = height[chainOf[g]]]
          /\ Goto(g, "send")
    /\ UNCHANGED <<observed, height, loop, holder, chainOf, own, received,
                   notified, crashed>>

\* ReadMessage: the answer to the subscription, which has no height, a new
\* block, or an error that ends the loop.
ReadMessage(g) ==
    /\ \/ At(g, "subscribed") /\ Goto(g, "stream") /\ UNCHANGED seen
       \/ /\ At(g, "stream")
          /\ seen[g] < height[chainOf[g]]
          /\ seen' = [seen EXCEPT ![g] = @ + 1]
          /\ Goto(g, "send")
       \/ /\ At(g, "subscribed") \/ At(g, "stream")
          /\ Goto(g, Returned(g)) /\ UNCHANGED seen
    /\ UNCHANGED <<observed, height, loop, holder, chainOf, own, received,
                   notified, crashed>>

\* height <- blockHeight meets a receiver: the program's, or the receive loop
\* of getLatestBlocks, which notifies of every higher block.
Receiving(g) == g \in own \/ pc[g] = "receive"

Deliver(g) ==
    /\ At(g, "send")
    /\ Receiving(g)
    /\ received' = [received EXCEPT ![g] = seen[g]]
    /\ notified' = IF g \notin own /\ seen[g] > received[g]
                     THEN notified \cup {chainOf[g]} ELSE notified
    /\ Goto(g, "stream")
    /\ UNCHANGED <<observed, height, loop, holder, chainOf, own, seen, crashed>>

\* The node of a chain publishes a block.
Publish(c) ==
    /\ height[c] < MaxHeight[c]
    /\ height' = [height EXCEPT ![c] = @ + 1]
    /\ UNCHANGED <<observed, loop, holder, session, notified, crashed>>

-----------------------------------------------------------------------------
AwaitBlocksLoop == NextPass \/ EndInsert
                     \/ \E c \in Chains : BeginInsert(c) \/ \E g \in Sessions : Spawn(c, g)

Session(g) == FindMutex(g) \/ Lock(g) \/ DeferUnlock(g) \/ Choose(g)
                \/ Dial(g) \/ ReadMessage(g) \/ Deliver(g)

Next == \/ AwaitBlocksLoop
        \/ \E g \in Sessions : Session(g) \/ \E c \in Chains : CallAwaitBlocks(c, g)
        \/ \E c \in Chains : Publish(c)

Spec == Init /\ [][Next]_vars

\* Every goroutine runs, except that a websocket may have nothing to read; a Go
\* mutex starves no waiter.
FairSpec ==
    /\ Spec
    /\ WF_vars(AwaitBlocksLoop)
    /\ \A g \in Sessions : /\ WF_vars(pc[g] \notin {"subscribed", "stream"} /\ Session(g))
                          /\ SF_vars(Lock(g))

-----------------------------------------------------------------------------
\* Every variable keeps its type.
TypeOK ==
    /\ observed \in SUBSET Chains
    /\ height \in [Chains -> Nat]
    /\ mutexes \in SUBSET Chains /\ todo \in SUBSET Chains
    /\ inserting \in Chains \cup {NoChain}
    /\ holder \in [Chains -> Sessions \cup {NoSession}]
    /\ pc \in [Sessions -> Steps]
    /\ chainOf \in [Sessions -> Chains \cup {NoChain}]
    /\ own \in SUBSET Sessions
    /\ seen \in [Sessions -> Nat] /\ received \in [Sessions -> Nat]
    /\ notified \in SUBSET Chains
    /\ crashed \in BOOLEAN

\* The comment at poller/poller.go:25, "Prevent multiple concurrent queries to
\* the same chain": of the sessions of the poller one at most queries a chain.
OneQueryPerChain ==
    \A g, h \in Sessions \ own :
        pc[g] \in Held /\ pc[h] \in Held /\ chainOf[g] = chainOf[h] => g = h

\* The unsynchronised map brings the process down only when a second chain is
\* inserted while a session of the first looks its mutex up.
CrashNeedsTwoChains == crashed => \E c, d \in observed : c # d

\* Once a session of the poller has an active client its chain stays locked for
\* good, long after AwaitBlocks has returned: nobody queries the chain again.
DialledForGood ==
    [][\A c \in Chains :
          holder[c] # NoSession /\ pc[holder[c]] \in Querying
            => holder'[c] = holder[c] /\ pc'[holder[c]] \in Querying]_vars

\* A program that receives from AwaitBlocks gets every height in its order,
\* from the one after its subscription on.
HeightsInOrder ==
    [][\A g \in own : received'[g] # received[g] =>
          \/ received[g] = 0 /\ received'[g] <= height[chainOf[g]]
          \/ received'[g] = received[g] + 1]_vars

\* awaitBlocks waits for none of the sessions it spawns: with one observed
\* chain it goes on spawning until no goroutine is left.
SpawnsWithoutEnd ==
    observed # {} ~> crashed \/ \A g \in Sessions : pc[g] # "free"

\* The comment at poller/types.go:3: "Observers get notified when a new block
\* is published to the chain": those of a chain, at least, that a session with an
\* active client queries from before its first block.
Queried(c) == \E g \in Sessions \ own : chainOf[g] = c /\ pc[g] \in Querying

ObserversNotified ==
    \A c \in Chains :
        <>(Queried(c) /\ height[c] = 0) /\ <>(height[c] > 0) => <>(c \in notified)
=============================================================================
