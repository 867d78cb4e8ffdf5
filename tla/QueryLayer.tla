------------------------------ MODULE QueryLayer ------------------------------
(***************************************************************************)
(* Queries of a chain's node: those of client/query, which take a height   *)
(* from their options and a timeout from the client's configuration, and   *)
(* those of client/query.go and account_retriever.go, which bring their    *)
(* own context and may pin a height in its metadata.                       *)
(*                                                                         *)
(* Queries share nothing: here is one, against a node that stores blocks,  *)
(* applies them, prunes old ones, answers when it likes or never.          *)
(***************************************************************************)
EXTENDS Paging, Sequences

CONSTANTS
    Timeout,            \* Config.Timeout, if it parses
    Flags,              \* the page flags that are tried
    MaxHeight, MaxTime, \* bounds of the node and of the clock
    Pending, TimedOut, Refused, Unavailable, NetworkError, Crashed

ASSUME BoundsAssumption == /\ Timeout \in Nat \ {0}
                           /\ Flags \subseteq PageFlags
                           /\ MaxHeight \in 1..(Half - 1)
                           /\ MaxTime \in Nat
ASSUME OutcomesAssumption ==
    /\ Pending \notin {TimedOut, Refused, Unavailable, NetworkError, Crashed} \cup Flags
    /\ TimedOut \notin {Refused, Unavailable, NetworkError, Crashed}
    /\ Unavailable \notin {Refused, NetworkError, Crashed}
    /\ {Pending, TimedOut, Refused, Unavailable, NetworkError, Crashed} \cap
         ([height : Int, ok : BOOLEAN] \cup [txs : SUBSET Nat, total : Nat]
            \cup [page : Int, perPage : Int]) = {}

VARIABLES
    timeout,    \* what the configuration parses to, 0 if it does not
    now, stored, applied, base,     \* clock, newest block, its state, oldest block
    kind, heights,      \* the query and the heights in its options or metadata
    stage,              \* idle, status (asks for the height), fetch or done
    began, issued,      \* when it and its current request started
    deadline,           \* of its context
    floor,              \* the node's state when it began
    asked,              \* the height it asks for, 0 for the latest
    flags, search,      \* for TxsRPC: the page as the user and as the node sees it
    result

node == <<stored, applied, base>>
clock == <<timeout, now>>
query == <<kind, heights, flags, search, began, floor>>
vars == <<clock, node, query, stage, issued, deadline, asked, result>>

\* The queries of client/query with a context of GetQueryContext: Block,
\* BlockResults, Status and ABCIInfo, the bank queries, ABCIQuery.
ByQuery == {"block", "results", "status", "info", "grpc", "abci"}

\* Those of ChainClient through Invoke, and TxsRPC.
Kinds == ByQuery \cup {"client", "txs"}

Heights == -1..MaxHeight
Pins(k) ==
    CASE k \in {"block", "results", "grpc", "abci"} -> {<<h>> : h \in Heights}
      [] k = "client" -> {<<>>} \cup {<<h>> : h \in Heights} \cup {<<h, i>> : h, i \in Heights}
      [] k \in {"status", "info", "txs"} -> {<<>>}

\* The answer of a node: the height it is of and whether its code says OK.
Answer(h, ok) == [height |-> h, ok |-> ok]
Answers == [height : -1..MaxHeight, ok : BOOLEAN]

\* The answer to TxsRPC; one transaction of each block matches.
Found(txs, total) == [txs |-> txs, total |-> total]
Founds == [txs : SUBSET (1..MaxHeight), total : 0..MaxHeight]

Init ==
    /\ timeout \in {0, Timeout}
    /\ now = 0 /\ base = 1 /\ stored = 1 /\ applied = 1
    /\ kind = "status" /\ heights = <<>>
    /\ stage = "idle"
    /\ began = 0 /\ issued = 0 /\ deadline = 0 /\ floor = 0 /\ asked = 0
    /\ flags = Pending /\ search = Pending
    /\ result = Pending

\* Variant of HeightAsked: the metadata is not read.
NoHeight(hs) == 0

\* GetHeightFromMetadata: two heights count as none.
HeightAsked(hs) == IF Len(hs) = 1 THEN hs[1] ELSE 0

\* Variant of DeadlineNow: no timeout means no deadline.
DeadlineIfAny == IF timeout = 0 THEN MaxTime + 1 ELSE now + timeout

\* GetQueryContext: an error of ParseDuration is dropped.
DeadlineNow == now + timeout

\* RunGRPCQuery refuses a negative height itself.
IsRefused(k, hs) == k \in {"grpc", "client"} /\ hs # <<>> /\ hs[1] < 0

Active == stage \in {"status", "fetch"}

Start(k, hs) ==
    /\ stage = "idle"
    /\ now + timeout <= MaxTime
    /\ kind' = k /\ heights' = hs
    /\ began' = now /\ issued' = now
    /\ deadline' = DeadlineNow
    /\ floor' = applied
    /\ asked' = HeightAsked(hs)
    /\ UNCHANGED <<clock, node>>

NoPage == flags' = Pending /\ search' = Pending

Refuse(k, hs) ==
    /\ Start(k, hs)
    /\ IsRefused(k, hs)
    /\ stage' = "done" /\ result' = Refused /\ NoPage

\* BlockRPC and BlockResultsRPC without a height ask for the latest first.
AskStatus(k, hs) ==
    /\ Start(k, hs)
    /\ k \in {"block", "results"} /\ hs[1] = 0
    /\ stage' = "status" /\ result' = Pending /\ NoPage

Ask(k, hs) ==
    /\ Start(k, hs)
    /\ ~IsRefused(k, hs)
    /\ ~(k \in {"block", "results"} /\ hs[1] = 0)
    /\ stage' = "fetch" /\ result' = Pending /\ NoPage

\* A limit of 0 is a division by zero.
AskPage(f) ==
    /\ Start("txs", <<>>)
    /\ flags' = f
    /\ \/ /\ Contradictory(f)
          /\ stage' = "done" /\ result' = Refused /\ search' = Pending
       \/ /\ ~Contradictory(f) /\ f.limit = 0
          /\ stage' = "done" /\ result' = Crashed /\ search' = Pending
       \/ /\ ~Contradictory(f) /\ f.limit > 0
          /\ stage' = "fetch" /\ result' = Pending /\ search' = SearchFor(PageRequest(f))

\* Variant of InTime: the HTTP client has no timeout.
InContext == kind \in ByQuery => now < deadline

\* The context's deadline, and the HTTP client's timeout, 0 for none.
InTime ==
    /\ kind \in ByQuery => now < deadline
    /\ timeout > 0 => now < issued + timeout

\* Variants of StatusAnswered: the next block is asked for; the second request
\* gets a context of its own.
NextAnswered ==
    /\ stage = "status" /\ InTime
    /\ asked' = stored + 1 /\ issued' = now /\ stage' = "fetch"
    /\ UNCHANGED <<clock, node, query, deadline, result>>

ContextRenewed ==
    /\ stage = "status" /\ InTime
    /\ asked' = stored /\ issued' = now /\ stage' = "fetch" /\ deadline' = now + timeout
    /\ UNCHANGED <<clock, node, query, result>>

StatusAnswered ==
    /\ stage = "status" /\ InTime
    /\ asked' = stored /\ issued' = now /\ stage' = "fetch"
    /\ UNCHANGED <<clock, node, query, deadline, result>>

\* The height a query of the state is answered at, and whether there is one.
StateAt == IF asked = 0 THEN applied ELSE asked
HasState == StateAt \in base..applied

\* QueryABCI turns a code that is not OK into an error; ABCIQueryRPC does not.
StateResult ==
    IF HasState \/ kind = "abci" THEN Answer(StateAt, HasState) ELSE Unavailable

\* Blocks are there once stored, their results once they are applied.
BlockResult ==
    IF asked \in base..(IF kind = "block" THEN stored ELSE applied)
    THEN Answer(asked, TRUE) ELSE Unavailable

PageResult ==
    IF HasPage(search, stored) THEN Found(Page(search, stored), stored) ELSE Unavailable

Finish(r) ==
    /\ stage' = "done" /\ result' = r
    /\ UNCHANGED <<clock, node, query, issued, deadline, asked>>

Answered ==
    /\ stage = "fetch" /\ InTime
    /\ \/ kind \in {"block", "results"} /\ Finish(BlockResult)
       \/ kind \in {"grpc", "client", "abci"} /\ Finish(StateResult)
       \/ kind = "status" /\ Finish(Answer(stored, TRUE))
       \/ kind = "info" /\ Finish(Answer(applied, TRUE))
       \/ kind = "txs" /\ Finish(PageResult)

Broken == Active /\ InTime /\ Finish(NetworkError)

Expire == Active /\ ~InTime /\ Finish(TimedOut)

\* A timer that is due fires before the clock moves on.
Tick ==
    /\ now < MaxTime
    /\ ~(Active /\ ~InTime)
    /\ now' = now + 1
    /\ UNCHANGED <<timeout, node, query, stage, issued, deadline, asked, result>>

\* The node: a block is stored before it is applied, and pruned when it likes.
StoreBlock == stored = applied /\ stored < MaxHeight /\ stored' = stored + 1 /\ UNCHANGED <<applied, base>>
ApplyBlock == applied < stored /\ applied' = stored /\ UNCHANGED <<stored, base>>
PruneBlock == base < applied /\ base' = base + 1 /\ UNCHANGED <<stored, applied>>

NodeStep ==
    /\ StoreBlock \/ ApplyBlock \/ PruneBlock
    /\ UNCHANGED <<clock, query, stage, issued, deadline, asked, result>>

Next ==
    \/ \E k \in Kinds \ {"txs"} : \E hs \in Pins(k) : Refuse(k, hs) \/ AskStatus(k, hs) \/ Ask(k, hs)
    \/ \E f \in Flags : AskPage(f)
    \/ StatusAnswered \/ Answered \/ Broken \/ Expire
    \/ Tick \/ NodeStep

Spec == Init /\ [][Next]_vars

\* Time passes and timers fire; nothing is assumed of the node.
FairSpec == Spec /\ WF_vars(Tick) /\ WF_vars(Expire)

-----------------------------------------------------------------------------
\* Every variable keeps its type.
TypeOK ==
    /\ timeout \in {0, Timeout}
    /\ now \in 0..MaxTime
    /\ base \in 1..MaxHeight /\ applied \in base..MaxHeight /\ stored \in applied..MaxHeight
    /\ kind \in Kinds /\ heights \in Pins(kind)
    /\ stage \in {"idle", "status", "fetch", "done"}
    /\ began \in 0..now /\ issued \in began..now
    /\ deadline \in 0..MaxTime
    /\ floor \in 0..applied
    /\ asked \in Heights
    /\ flags \in Flags \cup {Pending}
    /\ search \in Searches \cup {Pending}
    /\ result \in Answers \cup Founds
                   \cup {Pending, TimedOut, Refused, Unavailable, NetworkError, Crashed}

Succeeded == result \in Answers /\ result.ok

\* A query that pins a height, once, is answered at this height; any other at a
\* height the node had between its start and its end, though BlockRPC needs two
\* requests for it and the chain grows in between.
AnsweredAtHeight ==
    Succeeded =>
        IF Len(heights) = 1 /\ heights[1] # 0 THEN result.height = heights[1]
        ELSE result.height \in floor..stored

\* What the caller sees of the query: TxsRPC searches the blocks up to total, and a
\* code of ABCIQueryRPC that is not OK is a failure.
Status ==
    IF stage = "idle" THEN "idle"
    ELSE IF stage # "done" THEN "pending"
    ELSE IF Succeeded \/ result \in Founds THEN "answered" ELSE "failed"
HeightOf(r) == IF r \in Founds THEN r.total ELSE r.height

\* One request or two, by any way through the client: every query is a read of one
\* height, in the time of the configuration, 0 if that does not parse; only queries
\* without context of GetQueryContext and without HTTP timeout are unlimited.
Read == INSTANCE Reading WITH
    oldest <- base,
    latest <- stored,
    status <- Status,
    pinned <- IF Len(heights) = 1 THEN heights[1] ELSE 0,
    limit <- IF kind \in ByQuery \/ timeout > 0 THEN timeout ELSE -1,
    since <- floor,
    height <- IF Status = "answered" THEN HeightOf(result) ELSE 0
ImplementsReading == Read!Spec

\* BlockRPC without a height finds its block, unless it was pruned since Status.
LatestBlockFound ==
    kind = "block" /\ heights[1] = 0 /\ result = Unavailable => asked < base

\* The page of the flags is the one the node is asked for, through offset and
\* back, unless a word is too small for the offset or the page.
PageReached ==
    /\ search # Pending
    /\ flags.page \in 2..(Half - 1) /\ flags.limit < Half /\ (flags.page - 1) * flags.limit < Word
    => search = [page |-> flags.page, perPage |-> flags.limit]

\* With a limit the node allows, the transaction after the offset is found if there
\* is one, and none that is a limit away from it.
NextIncluded ==
    LET r == PageRequest(flags)
    IN  result \in Founds /\ r.limit <= MaxPerPage /\ r.offset < result.total
            => /\ r.offset + 1 \in result.txs
               /\ \A i \in result.txs : /\ i <= r.offset + r.limit
                                       /\ i + r.limit > r.offset + 1

\* A query ends, whatever the node does, if it has a context of GetQueryContext or
\* an HTTP timeout; the others may hang.
QueryEnds == Active /\ (kind \in ByQuery \/ timeout > 0) ~> ~Active
=============================================================================
