---------------------------- MODULE Poller_proofs ----------------------------
(***************************************************************************)
(* What holds of the block poller for every set of chains and of           *)
(* goroutines, however many blocks are published.                          *)
(***************************************************************************)
EXTENDS Poller, TLAPS

\* A mutex is held by a session of the poller that queries the mutex's chain,
\* and whoever queries a chain holds its mutex.
HolderQueries ==
    \A c \in Chains, g \in Sessions :
        holder[c] = g => g \notin own /\ pc[g] \in Held /\ chainOf[g] = c

QuerierHolds ==
    \A g \in Sessions \ own : pc[g] \in Held => holder[chainOf[g]] = g

\* A session in which a program runs AwaitBlocks goes through its steps only.
OwnSteps == \A g \in own : pc[g] \in {"dial", "done"} \cup Streaming

SessionsHaveChains == \A g \in Sessions : pc[g] # "free" => chainOf[g] \in Chains

\* Only observed chains get a mutex, each once, and only then a session.
MutexesOfObserved ==
    /\ todo \subseteq observed /\ mutexes \subseteq observed
    /\ inserting # NoChain => inserting \in observed \ mutexes
    /\ \A g \in Sessions \ own : pc[g] # "free" => chainOf[g] \in mutexes

\* A height that was read is one more than the last received, or the first.
ReadNext ==
    \A g \in own :
        /\ seen[g] <= height[chainOf[g]]
        /\ pc[g] = "dial" => received[g] = 0
        /\ pc[g] \in {"subscribed", "stream"} => received[g] \in {0, seen[g]}
        /\ pc[g] = "send" => received[g] = 0 \/ seen[g] = received[g] + 1

Unread == \A g \in Sessions : pc[g] = "free" => seen[g] = 0 /\ received[g] = 0

\* The inductive invariant.
IInv == /\ TypeOK
        /\ HolderQueries /\ QuerierHolds
        /\ OwnSteps /\ SessionsHaveChains
        /\ MutexesOfObserved /\ CrashNeedsTwoChains
        /\ ReadNext /\ Unread

LEMMA InitIInv == Init => IInv
<1> SUFFICES ASSUME Init PROVE IInv
    OBVIOUS
<1>1. TypeOK
    BY DEF Init, TypeOK, Steps
<1>2. HolderQueries /\ QuerierHolds
    BY NamesAssumption DEF Init, HolderQueries, QuerierHolds, Held, Querying, Streaming,
                           NamesAssumption
<1>3. OwnSteps /\ SessionsHaveChains /\ ReadNext /\ Unread
    BY DEF Init, OwnSteps, SessionsHaveChains, ReadNext, Unread
<1>4. MutexesOfObserved /\ CrashNeedsTwoChains
    BY DEF Init, MutexesOfObserved, CrashNeedsTwoChains
<1> QED
    BY <1>1, <1>2, <1>3, <1>4 DEF IInv

-----------------------------------------------------------------------------
LEMMA StepType == TypeOK /\ SessionsHaveChains /\ [Next]_vars => TypeOK'
<1> SUFFICES ASSUME TypeOK, SessionsHaveChains, [Next]_vars PROVE TypeOK'
    OBVIOUS
<1> USE DEF TypeOK, loop, session, At
<1>1. CASE NextPass
    BY <1>1 DEF NextPass
<1>2. CASE EndInsert
    BY <1>2 DEF EndInsert
<1>3. ASSUME NEW c \in Chains, BeginInsert(c) PROVE TypeOK'
    BY <1>3 DEF BeginInsert
<1>4. ASSUME NEW c \in Chains, NEW g \in Sessions, Spawn(c, g) PROVE TypeOK'
    BY <1>4 DEF Spawn, Goto, Steps, Held, Querying
<1>5. ASSUME NEW c \in Chains, NEW g \in Sessions, CallAwaitBlocks(c, g) PROVE TypeOK'
    BY <1>5 DEF CallAwaitBlocks, Goto, Steps, Held, Querying
<1>6. ASSUME NEW g \in Sessions, FindMutex(g) \/ DeferUnlock(g) PROVE TypeOK'
  <2>1. pc' \in [Sessions -> Steps]
      BY <1>6 DEF FindMutex, DeferUnlock, ReadMap, Goto, Steps, Held
  <2>2. crashed' \in BOOLEAN
      BY <1>6, Zenon DEF FindMutex, DeferUnlock, ReadMap
  <2> QED
      BY <1>6, <2>1, <2>2 DEF FindMutex, DeferUnlock, ReadMap
<1>7. ASSUME NEW g \in Sessions, Lock(g) PROVE TypeOK'
    BY <1>7 DEF Lock, Goto, Steps, Held
<1>8. ASSUME NEW g \in Sessions, Choose(g) PROVE TypeOK'
    BY <1>8 DEF Choose, Goto, Steps, Held, Querying
<1>9. ASSUME NEW g \in Sessions, Dial(g) PROVE TypeOK'
  <2>1. pc' \in [Sessions -> Steps]
      BY <1>9 DEF Dial, Returned, Goto, Steps, Held, Querying, Streaming
  <2>2. height[chainOf[g]] \in Nat
      BY <1>9 DEF Dial, SessionsHaveChains
  <2> QED
      BY <1>9, <2>1, <2>2 DEF Dial
<1>10. ASSUME NEW g \in Sessions, ReadMessage(g) PROVE TypeOK'
  <2>1. pc' \in [Sessions -> Steps]
      BY <1>10 DEF ReadMessage, Returned, Goto, Steps, Held, Querying, Streaming
  <2> QED
      BY <1>10, <2>1 DEF ReadMessage
<1>11. ASSUME NEW g \in Sessions, Deliver(g) PROVE TypeOK'
  <2>1. pc' \in [Sessions -> Steps]
      BY <1>11 DEF Deliver, Goto, Steps, Held, Querying, Streaming
  <2>2. chainOf[g] \in Chains
      BY <1>11 DEF Deliver, SessionsHaveChains
  <2> QED
      BY <1>11, <2>1, <2>2 DEF Deliver
<1>12. ASSUME NEW c \in Chains, Publish(c) PROVE TypeOK'
    BY <1>12 DEF Publish
<1>13. CASE UNCHANGED vars
    BY <1>13 DEF vars
<1> QED
    BY <1>1, <1>2, <1>3, <1>4, <1>5, <1>6, <1>7, <1>8, <1>9, <1>10, <1>11, <1>12, <1>13
       DEF Next, AwaitBlocksLoop, Session

\* The steps of awaitBlocks and of the world.
LEMMA StepLoop ==
    ASSUME IInv,
           \/ NextPass \/ EndInsert
           \/ \E c \in Chains : BeginInsert(c) \/ Publish(c)
    PROVE  /\ HolderQueries' /\ QuerierHolds' /\ OwnSteps' /\ SessionsHaveChains'
           /\ MutexesOfObserved' /\ CrashNeedsTwoChains' /\ ReadNext' /\ Unread'
<1> USE DEF IInv, TypeOK
<1>1. UNCHANGED <<observed, holder, session, crashed>>
    BY DEF NextPass, EndInsert, BeginInsert, Publish
<1>2. HolderQueries' /\ QuerierHolds' /\ OwnSteps' /\ SessionsHaveChains' /\ Unread'
    BY <1>1 DEF session, HolderQueries, QuerierHolds, OwnSteps, SessionsHaveChains, Unread
<1>3. MutexesOfObserved'
    BY <1>1 DEF session, MutexesOfObserved, NextPass, EndInsert, BeginInsert, Publish, loop
<1>4. CrashNeedsTwoChains'
    BY <1>1 DEF CrashNeedsTwoChains
<1>5. ReadNext'
  <2> SUFFICES ASSUME NEW g \in own PROVE
        /\ seen[g] <= height'[chainOf[g]]
        /\ pc[g] = "dial" => received[g] = 0
        /\ pc[g] \in {"subscribed", "stream"} => received[g] \in {0, seen[g]}
        /\ pc[g] = "send" => received[g] = 0 \/ seen[g] = received[g] + 1
      BY <1>1 DEF session, ReadNext
  <2>1. chainOf[g] \in Chains
      BY DEF SessionsHaveChains, OwnSteps, Streaming
  <2>2. height[chainOf[g]] <= height'[chainOf[g]]
      BY <2>1 DEF NextPass, EndInsert, BeginInsert, Publish
  <2>3. seen[g] <= height[chainOf[g]]
      BY DEF ReadNext
  <2>4. seen[g] <= height'[chainOf[g]]
    <3>1. height'[chainOf[g]] \in Nat
        BY <2>1 DEF NextPass, EndInsert, BeginInsert, Publish
    <3> QED
        BY <2>1, <2>2, <2>3, <3>1
  <2> QED
      BY <2>4 DEF ReadNext
<1> QED
    BY <1>2, <1>3, <1>4, <1>5

\* A goroutine starts: in getLatestBlocks or in AwaitBlocks.
LEMMA StepStart ==
    ASSUME IInv, NEW c \in Chains, NEW g \in Sessions, Spawn(c, g) \/ CallAwaitBlocks(c, g)
    PROVE  /\ HolderQueries' /\ QuerierHolds' /\ OwnSteps' /\ SessionsHaveChains'
           /\ MutexesOfObserved' /\ CrashNeedsTwoChains' /\ ReadNext' /\ Unread'
<1> USE DEF IInv, TypeOK
<1>1. /\ pc[g] = "free" /\ g \notin own
      /\ UNCHANGED <<observed, height, holder, mutexes, inserting, seen, received, crashed>>
      /\ chainOf' = [chainOf EXCEPT ![g] = c]
      /\ \/ /\ Goto(g, "findMutex") /\ own' = own
            /\ c \in todo \cap mutexes /\ todo' = todo \ {c}
         \/ Goto(g, "dial") /\ own' = own \cup {g} /\ todo' = todo
    BY DEF Spawn, CallAwaitBlocks, At, OwnSteps, Streaming, loop
<1>2. HolderQueries' /\ QuerierHolds'
    BY <1>1 DEF HolderQueries, QuerierHolds, Goto, Held, Querying, Streaming
<1>3. OwnSteps' /\ SessionsHaveChains' /\ Unread'
    BY <1>1 DEF OwnSteps, SessionsHaveChains, Unread, Goto
<1>4. MutexesOfObserved'
    BY <1>1 DEF MutexesOfObserved, Goto
<1>5. CrashNeedsTwoChains'
    BY <1>1 DEF CrashNeedsTwoChains
<1>6. ReadNext'
    BY <1>1 DEF ReadNext, Unread, Goto
<1> QED
    BY <1>2, <1>3, <1>4, <1>5, <1>6

\* A step of a goroutine before AwaitBlocks, or of a session without clients.
LEMMA StepBeforeDial ==
    ASSUME IInv, NEW g \in Sessions,
           FindMutex(g) \/ Lock(g) \/ DeferUnlock(g) \/ Choose(g)
    PROVE  /\ HolderQueries' /\ QuerierHolds' /\ OwnSteps' /\ SessionsHaveChains'
           /\ MutexesOfObserved' /\ CrashNeedsTwoChains' /\ ReadNext' /\ Unread'
<1> USE DEF IInv, TypeOK
<1>1. /\ UNCHANGED <<observed, height, loop, chainOf, own, seen, received>>
      /\ pc[g] \in {"findMutex", "lock", "deferUnlock", "choose"}
    BY DEF FindMutex, Lock, DeferUnlock, ReadMap, Choose, At
<1>2. g \notin own /\ chainOf[g] \in Chains /\ chainOf[g] \in mutexes
    BY <1>1 DEF OwnSteps, SessionsHaveChains, MutexesOfObserved, Streaming
<1>3. \/ /\ pc[g] = "findMutex" /\ holder' = holder
         /\ Goto(g, "lock") \/ pc' = pc
      \/ /\ pc[g] = "lock" /\ holder[chainOf[g]] = NoSession
         /\ holder' = [holder EXCEPT ![chainOf[g]] = g] /\ Goto(g, "deferUnlock")
      \/ /\ pc[g] = "deferUnlock" /\ holder' = holder
         /\ Goto(g, "choose") \/ pc' = pc
      \/ /\ pc[g] = "choose" /\ holder' = holder /\ Goto(g, "dial")
      \/ /\ pc[g] = "choose" /\ Goto(g, "done")
         /\ holder' = [holder EXCEPT ![chainOf[g]] = NoSession]
    BY DEF FindMutex, Lock, DeferUnlock, ReadMap, Choose, At
<1>4. HolderQueries' /\ QuerierHolds'
  <2> USE DEF Goto, Held, Querying, Streaming
  <2>1. CASE holder' = holder /\ pc'[g] \in Held /\ pc[g] \in Held
    <3>1. \A h \in Sessions : pc'[h] \in Held <=> pc[h] \in Held
        BY <1>3, <2>1
    <3> QED
        BY <1>1, <2>1, <3>1 DEF HolderQueries, QuerierHolds
  <2>2. CASE pc[g] = "findMutex" /\ holder' = holder
    <3>1. \A h \in Sessions : pc'[h] \in Held <=> pc[h] \in Held
        BY <1>3, <2>2
    <3> QED
        BY <1>1, <2>2, <3>1 DEF HolderQueries, QuerierHolds
  <2>3. CASE pc[g] = "lock"
    <3>1. /\ holder[chainOf[g]] = NoSession
          /\ holder' = [holder EXCEPT ![chainOf[g]] = g]
          /\ pc' = [pc EXCEPT ![g] = "deferUnlock"]
        BY <1>3, <2>3
    <3>2. HolderQueries'
        BY <1>1, <1>2, <3>1 DEF HolderQueries
    <3>3. QuerierHolds'
      <4> SUFFICES ASSUME NEW h \in Sessions \ own, h # g, pc[h] \in Held
                   PROVE  chainOf[h] # chainOf[g] /\ chainOf[h] \in Chains
          BY <1>1, <1>2, <3>1 DEF QuerierHolds
      <4>1. holder[chainOf[h]] = h
          BY DEF QuerierHolds
      <4> QED
          BY <3>1, <4>1, NamesAssumption DEF SessionsHaveChains, NamesAssumption
    <3> QED
        BY <3>2, <3>3
  <2>4. CASE pc[g] = "choose" /\ holder' = [holder EXCEPT ![chainOf[g]] = NoSession]
    <3>1. holder[chainOf[g]] = g
        BY <1>2, <2>4 DEF QuerierHolds
    <3>2. pc' = [pc EXCEPT ![g] = "done"]
      <4>1. holder' # holder
          BY <1>2, <2>4, <3>1, NamesAssumption DEF NamesAssumption
      <4> QED
          BY <1>3, <2>4, <4>1
    <3>3. HolderQueries'
        BY <1>1, <1>2, <2>4, <3>1, <3>2, NamesAssumption DEF HolderQueries, NamesAssumption
    <3>4. QuerierHolds'
        BY <1>1, <1>2, <2>4, <3>1, <3>2 DEF QuerierHolds, SessionsHaveChains
    <3> QED
        BY <3>3, <3>4
  <2> QED
      BY <1>3, <2>1, <2>2, <2>3, <2>4
<1>5. OwnSteps' /\ SessionsHaveChains' /\ Unread' /\ ReadNext'
    BY <1>1, <1>2, <1>3 DEF OwnSteps, SessionsHaveChains, Unread, ReadNext, Goto
<1>6. MutexesOfObserved'
    BY <1>1, <1>2, <1>3 DEF MutexesOfObserved, Goto, loop
<1>7. CrashNeedsTwoChains'
  <2>1. \/ crashed' = crashed
        \/ inserting # NoChain
      BY DEF FindMutex, Lock, DeferUnlock, ReadMap, Choose
  <2>2. inserting # NoChain => /\ inserting \in observed /\ chainOf[g] \in observed
                               /\ inserting # chainOf[g]
      BY <1>2 DEF MutexesOfObserved
  <2> QED
      BY <1>1, <2>1, <2>2 DEF CrashNeedsTwoChains
<1> QED
    BY <1>4, <1>5, <1>6, <1>7

\* A step of AwaitBlocks.
LEMMA StepAwaitBlocks ==
    ASSUME IInv, NEW g \in Sessions, Dial(g) \/ ReadMessage(g) \/ Deliver(g)
    PROVE  /\ HolderQueries' /\ QuerierHolds' /\ OwnSteps' /\ SessionsHaveChains'
           /\ MutexesOfObserved' /\ CrashNeedsTwoChains' /\ ReadNext' /\ Unread'
<1> USE DEF IInv, TypeOK
<1>1. /\ UNCHANGED <<observed, height, loop, holder, chainOf, own, crashed>>
      /\ pc[g] \in {"dial", "subscribed", "stream", "send"}
      /\ \E step \in {"subscribed", "stream", "send", Returned(g)} : Goto(g, step)
    BY DEF Dial, ReadMessage, Deliver, At
<1>2. /\ pc'[g] \in Querying \cup {"done"}
      /\ g \in own => pc'[g] \in Streaming \cup {"done"}
      /\ g \notin own => pc'[g] \in Querying
      /\ \A h \in Sessions : h # g => pc'[h] = pc[h]
    BY <1>1 DEF Goto, Returned, Querying, Streaming
<1>3. chainOf[g] \in Chains
    BY <1>1 DEF SessionsHaveChains
<1>4. HolderQueries' /\ QuerierHolds'
    BY <1>1, <1>2 DEF HolderQueries, QuerierHolds, Held, Querying, Streaming
<1>5. OwnSteps' /\ SessionsHaveChains' /\ MutexesOfObserved' /\ CrashNeedsTwoChains'
    BY <1>1, <1>2, <1>3
       DEF OwnSteps, SessionsHaveChains, MutexesOfObserved, CrashNeedsTwoChains, loop
<1>6. \A h \in Sessions : h # g => seen'[h] = seen[h] /\ received'[h] = received[h]
    BY DEF Dial, ReadMessage, Deliver
<1>7. Unread'
    BY <1>1, <1>2, <1>6 DEF Unread, Querying, Streaming
<1>8. ReadNext'
  <2>1. ASSUME g \in own
        PROVE  /\ seen'[g] <= height[chainOf[g]]
               /\ pc'[g] # "dial"
               /\ pc'[g] \in {"subscribed", "stream"} => received'[g] \in {0, seen'[g]}
               /\ pc'[g] = "send" => received'[g] = 0 \/ seen'[g] = received'[g] + 1
    <3>1. CASE Dial(g)
        BY <1>3, <2>1, <3>1 DEF Dial, ReadNext, At, Goto, Returned
    <3>2. CASE ReadMessage(g)
        BY <1>3, <2>1, <3>2 DEF ReadMessage, ReadNext, At, Goto, Returned
    <3>3. CASE Deliver(g)
        BY <1>3, <2>1, <3>3 DEF Deliver, ReadNext, At, Goto
    <3> QED
        BY <3>1, <3>2, <3>3
  <2> QED
      BY <1>1, <1>2, <1>6, <2>1 DEF ReadNext
<1> QED
    BY <1>4, <1>5, <1>7, <1>8

LEMMA StepIInv == IInv /\ [Next]_vars => IInv'
<1> SUFFICES ASSUME IInv, [Next]_vars PROVE IInv'
    OBVIOUS
<1>1. TypeOK'
    BY StepType DEF IInv
<1>2. CASE UNCHANGED vars
    BY <1>1, <1>2 DEF IInv, vars, loop, session, HolderQueries, QuerierHolds, OwnSteps,
                      SessionsHaveChains, MutexesOfObserved, CrashNeedsTwoChains,
                      ReadNext, Unread
<1>3. CASE Next
    BY <1>1, <1>3, StepLoop, StepStart, StepBeforeDial, StepAwaitBlocks
       DEF Next, AwaitBlocksLoop, Session, IInv
<1> QED
    BY <1>2, <1>3

LEMMA Invariance == Spec => []IInv
BY InitIInv, StepIInv, PTL DEF Spec

-----------------------------------------------------------------------------
\* Every variable keeps its type.
THEOREM TypeCorrect == Spec => []TypeOK
<1>1. IInv => TypeOK
    BY DEF IInv
<1> QED
    BY <1>1, Invariance, PTL

\* The mutexes of getLatestBlocks do what the comment at poller/poller.go:25
\* says: two sessions of the poller never query the same chain.
THEOREM NoConcurrentQueries == Spec => []OneQueryPerChain
<1>1. IInv => OneQueryPerChain
    BY DEF IInv, QuerierHolds, OneQueryPerChain
<1> QED
    BY <1>1, Invariance, PTL

\* The unsynchronised map of mutexes is harmless with one observed chain.
THEOREM CrashOnlyWithTwoChains == Spec => []CrashNeedsTwoChains
<1>1. IInv => CrashNeedsTwoChains
    BY DEF IInv
<1> QED
    BY <1>1, Invariance, PTL

\* Whatever the node does, the first session with an active client keeps its chain.
THEOREM LockedForGood == Spec => DialledForGood
<1>1. IInv /\ [Next]_vars =>
        [\A c \in Chains :
            holder[c] # NoSession /\ pc[holder[c]] \in Querying
              => holder'[c] = holder[c] /\ pc'[holder[c]] \in Querying]_vars
  <2> SUFFICES ASSUME IInv, Next, NEW c \in Chains,
                      holder[c] # NoSession, pc[holder[c]] \in Querying
               PROVE  holder'[c] = holder[c] /\ pc'[holder[c]] \in Querying
      OBVIOUS
  <2> DEFINE h == holder[c]
  <2>1. h \in Sessions /\ h \notin own /\ chainOf[h] = c
      BY DEF IInv, TypeOK, HolderQueries
  <2>2. pc \in [Sessions -> Steps] /\ holder \in [Chains -> Sessions \cup {NoSession}]
      BY DEF IInv, TypeOK
  <2>3. CASE UNCHANGED <<holder, pc>>
      BY <2>3
  <2>4. ASSUME NEW d \in Chains, NEW g \in Sessions, Spawn(d, g) \/ CallAwaitBlocks(d, g)
        PROVE  holder'[c] = h /\ pc'[h] \in Querying
      BY <2>1, <2>2, <2>4 DEF Spawn, CallAwaitBlocks, Goto, At, Querying, Streaming
  <2>5. ASSUME NEW g \in Sessions, FindMutex(g) \/ Lock(g) \/ DeferUnlock(g) \/ Choose(g)
        PROVE  holder'[c] = h /\ pc'[h] \in Querying
    <3>1. g # h /\ pc'[h] = pc[h]
        BY <2>1, <2>2, <2>5 DEF FindMutex, Lock, DeferUnlock, ReadMap, Choose, At, Goto,
                                Querying, Streaming
    <3>2. CASE Lock(g)
        BY <2>2, <3>1, <3>2 DEF Lock
    <3>3. CASE Choose(g)
      <4>1. g \notin own /\ pc[g] \in Held
          BY <3>3 DEF Choose, At, IInv, OwnSteps, Held, Streaming
      <4>2. chainOf[g] # c
          BY <2>1, <3>1, <4>1 DEF IInv, QuerierHolds
      <4> QED
          BY <2>2, <3>1, <3>3, <4>2 DEF Choose
    <3> QED
        BY <2>5, <3>1, <3>2, <3>3 DEF FindMutex, DeferUnlock, ReadMap
  <2>6. ASSUME NEW g \in Sessions, Dial(g) \/ ReadMessage(g) \/ Deliver(g)
        PROVE  holder'[c] = h /\ pc'[h] \in Querying
      BY <2>1, <2>2, <2>6 DEF Dial, ReadMessage, Deliver, Goto, Returned, Querying, Streaming
  <2> QED
      BY <2>3, <2>4, <2>5, <2>6
         DEF Next, AwaitBlocksLoop, Session, NextPass, EndInsert, BeginInsert, Publish, session
<1> QED
    BY <1>1, Invariance, PTL DEF Spec, DialledForGood

\* A program that runs AwaitBlocks itself misses no height and gets none twice.
THEOREM HeightsOrdered == Spec => HeightsInOrder
<1>1. IInv /\ [Next]_vars =>
        [\A g \in own : received'[g] # received[g] =>
            \/ received[g] = 0 /\ received'[g] <= height[chainOf[g]]
            \/ received'[g] = received[g] + 1]_vars
  <2> SUFFICES ASSUME IInv, Next, NEW g \in own, received'[g] # received[g]
               PROVE  \/ received[g] = 0 /\ received'[g] <= height[chainOf[g]]
                      \/ received'[g] = received[g] + 1
      OBVIOUS
  <2>1. Deliver(g)
      BY DEF Next, AwaitBlocksLoop, Session, NextPass, EndInsert, BeginInsert, Spawn,
             CallAwaitBlocks, FindMutex, DeferUnlock, ReadMap, Lock, Choose, Dial,
             ReadMessage, Deliver, Publish, session, IInv, TypeOK
  <2> QED
      BY <2>1 DEF Deliver, At, IInv, TypeOK, ReadNext
<1> QED
    BY <1>1, Invariance, PTL DEF Spec, HeightsInOrder

-----------------------------------------------------------------------------
\* Nobody receives what the poller's own sessions read.
NobodyNotified == notified = {}

LEMMA StepUnnotified == NobodyNotified /\ [Next]_vars => NobodyNotified'
<1> SUFFICES ASSUME NobodyNotified, [Next]_vars PROVE NobodyNotified'
    OBVIOUS
<1>1. ASSUME NEW g \in Sessions, Deliver(g) PROVE UNCHANGED notified
  <2>1. g \in own
      BY <1>1 DEF Deliver, At, Receiving
  <2> QED
      BY <1>1, <2>1 DEF Deliver
<1>2. ASSUME NEW g \in Sessions, FindMutex(g) \/ DeferUnlock(g) PROVE UNCHANGED notified
    BY <1>2, Zenon DEF FindMutex, DeferUnlock, ReadMap
<1>3. ASSUME NEW g \in Sessions, Lock(g) \/ Choose(g) \/ Dial(g) \/ ReadMessage(g)
      PROVE  UNCHANGED notified
    BY <1>3 DEF Lock, Choose, Dial, ReadMessage
<1>4. NextPass \/ EndInsert => UNCHANGED notified
    BY DEF NextPass, EndInsert
<1>5. ASSUME NEW c \in Chains, BeginInsert(c) \/ Publish(c) PROVE UNCHANGED notified
    BY <1>5 DEF BeginInsert, Publish
<1>6. ASSUME NEW g \in Sessions, NEW c \in Chains, Spawn(c, g) \/ CallAwaitBlocks(c, g)
      PROVE  UNCHANGED notified
    BY <1>6 DEF Spawn, CallAwaitBlocks
<1>7. UNCHANGED vars => UNCHANGED notified
    BY DEF vars
<1>8. UNCHANGED notified
    BY <1>1, <1>2, <1>3, <1>4, <1>5, <1>6, <1>7 DEF Next, AwaitBlocksLoop, Session
<1> QED
    BY <1>8 DEF NobodyNotified

\* However many blocks the chains publish, no observer is ever notified of one: the
\* strong form of what the run ObserversNotified finds.
THEOREM NoObserverNotified == Spec => []NobodyNotified
<1>1. Init => NobodyNotified
    BY DEF Init, NobodyNotified
<1> QED
    BY <1>1, StepUnnotified, PTL DEF Spec

\* A session of the poller that has come to its receive loop waits there for good, and
\* with any that has an active client every other session of the chain, before the
\* mutex: goroutines are never given back.
NeverResumes ==
    \A g \in Sessions \ own :
        /\ pc[g] = "receive" => pc'[g] = "receive"
        /\ /\ pc[g] \in {"findMutex", "lock"}
           /\ holder[chainOf[g]] # NoSession /\ pc[holder[chainOf[g]]] \in Querying
           => pc'[g] \in {"findMutex", "lock"}

THEOREM StuckForGood == Spec => [][NeverResumes]_vars
<1>1. ASSUME IInv, Next PROVE NeverResumes
  <2>1. pc \in [Sessions -> Steps]
      BY <1>1 DEF IInv, TypeOK
  <2> USE DEF NeverResumes, Querying, Streaming
  <2>2. ASSUME NEW h \in Sessions, NEW step, Goto(h, step)
        PROVE  pc'[h] = step /\ \A g \in Sessions : g # h => pc'[g] = pc[g]
      BY <2>1, <2>2 DEF Goto
  <2>3. ASSUME NEW h \in Sessions, Deliver(h) PROVE NeverResumes
    <3>1. h \in own /\ \A g \in Sessions : g # h => pc'[g] = pc[g]
        BY <2>2, <2>3 DEF Deliver, Receiving, At
    <3> QED
        BY <3>1
  <2>4. ASSUME NEW h \in Sessions, Lock(h) PROVE NeverResumes
    <3>1. /\ pc[h] = "lock" /\ holder[chainOf[h]] = NoSession
          /\ \A g \in Sessions : g # h => pc'[g] = pc[g]
        BY <2>2, <2>4 DEF Lock, At
    <3>2. NoSession \notin Sessions
        BY NamesAssumption DEF NamesAssumption
    <3> QED
        BY <3>1, <3>2, <2>4
  <2>5. ASSUME NEW h \in Sessions, FindMutex(h) PROVE NeverResumes
    <3>1. pc[h] = "findMutex" /\ (Goto(h, "lock") \/ UNCHANGED pc)
        BY <2>5, Zenon DEF FindMutex, ReadMap, At
    <3>2. /\ pc'[h] \in {"findMutex", "lock"}
          /\ \A g \in Sessions : g # h => pc'[g] = pc[g]
        BY <2>2, <3>1
    <3> QED
        BY <3>1, <3>2
  <2>6. ASSUME NEW h \in Sessions,
               DeferUnlock(h) \/ Choose(h) \/ Dial(h) \/ ReadMessage(h)
        PROVE  NeverResumes
    <3>1. CASE DeferUnlock(h)
      <4>1. pc[h] = "deferUnlock" /\ (Goto(h, "choose") \/ UNCHANGED pc)
          BY <3>1, Zenon DEF DeferUnlock, ReadMap, At
      <4> QED
          BY <2>2, <4>1
    <3>2. CASE Choose(h) \/ Dial(h) \/ ReadMessage(h)
      <4>1. /\ pc[h] \in {"choose", "dial", "subscribed", "stream"}
            /\ \A g \in Sessions : g # h => pc'[g] = pc[g]
          BY <2>2, <3>2 DEF Choose, Dial, ReadMessage, At
      <4> QED
          BY <4>1
    <3> QED
        BY <2>6, <3>1, <3>2
  <2>7. ASSUME NEW c \in Chains, NEW h \in Sessions, Spawn(c, h) \/ CallAwaitBlocks(c, h)
        PROVE  NeverResumes
    <3>1. pc[h] = "free" /\ \A g \in Sessions : g # h => pc'[g] = pc[g]
        BY <2>2, <2>7 DEF Spawn, CallAwaitBlocks, At
    <3> QED
        BY <3>1
  <2>8. NextPass \/ EndInsert => NeverResumes
      BY DEF NextPass, EndInsert, session
  <2>9. ASSUME NEW c \in Chains, BeginInsert(c) \/ Publish(c) PROVE NeverResumes
      BY <2>9 DEF BeginInsert, Publish, session
  <2> QED
      BY <1>1, <2>3, <2>4, <2>5, <2>6, <2>7, <2>8, <2>9
         DEF Next, AwaitBlocksLoop, Session
<1> QED
    BY <1>1, Invariance, PTL DEF Spec
=============================================================================
