-------------------------- MODULE QueryLayer_proofs --------------------------
EXTENDS QueryLayer, TLAPS

\* A query of client/query with two requests has one deadline for both.
EndsInTime ==
    Active => /\ kind \in ByQuery => now <= began + timeout
              /\ timeout > 0 => now <= issued + timeout

\* With a timeout that does not parse, no query of client/query can succeed.
UnparsedNeverAnswers ==
    timeout = 0 /\ kind \in ByQuery /\ stage # "idle" => result \in {Pending, TimedOut, Refused}

\* A request is for the height that was pinned, or for one the node has had since
\* the query began; a search is for the page of the flags.
Sent ==
    /\ stage = "status" => kind \in {"block", "results"} /\ heights[1] = 0
    /\ stage = "fetch" =>
          IF kind \in {"block", "results"} /\ heights[1] = 0 THEN asked \in floor..stored
          ELSE asked = HeightAsked(heights)
    /\ stage = "fetch" /\ kind = "txs" => search # Pending
    /\ search # Pending => flags \in Flags /\ flags.limit > 0 /\ search = SearchFor(PageRequest(flags))

\* Until a query is done it has no result, and its context the deadline it got.
Waiting ==
    /\ stage # "done" => result = Pending
    /\ Active => deadline = began + timeout

IInv == TypeOK /\ Sent /\ Waiting /\ AnsweredAtHeight /\ EndsInTime /\ LatestBlockFound
          /\ UnparsedNeverAnswers /\ NextIncluded

USE BoundsAssumption, WordAssumption

\* Division with a remainder, and by a factor.
LEMMA Division ==
    ASSUME NEW n \in Nat, NEW d \in Nat \ {0}
    PROVE  /\ n \div d \in 0..n
           /\ (n \div d) * d <= n
           /\ n < (n \div d) * d + d
BY SMT

LEMMA ProductDivided ==
    ASSUME NEW n \in Nat, NEW d \in Nat \ {0}
    PROVE  (n * d) \div d = n
BY SMT

LEMMA SearchTypes ==
    ASSUME NEW f \in PageFlags, f.limit > 0
    PROVE  /\ PageRequest(f) \in PageRequests
           /\ SearchFor(PageRequest(f)) \in Searches
<1>0. Half \in Nat \ {0} /\ Word \in Nat /\ Word > 0
    BY DEF Word
<1>1. f.page \in Unsigned /\ f.offset \in Unsigned /\ f.limit \in Unsigned
    BY DEF PageFlags
<1>2. OffsetOf(f) \in Unsigned \/ f.page = 0
    <2> DEFINE n == (f.page - 1) * f.limit
    <2>1. CASE f.page > 0
        <3>1. n \in Nat
            BY <1>0, <1>1, <2>1 DEF Unsigned
        <3>2. n % Word \in 0..(Word - 1)
            BY <1>0, <3>1, SMT
        <3> QED
            BY <3>2 DEF OffsetOf, Unsigned
    <2> QED
        BY <1>0, <1>1, <2>1 DEF Unsigned
<1>3. PageRequest(f) \in PageRequests
    BY <1>0, <1>1, <1>2 DEF PageRequest, PageRequests, Unsigned
<1>4. ASSUME NEW r \in PageRequests, r.limit > 0 PROVE SearchFor(r) \in Searches
    <2>1. r.offset \in Nat /\ r.offset < Word /\ r.limit \in Nat \ {0} /\ r.limit < Word
        BY <1>0, <1>4 DEF PageRequests, Unsigned
    <2>2. r.offset \div r.limit \in 0..r.offset
        BY <2>1, Division
    <2>3. \A u \in 0..(Word - 1) : ToInt(u) \in Signed
        BY <1>0 DEF ToInt, Signed, Word
    <2>4. \A i \in Signed : Succ(i) \in Signed
        BY <1>0 DEF Succ, Signed
    <2>5. r.offset \div r.limit \in 0..(Word - 1) /\ r.limit \in 0..(Word - 1)
        BY <1>0, <2>1, <2>2
    <2> QED
        BY <2>3, <2>4, <2>5 DEF SearchFor, Searches, PageOf
<1> QED
    BY <1>1, <1>3, <1>4 DEF PageRequest

\* No answer of one sort is of another.
LEMMA Disjoint ==
    /\ Answers \cap Founds = {}
    /\ {Pending, TimedOut, Refused, Unavailable, NetworkError, Crashed} \cap (Answers \cup Founds) = {}
    /\ Pending \notin Searches
<1>1. ASSUME NEW x \in Answers PROVE x \notin Founds
    <2>1. DOMAIN x = {"height", "ok"}
        BY DEF Answers
    <2>2. \A y \in Founds : DOMAIN y = {"txs", "total"}
        BY DEF Founds
    <2> QED
        BY <2>1, <2>2
<1>2. Answers \subseteq [height : Int, ok : BOOLEAN] /\ Founds \subseteq [txs : SUBSET Nat, total : Nat]
    BY DEF Answers, Founds
<1>3. Searches \subseteq [page : Int, perPage : Int]
    BY DEF Searches, Signed
<1> QED
    BY <1>1, <1>2, <1>3, OutcomesAssumption

\* What pins hold.
LEMMA PinFacts ==
    ASSUME NEW k \in Kinds, NEW hs \in Pins(k)
    PROVE  /\ HeightAsked(hs) \in Heights
           /\ k \in {"block", "results", "grpc", "abci"} =>
                 /\ Len(hs) = 1 /\ hs[1] \in Heights
                 /\ HeightAsked(hs) = hs[1]
           /\ k \in {"status", "info", "txs"} => hs = <<>>
           /\ HeightAsked(hs) # 0 => Len(hs) = 1 /\ HeightAsked(hs) = hs[1]
           /\ Len(hs) = 1 => HeightAsked(hs) = hs[1]
<1>1. CASE k \in {"block", "results", "grpc", "abci"}
    <2>1. PICK h \in Heights : hs = <<h>>
        BY <1>1 DEF Pins
    <2> QED
        BY <1>1, <2>1 DEF HeightAsked
<1>2. CASE k = "client"
    <2>1. \/ hs = <<>>
          \/ \E h \in Heights : hs = <<h>>
          \/ \E h \in Heights, j \in Heights : hs = <<h, j>>
        BY <1>2 DEF Pins
    <2> QED
        BY <1>2, <2>1 DEF HeightAsked, Heights
<1>3. CASE k \in {"status", "info", "txs"}
    <2>1. hs = <<>>
        BY <1>3 DEF Pins
    <2> QED
        BY <1>3, <2>1 DEF HeightAsked, Heights
<1> QED
    BY <1>1, <1>2, <1>3 DEF Kinds, ByQuery

\* The page that holds the next transaction.
LEMMA PageHoldsNext ==
    ASSUME NEW r \in PageRequests, NEW n \in 0..MaxHeight,
           r.limit > 0, r.limit <= MaxPerPage, r.offset < n
    PROVE  /\ r.offset + 1 \in Page(SearchFor(r), n)
           /\ \A i \in Page(SearchFor(r), n) : /\ i <= r.offset + r.limit
                                              /\ i + r.limit > r.offset + 1
<1>1. /\ r.offset \in Nat /\ r.limit \in Nat \ {0} /\ r.limit <= MaxPerPage /\ r.limit < Half
      /\ Half \in Nat /\ r.offset < Half - 1
    BY DEF PageRequests, Unsigned, Word
<1>2. PICK q \in Nat, e \in Nat : q = r.offset \div r.limit /\ e = q * r.limit
    <2>1. r.offset \div r.limit \in Nat
        BY <1>1, Division
    <2> QED
        BY <1>1, <2>1
<1>3. q <= r.offset /\ e <= r.offset /\ r.offset < e + r.limit
    BY <1>1, <1>2, Division
<1>4. SearchFor(r).page = q + 1 /\ PerPage(SearchFor(r)) = r.limit
    BY <1>1, <1>2, <1>3 DEF SearchFor, PerPage, PageOf, ToInt, Succ
<1>5. /\ (SearchFor(r).page - 1) * PerPage(SearchFor(r)) = e
      /\ SearchFor(r).page * PerPage(SearchFor(r)) = e + r.limit
    <2>1. (q + 1 - 1) * r.limit = e /\ (q + 1) * r.limit = e + r.limit
        BY <1>1, <1>2
    <2> QED
        BY <1>4, <2>1
<1>6. Page(SearchFor(r), n) = {i \in 1..n : e < i /\ i <= e + r.limit}
    BY <1>5 DEF Page
<1> QED
    BY <1>1, <1>3, <1>6

\* From a page to its offset and back.
LEMMA PageAndBack ==
    ASSUME NEW f \in PageFlags, f.limit > 0, f.limit < Half,
           f.page \in 2..(Half - 1), (f.page - 1) * f.limit < Word
    PROVE  SearchFor(PageRequest(f)) = [page |-> f.page, perPage |-> f.limit]
<1> DEFINE n == f.page - 1
           d == f.limit
<1>1. n \in 1..(Half - 2) /\ d \in Nat \ {0} /\ d < Half /\ Half \in Nat
    BY DEF PageFlags, Unsigned
<1>2. n * d \in Nat /\ n * d < Word /\ Word \in Nat
    BY <1>1 DEF Word
<1>3. (n * d) % Word = n * d
    BY <1>2, SMT
<1>4. PageRequest(f) = [offset |-> n * d, limit |-> d]
    BY <1>1, <1>3 DEF PageRequest, OffsetOf
<1>5. (n * d) \div d = n
    BY <1>1, ProductDivided
<1>6. ToInt(n) = n /\ ToInt(d) = d /\ Succ(n) = f.page
    BY <1>1 DEF ToInt, Succ
<1> QED
    BY <1>4, <1>5, <1>6 DEF SearchFor, PageOf

LEMMA InitIInv == Init => IInv
<1> SUFFICES ASSUME Init PROVE IInv
    OBVIOUS
<1>0. Pending \notin Answers /\ Pending \notin Founds /\ Pending # Unavailable
    BY Disjoint, OutcomesAssumption
<1>1. TypeOK
    BY DEF Init, TypeOK, Kinds, ByQuery, Pins, Heights
<1>2. Sent /\ Waiting
    BY DEF Init, Sent, Waiting, Active
<1> QED
    BY <1>0, <1>1, <1>2 DEF Init, IInv, AnsweredAtHeight, Succeeded, EndsInTime, Active,
       LatestBlockFound, UnparsedNeverAnswers, NextIncluded

\* A query begins.
LEMMA StartInv ==
    ASSUME IInv, NEW k \in Kinds, NEW hs \in Pins(k), Start(k, hs),
           \/ stage' = "done" /\ result' \in {Refused, Crashed}
           \/ stage' \in {"status", "fetch"} /\ result' = Pending,
           result' = Refused \/ k \notin ByQuery \/ stage' # "done",
           stage' = "status" => k \in {"block", "results"} /\ hs[1] = 0,
           stage' = "fetch" => ~(k \in {"block", "results"} /\ hs[1] = 0),
           stage' = "fetch" /\ k = "txs" => search' # Pending,
           flags' \in Flags \cup {Pending},
           \/ search' = Pending
           \/ flags' \in Flags /\ flags'.limit > 0 /\ search' = SearchFor(PageRequest(flags'))
    PROVE  IInv'
<1>0. /\ result' \notin Answers /\ result' \notin Founds /\ result' # Unavailable
      /\ result' \in {Pending, Refused, Crashed}
    BY Disjoint, OutcomesAssumption
<1>1. HeightAsked(hs) \in Heights
    BY PinFacts
<1>2. search' \in Searches \cup {Pending}
    BY SearchTypes
<1>3. TypeOK'
    <2>1. /\ timeout' = timeout /\ now' = now /\ base' = base /\ applied' = applied /\ stored' = stored
          /\ kind' = k /\ heights' = hs /\ began' = now /\ issued' = now /\ floor' = applied
          /\ deadline' = now + timeout /\ now + timeout <= MaxTime /\ asked' = HeightAsked(hs)
        BY DEF Start, clock, node, DeadlineNow
    <2> QED
        BY <1>0, <1>1, <1>2, <2>1 DEF IInv, TypeOK
<1>4. Sent'
    BY PinFacts, <1>3 DEF Sent, Start
<1>5. Waiting'
    BY <1>3 DEF Waiting, Start, DeadlineNow, Active, clock
<1>6. EndsInTime'
    BY DEF EndsInTime, Start, clock, IInv, TypeOK
<1> QED
    BY <1>0, <1>3, <1>4, <1>5, <1>6 DEF IInv, AnsweredAtHeight, Succeeded, LatestBlockFound,
       UnparsedNeverAnswers, NextIncluded, Start, clock

LEMMA BeginInv ==
    ASSUME IInv, NEW k \in Kinds \ {"txs"}, NEW hs \in Pins(k),
           Refuse(k, hs) \/ AskStatus(k, hs) \/ Ask(k, hs)
    PROVE  IInv'
<1>1. CASE Refuse(k, hs)
    BY <1>1, StartInv DEF Refuse, NoPage
<1>2. CASE AskStatus(k, hs)
    BY <1>2, StartInv DEF AskStatus, NoPage
<1>3. CASE Ask(k, hs)
    BY <1>3, StartInv DEF Ask, NoPage
<1> QED
    BY <1>1, <1>2, <1>3

LEMMA AskPageInv ==
    ASSUME IInv, NEW f \in Flags, AskPage(f)
    PROVE  IInv'
<1>1. "txs" \in Kinds /\ <<>> \in Pins("txs") /\ "txs" \notin ByQuery
    BY DEF Kinds, ByQuery, Pins
<1>2. f.limit > 0 => SearchFor(PageRequest(f)) # Pending
    BY SearchTypes, Disjoint
<1>3. Start("txs", <<>>) /\ flags' = f
    BY DEF AskPage
<1>4. \/ stage' = "done" /\ result' \in {Refused, Crashed} /\ search' = Pending
      \/ /\ stage' = "fetch" /\ result' = Pending
         /\ f.limit > 0 /\ search' = SearchFor(PageRequest(f))
    BY DEF AskPage
<1> QED
    BY <1>1, <1>2, <1>3, <1>4, StartInv

\* The latest block is one of those the node has had since the query began.
LEMMA StatusAnsweredInv ==
    ASSUME IInv, StatusAnswered
    PROVE  IInv'
<1>1. /\ stage = "status" /\ asked' = stored /\ issued' = now /\ stage' = "fetch"
      /\ UNCHANGED <<timeout, now, stored, applied, base, kind, heights, flags, search, began,
                     floor, deadline, result>>
    BY DEF StatusAnswered, clock, node, query
<1>2. TypeOK'
    <2>1. stored \in Heights /\ now \in began..now
        BY DEF IInv, TypeOK, Heights
    <2> QED
        BY <1>1, <2>1 DEF IInv, TypeOK
<1>3. Sent'
    BY <1>1 DEF IInv, TypeOK, Sent
<1>4. Waiting' /\ EndsInTime'
    BY <1>1 DEF IInv, TypeOK, Waiting, EndsInTime, Active
<1>5. result' = Pending /\ Pending \notin Answers /\ Pending \notin Founds /\ Pending # Unavailable
    BY <1>1, Disjoint, OutcomesAssumption DEF IInv, Waiting
<1> QED
    BY <1>2, <1>3, <1>4, <1>5 DEF IInv, AnsweredAtHeight, Succeeded, LatestBlockFound,
       UnparsedNeverAnswers, NextIncluded

\* What an answer has to satisfy.
Sound(r) ==
    /\ r \in Answers /\ r.ok =>
          IF Len(heights) = 1 /\ heights[1] # 0 THEN r.height = heights[1]
          ELSE r.height \in floor..stored
    /\ kind = "block" /\ heights[1] = 0 /\ r = Unavailable => asked < base
    /\ timeout = 0 /\ kind \in ByQuery => r = TimedOut
    /\ LET q == PageRequest(flags)
       IN  r \in Founds /\ q.limit <= MaxPerPage /\ q.offset < r.total
               => /\ q.offset + 1 \in r.txs
                  /\ \A i \in r.txs : i <= q.offset + q.limit /\ i + q.limit > q.offset + 1

LEMMA FinishInv ==
    ASSUME IInv, NEW r \in Answers \cup Founds \cup {TimedOut, Unavailable, NetworkError},
           Finish(r), Sound(r)
    PROVE  IInv'
<1>1. /\ stage' = "done" /\ result' = r
      /\ UNCHANGED <<timeout, now, stored, applied, base, kind, heights, flags, search, began,
                     floor, deadline, issued, asked>>
    BY DEF Finish, clock, node, query
<1>2. TypeOK'
    BY <1>1 DEF IInv, TypeOK
<1>3. Sent' /\ Waiting' /\ EndsInTime'
    BY <1>1 DEF IInv, Sent, Waiting, EndsInTime, Active
<1>4. AnsweredAtHeight' /\ LatestBlockFound' /\ UnparsedNeverAnswers'
    BY <1>1 DEF Sound, AnsweredAtHeight, Succeeded, LatestBlockFound, UnparsedNeverAnswers
<1>5. NextIncluded'
    BY <1>1 DEF Sound, NextIncluded
<1> QED
    BY <1>2, <1>3, <1>4, <1>5 DEF IInv

\* A context that has no time at all answers nothing.
LEMMA TimeLeft ==
    ASSUME IInv, Active, InTime
    PROVE  ~(timeout = 0 /\ kind \in ByQuery)
BY DEF IInv, TypeOK, Waiting, InTime

LEMMA AnsweredInv ==
    ASSUME IInv, Answered
    PROVE  IInv'
<1>0. stage = "fetch" /\ InTime /\ ~(timeout = 0 /\ kind \in ByQuery)
    BY TimeLeft DEF Answered, Active
<1>1. /\ base \in 1..MaxHeight /\ applied \in base..MaxHeight /\ stored \in applied..MaxHeight
      /\ floor \in 0..applied /\ asked \in Heights /\ kind \in Kinds /\ heights \in Pins(kind)
      /\ MaxHeight \in Nat
    BY DEF IInv, TypeOK
<1>2. Unavailable \notin Answers /\ Unavailable \notin Founds
    BY Disjoint
<1>3. ASSUME NEW h \in -1..MaxHeight, NEW ok \in BOOLEAN
      PROVE  /\ Answer(h, ok) \in Answers /\ Answer(h, ok) \notin Founds
             /\ Answer(h, ok) # Unavailable
             /\ Answer(h, ok).height = h /\ Answer(h, ok).ok = ok
    <2>1. Answer(h, ok) \in Answers
        BY DEF Answer, Answers
    <2> QED
        BY <2>1, Disjoint DEF Answer
<1>4. CASE kind \in {"block", "results"} /\ Finish(BlockResult)
    <2>1. Len(heights) = 1 /\ HeightAsked(heights) = heights[1]
        BY <1>1, <1>4, PinFacts
    <2>2. IF heights[1] = 0 THEN asked \in floor..stored ELSE asked = heights[1]
        BY <1>0, <1>4, <2>1 DEF IInv, Sent
    <2>3. CASE BlockResult = Answer(asked, TRUE)
        BY <1>0, <1>1, <1>3, <1>4, <2>1, <2>2, <2>3, FinishInv DEF Sound, Heights
    <2>4. CASE BlockResult = Unavailable /\ (kind = "block" => asked \notin base..stored)
        <3>1. kind = "block" /\ heights[1] = 0 => asked < base
            BY <1>1, <2>2, <2>4
        <3> QED
            BY <1>0, <1>2, <1>4, <2>4, <3>1, FinishInv DEF Sound
    <2> QED
        BY <2>3, <2>4 DEF BlockResult
<1>5. CASE kind \in {"grpc", "client", "abci"} /\ Finish(StateResult)
    <2>1. asked = HeightAsked(heights)
        BY <1>0, <1>5 DEF IInv, Sent
    <2>2. /\ asked # 0 => Len(heights) = 1 /\ asked = heights[1]
          /\ Len(heights) = 1 => asked = heights[1]
        BY <1>1, <2>1, PinFacts
    <2>3. StateAt \in -1..MaxHeight /\ HasState \in BOOLEAN
        BY <1>1 DEF StateAt, HasState, Heights
    <2>4. CASE StateResult = Answer(StateAt, HasState) /\ (HasState \/ kind = "abci")
        <3>1. HasState => IF Len(heights) = 1 /\ heights[1] # 0 THEN StateAt = heights[1]
                          ELSE StateAt \in floor..stored
            BY <1>1, <2>2 DEF StateAt
        <3> QED
            BY <1>0, <1>3, <1>5, <2>3, <2>4, <3>1, FinishInv DEF Sound
    <2>5. CASE StateResult = Unavailable
        BY <1>0, <1>2, <1>5, <2>5, FinishInv DEF Sound
    <2> QED
        BY <2>4, <2>5 DEF StateResult
<1>6. ASSUME NEW h \in {applied, stored}, kind \in {"status", "info"}, Finish(Answer(h, TRUE))
      PROVE  IInv'
    <2>1. heights = <<>> /\ kind \in {"status", "info"} /\ h \in floor..stored /\ h \in -1..MaxHeight
        <3>1. heights = <<>> /\ kind \in {"status", "info"}
            BY <1>1, <1>6, PinFacts
        <3>2. h \in floor..stored /\ h \in -1..MaxHeight
            BY <1>1
        <3> QED
            BY <3>1, <3>2
    <2>2. /\ Answer(h, TRUE) \in Answers /\ Answer(h, TRUE) \notin Founds
          /\ Answer(h, TRUE) # Unavailable
          /\ Answer(h, TRUE).height = h /\ Answer(h, TRUE).ok = TRUE
        BY <1>3, <2>1
    <2>3. kind # "block" /\ Len(heights) # 1
        BY <1>6, <2>1
    <2>4. Sound(Answer(h, TRUE))
        BY <1>0, <2>1, <2>2, <2>3 DEF Sound
    <2> QED
        BY <1>6, <2>2, <2>4, FinishInv
<1>7. CASE kind = "txs" /\ Finish(PageResult)
    <2>1. flags \in PageFlags /\ flags.limit > 0 /\ search = SearchFor(PageRequest(flags))
        BY <1>0, <1>7 DEF IInv, Sent
    <2>2. PageRequest(flags) \in PageRequests /\ PageRequest(flags).limit = flags.limit
        BY <2>1, SearchTypes DEF PageRequest
    <2>3. CASE PageResult = Unavailable
        BY <1>0, <1>2, <1>7, <2>3, FinishInv DEF Sound, ByQuery
    <2>4. CASE PageResult = Found(Page(search, stored), stored)
        <3>1. Found(Page(search, stored), stored) \in Founds
            BY <1>1 DEF Found, Founds, Page
        <3>2. Found(Page(search, stored), stored) \notin Answers
              /\ Found(Page(search, stored), stored) # Unavailable
            BY <3>1, Disjoint
        <3>3. stored \in 0..MaxHeight
            BY <1>1
        <3>4. PageRequest(flags).limit <= MaxPerPage /\ PageRequest(flags).offset < stored
              => /\ PageRequest(flags).offset + 1 \in Page(search, stored)
                 /\ \A i \in Page(search, stored) :
                       /\ i <= PageRequest(flags).offset + PageRequest(flags).limit
                       /\ i + PageRequest(flags).limit > PageRequest(flags).offset + 1
            BY <2>1, <2>2, <3>3, PageHoldsNext
        <3>5. Sound(Found(Page(search, stored), stored))
            BY <1>0, <1>7, <3>2, <3>4 DEF Sound, Found, ByQuery
        <3> QED
            BY <1>7, <2>4, <3>1, <3>5, FinishInv
    <2> QED
        BY <2>3, <2>4 DEF PageResult
<1>8. \/ kind \in {"block", "results"} /\ Finish(BlockResult)
      \/ kind \in {"grpc", "client", "abci"} /\ Finish(StateResult)
      \/ kind = "status" /\ Finish(Answer(stored, TRUE))
      \/ kind = "info" /\ Finish(Answer(applied, TRUE))
      \/ kind = "txs" /\ Finish(PageResult)
    BY DEF Answered
<1> QED
    BY <1>4, <1>5, <1>6, <1>7, <1>8

LEMMA FailedInv ==
    ASSUME IInv, Broken \/ Expire
    PROVE  IInv'
<1>0. /\ NetworkError \notin Answers /\ NetworkError \notin Founds /\ NetworkError # Unavailable
      /\ TimedOut \notin Answers /\ TimedOut \notin Founds /\ TimedOut # Unavailable
    BY Disjoint, OutcomesAssumption
<1>1. CASE Broken
    BY <1>0, <1>1, TimeLeft, FinishInv DEF Broken, Sound
<1>2. CASE Expire
    BY <1>0, <1>2, FinishInv DEF Expire, Sound
<1> QED
    BY <1>1, <1>2

LEMMA TickInv ==
    ASSUME IInv, Tick
    PROVE  IInv'
<1>1. /\ now' = now + 1 /\ now < MaxTime /\ (Active => InTime)
      /\ UNCHANGED <<timeout, stored, applied, base, kind, heights, flags, search, began, floor,
                     stage, issued, deadline, asked, result>>
    BY DEF Tick, node, query
<1>2. TypeOK'
    <2>1. now' \in 0..MaxTime /\ began \in 0..now' /\ issued \in began..now'
        BY <1>1 DEF IInv, TypeOK
    <2> QED
        BY <1>1, <2>1 DEF IInv, TypeOK
<1>3. Sent' /\ Waiting'
    BY <1>1 DEF IInv, Sent, Waiting, Active
<1>4. EndsInTime'
    BY <1>1 DEF IInv, TypeOK, EndsInTime, Waiting, Active, InTime
<1> QED
    BY <1>1, <1>2, <1>3, <1>4 DEF IInv, AnsweredAtHeight, Succeeded, LatestBlockFound,
       UnparsedNeverAnswers, NextIncluded

LEMMA NodeStepInv ==
    ASSUME IInv, NodeStep
    PROVE  IInv'
<1>1. UNCHANGED <<timeout, now, kind, heights, flags, search, began, floor, stage, issued, deadline,
                  asked, result>>
    BY DEF NodeStep, clock, query
<1>2. /\ base' \in base..MaxHeight /\ stored' \in stored..MaxHeight /\ applied' \in applied..MaxHeight
      /\ base' <= applied' /\ applied' <= stored'
    BY DEF NodeStep, StoreBlock, ApplyBlock, PruneBlock, IInv, TypeOK
<1>3. TypeOK'
    <2>1. /\ base' \in 1..MaxHeight /\ applied' \in base'..MaxHeight
          /\ stored' \in applied'..MaxHeight /\ floor \in 0..applied'
        BY <1>2 DEF IInv, TypeOK
    <2> QED
        BY <1>1, <2>1 DEF IInv, TypeOK
<1>4. Sent'
    BY <1>1, <1>2 DEF IInv, TypeOK, Sent
<1>5. AnsweredAtHeight' /\ LatestBlockFound'
    BY <1>1, <1>2 DEF IInv, TypeOK, AnsweredAtHeight, Succeeded, LatestBlockFound, Heights
<1> QED
    BY <1>1, <1>3, <1>4, <1>5 DEF IInv, Waiting, EndsInTime, Active, UnparsedNeverAnswers, NextIncluded

LEMMA StepIInv == IInv /\ [Next]_vars => IInv'
<1> SUFFICES ASSUME IInv, [Next]_vars PROVE IInv'
    OBVIOUS
<1>1. CASE Next
    BY <1>1, BeginInv, AskPageInv, StatusAnsweredInv, AnsweredInv, FailedInv, TickInv, NodeStepInv
       DEF Next
<1>2. CASE UNCHANGED vars
    BY <1>2 DEF vars, clock, node, query, IInv, TypeOK, Sent, Waiting, Active, AnsweredAtHeight,
       Succeeded, EndsInTime, LatestBlockFound, UnparsedNeverAnswers, NextIncluded
<1> QED
    BY <1>1, <1>2

LEMMA Invariance == Spec => []IInv
    BY InitIInv, StepIInv, PTL DEF Spec

\* Every variable keeps its type, for all word sizes, timeouts, page flags and
\* bounds of the node.
THEOREM TypeCorrect == Spec => []TypeOK
<1>1. IInv => TypeOK
    BY DEF IInv
<1> QED
    BY <1>1, Invariance, PTL

\* A height pinned once is the height of the answer, and without one the answer is
\* of a height the node had while the query ran.
THEOREM HeightKept == Spec => []AnsweredAtHeight
<1>1. IInv => AnsweredAtHeight
    BY DEF IInv
<1> QED
    BY <1>1, Invariance, PTL

\* The two requests of BlockRPC and BlockResultsRPC share one deadline, and no
\* request outlasts the HTTP timeout.
THEOREM OneDeadline == Spec => []EndsInTime
<1>1. IInv => EndsInTime
    BY DEF IInv
<1> QED
    BY <1>1, Invariance, PTL

\* Only pruning can take the block away between the two requests of BlockRPC.
THEOREM BlockIsThere == Spec => []LatestBlockFound
<1>1. IInv => LatestBlockFound
    BY DEF IInv
<1> QED
    BY <1>1, Invariance, PTL

\* Without a timeout that parses, client/query answers nothing.
THEOREM NoTimeNoAnswer == Spec => []UnparsedNeverAnswers
<1>1. IInv => UnparsedNeverAnswers
    BY DEF IInv
<1> QED
    BY <1>1, Invariance, PTL

\* Page and limit survive the way through offset and back, in words of any size.
THEOREM PageKept == Spec => []PageReached
<1>1. IInv => PageReached
    <2>1. SUFFICES ASSUME IInv, search # Pending, flags.page \in 2..(Half - 1), flags.limit < Half,
                          (flags.page - 1) * flags.limit < Word
                   PROVE  search = [page |-> flags.page, perPage |-> flags.limit]
        BY DEF PageReached
    <2>2. flags \in PageFlags /\ flags.limit > 0 /\ search = SearchFor(PageRequest(flags))
        BY <2>1 DEF IInv, Sent
    <2> QED
        BY <2>1, <2>2, PageAndBack
<1> QED
    BY <1>1, Invariance, PTL

\* The page a search returns starts at most a limit before the transaction after the
\* offset, and holds it.
THEOREM OffsetFound == Spec => []NextIncluded
<1>1. IInv => NextIncluded
    BY DEF IInv
<1> QED
    BY <1>1, Invariance, PTL

-----------------------------------------------------------------------------
\* The pages --page can ask for before their offset is beyond a word, and what one
\* of them shows of n transactions.
PagesOf(limit) == {p \in 1..(Half - 1) : (p - 1) * limit < Word}
Shown(p, limit, n) == Page(SearchFor(PageRequest([page |-> p, offset |-> 0, limit |-> limit])), n)

LEMMA ShownExactly ==
    ASSUME NEW d \in 1..MaxPerPage, NEW p \in PagesOf(d), NEW n \in 0..(Half - 1)
    PROVE  Shown(p, d, n) = {i \in 1..n : (p - 1) * d < i /\ i <= p * d}
<1> DEFINE f == [page |-> p, offset |-> 0, limit |-> d]
<1>1. /\ d \in Nat \ {0} /\ d < Half /\ d <= MaxPerPage
      /\ Half \in Nat /\ Half > 1 /\ p \in 1..(Half - 1) /\ (p - 1) * d < Word
    BY DEF PagesOf
<1>2. f \in PageFlags
    BY <1>1 DEF PageFlags, Unsigned, Word
<1>3. SearchFor(PageRequest(f)) = [page |-> p, perPage |-> d]
  <2>1. CASE p = 1
    <3>1. PageRequest(f) = [offset |-> 0, limit |-> d]
        BY <2>1 DEF PageRequest
    <3>2. 0 \div d = 0
        BY <1>1, Division
    <3>3. ToInt(0) = 0 /\ ToInt(d) = d /\ Succ(0) = 1
        BY <1>1 DEF ToInt, Succ
    <3> QED
        BY <2>1, <3>1, <3>2, <3>3 DEF SearchFor, PageOf
  <2>2. CASE p \in 2..(Half - 1)
      BY <1>1, <1>2, <2>2, PageAndBack
  <2> QED
      BY <1>1, <2>1, <2>2
<1>4. PerPage([page |-> p, perPage |-> d]) = d
    BY <1>1 DEF PerPage
<1> HIDE DEF f
<1>5. Page([page |-> p, perPage |-> d], n) = {i \in 1..n : (p - 1) * d < i /\ i <= p * d}
    BY <1>4 DEF Page
<1> QED
    BY <1>3, <1>5 DEF Shown, f

LEMMA ProductGrows ==
    ASSUME NEW x \in Nat, NEW y \in Nat, NEW d \in Nat, x <= y
    PROVE  x * d <= y * d
<1>1. PICK k \in Nat : y = x + k
    <2>1. y - x \in Nat /\ y = x + (y - x)
        OBVIOUS
    <2> QED
        BY <2>1
<1>2. (x + k) * d = x * d + k * d /\ x * d \in Nat /\ k * d \in Nat
    BY <1>1
<1> QED
    BY <1>1, <1>2

\* A user who goes on with --page, and a limit the node allows, is shown every
\* transaction, and none twice.
THEOREM EachOnOnePage ==
    ASSUME NEW limit \in 1..MaxPerPage, NEW n \in 0..(Half - 1), NEW i \in 1..n
    PROVE  \E p \in PagesOf(limit) :
               \A q \in PagesOf(limit) : i \in Shown(q, limit, n) <=> q = p
<1> DEFINE e == i - 1
           p == e \div limit + 1
<1>1. /\ e \in Nat /\ e < n /\ n < Half /\ Half \in Nat
      /\ limit \in Nat \ {0} /\ limit <= MaxPerPage
    OBVIOUS
<1>2. e \div limit \in 0..e /\ (e \div limit) * limit <= e /\ e < (e \div limit) * limit + limit
    BY <1>1, Division
<1> HIDE DEF e
<1>3. p \in PagesOf(limit)
    BY <1>1, <1>2 DEF PagesOf, Word
<1>4. i \in Shown(p, limit, n)
  <2>1. p * limit = (e \div limit) * limit + limit /\ (p - 1) * limit = (e \div limit) * limit
      BY <1>1, <1>2
  <2>2. (p - 1) * limit < i /\ i <= p * limit
      BY <1>1, <1>2, <2>1 DEF e
  <2> HIDE DEF p
  <2> QED
      BY <1>3, <2>2, ShownExactly
<1> HIDE DEF p
<1>5. ASSUME NEW q \in PagesOf(limit), i \in Shown(q, limit, n) PROVE q = p
  <2>1. /\ (p - 1) * limit < i /\ i <= p * limit
        /\ (q - 1) * limit < i /\ i <= q * limit
      BY <1>3, <1>4, <1>5, ShownExactly
  <2>2. /\ p \in Nat /\ q \in Nat /\ p - 1 \in Nat /\ q - 1 \in Nat
        /\ (p - 1) * limit \in Nat /\ p * limit \in Nat
        /\ (q - 1) * limit \in Nat /\ q * limit \in Nat /\ i \in Nat
      BY <1>1, <1>3 DEF PagesOf
  <2>3. ~(p <= q - 1)
    <3>1. p <= q - 1 => p * limit <= (q - 1) * limit
        BY <1>1, <2>2, ProductGrows
    <3> QED
        BY <2>1, <2>2, <3>1
  <2>4. ~(q <= p - 1)
    <3>1. q <= p - 1 => q * limit <= (p - 1) * limit
        BY <1>1, <2>2, ProductGrows
    <3> QED
        BY <2>1, <2>2, <3>1
  <2> QED
      BY <2>2, <2>3, <2>4
<1> QED
    BY <1>3, <1>4, <1>5

-----------------------------------------------------------------------------
\* The node applies a block before it stores the next, and only BlockRPC and
\* BlockResultsRPC make a second request.
Steady ==
    /\ stored <= applied + 1
    /\ Active /\ kind \notin {"block", "results"} => issued = began

LEMMA StepSteady == IInv /\ Steady /\ [Next]_vars => Steady'
<1> SUFFICES ASSUME IInv, Steady, [Next]_vars PROVE Steady'
    OBVIOUS
<1> USE DEF IInv, Steady, Active
<1>1. ASSUME NEW k \in Kinds, NEW hs, Start(k, hs) PROVE Steady'
    BY <1>1 DEF Start, clock, node
<1>2. ASSUME NEW k \in Kinds, NEW hs, Refuse(k, hs) \/ AskStatus(k, hs) \/ Ask(k, hs)
      PROVE  Steady'
    BY <1>1, <1>2 DEF Refuse, AskStatus, Ask
<1>3. ASSUME NEW f \in Flags, AskPage(f) PROVE Steady'
    BY <1>1, <1>3 DEF AskPage, Kinds
<1>4. CASE StatusAnswered
    BY <1>4 DEF StatusAnswered, clock, node, query, Sent
<1>5. CASE Answered \/ Broken \/ Expire
    BY <1>5 DEF Answered, Broken, Expire, Finish, clock, node, query
<1>6. CASE Tick
    BY <1>6 DEF Tick, node, query
<1>7. CASE NodeStep
    BY <1>7 DEF NodeStep, StoreBlock, ApplyBlock, PruneBlock, query, TypeOK
<1>8. CASE UNCHANGED vars
    BY <1>8 DEF vars, clock, node, query
<1> QED
    BY <1>2, <1>3, <1>4, <1>5, <1>6, <1>7, <1>8 DEF Next

\* Only a query that is done has an answer.
LEMMA StatusCases ==
    ASSUME IInv
    PROVE  /\ stage = "idle" => Status = "idle"
           /\ stage \in {"status", "fetch"} => Status = "pending"
           /\ Status = "answered" => result \in Answers \cup Founds
           /\ result \in {TimedOut, Refused, Unavailable, NetworkError, Crashed} /\ stage = "done"
                => Status = "failed"
BY Disjoint DEF IInv, TypeOK, Status, Succeeded

\* Time left by the clocks of the client is time left for the read.
LEMMA LimitKept ==
    ASSUME IInv, Steady, Active
    PROVE  InTime => Read!InTime
<1>1. /\ now \in Nat /\ began \in Nat /\ issued \in Nat /\ timeout \in Nat /\ deadline = began + timeout
    BY DEF IInv, TypeOK, Waiting
<1>2. kind \notin ByQuery => issued = began
    BY DEF Steady, ByQuery
<1> QED
    BY <1>1, <1>2 DEF InTime, Read!InTime, Read!Unlimited

LEMMA BeginReads ==
    ASSUME IInv, IInv', Steady, NEW k \in Kinds, NEW hs \in Pins(k), Start(k, hs),
           \/ stage' = "done" /\ result' \in {Refused, Crashed}
           \/ stage' \in {"status", "fetch"}
    PROVE  Read!Begin
<1>1. Status = "idle" /\ Status' \in {"pending", "failed"}
  <2>1. Status = "idle"
      BY StatusCases DEF Start
  <2>2. ASSUME stage' = "done", result' \in {Refused, Crashed} PROVE Status' = "failed"
    <3>1. result' \notin Answers /\ result' \notin Founds
        BY <2>2, Disjoint
    <3> QED
        BY <2>2, <3>1 DEF Status, Succeeded, Answers, Founds
  <2>3. ASSUME stage' \in {"status", "fetch"} PROVE Status' = "pending"
      BY <2>3 DEF Status
  <2> QED
      BY <2>1, <2>2, <2>3
<1>2. began' = now /\ UNCHANGED <<now, base, stored>> /\ floor' = applied /\ timeout' = timeout
    BY DEF Start, clock, node
<1>3. floor' \in {stored - 1, stored}
    BY <1>2 DEF Steady, IInv, TypeOK
<1>4. (IF Len(heights) = 1 THEN heights[1] ELSE 0)' \in Int
  <2>1. kind' \in Kinds /\ heights' \in Pins(kind') /\ Heights \subseteq Int
      BY DEF IInv, TypeOK, Heights
  <2> QED
      BY <2>1, PinFacts
<1>5. (IF kind \in ByQuery \/ timeout > 0 THEN timeout ELSE -1)' \in Read!Limits
    BY <1>2 DEF IInv, TypeOK, Read!Limits, Read!Unlimited
<1>6. UNCHANGED (IF Status = "answered" THEN HeightOf(result) ELSE 0)
    BY <1>1
<1> QED
    BY <1>1, <1>2, <1>3, <1>4, <1>5, <1>6 DEF Read!Begin

\* The height of an answer is one the node has.
LEMMA AnswerStored ==
    ASSUME IInv, Answered, Succeeded' \/ result' \in Founds
    PROVE  /\ HeightOf(result') \in base..stored
           /\ result' \in Founds => kind = "txs" /\ HeightOf(result') = stored
           /\ result' \notin Founds => HeightOf(result') = result'.height
<1>1. /\ base \in Nat /\ applied \in base..stored /\ stored \in base..MaxHeight
      /\ asked \in Heights /\ MaxHeight \in Nat
    BY DEF IInv, TypeOK
<1>2. Unavailable \notin Answers /\ Unavailable \notin Founds
    BY Disjoint
<1>3. ASSUME NEW h, NEW ok, result' = Answer(h, ok), h \in base..stored \/ ~ok
      PROVE  /\ result' \notin Founds /\ HeightOf(result') \in base..stored
             /\ HeightOf(result') = result'.height
  <2>1. result'.height = h /\ result'.ok = ok
      BY <1>3 DEF Answer
  <2>2. result' \notin Founds
    <3>1. DOMAIN result' = {"height", "ok"}
        BY <1>3 DEF Answer
    <3>2. \A y \in Founds : DOMAIN y = {"txs", "total"}
        BY DEF Founds
    <3> QED
        BY <3>1, <3>2
  <2>3. ok = TRUE
      BY <2>1, <2>2 DEF Succeeded
  <2> QED
      BY <1>3, <2>1, <2>2, <2>3 DEF HeightOf
<1>4. CASE kind \in {"block", "results"} /\ Finish(BlockResult)
  <2>1. result' = BlockResult /\ BlockResult # Unavailable
      BY <1>2, <1>4 DEF Finish, Succeeded, Answers, Founds
  <2>2. /\ BlockResult = Answer(asked, TRUE)
        /\ asked \in base..(IF kind = "block" THEN stored ELSE applied)
      BY <2>1 DEF BlockResult
  <2>3. asked \in base..stored
      BY <1>1, <2>2
  <2> QED
      BY <1>3, <2>1, <2>2, <2>3
<1>5. CASE kind \in {"grpc", "client", "abci"} /\ Finish(StateResult)
  <2>1. result' = Answer(StateAt, HasState) /\ (HasState => StateAt \in base..stored)
      BY <1>1, <1>2, <1>5 DEF Finish, StateResult, HasState, Succeeded, Answers, Founds
  <2> QED
      BY <1>3, <2>1
<1>6. CASE kind = "status" /\ Finish(Answer(stored, TRUE))
  <2>1. result' = Answer(stored, TRUE) /\ stored \in base..stored
      BY <1>1, <1>6 DEF Finish
  <2> QED
      BY <1>3, <2>1, Zenon
<1>7. CASE kind = "info" /\ Finish(Answer(applied, TRUE))
  <2>1. result' = Answer(applied, TRUE) /\ applied \in base..stored
      BY <1>1, <1>7 DEF Finish
  <2> QED
      BY <1>3, <2>1
<1>8. CASE kind = "txs" /\ Finish(PageResult)
  <2>1. result' = Found(Page(search, stored), stored)
      BY <1>2, <1>8 DEF Finish, PageResult, Succeeded
  <2>2. result' \in Founds /\ result'.total = stored
      BY <1>1, <2>1 DEF Found, Founds, Page
  <2> QED
      BY <1>1, <1>8, <2>2 DEF HeightOf
<1>9. \/ kind \in {"block", "results"} /\ Finish(BlockResult)
      \/ kind \in {"grpc", "client", "abci"} /\ Finish(StateResult)
      \/ kind = "status" /\ Finish(Answer(stored, TRUE))
      \/ kind = "info" /\ Finish(Answer(applied, TRUE))
      \/ kind = "txs" /\ Finish(PageResult)
    BY DEF Answered
<1> QED
    BY <1>4, <1>5, <1>6, <1>7, <1>8, <1>9

LEMMA AnsweredReads ==
    ASSUME IInv, IInv', Steady, Answered
    PROVE  Read!Next
<1>1. /\ Status = "pending" /\ stage' = "done" /\ Read!InTime
      /\ UNCHANGED <<now, timeout, base, stored, kind, heights, began, floor>>
    BY StatusCases, LimitKept DEF Answered, Active, Finish, clock, node, query
<1>2. CASE Succeeded' \/ result' \in Founds
  <2>1. Status' = "answered"
      BY <1>1, <1>2 DEF Status
  <2>2. IF Len(heights) = 1 /\ heights[1] # 0 THEN HeightOf(result') = heights[1]
        ELSE HeightOf(result') \in floor..stored
    <3>1. CASE result' \in Founds
      <4>1. kind = "txs" /\ HeightOf(result') = stored
          BY <1>2, <3>1, AnswerStored
      <4>2. Len(heights) # 1
          BY <4>1, PinFacts DEF IInv, TypeOK
      <4> QED
          BY <4>1, <4>2 DEF IInv, TypeOK
    <3>2. CASE result' \notin Founds
        BY <1>1, <1>2, <3>2, AnswerStored DEF IInv, AnsweredAtHeight
    <3> QED
        BY <3>1, <3>2
  <2>3. HeightOf(result') \in base..stored /\ floor \in Nat /\ stored \in Nat /\ base \in Nat
      BY <1>2, AnswerStored DEF IInv, TypeOK
  <2>4. IF (IF Len(heights) = 1 THEN heights[1] ELSE 0) = 0 THEN HeightOf(result') >= floor
        ELSE HeightOf(result') = (IF Len(heights) = 1 THEN heights[1] ELSE 0)
      BY <2>2, <2>3
  <2>5. (IF Status = "answered" THEN HeightOf(result) ELSE 0)' = HeightOf(result')
      BY <2>1 DEF HeightOf
  <2> QED
      BY <1>1, <2>1, <2>3, <2>4, <2>5 DEF Read!Next, Read!Answer, Read!parameters
<1>3. CASE ~(Succeeded' \/ result' \in Founds)
  <2>1. Status' = "failed"
      BY <1>1, <1>3 DEF Status
  <2> QED
      BY <1>1, <2>1 DEF Read!Next, Read!Fail, Read!parameters
<1> QED
    BY <1>2, <1>3

LEMMA StepReads == IInv /\ IInv' /\ Steady /\ [Next]_vars => [Read!Next]_(Read!vars)
<1> SUFFICES ASSUME IInv, IInv', Steady, [Next]_vars PROVE [Read!Next]_(Read!vars)
    OBVIOUS
<1>1. ASSUME NEW k \in Kinds \ {"txs"}, NEW hs \in Pins(k), Refuse(k, hs) \/ AskStatus(k, hs) \/ Ask(k, hs)
      PROVE  Read!Next
    BY <1>1, BeginReads DEF Refuse, AskStatus, Ask, Read!Next
<1>2. ASSUME NEW f \in Flags, AskPage(f) PROVE Read!Next
  <2>1. "txs" \in Kinds /\ <<>> \in Pins("txs")
      BY DEF Kinds, ByQuery, Pins
  <2> QED
      BY <1>2, <2>1, BeginReads DEF AskPage, Read!Next
<1>3. CASE StatusAnswered
  <2>1. Status = "pending" /\ Status' = "pending"
      BY <1>3 DEF StatusAnswered, Status
  <2> QED
      BY <1>3, <2>1 DEF StatusAnswered, clock, node, query, Read!vars, Read!parameters
<1>4. CASE Answered
    BY <1>4, AnsweredReads
<1>5. CASE Broken \/ Expire
  <2>1. /\ Status = "pending"
        /\ UNCHANGED <<now, timeout, base, stored, kind, heights, began, floor>>
      BY <1>5, StatusCases DEF Broken, Expire, Active, Finish, clock, node, query
  <2>2. Status' = "failed"
      BY <1>5, Disjoint DEF Broken, Expire, Finish, Status, Succeeded
  <2> QED
      BY <2>1, <2>2 DEF Read!Next, Read!Fail, Read!parameters
<1>6. CASE Tick
  <2>1. UNCHANGED <<timeout, base, stored, kind, heights, began, floor, stage, result>> /\ now' = now + 1
      BY <1>6 DEF Tick, node, query
  <2>2. Status = "pending" => Read!InTime
      BY <1>6, LimitKept DEF Tick, Status, Active, IInv, TypeOK
  <2>3. UNCHANGED <<Status, HeightOf(result)>>
      BY <2>1 DEF Status, Succeeded, HeightOf
  <2> QED
      BY <2>1, <2>2, <2>3 DEF Read!Next, Read!Tick, Read!parameters
<1>7. CASE NodeStep
  <2>1. UNCHANGED <<timeout, now, kind, heights, began, floor, stage, result>>
      BY <1>7 DEF NodeStep, clock, query
  <2>2. UNCHANGED <<Status, HeightOf(result)>>
      BY <2>1 DEF Status, Succeeded, HeightOf
  <2>3. applied <= stored
      BY DEF IInv, TypeOK
  <2> QED
      BY <1>7, <2>1, <2>2, <2>3 DEF NodeStep, StoreBlock, ApplyBlock, PruneBlock, IInv, TypeOK,
         Read!Next, Read!Grow, Read!Prune, Read!vars, Read!parameters
<1>8. CASE UNCHANGED vars
    BY <1>8 DEF vars, clock, node, query, Status, Succeeded, HeightOf, Read!vars, Read!parameters
<1> QED
    BY <1>1, <1>2, <1>3, <1>4, <1>5, <1>6, <1>7, <1>8 DEF Next

\* Every query, of one request or two, with its context, its HTTP timeout and the
\* heights in its options or metadata, is a read of one height in time.
THEOREM Implements == Spec => ImplementsReading
<1>1. Init => Read!Init /\ Steady
  <2> SUFFICES ASSUME Init PROVE Read!Init /\ Steady
      OBVIOUS
  <2>1. Status = "idle"
      BY DEF Init, Status
  <2>2. (IF kind \in ByQuery \/ timeout > 0 THEN timeout ELSE -1) \in Read!Limits
      BY DEF Init, Read!Limits, Read!Unlimited
  <2> QED
      BY <2>1, <2>2 DEF Init, Read!Init, Steady, Active
<1> QED
    BY <1>1, StepSteady, StepReads, Invariance, PTL DEF Spec, ImplementsReading, Read!Spec
=============================================================================
