------------------------- MODULE Broadcaster_proofs -------------------------
(***************************************************************************)
(* What holds of Broadcaster for every set of calls and number of polls,   *)
(* and that it implements Submission.                                      *)
(***************************************************************************)
EXTENDS Broadcaster, Integers, TLAPS

\* Calls that may not overlap are active one at a time.
OneActive ==
    ~overlap => \A c, d \in Callers : Active(c) /\ Active(d) => c = d

\* The buffer is clean from GetClientContext to the answer of the node.
CleanBuffer ==
    \A c \in Callers :
        ~overlap /\ pc[c] \in {"send", "accepted", "rejected"} => ~filled

\* Bytes that were read are a response, and without overlap the caller's own.
ResponseRead ==
    /\ filled => array \in Responses
    /\ \A c \in Callers : pc[c] \in {"unmarshal", "query"} =>
          /\ array \in Responses /\ txBytes[c] \in Responses
          /\ ~overlap => txBytes[c].tx = c
          /\ ~overlap /\ pc[c] = "unmarshal" => txBytes[c] = array

\* A call has an outcome when it is done.
OutcomeAtEnd == \A c \in Callers : outcome[c] = Pending <=> pc[c] # "done"

\* The inductive invariant.
IInv == /\ TypeOK
        /\ OneActive
        /\ CleanBuffer
        /\ AnswerKept
        /\ ResponseRead
        /\ OutcomeAtEnd

USE NamesAssumption, ResponseAssumption, PollsAssumption
    DEF NamesAssumption, ResponseAssumption, PollsAssumption

LEMMA InitIInv == Init => IInv
<1> SUFFICES ASSUME Init PROVE IInv
    OBVIOUS
<1>1. TypeOK
  <2>1. overlap \in BOOLEAN /\ timed \in BOOLEAN /\ filled \in BOOLEAN
      BY Zenon DEF Init
  <2>2. /\ array \in Responses \cup {NoResponse}
        /\ txBytes \in [Callers -> Responses \cup {NoResponse}]
      BY DEF Init
  <2>3. /\ mempool \in SUBSET Callers /\ chain \in SUBSET Callers /\ dropped \in SUBSET Callers
        /\ pc \in [Callers -> Steps]
        /\ polls \in [Callers -> Nat]
      BY DEF Init, Steps
  <2>4. outcome \in [Callers -> Callers \cup {Pending, Failed}]
      BY DEF Init
  <2> QED
      BY <2>1, <2>2, <2>3, <2>4, Zenon DEF TypeOK
<1>2. OneActive /\ CleanBuffer /\ AnswerKept /\ ResponseRead /\ OutcomeAtEnd
    BY DEF Init, OneActive, CleanBuffer, AnswerKept, ResponseRead, OutcomeAtEnd, Active
<1> QED
    BY <1>1, <1>2 DEF IInv

\* The pc and the outcome of one call change together.
LEMMA GotoType ==
    ASSUME TypeOK, NEW c \in Callers, NEW step \in Steps, Goto(c, step)
    PROVE  pc' \in [Callers -> Steps] /\ outcome' \in [Callers -> Callers \cup {Pending, Failed}]
BY DEF TypeOK, Goto

LEMMA ReturnType ==
    ASSUME TypeOK, NEW c \in Callers, NEW o \in Callers \cup {Failed}, Return(c, o)
    PROVE  pc' \in [Callers -> Steps] /\ outcome' \in [Callers -> Callers \cup {Pending, Failed}]
BY DEF TypeOK, Return, Steps

\* Mixed bytes decode as a response, and bytes nobody writes as what they are.
LEMMA MixtureType ==
    ASSUME NEW r \in Responses, NEW q \in Responses
    PROVE  /\ Mixtures(r, q) \subseteq Responses
           /\ r = q => Mixtures(r, q) = {r}
BY DEF Mixtures, Responses

\* The array a response is written to holds a response: the writer's, if the buffer
\* was empty; it may be a mixture only if another call has just written there.
LEMMA WrittenType ==
    ASSUME NEW c \in Callers, filled => array \in Responses
    PROVE  /\ Written(c) \subseteq Responses
           /\ ~filled => Written(c) = {OwnResponse(c)}
<1>1. (pc[c] = "accepted") \in BOOLEAN
    OBVIOUS
<1>2. OwnResponse(c) \in Responses
    BY <1>1, Zenon DEF Responses, OwnResponse
<1>3. CASE ~filled
    BY <1>2, <1>3 DEF Written
<1>4. CASE filled
  <2>1. Mixtures(array, OwnResponse(c)) \subseteq Responses
      BY <1>2, <1>4, MixtureType
  <2> QED
      BY <1>4, <2>1 DEF Written
<1> QED
    BY <1>3, <1>4

\* The types are kept; one case per action.
LEMMA StepType == TypeOK /\ ResponseRead /\ [Next]_vars => TypeOK'
<1> SUFFICES ASSUME TypeOK, ResponseRead, [Next]_vars PROVE TypeOK'
    OBVIOUS
<1>1. ASSUME NEW c \in Callers, Begin(c) PROVE TypeOK'
  <2>1. pc' \in [Callers -> Steps] /\ outcome' \in [Callers -> Callers \cup {Pending, Failed}]
      BY <1>1, GotoType, ReturnType DEF Begin, ResetBuffer, Steps
  <2>2. filled' \in BOOLEAN
      BY <1>1, Zenon DEF Begin, ResetBuffer, TypeOK
  <2> QED
      BY <1>1, <2>1, <2>2, Zenon DEF Begin, ResetBuffer, TypeOK
<1>2. ASSUME NEW c \in Callers, Account(c) PROVE TypeOK'
  <2>1. pc' \in [Callers -> Steps] /\ outcome' \in [Callers -> Callers \cup {Pending, Failed}]
      BY <1>2, GotoType, ReturnType DEF Account, Steps
  <2> QED
      BY <1>2, <2>1, Zenon DEF Account, TypeOK
<1>3. ASSUME NEW c \in Callers, Context(c) PROVE TypeOK'
  <2>1. pc' \in [Callers -> Steps] /\ outcome' \in [Callers -> Callers \cup {Pending, Failed}]
      BY <1>3, GotoType, ReturnType DEF Context, ResetBuffer, Steps
  <2>2. filled' \in BOOLEAN
      BY <1>3, Zenon DEF Context, ResetBuffer, TypeOK
  <2> QED
      BY <1>3, <2>1, <2>2, Zenon DEF Context, ResetBuffer, TypeOK
<1>4. ASSUME NEW c \in Callers, Send(c) PROVE TypeOK'
  <2>1. pc' \in [Callers -> Steps] /\ outcome' \in [Callers -> Callers \cup {Pending, Failed}]
      BY <1>4, GotoType, ReturnType DEF Send, Steps
  <2>2. mempool' \in SUBSET Callers
      BY <1>4 DEF Send, TypeOK
  <2> QED
      BY <1>4, <2>1, <2>2, Zenon DEF Send, TypeOK
<1>5. ASSUME NEW c \in Callers, Answer(c) PROVE TypeOK'
  <2>1. pc' \in [Callers -> Steps] /\ outcome' \in [Callers -> Callers \cup {Pending, Failed}]
      BY <1>5, GotoType, ReturnType DEF Answer, Steps
  <2>2. filled' \in BOOLEAN
      BY <1>5, Zenon DEF Answer, TypeOK
  <2>4. Written(c) \subseteq Responses
      BY WrittenType DEF ResponseRead
  <2>5. array' \in Responses \cup {NoResponse}
      BY <1>5, <2>4, Zenon DEF Answer, TypeOK
  <2> QED
      BY <1>5, <2>1, <2>2, <2>5, Zenon DEF Answer, TypeOK
<1>6. ASSUME NEW c \in Callers, Read(c) PROVE TypeOK'
  <2>1. pc' \in [Callers -> Steps] /\ outcome' \in [Callers -> Callers \cup {Pending, Failed}]
      BY <1>6, GotoType, ReturnType DEF Read, Steps
  <2> QED
      BY <1>6, <2>1, Zenon DEF Read, TypeOK
<1>7. ASSUME NEW c \in Callers, Wait(c) PROVE TypeOK'
  <2>1. pc' \in [Callers -> Steps] /\ outcome' \in [Callers -> Callers \cup {Pending, Failed}]
    <3>1. Goto(c, "unmarshal") \/ UNCHANGED <<pc, outcome>> \/ Return(c, Failed)
        BY <1>7 DEF Wait, TimeOut
    <3> QED
        BY <3>1, GotoType, ReturnType DEF Steps, TypeOK
  <2>2. polls' \in [Callers -> Nat]
      BY <1>7 DEF Wait, Poll, TimeOut, TypeOK
  <2>3. txBytes' \in [Callers -> Responses \cup {NoResponse}]
      BY <1>7 DEF Wait, TypeOK
  <2> QED
      BY <1>7, <2>1, <2>2, <2>3, Zenon DEF Wait, TypeOK
<1>8. ASSUME NEW c \in Callers, Unmarshal(c) PROVE TypeOK'
  <2>1. pc' \in [Callers -> Steps] /\ outcome' \in [Callers -> Callers \cup {Pending, Failed}]
    <3>1. Goto(c, "query") \/ Return(c, Failed)
        BY <1>8, Zenon DEF Unmarshal
    <3> QED
        BY <3>1, GotoType, ReturnType DEF Steps
  <2>2. txBytes' \in [Callers -> Responses \cup {NoResponse}]
    <3>1. PICK r \in Mixtures(txBytes[c], array) : txBytes' = [txBytes EXCEPT ![c] = r]
        BY <1>8, Zenon DEF Unmarshal
    <3>2. Mixtures(txBytes[c], array) \subseteq Responses
        BY <1>8, MixtureType DEF Unmarshal, ResponseRead
    <3> QED
        BY <3>1, <3>2 DEF TypeOK
  <2> QED
      BY <1>8, <2>1, <2>2, Zenon DEF Unmarshal, TypeOK
<1>9. ASSUME NEW c \in Callers, Query(c) PROVE TypeOK'
  <2>1. pc' \in [Callers -> Steps] /\ outcome' \in [Callers -> Callers \cup {Pending, Failed}]
    <3>1. \/ UNCHANGED <<pc, outcome>> \/ Return(c, Failed)
          \/ txBytes[c].tx \in chain /\ Return(c, txBytes[c].tx)
        BY <1>9 DEF Query, TimeOut
    <3>2. chain \subseteq Callers
        BY DEF TypeOK
    <3> QED
        BY <3>1, <3>2, ReturnType DEF TypeOK
  <2>2. polls' \in [Callers -> Nat]
      BY <1>9 DEF Query, Poll, TimeOut, TypeOK
  <2> QED
      BY <1>9, <2>1, <2>2, Zenon DEF Query, TypeOK
<1>10. ASSUME NEW t \in Callers, Include(t) \/ Drop(t) PROVE TypeOK'
  <2>1. mempool' \in SUBSET Callers /\ chain' \in SUBSET Callers /\ dropped' \in SUBSET Callers
      BY <1>10 DEF Include, Drop, TypeOK
  <2> QED
      BY <1>10, <2>1, Zenon DEF Include, Drop, TypeOK
<1>11. CASE UNCHANGED vars
    BY <1>11, Zenon DEF vars, TypeOK
<1> QED
    BY <1>1, <1>2, <1>3, <1>4, <1>5, <1>6, <1>7, <1>8, <1>9, <1>10, <1>11
    DEF Next, Step

\* A step of a call leaves the others where they are.
OthersStay(c) == \A d \in Callers : d # c =>
    pc'[d] = pc[d] /\ outcome'[d] = outcome[d] /\ txBytes'[d] = txBytes[d]

LEMMA StepOthers == ASSUME TypeOK, NEW c \in Callers, Step(c) PROVE OthersStay(c)
<1> USE DEF TypeOK, OthersStay, Goto, Return
<1>1. CASE Begin(c) \/ Account(c) \/ Context(c) \/ Send(c) \/ Read(c)
    BY <1>1 DEF Begin, Account, Context, ResetBuffer, Send, Read
<1>2. CASE Answer(c)
    BY <1>2 DEF Answer
<1>3. CASE Wait(c)
    BY <1>3 DEF Wait, Poll, TimeOut
<1>4. CASE Unmarshal(c)
    BY <1>4 DEF Unmarshal
<1>5. CASE Query(c)
    BY <1>5 DEF Query, Poll, TimeOut
<1> QED
    BY <1>1, <1>2, <1>3, <1>4, <1>5 DEF Step

\* Only Begin makes a call active, when no other is, unless calls overlap.
LEMMA StepOneActive ==
    ASSUME TypeOK, OneActive, NEW c \in Callers, Step(c)
    PROVE  OneActive' /\ (~overlap => \A d \in Callers : d # c => ~Active(d))
<1>1. OthersStay(c) /\ overlap' = overlap
    BY StepOthers DEF Step, Begin, Account, Context, ResetBuffer, Send, Answer, Read, Wait,
                      Unmarshal, Query
<1>2. ~overlap => \A d \in Callers : d # c => ~Active(d)
  <2>1. CASE Begin(c)
      BY <2>1 DEF Begin, ResetBuffer
  <2>2. CASE ~Begin(c)
    <3>1. Active(c)
        BY <2>2 DEF Step, Active, Account, Context, ResetBuffer, Send, Answer, Read, Wait,
                    Unmarshal, Query
    <3> QED
        BY <3>1 DEF OneActive
  <2> QED
      BY <2>1, <2>2
<1> QED
    BY <1>1, <1>2 DEF OneActive, Active, OthersStay

\* Each conjunct of the invariant speaks of one call at a time: it holds of the
\* others, which are idle or done, or whose responses stay.
LEMMA StepIInv == IInv /\ [Next]_vars => IInv'
<1> SUFFICES ASSUME IInv, [Next]_vars PROVE IInv'
    OBVIOUS
<1>0. TypeOK /\ TypeOK'
    BY StepType DEF IInv
<1>1. ASSUME NEW c \in Callers, Step(c) PROVE IInv'
  <2>1. /\ OneActive'
        /\ ~overlap => \A d \in Callers : d # c => ~Active(d)
        /\ OthersStay(c)
      BY <1>0, <1>1, StepOneActive, StepOthers DEF IInv
  <2>2. overlap' = overlap
      BY <1>1 DEF Step, Begin, Account, Context, ResetBuffer, Send, Answer, Read, Wait,
                  Unmarshal, Query
  <2>3. ASSUME ~overlap, NEW d \in Callers, d # c
        PROVE  pc'[d] \in {"idle", "done"}
      BY <2>1, <2>3 DEF Active, OthersStay
  <2>4. array' = array \/ array' \in Responses
    <3>1. CASE Answer(c)
      <4>1. Written(c) \subseteq Responses
          BY WrittenType DEF IInv, ResponseRead
      <4> QED
          BY <3>1, <4>1, Zenon DEF Answer
    <3>2. CASE ~Answer(c)
        BY <1>1, <3>2 DEF Step, Begin, Account, Context, ResetBuffer, Send, Read, Wait,
                          Unmarshal, Query
    <3> QED
        BY <3>1, <3>2
  <2>5. OutcomeAtEnd'
    <3>1. outcome'[c] = Pending <=> pc'[c] # "done"
      <4>1. CASE Begin(c) \/ Account(c) \/ Context(c) \/ Send(c) \/ Answer(c) \/ Read(c)
          BY <1>0, <4>1 DEF Begin, Account, Context, ResetBuffer, Send, Answer, Read, Goto, Return,
                            TypeOK, IInv, OutcomeAtEnd
      <4>2. CASE Wait(c) \/ Unmarshal(c)
          BY <1>0, <4>2 DEF Wait, Unmarshal, Poll, TimeOut, Goto, Return, TypeOK,
                            IInv, OutcomeAtEnd
      <4>3. CASE Query(c)
          BY <1>0, <4>3 DEF Query, Poll, TimeOut, Return, TypeOK, IInv, OutcomeAtEnd
      <4> QED
          BY <1>1, <4>1, <4>2, <4>3 DEF Step
    <3> QED
        BY <2>1, <3>1 DEF OthersStay, IInv, OutcomeAtEnd
  <2>6. CASE Begin(c) \/ Account(c) \/ Context(c) \/ Send(c)
    <3>1. CleanBuffer'
        BY <1>0, <2>2, <2>3, <2>6
        DEF Begin, Account, Context, ResetBuffer, Send, Goto, Return, TypeOK, IInv, CleanBuffer
    <3>2. pc'[c] \notin {"read", "wait", "unmarshal", "query"}
        BY <1>0, <2>6 DEF Begin, Account, Context, ResetBuffer, Send, Goto, Return, TypeOK
    <3>3. AnswerKept'
        BY <2>2, <2>3, <3>2 DEF AnswerKept
    <3>4. array' = array /\ (filled' => filled)
        BY <2>6 DEF Begin, Account, Context, ResetBuffer, Send
    <3>5. ResponseRead'
        BY <2>1, <2>2, <2>3, <3>2, <3>4 DEF ResponseRead, IInv, OthersStay
    <3> QED
        BY <1>0, <2>1, <2>5, <3>1, <3>3, <3>5 DEF IInv
  <2>7. CASE Answer(c)
    <3>1. pc'[c] \in {"read", "done"}
        BY <1>0, <2>7 DEF Answer, Goto, Return, TypeOK
    <3>2. CleanBuffer'
        BY <2>2, <2>3, <3>1 DEF CleanBuffer
    <3>3. ~overlap /\ pc'[c] = "read" => filled' /\ array'.tx = c
      <4>1. ASSUME ~overlap, pc'[c] = "read" PROVE filled' /\ array' \in Written(c) /\ ~filled
          BY <1>0, <2>7, <4>1 DEF Answer, Return, TypeOK, IInv, CleanBuffer
      <4> QED
          BY <4>1, WrittenType DEF OwnResponse
    <3>4. AnswerKept'
        BY <2>2, <2>3, <3>1, <3>3 DEF AnswerKept
    <3>5. filled' => array' \in Responses
      <4>1. Written(c) \subseteq Responses
          BY WrittenType DEF IInv, ResponseRead
      <4>2. array' \in Written(c) \/ UNCHANGED <<filled, array>>
          BY <2>7, Zenon DEF Answer
      <4> QED
          BY <4>1, <4>2 DEF IInv, ResponseRead
    <3>6. ResponseRead'
        BY <2>1, <2>2, <2>3, <2>4, <3>1, <3>5 DEF ResponseRead, IInv, OthersStay
    <3> QED
        BY <1>0, <2>1, <2>5, <3>2, <3>4, <3>6 DEF IInv
  <2>8. CASE Read(c)
    <3>1. pc'[c] \in {"wait", "done"} /\ pc[c] = "read" /\ UNCHANGED <<filled, array>>
        BY <1>0, <2>8 DEF Read, Goto, Return, TypeOK
    <3>2. CleanBuffer' /\ AnswerKept' /\ ResponseRead'
        BY <2>1, <2>2, <2>3, <3>1
        DEF CleanBuffer, AnswerKept, ResponseRead, IInv, OthersStay
    <3> QED
        BY <1>0, <2>1, <2>5, <3>2 DEF IInv
  <2>9. CASE Wait(c)
    <3>1. /\ pc[c] = "wait" /\ UNCHANGED <<filled, array>>
          /\ \/ pc'[c] \in {"wait", "done"}
             \/ pc'[c] = "unmarshal" /\ filled /\ txBytes'[c] = array
        BY <1>0, <2>9 DEF Wait, Poll, TimeOut, Goto, Return, TypeOK
    <3>2. CleanBuffer' /\ AnswerKept'
        BY <2>2, <2>3, <3>1 DEF CleanBuffer, AnswerKept, IInv
    <3>3. ResponseRead'
        BY <2>1, <2>2, <2>3, <3>1 DEF ResponseRead, AnswerKept, IInv, OthersStay
    <3> QED
        BY <1>0, <2>1, <2>5, <3>2, <3>3 DEF IInv
  <2>10. CASE Unmarshal(c)
    <3>1. /\ pc[c] = "unmarshal" /\ UNCHANGED <<filled, array>>
          /\ pc'[c] \in {"query", "done"}
          /\ txBytes'[c] \in Mixtures(txBytes[c], array)
      <4>1. PICK r \in Mixtures(txBytes[c], array) :
                /\ txBytes' = [txBytes EXCEPT ![c] = r]
                /\ Goto(c, "query") \/ Return(c, Failed)
          BY <2>10, Zenon DEF Unmarshal
      <4>2. pc[c] = "unmarshal" /\ UNCHANGED <<filled, array>>
          BY <2>10 DEF Unmarshal
      <4> QED
          BY <1>0, <4>1, <4>2 DEF Goto, Return, TypeOK
    <3>2. CleanBuffer' /\ AnswerKept'
        BY <2>2, <2>3, <3>1 DEF CleanBuffer, AnswerKept, IInv
    <3>3. /\ txBytes'[c] \in Responses
          /\ ~overlap => txBytes'[c] = txBytes[c]
        BY <3>1, MixtureType DEF IInv, ResponseRead
    <3>4. ResponseRead'
        BY <2>1, <2>2, <2>3, <3>1, <3>3 DEF ResponseRead, IInv, OthersStay
    <3> QED
        BY <1>0, <2>1, <2>5, <3>2, <3>4 DEF IInv
  <2>11. CASE Query(c)
    <3>1. /\ pc[c] = "query" /\ UNCHANGED <<filled, array, txBytes>>
          /\ pc'[c] \in {"query", "done"}
        BY <1>0, <2>11 DEF Query, Poll, TimeOut, Return, TypeOK
    <3>2. CleanBuffer' /\ AnswerKept'
        BY <2>2, <2>3, <3>1 DEF CleanBuffer, AnswerKept, IInv
    <3>3. ResponseRead'
        BY <2>1, <2>2, <2>3, <3>1 DEF ResponseRead, IInv, OthersStay
    <3> QED
        BY <1>0, <2>1, <2>5, <3>2, <3>3 DEF IInv
  <2> QED
      BY <1>1, <2>6, <2>7, <2>8, <2>9, <2>10, <2>11 DEF Step
<1>2. ASSUME NEW t \in Callers, Include(t) \/ Drop(t) PROVE IInv'
    BY <1>0, <1>2 DEF Include, Drop, IInv, OneActive, Active, CleanBuffer, AnswerKept,
                      ResponseRead, OutcomeAtEnd
<1>3. CASE UNCHANGED vars
    BY <1>0, <1>3 DEF vars, IInv, OneActive, Active, CleanBuffer, AnswerKept,
                      ResponseRead, OutcomeAtEnd
<1> QED
    BY <1>1, <1>2, <1>3 DEF Next

LEMMA Invariance == Spec => []IInv
BY InitIInv, StepIInv, PTL DEF Spec

\* Every variable keeps its type.
THEOREM TypeCorrect == Spec => []TypeOK
<1>1. IInv => TypeOK
    BY DEF IInv
<1> QED
    BY <1>1, Invariance, PTL

\* A call that does not overlap with another finds its own response in the
\* buffer, as long as it looks for it.
THEOREM OwnAnswerKept == Spec => []AnswerKept
<1>1. IInv => AnswerKept
    BY DEF IInv
<1> QED
    BY <1>1, Invariance, PTL

\* Without overlap no bytes are mixed: a response that says so is of a transaction
\* the node has accepted, wherever it is on its way from the node to the poll.
Truthful(r) == r \in Responses /\ r.accepted => r.tx \in Accepted

AnswersTruthful ==
    ~overlap =>
        /\ Truthful(array)
        /\ \A c \in Callers : /\ Truthful(txBytes[c])
                              /\ pc[c] = "accepted" => c \in Accepted
                              /\ pc[c] = "query" => txBytes[c].accepted

LEMMA InitTruthful == Init => AnswersTruthful
BY DEF Init, AnswersTruthful, Truthful, Responses

\* The node forgets no transaction it has accepted.
LEMMA AcceptedGrows == ASSUME [Next]_vars PROVE Accepted \subseteq Accepted'
<1>1. ASSUME NEW c \in Callers, Step(c) PROVE Accepted \subseteq Accepted'
    BY <1>1 DEF Step, Begin, Account, Context, ResetBuffer, Send, Answer, Read, Wait,
                Unmarshal, Query, Accepted
<1>2. ASSUME NEW t \in Callers, Include(t) \/ Drop(t) PROVE Accepted \subseteq Accepted'
    BY <1>2 DEF Include, Drop, Accepted
<1>3. CASE UNCHANGED vars
    BY <1>3 DEF vars, Accepted
<1> QED
    BY <1>1, <1>2, <1>3 DEF Next

\* A step moves responses, or adds that of a transaction the node has accepted.
LEMMA StepTruthful == IInv /\ AnswersTruthful /\ [Next]_vars => AnswersTruthful'
<1>0. overlap' = overlap \/ ~[Next]_vars
    BY DEF Next, Step, Begin, Account, Context, ResetBuffer, Send, Answer, Read, Wait,
           Unmarshal, Query, Include, Drop, vars
<1> SUFFICES ASSUME IInv, AnswersTruthful, [Next]_vars, ~overlap PROVE AnswersTruthful'
    BY <1>0 DEF AnswersTruthful
<1>1. TypeOK /\ ResponseRead /\ Accepted \subseteq Accepted'
    BY AcceptedGrows DEF IInv
<1> DEFINE TruthfulNext(r) == r \in Responses /\ r.accepted => r.tx \in Accepted'
<1>2. TruthfulNext(array) /\ \A d \in Callers : TruthfulNext(txBytes[d])
    BY <1>1 DEF AnswersTruthful, Truthful
<1>3. ASSUME NEW c \in Callers, Step(c) PROVE AnswersTruthful'
  <2>1. OthersStay(c)
      BY <1>1, <1>3, StepOthers
  <2>2. TruthfulNext(array')
    <3>1. CASE array' = array
        BY <1>2, <3>1
    <3>2. CASE array' \in Written(c) /\ Answer(c)
      <4>1. array' = OwnResponse(c)
          BY <3>2, WrittenType DEF Answer, IInv, CleanBuffer, ResponseRead
      <4>2. array'.accepted => pc[c] = "accepted"
          BY <4>1 DEF OwnResponse
      <4>3. array'.accepted => c \in Accepted'
          BY <1>1, <4>2 DEF AnswersTruthful
      <4>4. array'.tx = c
          BY <4>1 DEF OwnResponse
      <4> QED
          BY <4>3, <4>4
    <3> QED
        BY <1>3, <3>1, <3>2 DEF Step, Begin, Account, Context, ResetBuffer, Send, Answer, Read,
                                Wait, Unmarshal, Query
  <2>3. CASE Unmarshal(c)
    <3>1. Mixtures(txBytes[c], array) = {txBytes[c]}
        BY <2>3, MixtureType DEF Unmarshal, IInv, ResponseRead
    <3>2. /\ txBytes' = [txBytes EXCEPT ![c] = txBytes[c]]
          /\ IF txBytes[c].accepted THEN Goto(c, "query") ELSE Return(c, Failed)
        BY <2>3, <3>1, Zenon DEF Unmarshal
    <3>3. /\ txBytes'[c] = txBytes[c]
          /\ pc'[c] # "accepted"
          /\ pc'[c] = "query" => txBytes[c].accepted
        BY <1>1, <3>2 DEF Goto, Return, TypeOK
    <3> QED
        BY <1>1, <1>2, <2>1, <2>2, <3>3 DEF OthersStay, AnswersTruthful, Truthful
  <2>4. CASE ~Unmarshal(c)
    <3>1. txBytes'[c] \in {txBytes[c], array}
        BY <1>1, <1>3, <2>4 DEF Step, Begin, Account, Context, ResetBuffer, Send, Answer, Read,
                                Wait, Query, TypeOK
    <3>2. pc'[c] = "accepted" => c \in Accepted'
        BY <1>1, <1>3, <2>4 DEF Step, Begin, Account, Context, ResetBuffer, Send, Answer, Read,
                                Wait, Query, Poll, TimeOut, Goto, Return, TypeOK, Accepted
    <3>3. pc'[c] = "query" => txBytes'[c].accepted
      <4>1. pc'[c] = "query" => pc[c] = "query" /\ UNCHANGED txBytes
          BY <1>1, <1>3, <2>4 DEF Step, Begin, Account, Context, Send, Answer, Read, Wait,
                                  Query, TimeOut, Goto, Return, TypeOK
      <4> QED
          BY <4>1 DEF AnswersTruthful
    <3>4. TruthfulNext(txBytes'[c])
        BY <1>2, <3>1
    <3> QED
        BY <1>1, <1>2, <2>1, <2>2, <3>2, <3>3, <3>4 DEF OthersStay, AnswersTruthful, Truthful
  <2> QED
      BY <2>3, <2>4
<1>4. ASSUME UNCHANGED <<overlap, pc, array, txBytes>> PROVE AnswersTruthful'
    BY <1>1, <1>2, <1>4 DEF AnswersTruthful, Truthful
<1> QED
    BY <1>3, <1>4 DEF Next, Include, Drop, vars

\* Without overlapping calls the hash a call polls for is of its own transaction,
\* which the node has accepted.
THEOREM AcceptedOnly == Spec => []QueriesAccepted
<1>1. IInv /\ AnswersTruthful => QueriesAccepted
    BY DEF IInv, ResponseRead, AnswersTruthful, Truthful, QueriesAccepted
<1> QED
    BY <1>1, InitTruthful, StepTruthful, Invariance, PTL DEF Spec

\* Each step of BroadcastTx and of the node is one of Submission, or none.
LEMMA Refinement == Spec => S!Spec
<1>1. Init => S!Init
    BY DEF Init, S!Init
<1>2. IInv /\ [Next]_vars => [S!Next]_S!vars
  <2> SUFFICES ASSUME IInv, [Next]_vars PROVE [S!Next]_S!vars
      OBVIOUS
  <2>1. ASSUME NEW c \in Callers, Step(c) PROVE [S!Next]_S!vars
    <3>1. UNCHANGED <<overlap, chain>>
        BY <2>1 DEF Step, Begin, Account, Context, ResetBuffer, Send, Answer, Read, Wait,
                    Unmarshal, Query
    <3>2. \/ UNCHANGED outcome
          \/ pc[c] # "done" /\ Return(c, Failed)
          \/ /\ pc[c] = "query"
             /\ txBytes[c].tx \in chain
             /\ Return(c, txBytes[c].tx)
        BY <2>1 DEF Step, Begin, Account, Context, ResetBuffer, Send, Answer, Read, Wait,
                    Unmarshal, Query, Poll, TimeOut, Goto
    <3>3. CASE UNCHANGED outcome
        BY <3>1, <3>3 DEF S!vars
    <3>4. CASE pc[c] # "done" /\ Return(c, Failed)
        BY <3>1, <3>4 DEF Return, S!Next, S!Fail, IInv, OutcomeAtEnd
    <3>5. CASE pc[c] = "query" /\ txBytes[c].tx \in chain /\ Return(c, txBytes[c].tx)
      <4>1. outcome[c] = Pending
          BY <3>5 DEF IInv, OutcomeAtEnd
      <4>2. txBytes[c].tx = c \/ overlap
          BY <3>5 DEF IInv, ResponseRead
      <4>3. S!Return(c)
          BY <3>1, <3>5, <4>1, <4>2 DEF S!Return, Return
      <4> QED
          BY <4>3 DEF S!Next
    <3> QED
        BY <3>2, <3>3, <3>4, <3>5
  <2>2. ASSUME NEW t \in Callers, Include(t) PROVE [S!Next]_S!vars
      BY <2>2 DEF Include, S!Include, S!Next
  <2>3. ASSUME NEW t \in Callers, Drop(t) PROVE [S!Next]_S!vars
      BY <2>3 DEF Drop, S!vars
  <2>4. CASE UNCHANGED vars
      BY <2>4 DEF vars, S!vars
  <2> QED
      BY <2>1, <2>2, <2>3, <2>4 DEF Next
<1> QED
    BY <1>1, <1>2, Invariance, PTL DEF Spec, S!Spec

\* BroadcastTx keeps what its callers rely on: at most its own transaction gets
\* on the chain, what it returns is on the chain, and its own unless calls overlap.
THEOREM Implements == Spec => ImplementsSubmission
BY Refinement DEF ImplementsSubmission

-----------------------------------------------------------------------------
\* A call sends once: its transaction is not known to the node before.
Unsent ==
    \A c \in Callers : pc[c] \in {"idle", "account", "context", "send"} => c \notin Accepted

LEMMA StepUnsent == TypeOK /\ Unsent /\ [Next]_vars => Unsent'
<1> SUFFICES ASSUME TypeOK, Unsent, [Next]_vars PROVE Unsent'
    OBVIOUS
<1>1. ASSUME NEW c \in Callers, Step(c) PROVE Unsent'
  <2>1. OthersStay(c)
      BY <1>1, StepOthers
  <2>2. CASE Send(c)
    <3>1. /\ pc'[c] \in {"accepted", "rejected", "done"}
          /\ Accepted' \subseteq Accepted \cup {c}
        BY <2>2 DEF Send, Goto, Return, TypeOK, Accepted
    <3> QED
        BY <2>1, <3>1 DEF Unsent, OthersStay
  <2>3. CASE ~Send(c)
    <3>1. Accepted' = Accepted
        BY <1>1, <2>3 DEF Step, Begin, Account, Context, ResetBuffer, Answer, Read, Wait, Unmarshal,
                          Query, Accepted
    <3>2. /\ pc'[c] \in {"idle", "account", "context", "send"}
               => pc[c] \in {"idle", "account", "context", "send"}
      <4>1. CASE Begin(c) \/ Account(c) \/ Context(c) \/ Answer(c) \/ Read(c)
          BY <4>1 DEF Begin, Account, Context, ResetBuffer, Answer, Read, Goto, Return, TypeOK
      <4>2. CASE Wait(c) \/ Query(c)
          BY <4>2 DEF Wait, Query, Poll, TimeOut, Goto, Return, TypeOK
      <4>3. CASE Unmarshal(c)
        <5>1. Goto(c, "query") \/ Return(c, Failed)
            BY <4>3, Zenon DEF Unmarshal
        <5> QED
            BY <5>1 DEF Goto, Return, TypeOK
      <4> QED
          BY <1>1, <2>3, <4>1, <4>2, <4>3 DEF Step
    <3> QED
        BY <2>1, <3>1, <3>2 DEF Unsent, OthersStay
  <2> QED
      BY <2>2, <2>3
<1>2. ASSUME NEW t \in Callers, Include(t) \/ Drop(t) PROVE Unsent'
    BY <1>2 DEF Include, Drop, Unsent, Accepted
<1>3. CASE UNCHANGED vars
    BY <1>3 DEF vars, Unsent, Accepted
<1> QED
    BY <1>1, <1>2, <1>3 DEF Next

\* What enters the mempool has never been there: whatever answers get lost and
\* polls time out, no transaction is sent again after it was included or dropped.
NeverResent == \A t \in Callers : t \in mempool' \ mempool => t \notin Accepted

THEOREM SentOnce == Spec => [][NeverResent]_vars
<1>1. Init => Unsent
    BY DEF Init, Unsent, Accepted
<1>2. Unsent /\ [Next]_vars => [NeverResent]_vars
  <2> SUFFICES ASSUME Unsent, Next PROVE NeverResent
      BY DEF NeverResent, vars
  <2>1. ASSUME NEW c \in Callers, Step(c) PROVE NeverResent
    <3>1. UNCHANGED mempool \/ (pc[c] = "send" /\ mempool' = mempool \cup {c})
        BY <2>1 DEF Step, Begin, Account, Context, ResetBuffer, Send, Answer, Read, Wait, Unmarshal,
                    Query
    <3> QED
        BY <3>1 DEF NeverResent, Unsent
  <2>2. ASSUME NEW t \in Callers, Include(t) \/ Drop(t) PROVE NeverResent
      BY <2>2 DEF Include, Drop, NeverResent
  <2> QED
      BY <2>1, <2>2 DEF Next
<1>3. IInv => TypeOK
    BY DEF IInv
<1> QED
    BY <1>1, <1>2, <1>3, StepUnsent, Invariance, PTL DEF Spec

-----------------------------------------------------------------------------
\* How many places of the sequence of steps are left, the end being the last.
Rank(step) ==
    CASE step = "idle" -> 10                      [] step = "account" -> 9
      [] step = "context" -> 8                    [] step = "send" -> 7
      [] step \in {"accepted", "rejected"} -> 6   [] step = "read" -> 5
      [] step = "wait" -> 4                       [] step = "unmarshal" -> 3
      [] step = "query" -> 2                      [] step = "done" -> 1

\* The polls of both waits, each of which may go on to the next place as well.
PerPlace == BufPolls + TxPolls
StepsLeft(c) == Rank(pc[c]) * PerPlace - polls[c]

\* Each wait starts with its polls uncounted, and keeps to its own limit.
PollsCounted(c) ==
    /\ polls[c] <= PerPlace
    /\ pc[c] = "wait" => polls[c] <= BufPolls
    /\ pc[c] = "query" => polls[c] <= TxPolls
    /\ pc[c] \notin {"wait", "query", "done"} => polls[c] = 0
PollsInv == \A c \in Callers : PollsCounted(c)

\* What a step of a call comes to: a later place, whose polls are not counted yet
\* unless it is the end, or another poll.
Forward(c) == /\ Rank(pc'[c]) < Rank(pc[c])
              /\ polls'[c] = 0 \/ (pc'[c] = "done" /\ polls'[c] = polls[c])
Polled(c) == /\ pc'[c] = pc[c]
             /\ \/ pc[c] = "wait" /\ polls[c] < BufPolls
                \/ pc[c] = "query" /\ polls[c] < TxPolls
             /\ polls'[c] = polls[c] + 1

LEMMA RankType == ASSUME NEW step \in Steps PROVE Rank(step) \in 1..10
BY DEF Rank, Steps

LEMMA GoesOn ==
    ASSUME TypeOK, PollsInv, NEW c \in Callers, Step(c)
    PROVE  /\ Forward(c) \/ Polled(c)
           /\ \A d \in Callers : d # c => polls'[d] = polls[d]
<1> USE DEF TypeOK, PollsInv, PollsCounted, Goto, Return
<1>1. CASE Begin(c) \/ Account(c) \/ Context(c) \/ Send(c) \/ Answer(c) \/ Read(c)
  <2>1. UNCHANGED polls /\ pc[c] \notin {"wait", "query", "done"}
      BY <1>1 DEF Begin, Account, Context, Send, Answer, Read
  <2>2. Rank(pc'[c]) < Rank(pc[c])
    <3>1. CASE Begin(c)
        BY <3>1 DEF Begin, Rank
    <3>2. CASE Account(c)
        BY <3>2 DEF Account, Rank
    <3>3. CASE Context(c)
        BY <3>3 DEF Context, Rank
    <3>4. CASE Send(c)
        BY <3>4 DEF Send, Rank
    <3>5. CASE Answer(c)
        BY <3>5 DEF Answer, Rank
    <3>6. CASE Read(c)
        BY <3>6 DEF Read, Rank
    <3> QED
        BY <1>1, <3>1, <3>2, <3>3, <3>4, <3>5, <3>6
  <2> QED
      BY <2>1, <2>2 DEF Forward
<1>2. CASE Wait(c)
  <2>1. \/ pc'[c] = "unmarshal" /\ polls'[c] = 0
        \/ Polled(c)
        \/ pc'[c] = "done" /\ polls'[c] = polls[c]
      BY <1>2 DEF Wait, Poll, TimeOut, Polled
  <2>2. /\ pc[c] = "wait"
        /\ \A d \in Callers : d # c => polls'[d] = polls[d]
      BY <1>2 DEF Wait, Poll, TimeOut
  <2>3. Rank("unmarshal") < Rank("wait") /\ Rank("done") < Rank("wait")
      BY DEF Rank
  <2> QED
      BY <2>1, <2>2, <2>3 DEF Forward
<1>3. CASE Unmarshal(c)
  <2>1. /\ pc[c] = "unmarshal" /\ UNCHANGED polls
        /\ Goto(c, "query") \/ Return(c, Failed)
      BY <1>3, Zenon DEF Unmarshal
  <2>2. pc'[c] \in {"query", "done"} /\ polls[c] = 0
      BY <2>1
  <2>3. Rank("query") < Rank("unmarshal") /\ Rank("done") < Rank("unmarshal")
      BY DEF Rank
  <2> QED
      BY <2>1, <2>2, <2>3 DEF Forward
<1>4. CASE Query(c)
  <2>1. \/ Polled(c)
        \/ pc'[c] = "done" /\ polls'[c] = polls[c]
      BY <1>4 DEF Query, Poll, TimeOut, Polled
  <2>2. /\ pc[c] = "query"
        /\ \A d \in Callers : d # c => polls'[d] = polls[d]
      BY <1>4 DEF Query, Poll, TimeOut
  <2>3. Rank("done") < Rank("query")
      BY DEF Rank
  <2> QED
      BY <2>1, <2>2, <2>3 DEF Forward
<1> QED
    BY <1>1, <1>2, <1>3, <1>4 DEF Step

LEMMA StepPolls == TypeOK /\ PollsInv /\ [Next]_vars => PollsInv'
<1> SUFFICES ASSUME TypeOK, PollsInv, [Next]_vars PROVE PollsInv'
    OBVIOUS
<1>1. ASSUME NEW c \in Callers, Step(c) PROVE PollsInv'
  <2>1. PollsCounted(c)'
    <3>1. CASE Forward(c)
        BY <3>1 DEF Forward, PollsInv, PollsCounted, PerPlace
    <3>2. CASE Polled(c)
        BY <3>2 DEF Polled, PollsInv, PollsCounted, PerPlace, TypeOK
    <3> QED
        BY <1>1, <3>1, <3>2, GoesOn
  <2>2. ASSUME NEW d \in Callers, d # c PROVE PollsCounted(d)'
      BY <1>1, <2>2, GoesOn, StepOthers DEF OthersStay, PollsInv, PollsCounted, PerPlace
  <2> QED
      BY <2>1, <2>2 DEF PollsInv
<1>2. ASSUME NEW t \in Callers, Include(t) \/ Drop(t) PROVE PollsInv'
    BY <1>2 DEF Include, Drop, PollsInv, PollsCounted, PerPlace
<1>3. CASE UNCHANGED vars
    BY <1>3 DEF vars, PollsInv, PollsCounted, PerPlace
<1> QED
    BY <1>1, <1>2, <1>3 DEF Next

\* One place less is worth all the steps that a place can take.
LEMMA PlaceWorth ==
    ASSUME NEW a \in 0..10, NEW b \in 0..10, a < b, NEW k \in Nat
    PROVE  a * k + k <= b * k
<1>1. PICK d \in 0..10 : b = a + 1 + d
    BY b - a - 1 \in 0..10
<1>2. b * k = a * k + k + d * k
    BY <1>1
<1>3. d * k >= 0
    OBVIOUS
<1> QED
    BY <1>2, <1>3

\* The number of steps a call has left falls with each of its steps, whatever other
\* calls do to the buffer and whether its transaction is included or not.
StepsFall ==
    \A c \in Callers : /\ Step(c) => StepsLeft(c)' < StepsLeft(c)
                       /\ StepsLeft(c)' <= StepsLeft(c)
StepsBounded == \A c \in Callers : StepsLeft(c) \in 0..(10 * PerPlace)

LEMMA BoundedByPolls == TypeOK /\ PollsInv => StepsBounded
<1> SUFFICES ASSUME TypeOK, PollsInv, NEW c \in Callers
             PROVE  StepsLeft(c) \in 0..(10 * PerPlace)
    BY DEF StepsBounded
<1> DEFINE r == Rank(pc[c])
<1>1. /\ r \in 1..10 /\ PerPlace \in Nat /\ polls[c] \in Nat
      /\ polls[c] <= PerPlace
    BY RankType DEF TypeOK, PerPlace, PollsInv, PollsCounted
<1> HIDE DEF r
<1>2. r * PerPlace <= 10 * PerPlace
  <2>1. CASE r = 10
      BY <2>1, <1>1
  <2>2. CASE r < 10
      BY <2>2, <1>1, PlaceWorth
  <2> QED
      BY <1>1, <2>1, <2>2
<1>3. 0 * PerPlace + PerPlace <= r * PerPlace
    BY <1>1, PlaceWorth
<1>4. r * PerPlace \in Int
    BY <1>1
<1> QED
    BY <1>1, <1>2, <1>3, <1>4 DEF StepsLeft, r

LEMMA StepFalls == TypeOK /\ TypeOK' /\ PollsInv /\ [Next]_vars => StepsFall
<1> SUFFICES ASSUME TypeOK, TypeOK', PollsInv, [Next]_vars, NEW c \in Callers
             PROVE  /\ Step(c) => StepsLeft(c)' < StepsLeft(c)
                    /\ StepsLeft(c)' <= StepsLeft(c)
    BY DEF StepsFall
<1>1. TypeOK' /\ PollsInv'
    BY StepPolls
<1>2. /\ PerPlace \in Nat /\ polls[c] <= PerPlace
      /\ Rank(pc[c]) \in 1..10 /\ polls[c] \in Nat
      /\ Rank(pc'[c]) \in 1..10 /\ polls'[c] \in Nat
    BY <1>1, RankType DEF TypeOK, PerPlace, PollsInv, PollsCounted
<1>3. StepsLeft(c)' = Rank(pc'[c]) * PerPlace - polls'[c]
    BY DEF StepsLeft, PerPlace, Rank
<1>4. Rank(pc[c]) * PerPlace \in Int /\ Rank(pc'[c]) * PerPlace \in Int
    BY <1>2
<1>5. ASSUME Step(c) PROVE StepsLeft(c)' < StepsLeft(c)
  <2>1. CASE Forward(c)
    <3>1. Rank(pc'[c]) * PerPlace + PerPlace <= Rank(pc[c]) * PerPlace
        BY <2>1, <1>2, PlaceWorth DEF Forward
    <3>2. polls'[c] > polls[c] - PerPlace
      <4>1. PerPlace > 0
          BY DEF PerPlace
      <4>2. pc[c] # "done"
          BY <2>1, <1>1 DEF Forward, Rank, TypeOK, Steps
      <4>3. polls[c] < PerPlace
          BY <1>2, <4>2 DEF PollsInv, PollsCounted, PerPlace
      <4> QED
          BY <1>2, <4>3
    <3> QED
        BY <1>2, <1>3, <1>4, <3>1, <3>2 DEF StepsLeft
  <2>2. CASE Polled(c)
    <3>1. Rank(pc'[c]) * PerPlace = Rank(pc[c]) * PerPlace
        BY <2>2 DEF Polled
    <3> QED
        BY <2>2, <1>2, <1>3, <1>4, <3>1 DEF Polled, StepsLeft
  <2> QED
      BY <1>5, <2>1, <2>2, GoesOn
<1>6. CASE Step(c)
    BY <1>5, <1>6, <1>2, <1>3, <1>4 DEF StepsLeft
<1>7. CASE UNCHANGED <<pc[c], polls[c]>>
    BY <1>2, <1>3, <1>4, <1>5, <1>7 DEF StepsLeft
<1>8. ASSUME NEW d \in Callers, d # c, Step(d) PROVE UNCHANGED <<pc[c], polls[c]>>
    BY <1>8, GoesOn, StepOthers DEF OthersStay
<1>9. ASSUME NEW t \in Callers, Include(t) \/ Drop(t) PROVE UNCHANGED <<pc, polls>>
    BY <1>9 DEF Include, Drop
<1>10. UNCHANGED vars => UNCHANGED <<pc, polls>>
    BY DEF vars
<1> QED
    BY <1>5, <1>6, <1>7, <1>8, <1>9, <1>10 DEF Next

\* A call takes at most 10 * (BufPolls + TxPolls) steps, whatever the node and the
\* other calls do: it ends unless it stops taking steps, at a request without end.
THEOREM CallsAreBounded == Spec => []StepsBounded /\ [][StepsFall]_vars
<1>1. Init => PollsInv
  <2> SUFFICES ASSUME Init, NEW c \in Callers PROVE PollsCounted(c)
      BY DEF PollsInv
  <2>1. polls[c] = 0
      BY DEF Init
  <2> QED
      BY <2>1 DEF PollsCounted, PerPlace
<1>2. IInv => TypeOK
    BY DEF IInv
<1> QED
    BY <1>1, <1>2, StepPolls, BoundedByPolls, StepFalls, Invariance, PTL DEF Spec
=============================================================================
