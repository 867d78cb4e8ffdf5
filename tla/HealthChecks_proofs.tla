------------------------- MODULE HealthChecks_proofs -------------------------
(***************************************************************************)
(* What holds of HealthChecks for every set of clients, every choice of    *)
(* their timeouts and every period and age.                                *)
(***************************************************************************)
EXTENDS HealthChecks, TLAPS

\* Nobody is slow: every request ends before the next tick.
Fast == ~ \E c \in Clients : SlowNode(c)

\* Probes run only while the monitor waits for them.
Waited == pc # "wait" => \A c \in Clients : probe[c] = "none"

\* Before lastChecked is written.
Unchecked(c) == probe[c] \in {"request", "answered"}

\* A probe renews a verdict that was older than MinAge when its round began.
InflightStale ==
    /\ roundStart <= now
    /\ \A c \in Clients : Unchecked(c) => lastChecked[c] + MinAge < roundStart

\* A client without a verdict has its first probe in flight, until the first
\* round is over.
FirstRound ==
    /\ Start <= now
    /\ pc = "wait" => \A c \in Clients : lastChecked[c] = 0 => Unchecked(c)

\* What the writes of a probe have come to: before the first of them and after the
\* last the record is whole, and before the last only a success is missing from it.
Verdict(c) ==
    /\ lastChecked[c] <= now /\ lastActive[c] <= now
    /\ probe[c] = "none" =>
          IF isActive[c] THEN lastChecked[c] > 0 /\ lastActive[c] >= lastChecked[c]
                         ELSE lastActive[c] <= lastChecked[c]
    /\ probe[c] = "checked" =>
          lastChecked[c] > 0 /\ (isActive[c] \/ lastActive[c] <= lastChecked[c])
VerdictsOfProbes == \A c \in Clients : Verdict(c)

\* Without slow nodes a round is over before the ticker fires again, so that
\* quit and a tick never wait for the select statement together.
RoundFits ==
    /\ ~Over => now < nextTick
    /\ Fast =>
          /\ pc # "panicked"
          /\ pc = "select" => ~ticked \/ (~quit /\ now + Period = nextTick)
          /\ pc = "wait" => /\ ~quit /\ ~ticked
                            /\ roundStart + Period = nextTick
                            /\ \A c \in inflight : now <= roundStart + httpTimeout[c]

\* The inductive invariant.
IInv == /\ TypeOK
        /\ Waited
        /\ VerdictsOfProbes
        /\ InflightStale
        /\ FirstRound
        /\ EveryClientProbed
        /\ RoundFits

USE PeriodAssumption, AgeAssumption DEF PeriodAssumption, AgeAssumption, Start

LEMMA InitIInv == Init => IInv
<1> SUFFICES ASSUME Init PROVE IInv
    OBVIOUS
<1>1. httpTimeout \in [Clients -> Nat]
    BY TimeoutsAssumption, ZenonT(20) DEF Init, TimeoutsAssumption
<1>2. isActive \in [Clients -> BOOLEAN] /\ probe \in [Clients -> ProbeSteps]
    BY DEF Init, ProbeSteps
<1>3. lastChecked \in [Clients -> Nat] /\ lastActive \in [Clients -> Nat]
    BY DEF Init
<1>4. TypeOK
  <2>1. now \in Nat /\ nextTick \in Nat /\ roundStart \in Nat
      BY SMT DEF Init
  <2>2. /\ ticked \in BOOLEAN /\ quit \in BOOLEAN
        /\ pc \in {"select", "wait", "stopped", "panicked"}
      BY Zenon DEF Init
  <2> QED
      BY <1>1, <1>2, <1>3, <2>1, <2>2, Zenon DEF TypeOK
<1>5. /\ Waited /\ VerdictsOfProbes /\ InflightStale /\ FirstRound
      /\ EveryClientProbed
    BY DEF Init, Waited, VerdictsOfProbes, Verdict, InflightStale, FirstRound,
           Unchecked, EveryClientProbed
<1>6. RoundFits
    BY DEF Init, RoundFits
<1> QED
    BY <1>4, <1>5, <1>6 DEF IInv

\* The steps of the probe of c, one under each conjunct.
LEMMA ProbeIInv ==
    ASSUME IInv, NEW c \in Clients, Answered(c) \/ WriteChecked(c) \/ WriteActive(c)
    PROVE  IInv'
<1> USE DEF IInv, Answered, WriteChecked, WriteActive, monitor
<1>1. TypeOK'
  <2>1. probe' \in [Clients -> ProbeSteps]
      BY DEF TypeOK, ProbeSteps
  <2>2. isActive' \in [Clients -> BOOLEAN]
      BY Zenon DEF TypeOK
  <2>3. lastChecked' \in [Clients -> Nat] /\ lastActive' \in [Clients -> Nat]
      BY DEF TypeOK
  <2>4. UNCHANGED <<httpTimeout, now, nextTick, roundStart, ticked, quit, pc>>
      OBVIOUS
  <2> QED
      BY <2>1, <2>2, <2>3, <2>4, Zenon DEF TypeOK
<1>2. pc = "wait"
    BY DEF Waited
<1>3. Waited' /\ EveryClientProbed'
  <2>1. Waited'
      BY <1>2 DEF Waited
  <2>2. \A d \in Clients : lastChecked[d] > 0 => lastChecked'[d] > 0
      BY DEF TypeOK, FirstRound
  <2> QED
      BY <2>1, <2>2 DEF EveryClientProbed
<1>4. VerdictsOfProbes'
  <2> SUFFICES ASSUME NEW d \in Clients PROVE Verdict(d)'
      BY DEF VerdictsOfProbes
  <2>1. CASE d # c
      BY <2>1 DEF VerdictsOfProbes, Verdict, TypeOK
  <2>2. CASE d = c /\ Answered(c)
      BY <2>2 DEF VerdictsOfProbes, Verdict, TypeOK
  <2>3. CASE d = c /\ WriteChecked(c)
      BY <2>3 DEF VerdictsOfProbes, Verdict, TypeOK, FirstRound
  <2>4. CASE d = c /\ WriteActive(c)
      BY <2>4 DEF VerdictsOfProbes, Verdict, TypeOK
  <2> QED
      BY <2>1, <2>2, <2>3, <2>4
<1>5. InflightStale' /\ FirstRound'
    BY DEF InflightStale, FirstRound, Unchecked, TypeOK
<1>6. RoundFits'
  <2>1. inflight' \subseteq inflight
      BY DEF inflight, TypeOK
  <2> QED
      BY <2>1 DEF RoundFits, Fast, SlowNode, Over, TypeOK
<1> QED
    BY <1>1, <1>3, <1>4, <1>5, <1>6

\* One step per action, and under it one per conjunct.
LEMMA StepIInv == IInv /\ [Next]_vars => IInv'
<1> SUFFICES ASSUME IInv, [Next]_vars PROVE IInv'
    OBVIOUS
<1> USE DEF IInv
<1>1. CASE Advance
  <2> USE <1>1 DEF Advance, verdict
  <2>1. TypeOK'
    <3>1. now' \in Nat /\ nextTick' \in Nat
        BY DEF TypeOK
    <3>2. ticked' \in BOOLEAN
        BY Zenon DEF TypeOK
    <3> QED
        BY <3>1, <3>2, Zenon DEF TypeOK
  <2>2. /\ Waited' /\ VerdictsOfProbes' /\ InflightStale' /\ FirstRound'
        /\ EveryClientProbed'
      BY DEF TypeOK, Waited, VerdictsOfProbes, Verdict, InflightStale, FirstRound,
             Unchecked, EveryClientProbed
  <2>3. (~Over => now < nextTick)'
      BY DEF TypeOK, RoundFits, Over
  <2>4. ASSUME Fast' PROVE RoundFits!2!2'
    <3>1. Fast
        BY <2>4 DEF Fast, SlowNode
    <3>2. CASE pc = "select"
        BY <3>1, <3>2 DEF RoundFits, Urgent, TypeOK, Over
    <3>3. CASE pc = "wait"
      <4>1. PICK c \in inflight : now < roundStart + httpTimeout[c]
          BY <3>1, <3>3 DEF Urgent, TimedOut, TypeOK, Fast, SlowNode, inflight
      <4>2. httpTimeout[c] \in Nat /\ httpTimeout[c] < Period
          BY <3>1, <4>1 DEF Fast, SlowNode, TypeOK, inflight
      <4>3. \A d \in inflight : now + 1 <= roundStart + httpTimeout[d]
          BY <3>1, <3>3 DEF Urgent, TimedOut, TypeOK, Fast, SlowNode, inflight
      <4>4. inflight' = inflight
          BY DEF inflight
      <4> QED
          BY <3>1, <3>3, <4>1, <4>2, <4>3, <4>4 DEF RoundFits, TypeOK
    <3>4. CASE pc \in {"stopped", "panicked"}
        BY <3>1, <3>4 DEF RoundFits
    <3> QED
        BY <3>2, <3>3, <3>4 DEF TypeOK
  <2> QED
      BY <2>1, <2>2, <2>3, <2>4 DEF RoundFits
<1>2. CASE BeginRound
  <2> USE <1>2 DEF BeginRound, verdict
  <2>1. TypeOK'
    <3>1. probe' \in [Clients -> ProbeSteps]
        BY DEF TypeOK, ProbeSteps
    <3>2. pc' \in {"select", "wait", "stopped", "panicked"} /\ roundStart' \in Nat
        BY DEF TypeOK
    <3> QED
        BY <3>1, <3>2, Zenon DEF TypeOK
  <2>2. Waited' /\ VerdictsOfProbes' /\ EveryClientProbed'
      BY DEF Waited, VerdictsOfProbes, Verdict, EveryClientProbed, TypeOK
  <2>3. InflightStale' /\ FirstRound'
      BY DEF TypeOK, Waited, InflightStale, FirstRound, Unchecked, Stale
  <2>4. RoundFits'
      BY DEF TypeOK, RoundFits, Fast, SlowNode, Stale, Over, inflight
  <2> QED
      BY <2>1, <2>2, <2>3, <2>4
<1>3. CASE EndRound
  <2> USE <1>3 DEF EndRound, verdict
  <2>1. TypeOK'
    <3>1. pc' \in {"select", "wait", "stopped", "panicked"} /\ quit' \in BOOLEAN
        BY Zenon
    <3> QED
        BY <3>1, Zenon DEF TypeOK
  <2>2. Waited' /\ VerdictsOfProbes' /\ InflightStale' /\ FirstRound'
      BY DEF Waited, VerdictsOfProbes, Verdict, InflightStale, FirstRound, Unchecked,
             inflight
  <2>3. EveryClientProbed'
      BY DEF EveryClientProbed, FirstRound, TypeOK, Unchecked, inflight
  <2>4. RoundFits'
      BY DEF RoundFits, Fast, SlowNode, Over
  <2> QED
      BY <2>1, <2>2, <2>3, <2>4
<1>4. CASE Quit
    BY <1>4 DEF Quit, verdict, TypeOK, Waited, VerdictsOfProbes, Verdict,
                InflightStale, FirstRound, Unchecked, EveryClientProbed, RoundFits,
                Fast, SlowNode, Over
<1>5. ASSUME NEW c \in Clients, Answered(c) \/ WriteChecked(c) \/ WriteActive(c)
      PROVE  IInv'
    BY <1>5, ProbeIInv
<1>6. CASE UNCHANGED vars
    BY <1>6 DEF vars, monitor, verdict, TypeOK, Waited, VerdictsOfProbes, Verdict,
                InflightStale, FirstRound, Unchecked, EveryClientProbed, RoundFits,
                Fast, SlowNode, Over, inflight
<1> QED
    BY <1>1, <1>2, <1>3, <1>4, <1>5, <1>6 DEF Next

LEMMA Invariance == Spec => []IInv
BY InitIInv, StepIInv, PTL DEF Spec

\* Every variable of the monitor keeps its type.
THEOREM TypeCorrect == Spec => []TypeOK
<1>1. IInv => TypeOK
    BY DEF IInv
<1> QED
    BY <1>1, Invariance, PTL

\* After the first round every client of HealthChecks has been probed: wg.Wait
\* leaves no client behind, whatever the order in which the probes end.
THEOREM AllProbed == Spec => []EveryClientProbed
<1>1. IInv => EveryClientProbed
    BY DEF IInv
<1> QED
    BY <1>1, Invariance, PTL

\* Whenever the monitor does not wait for probes, whatever the order of their writes and
\* the time between them, every record is whole and its three fields agree.
THEOREM VerdictsAgree == Spec => []VerdictsSettled
<1>1. IInv => VerdictsSettled
    BY DEF IInv, Waited, VerdictsOfProbes, Verdict, VerdictsSettled
<1> QED
    BY <1>1, Invariance, PTL

\* The panic of a second close(quit) needs a client whose timeout is no shorter
\* than the ticker's period: configured below it, the monitor is safe.
THEOREM PanicOnlyWithSlowNode == Spec => []PanicNeedsSlowNode
<1>1. IInv => PanicNeedsSlowNode
    BY DEF IInv, RoundFits, PanicNeedsSlowNode, Fast
<1> QED
    BY <1>1, Invariance, PTL

\* No step renews a verdict that is not older than MinAge.
THEOREM ChecksSpaced == Spec => ProbeSpacing
<1>1. IInv /\ [Next]_vars =>
        [\A c \in Clients : lastChecked'[c] # lastChecked[c]
                              => lastChecked'[c] > lastChecked[c] + MinAge]_vars
  <2> SUFFICES ASSUME IInv, [Next]_vars, NEW c \in Clients,
                      lastChecked'[c] # lastChecked[c]
               PROVE  lastChecked'[c] > lastChecked[c] + MinAge
      OBVIOUS
  <2>1. PICK d \in Clients : WriteChecked(d)
      BY DEF Next, Advance, BeginRound, EndRound, Quit, Answered, WriteActive, vars, verdict
  <2>2. c = d /\ lastChecked'[c] = now
      BY <2>1 DEF WriteChecked, IInv, TypeOK
  <2> QED
      BY <2>1, <2>2 DEF WriteChecked, IInv, InflightStale, Unchecked, TypeOK
<1> QED
    BY <1>1, Invariance, PTL DEF Spec, ProbeSpacing

-----------------------------------------------------------------------------
\* No client has a timeout longer than t, or none.
TimeoutsUpTo(t) == \A c \in Clients : httpTimeout[c] \in 1..t

\* The two rounds there can be, and when each may begin and end: the first begins
\* with the first tick, the second, if a tick has come meanwhile, when it ends.
Schedule(t) ==
    /\ pc = "select" /\ ~quit => IF ticked THEN now = Start + Period
                                 ELSE nextTick = Start + Period /\ now < nextTick
    /\ pc = "select" /\ quit => now <= Start + Period + t
    /\ pc = "wait" => /\ now <= roundStart + t
                      /\ IF quit THEN roundStart <= Start + Period + t
                         ELSE roundStart = Start + Period

\* The clock waits for whatever is due.
LEMMA AdvanceOnSchedule ==
    ASSUME TypeOK, NEW t \in Nat, TimeoutsUpTo(t), Schedule(t), Advance
    PROVE  Schedule(t)'
<1> USE DEF Advance, TypeOK, Schedule, verdict
<1>1. CASE pc = "select"
    BY <1>1 DEF Urgent, Over
<1>2. CASE pc = "wait"
  <2>1. PICK c \in inflight : now < roundStart + httpTimeout[c]
      BY <1>2 DEF Urgent, TimedOut, TimeoutsUpTo, inflight
  <2>2. now + 1 <= roundStart + t
      BY <2>1 DEF TimeoutsUpTo, inflight
  <2> QED
      BY <1>2, <2>2
<1>3. CASE pc \in {"stopped", "panicked"}
    BY <1>3
<1> QED
    BY <1>1, <1>2, <1>3

LEMMA StepOnSchedule ==
    ASSUME TypeOK, NEW t \in Nat, TimeoutsUpTo(t), Schedule(t), [Next]_vars
    PROVE  Schedule(t)'
<1>1. CASE Advance
    BY <1>1, AdvanceOnSchedule
<1>2. CASE BeginRound \/ EndRound \/ Quit
    BY <1>2 DEF BeginRound, EndRound, Quit, TypeOK, Schedule
<1>3. ASSUME NEW c \in Clients, Answered(c) \/ WriteChecked(c) \/ WriteActive(c)
      PROVE  Schedule(t)'
    BY <1>3 DEF Answered, WriteChecked, WriteActive, monitor, Schedule
<1>4. CASE UNCHANGED vars
    BY <1>4 DEF vars, monitor, verdict, Schedule
<1> QED
    BY <1>1, <1>2, <1>3, <1>4 DEF Next

\* Whatever the nodes do, the monitor ends within two timeouts of its first tick:
\* what MonitorEnds says of fair behaviours, with a bound on the time it takes.
THEOREM EndsOnSchedule == Spec => []StopsInTime
<1> DEFINE OnTime == \A t \in Timeouts : TimeoutsUpTo(t) => Schedule(t)
<1>1. Init => OnTime
    BY DEF Init, Schedule
<1>2. TypeOK /\ OnTime /\ [Next]_vars => OnTime'
  <2> SUFFICES ASSUME TypeOK, OnTime, [Next]_vars, NEW t \in Timeouts, TimeoutsUpTo(t)'
               PROVE  Schedule(t)'
      OBVIOUS
  <2>1. httpTimeout' = httpTimeout
      BY DEF Next, Advance, BeginRound, EndRound, Quit, Answered, WriteChecked,
             WriteActive, vars
  <2>2. t \in Nat /\ TimeoutsUpTo(t)
      BY <2>1, TimeoutsAssumption DEF TimeoutsAssumption, TimeoutsUpTo
  <2> QED
      BY <2>2, StepOnSchedule
<1>3. TypeOK /\ OnTime => StopsInTime
  <2> SUFFICES ASSUME TypeOK, OnTime, NEW t \in Timeouts, TimeoutsUpTo(t),
                      now > Start + Period + 2 * t
               PROVE  Over
      BY DEF StopsInTime, TimeoutsUpTo
  <2>1. t \in Nat /\ Schedule(t)
      BY TimeoutsAssumption DEF TimeoutsAssumption
  <2> QED
      BY <2>1 DEF TypeOK, Schedule, Over
<1> QED
  <2> HIDE DEF OnTime
  <2> QED
      BY <1>1, <1>2, <1>3, TypeCorrect, PTL DEF Spec

=============================================================================
