---------------------------- MODULE HealthChecks ----------------------------
(***************************************************************************)
(* The liveness monitor of client/chain_client.go: the goroutine started   *)
(* by HealthChecks, its ticker and quit channel, the WaitGroup of a round  *)
(* of probes, and the rpcLiveness record every probe writes, one field     *)
(* after the other, without a lock.                                        *)
(*                                                                         *)
(* Time is a global clock.  The zero time.Time of a client that was never  *)
(* probed is 0; the clock starts at Start, later than every age compared.  *)
(* A ready step of the monitor runs before the clock moves on, since the   *)
(* delays of the scheduler are negligible against seconds.  It may move    *)
(* between two writes of a probe, each of which reads it anew, but not     *)
(* beyond the timeout of the client's requests.                            *)
(***************************************************************************)
EXTENDS Integers

CONSTANTS
    Clients,    \* the ChainClients handed to HealthChecks
    Period,     \* time between two ticks of the ticker (10 s)
    MinAge,     \* a verdict must be older than this to be renewed (9 s)
    Idle,       \* the 10 minutes the stop rule speaks of
    Timeouts,   \* values of Config.Timeout; 0 is "no timeout"
    MaxTime     \* bound on the clock

ASSUME PeriodAssumption == Period \in Nat \ {0}
ASSUME AgeAssumption == MinAge \in Nat /\ Idle \in Nat /\ MinAge <= Idle
ASSUME TimeoutsAssumption == Timeouts \subseteq Nat

VARIABLES
    httpTimeout,  \* HTTP timeout of each client's RPC client, never changes
    now,          \* the clock
    nextTick,     \* when the ticker fires next
    ticked,       \* ticker.C (capacity 1) holds a tick
    quit,         \* the quit channel has been closed
    pc,           \* where the monitor goroutine stands
    probe,        \* where the probe goroutine of each client stands
    roundStart,   \* when the probes of the current round were started
    isActive, lastChecked, lastActive   \* rpcLiveness of each client

monitor == <<ticked, quit, pc>>
verdict == <<isActive, lastChecked, lastActive>>
vars == <<httpTimeout, now, nextTick, monitor, probe, roundStart, verdict>>

\* A probe's request is out; isActive is written; lastChecked is written, too.
\* With "none" wg.Done has been called.
ProbeSteps == {"none", "request", "answered", "checked"}
inflight == {c \in Clients : probe[c] # "none"}

Start == Idle + 1

\* The goroutine has returned, or has crashed the process.
Over == pc \in {"stopped", "panicked"}

\* A probe of c is over once the HTTP client of c gives up.
TimedOut(c) == httpTimeout[c] > 0 /\ now >= roundStart + httpTimeout[c]

\* Some step is due: the clock waits for it.
Urgent == \/ pc = "select" /\ (ticked \/ quit)
          \/ pc = "wait" /\ inflight = {}
          \/ \E c \in inflight : TimedOut(c)

\* Variant of Stale: every round probes every client.
StaleOrNot == Clients

\* time.Since(lastChecked) > 9 s
Stale == {c \in Clients : now > lastChecked[c] + MinAge}

Init ==
    /\ httpTimeout \in [Clients -> Timeouts]
    /\ now = Start
    /\ nextTick = Start + Period
    /\ ticked = FALSE
    /\ quit = FALSE
    /\ pc = "select"
    /\ probe = [c \in Clients |-> "none"]
    /\ roundStart = 0
    /\ isActive = [c \in Clients |-> FALSE]
    /\ lastChecked = [c \in Clients |-> 0]
    /\ lastActive = [c \in Clients |-> 0]

\* The clock moves; the ticker drops a tick nobody has taken yet.
Advance ==
    /\ now < MaxTime
    /\ ~Urgent
    /\ now' = now + 1
    /\ \/ /\ now' = nextTick /\ ~Over
          /\ ticked' = TRUE
          /\ nextTick' = nextTick + Period
       \/ /\ now' # nextTick \/ Over
          /\ UNCHANGED <<ticked, nextTick>>
    /\ UNCHANGED <<httpTimeout, quit, pc, probe, roundStart, verdict>>

\* Variant of BeginRound: the tick stays in ticker.C.
BeginRoundKeepsTick ==
    /\ pc = "select"
    /\ ticked
    /\ pc' = "wait"
    /\ probe' = [c \in Clients |-> IF c \in Stale THEN "request" ELSE probe[c]]
    /\ roundStart' = now
    /\ UNCHANGED <<httpTimeout, now, nextTick, ticked, quit, verdict>>

\* case <-ticker.C: one probe goroutine for every client with a stale verdict.
BeginRound ==
    /\ pc = "select"
    /\ ticked
    /\ ticked' = FALSE
    /\ pc' = "wait"
    /\ probe' = [c \in Clients |-> IF c \in Stale THEN "request" ELSE probe[c]]
    /\ roundStart' = now
    /\ UNCHANGED <<httpTimeout, now, nextTick, quit, verdict>>

\* healthCheck: QueryLatestHeight succeeds on a node that is up and caught up at the
\* moment, and fails on one that is not or does not answer in time.  isActive is written.
Answered(c) ==
    /\ pc # "panicked"
    /\ probe[c] = "request"
    /\ probe' = [probe EXCEPT ![c] = "answered"]
    /\ \E ok \in BOOLEAN : isActive' = [isActive EXCEPT ![c] = ok]
    /\ UNCHANGED <<httpTimeout, now, nextTick, monitor, roundStart, lastChecked,
                   lastActive>>

\* Variant of WriteChecked: the time since the start of the round, taken the wrong
\* way round.
WriteCheckedSwapped(c) ==
    /\ pc # "panicked"
    /\ probe[c] = "answered"
    /\ probe' = [probe EXCEPT ![c] = "checked"]
    /\ lastChecked' = [lastChecked EXCEPT ![c] = roundStart - now]
    /\ UNCHANGED <<httpTimeout, now, nextTick, monitor, roundStart, isActive,
                   lastActive>>

\* lastChecked = time.Now()
WriteChecked(c) ==
    /\ pc # "panicked"
    /\ probe[c] = "answered"
    /\ probe' = [probe EXCEPT ![c] = "checked"]
    /\ lastChecked' = [lastChecked EXCEPT ![c] = now]
    /\ UNCHANGED <<httpTimeout, now, nextTick, monitor, roundStart, isActive,
                   lastActive>>

\* Variant of WriteActive: the time the round began.
WriteActiveOfRound(c) ==
    /\ pc # "panicked"
    /\ probe[c] = "checked"
    /\ probe' = [probe EXCEPT ![c] = "none"]
    /\ lastActive' = IF isActive[c] THEN [lastActive EXCEPT ![c] = roundStart]
                     ELSE lastActive
    /\ UNCHANGED <<httpTimeout, now, nextTick, monitor, roundStart, isActive,
                   lastChecked>>

\* if isActive, lastActive = time.Now(); then wg.Done()
WriteActive(c) ==
    /\ pc # "panicked"
    /\ probe[c] = "checked"
    /\ probe' = [probe EXCEPT ![c] = "none"]
    /\ lastActive' = IF isActive[c] THEN [lastActive EXCEPT ![c] = now] ELSE lastActive
    /\ UNCHANGED <<httpTimeout, now, nextTick, monitor, roundStart, isActive,
                   lastChecked>>

\* Variants of EndRound: without wg.Wait(), and without close(quit).
EndRoundNoWait ==
    /\ pc = "wait"
    /\ quit' = TRUE
    /\ pc' = IF quit THEN "panicked" ELSE "select"
    /\ UNCHANGED <<httpTimeout, now, nextTick, ticked, probe, roundStart,
                   verdict>>

EndRoundNoClose ==
    /\ pc = "wait"
    /\ inflight = {}
    /\ pc' = "select"
    /\ UNCHANGED <<httpTimeout, now, nextTick, ticked, quit, probe,
                   roundStart, verdict>>

\* wg.Wait() returns.  The loop over lastActive only breaks out of itself, so
\* close(quit) is reached whatever the verdicts are; a second close panics.
EndRound ==
    /\ pc = "wait"
    /\ inflight = {}
    /\ quit' = TRUE
    /\ pc' = IF quit THEN "panicked" ELSE "select"
    /\ UNCHANGED <<httpTimeout, now, nextTick, ticked, probe, roundStart,
                   verdict>>

\* case <-quit: ticker.Stop() and return.  With a tick buffered as well the
\* select statement may take either case.
Quit ==
    /\ pc = "select"
    /\ quit
    /\ pc' = "stopped"
    /\ UNCHANGED <<httpTimeout, now, nextTick, ticked, quit, probe,
                   roundStart, verdict>>

Next ==
    \/ Advance
    \/ BeginRound
    \/ EndRound
    \/ Quit
    \/ \E c \in Clients : Answered(c) \/ WriteChecked(c) \/ WriteActive(c)

Spec == Init /\ [][Next]_vars

\* Time passes, the runtime schedules the monitor, and a probe with a timeout
\* returns.  A probe without a timeout may hang for ever.
Fairness ==
    /\ WF_vars(Advance)
    /\ WF_vars(BeginRound)
    /\ WF_vars(EndRound)
    /\ WF_vars(Quit)
    /\ \A c \in Clients : /\ WF_vars(httpTimeout[c] > 0 /\ Answered(c))
                         /\ WF_vars(WriteChecked(c))
                         /\ WF_vars(WriteActive(c))

FairSpec == Spec /\ Fairness

-----------------------------------------------------------------------------
\* Every variable keeps its type.
TypeOK ==
    /\ httpTimeout \in [Clients -> Nat]
    /\ now \in Nat /\ nextTick \in Nat /\ roundStart \in Nat
    /\ ticked \in BOOLEAN /\ quit \in BOOLEAN
    /\ pc \in {"select", "wait", "stopped", "panicked"}
    /\ probe \in [Clients -> ProbeSteps]
    /\ isActive \in [Clients -> BOOLEAN]
    /\ lastChecked \in [Clients -> Nat]
    /\ lastActive \in [Clients -> Nat]

\* When the monitor has left its first round, however it goes on, every client
\* has a verdict: no probe of a round is left behind by wg.Wait.
EveryClientProbed ==
    quit => \A c \in Clients : lastChecked[c] > 0

\* close(quit) can run twice, and panic, only when some node is configured
\* with a timeout as long as the ticker's period, or with none.
SlowNode(c) == httpTimeout[c] = 0 \/ httpTimeout[c] >= Period
PanicNeedsSlowNode == pc = "panicked" => \E c \in Clients : SlowNode(c)

\* When the monitor does not wait for probes, so also in its loop over the verdicts
\* (line 105), no record is half written: an active client was last active when it was
\* checked or since, any other at its last check at the latest.  IsActive (line 61),
\* which asks nobody, may see isActive changed and the times not yet.
VerdictsSettled ==
    pc # "wait" =>
        \A c \in Clients :
            IF isActive[c] THEN lastChecked[c] > 0 /\ lastActive[c] >= lastChecked[c]
                           ELSE lastActive[c] <= lastChecked[c]

\* Two checks of a client are more than MinAge apart, also when a round that
\* ran over its period is followed at once by another.
ProbeSpacing ==
    [][\A c \in Clients :
          lastChecked'[c] # lastChecked[c] => lastChecked'[c] > lastChecked[c] + MinAge]_vars

\* The goroutine is over two timeouts after its first tick, however the nodes behave:
\* nothing is checked later than that.
StopsInTime ==
    \A t \in Timeouts :
        /\ \A c \in Clients : httpTimeout[c] \in 1..t
        /\ now > Start + Period + 2 * t
        => Over

\* When every request has a timeout the monitor goroutine ends, by returning or
\* by a panic: checks are not continuous.
MonitorEnds == (\A c \in Clients : httpTimeout[c] > 0) ~> Over

\* The comment at line 103: the checks stop if no client has been active for
\* at least ten minutes.
StopsOnlyWhenIdle ==
    pc = "stopped" => \A c \in Clients : ~isActive[c] /\ lastActive[c] + Idle <= now

=============================================================================
