------------------------------ MODULE RpcSelect ------------------------------
(***************************************************************************)
(* The choice of an RPC endpoint by GetChain and GetChainConfigWithOpts of *)
(* client/config.go: up to three scans, of the endpoints of the registry   *)
(* in a preferred domain, of the preferred hosts and of the registry's.    *)
(***************************************************************************)
EXTENDS EndpointScan

CONSTANTS
    Registry,   \* the endpoints the chain registry lists
    Matching,   \* those whose host contains a preferred domain
    Hosts,      \* opts.PreferredRpcHosts
    Pending, Failed,
    Garbled, Crashed    \* for Selection

ASSUME RegistryAssumption == Matching \subseteq Registry
ASSUME ScannedAssumption == Registry \cup Hosts \subseteq Endpoints
ASSUME OutcomesAssumption == /\ Pending # Failed /\ Pending \notin Endpoints
                             /\ Pending \notin {Garbled, Crashed}
                             /\ {Pending, Failed} \cap [Halves -> Endpoints \cup {Nil, Outside}] = {}

VARIABLES
    parses,     \* do the URLs of the registry parse?  It never changes
    stage,      \* the scan the call is in
    outcome     \* Pending, Failed or the RPCAddr of the configuration

vars == <<scanVars, parses, stage, outcome>>

Scans == {"domains", "hosts", "random"}

Init ==
    /\ InitScan
    /\ parses \in BOOLEAN
    /\ stage = "start"
    /\ outcome = Pending

\* What a scan probes: GetAllRPCEndpoints fails if one URL does not parse.
Candidates(s) ==
    CASE s = "domains" -> IF parses THEN Matching ELSE {}
      [] s = "hosts" -> Hosts
      [] s = "random" -> IF parses THEN Registry ELSE {}

Enter(s) == stage' = s /\ StartScan(Candidates(s)) /\ UNCHANGED outcome
Return(o) == stage' = "done" /\ outcome' = o /\ UNCHANGED scanVars

\* The download of chain.json; it may fail, or never end.
GetChain ==
    /\ stage = "start"
    /\ \/ stage' = "assets" /\ UNCHANGED <<scanVars, outcome>>
       \/ Return(Failed)
    /\ UNCHANGED parses

\* With PreferredRpcDomains and without.  Each option is read once, here and in
\* Fall; preferred hosts are not tried before preferred domains have failed.
FirstScan == Enter("domains") \/ Enter("random")

\* The download of assetlist.json, which decides nothing but may fail too.
GetAssetList ==
    /\ stage = "assets"
    /\ FirstScan \/ Return(Failed)
    /\ UNCHANGED parses

\* Variant of NoneFound: an off-by-one.
OneAtMost == header["len"] <= 1

\* "no working RPCs found"
NoneFound == header["len"] = 0

\* Variant of Fall: hosts are tried even when they are the ones that failed.
FallToHosts ==
    Enter("hosts") \/ IF stage # "random" THEN Enter("random") ELSE Return(Failed)

\* What follows an error, with PreferredRpcHosts and without.
Fall ==
    \/ stage = "domains" /\ Enter("hosts")
    \/ stage \in {"domains", "hosts"} /\ Enter("random")
    \/ stage = "random" /\ Return(Failed)

\* Variants of Take: the endpoint of preferred hosts is not kept; the length of
\* the string is returned.
TakeUnlessHost(rpc) ==
    IF stage = "hosts" \/ (rpc["count"] = Nil /\ stage # "random") THEN Enter("random")
    ELSE Return(rpc)

TakeLength(rpc) == Return(rpc["count"])

\* What follows success: an empty rpc counts as none, unless it is the last.
Take(rpc) ==
    \/ rpc["count"] \in {Nil, Outside} /\ stage # "random" /\ Enter("random")
    \/ (rpc["count"] # Nil \/ stage = "random") /\ Return(rpc)

\* The end of a scan: a random element of the slice is chosen.
Collect ==
    /\ stage \in Scans
    /\ Finished
    /\ \/ NoneFound /\ Fall
       \/ \E i \in 1..header["len"] :
             /\ ~NoneFound
             /\ \/ header["ptr"] # Nil /\ Take(Element(header["ptr"], i))
                \/ /\ ~InArray(header["ptr"], i)
                   /\ fault' = TRUE
                   /\ UNCHANGED <<pc, verified, header, array, size, regs, todo, stage, outcome>>
    /\ UNCHANGED parses

Step(e) == ProbeStep(e) /\ UNCHANGED <<parses, stage, outcome>>

Next == GetChain \/ GetAssetList \/ Collect \/ \E e \in Endpoints : Step(e)

Spec == Init /\ [][Next]_vars

-----------------------------------------------------------------------------
Strings == [Halves -> Endpoints \cup {Nil, Outside}]

\* Never longer than there are probes to append, even if torn.
Headers == {h \in [Words -> Nat \cup Endpoints \cup {Nil}] :
               /\ h["ptr"] \in Endpoints \cup {Nil}
               /\ h["len"] \in 0..Cardinality(Endpoints)
               /\ h["cap"] \in Nat}

\* Every variable keeps its type.
TypeOK ==
    /\ pc \in [Endpoints -> {"idle", "probe", "load", "append", "store", "done"}]
    /\ verified \in SUBSET Endpoints
    /\ header \in Headers
    /\ array \in [Endpoints -> [Slots -> Strings]]
    /\ size \in [Endpoints -> Nat]
    /\ regs \in [Endpoints -> Headers]
    /\ todo \in [Endpoints -> SUBSET (Words \cup Halves)]
    /\ fault \in BOOLEAN
    /\ stage \in Scans \cup {"start", "assets", "done"}
    /\ outcome \in Strings \cup {Pending, Failed}

\* What the caller sees of the call.
Result ==
    IF fault THEN Crashed
    ELSE IF outcome \in {Pending, Failed} THEN outcome
    ELSE IF \E e \in Endpoints : outcome = Whole(e) THEN outcome["bytes"] ELSE Garbled

\* The fallbacks and the races of the probes implement the choice of an endpoint:
\* a call fails only if its last scan found none healthy, and what it returns was
\* verified, unless races spoil it.
Sel == INSTANCE Selection WITH
    healthy <- verified,
    result <- Result
ImplementsSelection == Sel!Spec

\* A scan that finds just one healthy endpoint ends the call with it: no further
\* fallback, no other choice.
SoleHealthyTaken ==
    [][\A e \in Endpoints : verified = {e} /\ stage' # stage => outcome' = Whole(e)]_vars

\* Three healthy endpoints in a scan are needed for a read outside of its slice to
\* decide the result: two can tear the slice, but not between two arrays.
OutsideNeedsThree ==
    outcome \in Strings /\ Outside \in {outcome[h] : h \in Halves} => Cardinality(verified) >= 3

\* How many scans, with the downloads before them, a call has left at most.
StagesLeft(s) ==
    CASE s = "start" -> 5 [] s = "assets" -> 4 [] s = "domains" -> 3
      [] s = "hosts" -> 2 [] s = "random" -> 1 [] s = "done" -> 0

\* No way to choose is tried twice, and no probe goes round in circles, whatever torn
\* words it works with: every step leaves a scan for a later one, brings one of its
\* probes nearer to its end, or is the fault of a race.
Progress ==
    \/ ~fault /\ fault'
    \/ StagesLeft(stage') < StagesLeft(stage)
    \/ /\ stage' = stage
       /\ \E e \in Endpoints : /\ WordsLeft(e)' < WordsLeft(e)
                               /\ \A d \in Endpoints : d # e => WordsLeft(d)' = WordsLeft(d)
EveryStepCounts == [][Progress]_vars
=============================================================================
