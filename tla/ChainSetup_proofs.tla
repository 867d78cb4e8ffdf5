-------------------------- MODULE ChainSetup_proofs --------------------------
(***************************************************************************)
(* What holds of ChainSetup for every registry file and any endpoints; the *)
(* choice of the endpoint in it is that of RpcSelect.                      *)
(***************************************************************************)
EXTENDS ChainSetup, RpcSelect_proofs

USE ChainsAssumption, FileAssumption, ConfigAssumption, NotFoundAssumption
    DEF ChainsAssumption, FileAssumption, ConfigAssumption, NotFoundAssumption

\* The first URL has answered 404, and the client does not know yet if the other
\* one does.
HalfAsked ==
    /\ step \in {"config", "client", "reversed"} => config = Pending
    /\ step = "reversed" /\ chainName # NoName => moved \/ ~Has(chainName, Dest)

SetupTypes ==
    /\ chainName \in {Source, NoName}
    /\ step \in {"config", "client", "reversed", "end"}
    /\ file \in Files \cup {NoFile}
    /\ moved \in BOOLEAN
    /\ config \in IbcConfigs \cup {Pending, Failed, NotFound}

SetupIInv == SetupTypes /\ HalfAsked /\ OwnEndFirst /\ FoundUnlessMoved

LEMMA NoConfigs == Pending \notin IbcConfigs /\ Failed \notin IbcConfigs /\ NotFound \notin IbcConfigs
BY DEF IbcConfigs, Ends

\* A configuration of two chains of the registry.
LEMMA ConfigTypes ==
    ASSUME NEW a \in {Source, Dest}, NEW b \in {Source, Dest}, NEW n \in Nat
    PROVE  /\ IbcConfig(a, b, n) \in IbcConfigs
           /\ IbcConfig(a, b, n).chain1 = a /\ IbcConfig(a, b, n).chain2 = b
           /\ DOMAIN IbcConfig(a, b, n).channels = 1..n
           /\ \A i \in 1..n : IbcConfig(a, b, n).channels[i] = Pair(a, b)
<1>1. Pair(a, b) \in Ends
    BY DEF Pair, Ends
<1>2. [i \in 1..n |-> Pair(a, b)] \in Seq(Ends)
    BY <1>1
<1> QED
    BY <1>2 DEF IbcConfig, IbcConfigs

LEMMA FlipsConfig ==
    ASSUME NEW a \in {Source, Dest}, NEW b \in {Source, Dest}, NEW n \in Nat
    PROVE  Flip(IbcConfig(a, b, n)) = IbcConfig(b, a, n)
<1>1. /\ IbcConfig(a, b, n).chain1 = a /\ IbcConfig(a, b, n).chain2 = b
      /\ DOMAIN IbcConfig(a, b, n).channels = 1..n
      /\ \A i \in 1..n : IbcConfig(a, b, n).channels[i] = Pair(a, b)
    BY ConfigTypes
<1>2. [i \in DOMAIN IbcConfig(a, b, n).channels |->
          Pair(IbcConfig(a, b, n).channels[i].chain2, IbcConfig(a, b, n).channels[i].chain1)]
        = [i \in 1..n |-> Pair(b, a)]
    BY <1>1 DEF Pair
<1> QED
    BY <1>1, <1>2 DEF Flip, IbcConfig

\* The client's end comes first in what a URL that has the file leads to.
LEMMA OwnEnd ==
    ASSUME NEW n \in Nat
    PROVE  LET c == IbcConfig(Source, Dest, n)
           IN  /\ c \in IbcConfigs
               /\ c.chain1 = Source /\ c.chain2 = Dest
               /\ \A i \in DOMAIN c.channels : c.channels[i] = Pair(Source, Dest)
               /\ Transfer(c) \in {Failed, [client |-> Source, channel |-> Source]}
<1> DEFINE c == IbcConfig(Source, Dest, n)
<1>1. /\ c \in IbcConfigs /\ c.chain1 = Source /\ c.chain2 = Dest
      /\ DOMAIN c.channels = 1..n
      /\ \A i \in 1..n : c.channels[i] = Pair(Source, Dest)
    BY ConfigTypes
<1>2. CASE c.channels = <<>>
    BY <1>1, <1>2 DEF Transfer
<1>3. CASE c.channels # <<>>
  <2>1. c.channels \in Seq(Ends)
      BY <1>1 DEF IbcConfigs
  <2>2. 1 \in DOMAIN c.channels
      BY <1>3, <2>1
  <2>3. c.channels[1].chain1 = Source
      BY <1>1, <2>2 DEF Pair
  <2> QED
      BY <1>1, <1>3, <2>3 DEF Transfer
<1> QED
    BY <1>2, <1>3, <1>1

LEMMA FileParts ==
    ASSUME SetupTypes, file # NoFile
    PROVE  file.name \in Names /\ file.channels \in Nat
BY DEF SetupTypes, Files

LEMMA InitSetup == SetupInit => SetupIInv
BY NoConfigs DEF SetupInit, SetupIInv, SetupTypes, HalfAsked, OwnEndFirst, FoundUnlessMoved

\* The end of a call with the configuration of the file, the right way round.
LEMMA EndsWithOwn ==
    ASSUME SetupIInv, file # NoFile, UNCHANGED <<chainName, file, moved>>,
           Finish(IbcConfig(Source, Dest, file.channels))
    PROVE  SetupIInv'
<1>1. file.channels \in Nat
    BY FileParts DEF SetupIInv
<1> DEFINE c == IbcConfig(Source, Dest, file.channels)
<1>2. /\ c \in IbcConfigs
      /\ c.chain1 = Source /\ c.chain2 = Dest
      /\ \A i \in DOMAIN c.channels : c.channels[i] = Pair(Source, Dest)
      /\ Transfer(c) \in {Failed, [client |-> Source, channel |-> Source]}
    BY <1>1, OwnEnd
<1>3. config' = c /\ step' = "end"
    BY DEF Finish
<1> HIDE DEF c
<1> QED
    BY <1>2, <1>3, NoConfigs
    DEF SetupIInv, SetupTypes, HalfAsked, OwnEndFirst, FoundUnlessMoved, Transfer

LEMMA EndsWithError ==
    ASSUME SetupIInv, UNCHANGED <<chainName, file, moved>>, Finish(Failed)
    PROVE  SetupIInv'
BY NoConfigs DEF Finish, SetupIInv, SetupTypes, HalfAsked, OwnEndFirst, FoundUnlessMoved

LEMMA StepSetup == SetupIInv /\ [SetupNext]_setupVars => SetupIInv'
<1> SUFFICES ASSUME SetupIInv, [SetupNext]_setupVars PROVE SetupIInv'
    OBVIOUS
<1>1. CASE UNCHANGED setup
    BY <1>1 DEF setup, SetupIInv, SetupTypes, HalfAsked, OwnEndFirst, FoundUnlessMoved, Has
<1>2. CASE NewChainClient
    BY <1>2, NoConfigs
    DEF NewChainClient, SetupIInv, SetupTypes, HalfAsked, OwnEndFirst, FoundUnlessMoved
<1>3. CASE GetIbcConfig
  <2>1. UNCHANGED <<chainName, file, moved>> /\ step = "client"
      BY <1>3 DEF GetIbcConfig
  <2>2. CASE Has(chainName, Dest) /\ Finish(Decoded(file))
    <3>1. file # NoFile /\ file.name \in Names /\ file.name = <<chainName, Dest>>
        BY <2>2, FileParts DEF Has, SetupIInv
    <3>2. file.name[1] = Source /\ file.name[2] = Dest
        BY <3>1 DEF Names, SetupIInv, SetupTypes
    <3> QED
        BY <2>1, <2>2, <3>1, <3>2, EndsWithOwn DEF Decoded
  <2>3. CASE ~Has(chainName, Dest) /\ step' = "reversed" /\ UNCHANGED config
      BY <2>1, <2>3, NoConfigs
      DEF SetupIInv, SetupTypes, HalfAsked, OwnEndFirst, FoundUnlessMoved, Has
  <2>4. CASE Finish(Failed)
      BY <2>1, <2>4, EndsWithError
  <2> QED
      BY <1>3, <2>2, <2>3, <2>4 DEF GetIbcConfig
<1>4. CASE GetReversed
  <2>1. UNCHANGED <<chainName, file, moved>> /\ step = "reversed"
      BY <1>4 DEF GetReversed
  <2>2. CASE Has(Dest, chainName) /\ Finish(Flip(Decoded(file)))
    <3>1. file # NoFile /\ file.name \in Names /\ file.name = <<Dest, chainName>>
        BY <2>2, FileParts DEF Has, SetupIInv
    <3>2. file.name[1] = Dest /\ file.name[2] = Source /\ file.channels \in Nat
        BY <3>1, FileParts DEF Names, SetupIInv, SetupTypes
    <3>3. Flip(Decoded(file)) = IbcConfig(Source, Dest, file.channels)
        BY <3>2, FlipsConfig DEF Decoded
    <3> QED
        BY <2>1, <2>2, <3>1, <3>3, EndsWithOwn
  <2>3. CASE ~Has(Dest, chainName) /\ Finish(NotFound)
    <3>1. chainName # NoName => moved \/ file = NoFile
      <4> SUFFICES ASSUME chainName # NoName, ~moved, file # NoFile PROVE FALSE
          OBVIOUS
      <4>1. chainName = Source /\ ~Has(chainName, Dest)
          BY <2>1 DEF SetupIInv, SetupTypes, HalfAsked
      <4>2. file.name \in Names
          BY FileParts DEF SetupIInv
      <4> QED
          BY <2>3, <4>1, <4>2 DEF Has, Names
    <3> QED
        BY <2>1, <2>3, <3>1, NoConfigs
        DEF Finish, SetupIInv, SetupTypes, HalfAsked, OwnEndFirst, FoundUnlessMoved
  <2>4. CASE Finish(Failed)
      BY <2>1, <2>4, EndsWithError
  <2> QED
      BY <1>4, <2>2, <2>3, <2>4 DEF GetReversed
<1>5. CASE Commit
    BY <1>5, NoConfigs
    DEF Commit, SetupIInv, SetupTypes, HalfAsked, OwnEndFirst, FoundUnlessMoved
<1> QED
    BY <1>1, <1>2, <1>3, <1>4, <1>5 DEF SetupNext, Configure, setupVars, setup

LEMMA SetupInvariance == SetupSpec => []SetupIInv
BY InitSetup, StepSetup, PTL DEF SetupSpec

\* Nothing around the choice of the endpoint touches it: what is proved of
\* RpcSelect holds of the whole sequence.
THEOREM SetupSelects == SetupSpec => Spec
<1>1. SetupInit => Init
    BY DEF SetupInit
<1>2. [SetupNext]_setupVars => [Next]_vars
  <2> SUFFICES ASSUME [SetupNext]_setupVars PROVE [Next]_vars
      OBVIOUS
  <2>1. CASE Configure(Next)
      BY <2>1 DEF Configure
  <2>2. CASE NewChainClient \/ GetIbcConfig \/ GetReversed \/ Commit
      BY <2>2, Zenon DEF NewChainClient, GetIbcConfig, GetReversed, Commit
  <2>3. CASE UNCHANGED setupVars
      BY <2>3, Zenon DEF setupVars
  <2> QED
      BY <2>1, <2>2, <2>3 DEF SetupNext
<1> QED
    BY <1>1, <1>2, PTL DEF SetupSpec, Spec

\* Every variable keeps its type.
THEOREM SetupTypeCorrect == SetupSpec => []SetupTypeOK
<1>1. TypeOK /\ SetupIInv => SetupTypeOK
    BY Zenon DEF SetupIInv, SetupTypes, SetupTypeOK
<1> QED
    BY <1>1, SetupSelects, TypeCorrect, SetupInvariance, PTL

\* Whichever way round the registry names the chains, GetIbcConfig flips what it
\* has to.
THEOREM OwnEndComesFirst == SetupSpec => []OwnEndFirst
<1>1. SetupIInv => OwnEndFirst
    BY DEF SetupIInv
<1> QED
    BY <1>1, SetupInvariance, PTL

\* A file that stays as it is during the two requests is found.
THEOREM FoundIfStill == SetupSpec => []FoundUnlessMoved
<1>1. SetupIInv => FoundUnlessMoved
    BY DEF SetupIInv
<1> QED
    BY <1>1, SetupInvariance, PTL

\* In the whole sequence too, the endpoint of the client is a healthy one unless
\* races spoil the choice.
THEOREM SetupImplements == SetupSpec => ImplementsSelection
BY SetupSelects, Implements
=============================================================================
