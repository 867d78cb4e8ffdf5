------------------------------ MODULE ChainSetup ------------------------------
(***************************************************************************)
(* From the chain registry to a transfer channel, as TestIbcConfig of      *)
(* client/chain_client_test.go goes: GetChain, NewChainClient, and then    *)
(* GetIbcConfig and GetIbcTransferConfig of client/chain_client.go.        *)
(*                                                                         *)
(* The registry has one file for two chains, named after both in an order  *)
(* of its own; whichever chain the name starts with is chain_1 in it.  Its *)
(* maintainers commit what they like between two requests.                 *)
(***************************************************************************)
EXTENDS RpcSelect, Sequences

CONSTANTS
    Source, Dest,   \* the chain of the client, and the other one
    NoName,         \* the ChainName of a built-in configuration
    MaxChannels,    \* of a file (a bound)
    NoFile, NotFound

ASSUME ChainsAssumption == Source # Dest /\ NoName \notin {Source, Dest}
ASSUME FileAssumption == MaxChannels \in Nat /\ NoFile \notin [name : Seq({Source, Dest}), channels : Nat]
ASSUME ConfigAssumption == {Pending, Failed, NotFound} \cap [chain1 : {Source, Dest},
           chain2 : {Source, Dest}, channels : Seq([chain1 : {Source, Dest}, chain2 : {Source, Dest}])] = {}
ASSUME NotFoundAssumption == NotFound \notin {Pending, Failed}

VARIABLES
    chainName,      \* Config.ChainName: of GetChain or of GetCosmosHubConfig
    step,           \* config, client, reversed or end
    file,           \* the registry's file
    moved,          \* has it changed during the call?  (for the properties)
    config          \* Pending, Failed, NotFound or the IbcConfig

setup == <<chainName, step, file, moved, config>>
setupVars == <<vars, setup>>

Names == {<<Source, Dest>>, <<Dest, Source>>}
Files == [name : Names, channels : 0..MaxChannels]

SetupInit ==
    /\ Init
    /\ chainName \in {Source, NoName}
    /\ step = "config"
    /\ file = NoFile /\ moved = FALSE
    /\ config = Pending

\* Every reference to a chain in an IbcConfig: its client, or its channel and port.
Pair(a, b) == [chain1 |-> a, chain2 |-> b]
IbcConfig(a, b, n) == [chain1 |-> a, chain2 |-> b, channels |-> [i \in 1..n |-> Pair(a, b)]]
Decoded(f) == IbcConfig(f.name[1], f.name[2], f.channels)

\* A step of GetChain; a built-in configuration needs none.
Configure(A) == step = "config" /\ chainName # NoName /\ A /\ UNCHANGED setup

\* NewChainClient and Init, which fails for an RPCAddr that does not parse.
NewChainClient ==
    /\ step = "config"
    /\ chainName = NoName \/ (stage = "done" /\ outcome # Failed)
    /\ \/ step' = "client" /\ file' \in Files \cup {NoFile}
       \/ step' = "end" /\ UNCHANGED file
    /\ UNCHANGED <<vars, chainName, moved, config>>

Finish(c) == step' = "end" /\ config' = c

Has(a, b) == file # NoFile /\ file.name = <<a, b>>

\* GetIbcConfig with the client's chain first.
GetIbcConfig ==
    /\ step = "client"
    /\ \/ Has(chainName, Dest) /\ Finish(Decoded(file))
       \/ ~Has(chainName, Dest) /\ step' = "reversed" /\ UNCHANGED config
       \/ Finish(Failed)
    /\ UNCHANGED <<vars, chainName, file, moved>>

\* Variants of Flip: of the channels, or the chains, one is forgotten.
FlipChains(c) == [c EXCEPT !.chain1 = c.chain2, !.chain2 = c.chain1]

\* "we must flip all references to chain1 and chain2"
Flip(c) ==
    [chain1 |-> c.chain2, chain2 |-> c.chain1,
     channels |-> [i \in DOMAIN c.channels |-> Pair(c.channels[i].chain2, c.channels[i].chain1)]]

\* Variant of GetReversed: the first URL is asked for again.
GetAgain ==
    /\ step = "reversed"
    /\ \/ Has(chainName, Dest) /\ Finish(Flip(Decoded(file)))
       \/ ~Has(chainName, Dest) /\ Finish(NotFound)
    /\ UNCHANGED <<vars, chainName, file, moved>>

\* After a 404, with the other chain first.
GetReversed ==
    /\ step = "reversed"
    /\ \/ Has(Dest, chainName) /\ Finish(Flip(Decoded(file)))
       \/ ~Has(Dest, chainName) /\ Finish(NotFound)
       \/ Finish(Failed)
    /\ UNCHANGED <<vars, chainName, file, moved>>

\* GetIbcTransferConfig: the client, and the channel and port of the first channel.
Transfer(c) ==
    IF c.channels = <<>> THEN Failed ELSE [client |-> c.chain1, channel |-> c.channels[1].chain1]

\* The maintainers add, remove, rename or edit the file.
Commit ==
    /\ step \in {"client", "reversed"}
    /\ file' \in (Files \cup {NoFile}) \ {file}
    /\ moved' = TRUE
    /\ UNCHANGED <<vars, chainName, step, config>>

SetupNext ==
    \/ Configure(Next) \/ NewChainClient
    \/ GetIbcConfig \/ GetReversed \/ Commit

SetupSpec == SetupInit /\ [][SetupNext]_setupVars

-----------------------------------------------------------------------------
Ends == [chain1 : {Source, Dest}, chain2 : {Source, Dest}]
IbcConfigs == [chain1 : {Source, Dest}, chain2 : {Source, Dest}, channels : Seq(Ends)]

\* Every variable keeps its type.
SetupTypeOK ==
    /\ TypeOK
    /\ chainName \in {Source, NoName}
    /\ step \in {"config", "client", "reversed", "end"}
    /\ file \in Files \cup {NoFile}
    /\ moved \in BOOLEAN
    /\ config \in IbcConfigs \cup {Pending, Failed, NotFound}

\* Whichever way round the registry names the two chains, the client gets its own
\* end first: its client, and its channel, of every channel and of the one that
\* GetIbcTransferConfig picks.
OwnEndFirst ==
    config \in IbcConfigs =>
        /\ config.chain1 = Source /\ config.chain2 = Dest
        /\ \A i \in DOMAIN config.channels : config.channels[i] = Pair(Source, Dest)
        /\ Transfer(config) \in {Failed, [client |-> Source, channel |-> Source]}

\* A configuration the registry has is found, under either name, by every client
\* with a ChainName, unless the registry changes between the two requests.
FoundUnlessMoved ==
    config = NotFound /\ chainName # NoName => moved \/ file = NoFile
=============================================================================
