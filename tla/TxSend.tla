------------------------------- MODULE TxSend -------------------------------
(***************************************************************************)
(* Sending a transaction with a ChainClient, as cmd/bank.go does:          *)
(* AccountFromKeyOrAddress (client/chain_client.go), then SendMsgs with    *)
(* PrepareFactory, CalculateGas, the signature under the sdkConfigMutex of *)
(* client/hack.go, and TxServiceBroadcast (client/grpc_query.go).          *)
(*                                                                         *)
(* A sender is one goroutine making one such call.  Senders may share a    *)
(* ChainClient, and all of them share the global bech32 prefixes of the    *)
(* SDK.  Other callers add, restore and delete keys meanwhile.             *)
(***************************************************************************)
EXTENDS Naturals

CONSTANTS
    Senders,        \* goroutines, each making one call
    Clients,        \* ChainClients, one per chain
    Timed,          \* those whose requests have a timeout: Config.Timeout parses
    Keys,           \* names of keys, and the account each has at the start
    Others,         \* accounts that may be restored under one of these names
    Volatile,       \* pairs of a client and a key that comes and goes (a bound)
    DefaultKey,     \* Config.Key of every client at the start
    Empty, Other,   \* arguments "" and "neither a key nor empty"
    Addresses,      \* accounts whose address is such an argument (Other: of no key)
    TornKey,        \* what a reader makes of a half-written Config.Key
    NoKey,          \* no key was used (yet)
    NoSender,       \* nobody holds the mutex
    DefaultPrefix,  \* the SDK's prefixes before the first SetSDKContext
    RtyAttNum,      \* attempts of a retry.Do
    MaxDepth        \* frames that fit on the stack

ASSUME KeysAssumption ==
    /\ DefaultKey \in Keys /\ Volatile \subseteq Clients \X Keys
    /\ {Empty, Other, TornKey, NoKey} \cap (Keys \cup Others) = {}
    /\ NoKey # Other
ASSUME TimedAssumption == Timed \subseteq Clients
ASSUME AddressesAssumption == Addresses \subseteq Keys \cup Others \cup {Other}
ASSUME SendersAssumption == NoSender \notin Senders
ASSUME BoundsAssumption == RtyAttNum \in Nat \ {0} /\ MaxDepth \in Nat \ {0}

VARIABLES
    clientOf,     \* the ChainClient of each sender, never changes
    arg,          \* the account each sender asks for, never changes
    keyring,      \* the account of each name in a client's keyring, or NoKey
    reused,       \* clients a name of which got another account (for a property)
    keyPtr, keyLen,   \* Config.Key of each client: the two words of a string
    prefix,       \* the three bech32 prefixes of the SDK's global config
    sdkConfigMutex,
    pc, tries, depth,
    from,         \* the account the message spends from
    acct,         \* the account whose number and sequence the factory holds
    simKey,       \* that of the key whose public key the simulated tx carries
    signed,       \* that of the key that signed the transaction
    signedUnder,  \* the prefixes it was signed under
    crashed       \* the process is gone

constants == <<clientOf, arg>>
cfgKey == <<keyPtr, keyLen>>
keys == <<keyring, reused>>
globals == <<keys, cfgKey, prefix, sdkConfigMutex, crashed>>
txData == <<from, acct, simKey, signed, signedUnder>>
vars == <<constants, globals, pc, tries, depth, txData>>

\* The steps of a call, in order.  Config.Key is written in two steps; the
\* prefixes are written, and the signature made, with the mutex held.
Section == {"setAccount", "setValidator", "setConsensus", "sign"}
Steps == {"resolve", "writePtr", "writeLen", "resolved", "getKey", "ensure",
          "accSeq", "gasKey", "simulate", "lock", "broadcast", "done"} \cup Section

Prefixes == Clients \cup {DefaultPrefix}
Accounts == Keys \cup Others

\* Keybase.Key finds a name.
KeyExists(c, name) == name \in Keys /\ keyring[c][name] # NoKey

\* Config.Key as a reader finds it, and the account of the key it names.
NameOf(c) == IF keyPtr[c] = keyLen[c] THEN keyPtr[c] ELSE TornKey
HasKey(s) == KeyExists(clientOf[s], NameOf(clientOf[s]))
Key(s) == keyring[clientOf[s]][NameOf(clientOf[s])]

Init ==
    /\ clientOf \in [Senders -> Clients]
    /\ arg \in [Senders -> Keys \cup {Empty, Other}]
    /\ keyring = [c \in Clients |-> [k \in Keys |-> k]]
    /\ reused = {}
    /\ keyPtr = [c \in Clients |-> DefaultKey]
    /\ keyLen = [c \in Clients |-> DefaultKey]
    /\ prefix = [account |-> DefaultPrefix, validator |-> DefaultPrefix,
                 consensus |-> DefaultPrefix]
    /\ sdkConfigMutex = NoSender
    /\ pc = [s \in Senders |-> "resolve"]
    /\ tries = [s \in Senders |-> 0]
    /\ depth = [s \in Senders |-> 0]
    /\ from = [s \in Senders |-> NoKey]
    /\ acct = [s \in Senders |-> NoKey]
    /\ simKey = [s \in Senders |-> NoKey]
    /\ signed = [s \in Senders |-> NoKey]
    /\ signedUnder = [s \in Senders |-> prefix]
    /\ crashed = FALSE

At(s, step) == ~crashed /\ pc[s] = step
Goto(s, step) == pc' = [pc EXCEPT ![s] = step]

-----------------------------------------------------------------------------
\* Variant of Resolve: the name of a key is not written to Config.Key.
ResolveForgetsKey(s) ==
    /\ At(s, "resolve")
    /\ \/ /\ arg[s] = Empty \/ KeyExists(clientOf[s], arg[s])
          /\ Goto(s, "resolved")
       \/ /\ arg[s] # Empty /\ ~KeyExists(clientOf[s], arg[s])
          /\ Goto(s, "done")
    /\ UNCHANGED <<constants, globals, tries, depth, txData>>

\* AccountFromKeyOrAddress, up to the write of Config.Key.  An address sets no key:
\* whatever Config.Key names will sign for it.
Resolve(s) ==
    /\ At(s, "resolve")
    /\ \/ arg[s] = Empty /\ Goto(s, "resolved") /\ UNCHANGED from
       \/ /\ KeyExists(clientOf[s], arg[s])
          /\ Goto(s, "writePtr")
          /\ UNCHANGED from
       \/ /\ arg[s] # Empty /\ ~KeyExists(clientOf[s], arg[s])
          /\ \/ /\ arg[s] = Other               \* a bech32 address
                /\ \E account \in Addresses : from' = [from EXCEPT ![s] = account]
                /\ Goto(s, "getKey")
             \/ Goto(s, "done") /\ UNCHANGED from
    /\ UNCHANGED <<constants, globals, tries, depth, acct, simKey, signed,
                   signedUnder>>

\* cc.Config.Key = keyOrAddress, one word after the other.
WriteKey(s) ==
    /\ \/ /\ At(s, "writePtr")
          /\ keyPtr' = [keyPtr EXCEPT ![clientOf[s]] = arg[s]]
          /\ Goto(s, "writeLen") /\ UNCHANGED keyLen
       \/ /\ At(s, "writeLen")
          /\ keyLen' = [keyLen EXCEPT ![clientOf[s]] = arg[s]]
          /\ Goto(s, "resolved") /\ UNCHANGED keyPtr
    /\ UNCHANGED <<constants, keys, prefix, sdkConfigMutex, crashed, tries,
                   depth, txData>>

\* GetKeyAddress at the end of AccountFromKeyOrAddress.
Resolved(s) ==
    /\ At(s, "resolved")
    /\ \/ HasKey(s) /\ from' = [from EXCEPT ![s] = Key(s)] /\ Goto(s, "getKey")
       \/ ~HasKey(s) /\ Goto(s, "done") /\ UNCHANGED from
    /\ UNCHANGED <<constants, globals, tries, depth, acct, simKey, signed,
                   signedUnder>>

-----------------------------------------------------------------------------
\* Variant of FailedAttempt: the attempts are not counted.
FailedAttemptAgain(s) == UNCHANGED <<tries, pc>>

\* A failed attempt of a retry.Do: the next one, or the last error.
FailedAttempt(s) ==
    IF tries[s] + 1 < RtyAttNum
      THEN tries' = [tries EXCEPT ![s] = @ + 1] /\ UNCHANGED pc
      ELSE tries' = [tries EXCEPT ![s] = 0] /\ Goto(s, "done")

Succeeded(s, next) == tries' = [tries EXCEPT ![s] = 0] /\ Goto(s, next)

\* Variant of GetKey: whatever Config.Key names counts as an account.
GetKeyUnchecked(s) ==
    /\ At(s, "getKey")
    /\ acct' = [acct EXCEPT ![s] = NameOf(clientOf[s])]
    /\ Succeeded(s, "ensure")
    /\ UNCHANGED <<constants, globals, depth, from, simKey, signed, signedUnder>>

\* PrepareFactory, first retry: GetKeyAddress.
GetKey(s) ==
    /\ At(s, "getKey")
    /\ \/ HasKey(s) /\ acct' = [acct EXCEPT ![s] = Key(s)] /\ Succeeded(s, "ensure")
       \/ ~HasKey(s) /\ FailedAttempt(s) /\ UNCHANGED acct
    /\ UNCHANGED <<constants, globals, depth, from, simKey, signed, signedUnder>>

\* The queries of PrepareFactory for the account, both retried.  The second is
\* always made: the factory starts with number and sequence 0.
EnsureExists(s) ==
    /\ At(s, "ensure")
    /\ Succeeded(s, "accSeq") \/ FailedAttempt(s)
    /\ UNCHANGED <<constants, globals, depth, txData>>

GetAccountNumberSequence(s) ==
    /\ At(s, "accSeq")
    /\ Succeeded(s, "gasKey") \/ FailedAttempt(s)
    /\ UNCHANGED <<constants, globals, depth, txData>>

\* BuildSimTx, the retried simulation, and what SendMsgs does of its result up
\* to the signature.  The retry also ends with the context, and an error of
\* the other steps is not retried, or retried in vain.
Simulate(s) ==
    /\ At(s, "simulate")
    /\ Succeeded(s, "lock") \/ FailedAttempt(s) \/ Succeeded(s, "done")
    /\ UNCHANGED <<constants, globals, depth, txData>>

Query(s) == EnsureExists(s) \/ GetAccountNumberSequence(s) \/ Simulate(s)

\* CalculateGas looks Config.Key up again, once.
GasKey(s) ==
    /\ At(s, "gasKey")
    /\ \/ HasKey(s) /\ simKey' = [simKey EXCEPT ![s] = Key(s)] /\ Goto(s, "simulate")
       \/ ~HasKey(s) /\ Goto(s, "done") /\ UNCHANGED simKey
    /\ UNCHANGED <<constants, globals, tries, depth, from, acct, signed, signedUnder>>

-----------------------------------------------------------------------------
\* Variant of Lock: the mutex does not exclude anybody.
LockShared(s) ==
    /\ At(s, "lock")
    /\ sdkConfigMutex' = s
    /\ Goto(s, "setAccount")
    /\ UNCHANGED <<constants, keys, cfgKey, prefix, crashed, tries, depth, txData>>

\* SetSDKContext takes the mutex ...
Lock(s) ==
    /\ At(s, "lock")
    /\ sdkConfigMutex = NoSender
    /\ sdkConfigMutex' = s
    /\ Goto(s, "setAccount")
    /\ UNCHANGED <<constants, keys, cfgKey, prefix, crashed, tries, depth, txData>>

\* ... and sets the prefixes, one setter of the SDK after the other.
SetPrefix(s) ==
    /\ \/ /\ At(s, "setAccount")
          /\ prefix' = [prefix EXCEPT !.account = clientOf[s]]
          /\ Goto(s, "setValidator")
       \/ /\ At(s, "setValidator")
          /\ prefix' = [prefix EXCEPT !.validator = clientOf[s]]
          /\ Goto(s, "setConsensus")
       \/ /\ At(s, "setConsensus")
          /\ prefix' = [prefix EXCEPT !.consensus = clientOf[s]]
          /\ Goto(s, "sign")
    /\ UNCHANGED <<constants, keys, cfgKey, sdkConfigMutex, crashed, tries,
                   depth, txData>>

\* Variant of Sign: done() also puts the default prefixes back.
SignRestores(s) ==
    /\ At(s, "sign")
    /\ \/ /\ HasKey(s)
          /\ signed' = [signed EXCEPT ![s] = Key(s)]
          /\ signedUnder' = [signedUnder EXCEPT ![s] = prefix]
          /\ Goto(s, "broadcast") \/ Goto(s, "done")
       \/ Goto(s, "done") /\ UNCHANGED <<signed, signedUnder>>
    /\ prefix' = [p \in DOMAIN prefix |-> DefaultPrefix]
    /\ sdkConfigMutex' = NoSender
    /\ UNCHANGED <<constants, keys, cfgKey, crashed, tries, depth, from, acct, simKey>>

\* tx.Sign with the key Config.Key names now; done() is deferred, so the mutex
\* is free again whether it fails or not.  The bytes to broadcast are encoded
\* after it, which may fail too.
Sign(s) ==
    /\ At(s, "sign")
    /\ \/ /\ HasKey(s)
          /\ signed' = [signed EXCEPT ![s] = Key(s)]
          /\ signedUnder' = [signedUnder EXCEPT ![s] = prefix]
          /\ Goto(s, "broadcast") \/ Goto(s, "done")
       \/ Goto(s, "done") /\ UNCHANGED <<signed, signedUnder>>
    /\ sdkConfigMutex' = NoSender
    /\ UNCHANGED <<constants, keys, cfgKey, prefix, crashed, tries, depth,
                   from, acct, simKey>>

\* TxServiceBroadcast calls itself with the same request until the goroutine's
\* stack is full, which no recover stops.
Broadcast(s) ==
    /\ At(s, "broadcast")
    /\ depth' = [depth EXCEPT ![s] = @ + 1]
    /\ \/ depth[s] + 1 < MaxDepth /\ UNCHANGED crashed
       \/ depth[s] + 1 >= MaxDepth /\ crashed' = TRUE
    /\ UNCHANGED <<constants, keys, cfgKey, prefix, sdkConfigMutex, pc, tries,
                   txData>>

\* AccAddressFromBech32, which a Broadcaster of c calls without the mutex: does it
\* accept the address of a user of c?
AccAddressFromBech32(c) == prefix.account = c

\* The bounds: of volatile names, while calls run, until a name is reused.
ChangeKey(c, k, account) ==
    /\ <<c, k>> \in Volatile /\ c \notin reused /\ ~crashed
    /\ keyring' = [keyring EXCEPT ![c][k] = account]
    /\ UNCHANGED <<constants, cfgKey, prefix, sdkConfigMutex, crashed, pc, tries, depth, txData>>

\* AddKey and RestoreKey, by this process or another one: the SDK refuses a name in
\* use, and an account under a second name.
KeyAddOrRestore(c, k, account) ==
    /\ keyring[c][k] = NoKey
    /\ \A j \in Keys : keyring[c][j] # account
    /\ reused' = IF account = k THEN reused ELSE reused \cup {c}
    /\ ChangeKey(c, k, account)

DeleteKey(c, k) ==
    /\ keyring[c][k] # NoKey
    /\ ChangeKey(c, k, NoKey) /\ UNCHANGED reused

KeyChanges ==
    \E c \in Clients, k \in Keys :
        DeleteKey(c, k) \/ \E account \in Accounts : KeyAddOrRestore(c, k, account)

-----------------------------------------------------------------------------
Step(s) ==
    \/ Resolve(s) \/ WriteKey(s) \/ Resolved(s)
    \/ GetKey(s) \/ Query(s) \/ GasKey(s)
    \/ Lock(s) \/ SetPrefix(s) \/ Sign(s) \/ Broadcast(s)

Next == KeyChanges \/ \E s \in Senders : Step(s)

Spec == Init /\ [][Next]_vars

\* s waits for an answer of the node.
AtRequest(s) == pc[s] \in {"ensure", "accSeq", "simulate"}

\* Every goroutine runs; a Go mutex starves no waiter.  A request ends if its client has
\* an HTTP timeout: context.Background() gives it none (account_retriever.go:36).
FairSpec ==
    /\ Spec
    /\ \A s \in Senders : /\ WF_vars(~AtRequest(s) /\ Step(s))
                         /\ WF_vars(clientOf[s] \in Timed /\ Query(s))
                         /\ SF_vars(Lock(s))

-----------------------------------------------------------------------------
\* Every variable keeps its type.
TypeOK ==
    /\ clientOf \in [Senders -> Clients]
    /\ arg \in [Senders -> Keys \cup {Empty, Other}]
    /\ keyring \in [Clients -> [Keys -> Accounts \cup {NoKey}]]
    /\ reused \in SUBSET Clients
    /\ keyPtr \in [Clients -> Keys] /\ keyLen \in [Clients -> Keys]
    /\ prefix \in [account : Prefixes, validator : Prefixes, consensus : Prefixes]
    /\ sdkConfigMutex \in Senders \cup {NoSender}
    /\ pc \in [Senders -> Steps]
    /\ tries \in [Senders -> Nat]
    /\ depth \in [Senders -> Nat]
    /\ from \in [Senders -> Accounts \cup {NoKey, Other}]
    /\ acct \in [Senders -> Accounts \cup {NoKey}]
    /\ simKey \in [Senders -> Accounts \cup {NoKey}]
    /\ signed \in [Senders -> Accounts \cup {NoKey}]
    /\ signedUnder \in [Senders -> [account : Prefixes, validator : Prefixes,
                                    consensus : Prefixes]]
    /\ crashed \in BOOLEAN

PrefixesOf(c) == [account |-> c, validator |-> c, consensus |-> c]

\* Every transaction is signed under the three prefixes of its own chain,
\* whatever the other senders set the global config to meanwhile.
SignedUnderOwnPrefix ==
    \A s \in Senders : signed[s] # NoKey => signedUnder[s] = PrefixesOf(clientOf[s])

\* s has set the prefix of account addresses, or may have done so and failed.
HasSet(s) == pc[s] \in {"setValidator", "setConsensus", "sign", "broadcast"} \/ signed[s] # NoKey
MaySet(s) == HasSet(s) \/ pc[s] = "done"

\* A Broadcaster reads the prefixes without the mutex, yet refuses a user of its
\* chain only if no call on it has come to its signature, or one on another chain
\* may have: a call leaves the prefixes as it has set them.
UserAccepted ==
    \A s \in Senders :
        HasSet(s) /\ (\A t \in Senders : MaySet(t) => clientOf[t] = clientOf[s])
            => AccAddressFromBech32(clientOf[s])

\* The accounts a call is made with: for the sequence, for the simulation and for the
\* signature.  It spends from one of them, too, unless it was given an address.
KeysOf(s) == (IF arg[s] = Other THEN {} ELSE {from[s]}) \cup {acct[s], simKey[s], signed[s]}

\* t has started to switch the key of the client it shares with s.
SwitchedBy(t, s) ==
    t # s /\ clientOf[t] = clientOf[s] /\ arg[t] \in Keys
          /\ pc[t] \notin {"resolve", "writePtr"}

\* Only a caller that switches the key of the same client, or that deletes a key
\* and restores another under its name, can make a call count for, simulate and sign as
\* different accounts, or as another one than that of the key it was asked for, by
\* default Config.Key.  Nobody else can make it spend from a different one again, but it
\* may itself: given an address (line 282), it signs as the default key all the same.
OneAccountUnlessSwitched ==
    \A s \in Senders :
        \/ \E t \in Senders : SwitchedBy(t, s)
        \/ clientOf[s] \in reused
        \/ KeysOf(s) \subseteq {IF arg[s] \in Keys THEN arg[s] ELSE DefaultKey, NoKey}

\* Every call comes to an end, with an error or with the process, unless the node does
\* not answer a request that has no timeout.
EverySendEnds ==
    \A s \in Senders :
        <>(crashed \/ pc[s] = "done") \/ (clientOf[s] \notin Timed /\ <>[]AtRequest(s))

\* The comment at client/tx.go:51: "An error is returned if there was an issue
\* sending the transaction".  A call does not take the process down.
SendingReturns == ~crashed
=============================================================================
