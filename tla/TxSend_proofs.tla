---------------------------- MODULE TxSend_proofs ----------------------------
(***************************************************************************)
(* What holds of TxSend for every set of senders, chains and keys.         *)
(***************************************************************************)
EXTENDS TxSend, Integers, TLAPS

\* The mutex is held by the one sender that is between SetSDKContext and the
\* deferred done(), and by nobody when no sender is.
MutexGuardsSection ==
    \A s \in Senders : pc[s] \in Section <=> sdkConfigMutex = s

\* With the mutex free the global config is of one chain, never half of one
\* and half of another.
PrefixesWhole ==
    sdkConfigMutex = NoSender => \E p \in Prefixes : prefix = PrefixesOf(p)

\* The prefixes the holder of the mutex has set so far.
SectionProgress ==
    \A s \in Senders :
        /\ pc[s] \in {"setValidator", "setConsensus", "sign"}
             => prefix.account = clientOf[s]
        /\ pc[s] \in {"setConsensus", "sign"} => prefix.validator = clientOf[s]
        /\ pc[s] = "sign" => prefix.consensus = clientOf[s]

\* Config.Key is only ever set to a name found in the keyring.
WritersNameKeys ==
    \A s \in Senders : pc[s] \in {"writePtr", "writeLen"} => arg[s] \in Keys

\* A name stands for the account it has at the start, unless it was reused.
NamesAccounts ==
    \A c \in Clients, k \in Keys : c \in reused \/ keyring[c][k] \in {k, NoKey}

TypeInv == TypeOK /\ WritersNameKeys /\ NamesAccounts

\* The inductive invariant of the signing section.
SectionInv == /\ TypeInv
              /\ MutexGuardsSection
              /\ SectionProgress
              /\ PrefixesWhole
              /\ SignedUnderOwnPrefix

\* The actions that touch neither the mutex nor the prefixes nor a signature.
Outside(s) == Resolve(s) \/ WriteKey(s) \/ Resolved(s) \/ GetKey(s) \/ Query(s)
                \/ GasKey(s) \/ Broadcast(s)

LEMMA InitSection == Init => SectionInv
<1> SUFFICES ASSUME Init PROVE SectionInv
    OBVIOUS
<1> USE DEF Init
<1>1. TypeInv
  <2>1. /\ keyring \in [Clients -> [Keys -> Accounts \cup {NoKey}]]
        /\ reused \in SUBSET Clients /\ NamesAccounts
        /\ keyPtr \in [Clients -> Keys] /\ keyLen \in [Clients -> Keys]
      BY KeysAssumption DEF KeysAssumption, Accounts, NamesAccounts
  <2>2. /\ prefix \in [account : Prefixes, validator : Prefixes, consensus : Prefixes]
        /\ signedUnder \in [Senders -> [account : Prefixes, validator : Prefixes,
                                        consensus : Prefixes]]
      BY DEF Prefixes
  <2>3. /\ pc \in [Senders -> Steps]
        /\ tries \in [Senders -> Nat] /\ depth \in [Senders -> Nat]
      BY DEF Steps
  <2>4. /\ from \in [Senders -> Accounts \cup {NoKey, Other}]
        /\ acct \in [Senders -> Accounts \cup {NoKey}]
        /\ simKey \in [Senders -> Accounts \cup {NoKey}]
        /\ signed \in [Senders -> Accounts \cup {NoKey}]
      OBVIOUS
  <2>5. WritersNameKeys
      BY DEF WritersNameKeys
  <2> QED
      BY <2>1, <2>2, <2>3, <2>4, <2>5 DEF TypeOK, TypeInv
<1>2. MutexGuardsSection /\ SectionProgress
    BY SendersAssumption DEF SendersAssumption, MutexGuardsSection, SectionProgress,
                             Section
<1>3. PrefixesWhole
    BY DEF PrefixesWhole, PrefixesOf, Prefixes
<1>4. SignedUnderOwnPrefix
    BY DEF SignedUnderOwnPrefix
<1> QED
    BY <1>1, <1>2, <1>3, <1>4 DEF SectionInv

\* A key that is found has an account.
LEMMA FoundKey == ASSUME TypeOK, NEW s \in Senders, HasKey(s) PROVE Key(s) \in Accounts
BY DEF HasKey, KeyExists, Key, TypeOK

\* The pc of s moves to a step from which Config.Key is not written, and no
\* other pc moves.
Moves(s) == /\ pc' \in [Senders -> Steps]
            /\ pc'[s] \notin {"writePtr", "writeLen"}
            /\ \A t \in Senders : t # s => pc'[t] = pc[t]

LEMMA GotoMoves ==
    ASSUME pc \in [Senders -> Steps], NEW s \in Senders,
           NEW step \in Steps \ {"writePtr", "writeLen"}, Goto(s, step)
    PROVE  Moves(s)
BY DEF Moves, Goto, Steps, Section

LEMMA RetryMoves ==
    ASSUME pc \in [Senders -> Steps], tries \in [Senders -> Nat],
           NEW s \in Senders, pc[s] \notin {"writePtr", "writeLen"},
           NEW next \in Steps \ {"writePtr", "writeLen"},
           Succeeded(s, next) \/ FailedAttempt(s)
    PROVE  Moves(s) /\ tries' \in [Senders -> Nat]
<1>1. CASE Succeeded(s, next)
  <2>1. Moves(s)
      BY <1>1, GotoMoves DEF Succeeded
  <2> QED
      BY <1>1, <2>1 DEF Succeeded
<1>2. CASE FailedAttempt(s)
  <2>1. tries' \in [Senders -> Nat]
      BY <1>2 DEF FailedAttempt
  <2>2. CASE UNCHANGED pc
      BY <2>1, <2>2 DEF Moves
  <2>3. CASE Goto(s, "done")
      BY <2>1, <2>3, GotoMoves DEF Steps
  <2> QED
      BY <1>2, <2>2, <2>3 DEF FailedAttempt
<1> QED
    BY <1>1, <1>2

\* A step keeps the types; one case per action.
LEMMA StepType == TypeInv /\ [Next]_vars => TypeInv'
<1> SUFFICES ASSUME TypeInv, [Next]_vars PROVE TypeInv'
    OBVIOUS
<1>0. TypeOK
    BY DEF TypeInv
<1> USE DEF TypeInv, TypeOK, WritersNameKeys, NamesAccounts, constants, globals, keys, cfgKey, txData, At
<1>1. ASSUME NEW s \in Senders, Resolve(s) PROVE TypeInv'
  <2> USE DEF Resolve, Goto
  <2>1. pc' \in [Senders -> Steps]
      BY <1>1 DEF Steps
  <2>2. from' \in [Senders -> Accounts \cup {NoKey, Other}]
      BY <1>1, AddressesAssumption DEF AddressesAssumption, Accounts
  <2>3. WritersNameKeys'
    <3>1. pc'[s] \in {"writePtr", "writeLen"} => arg[s] \in Keys
        BY <1>1 DEF KeyExists
    <3> QED
        BY <1>1, <3>1
  <2> QED
      BY <1>1, <2>1, <2>2, <2>3
<1>2. ASSUME NEW s \in Senders, WriteKey(s) PROVE TypeInv'
  <2>1. arg[s] \in Keys
      BY <1>2 DEF WriteKey
  <2>2. keyPtr' \in [Clients -> Keys] /\ keyLen' \in [Clients -> Keys]
      BY <1>2, <2>1 DEF WriteKey
  <2>3. /\ pc' \in [Senders -> Steps]
        /\ \A t \in Senders : t # s => pc'[t] = pc[t]
      BY <1>2 DEF WriteKey, Steps, Goto
  <2> QED
      BY <1>2, <2>1, <2>2, <2>3 DEF WriteKey, Goto
<1>3. ASSUME NEW s \in Senders, Resolved(s) PROVE TypeInv'
  <2>1. from' \in [Senders -> Accounts \cup {NoKey, Other}]
    <3>1. HasKey(s) => Key(s) \in Accounts
        BY <1>0, FoundKey
    <3> QED
        BY <1>3, <3>1 DEF Resolved
  <2> QED
      BY <1>3, <2>1 DEF Resolved, Steps, Goto
<1>4. ASSUME NEW s \in Senders, GetKey(s) PROVE TypeInv'
  <2>1. acct' \in [Senders -> Accounts \cup {NoKey}]
    <3>1. HasKey(s) => Key(s) \in Accounts
        BY <1>0, FoundKey
    <3> QED
        BY <1>4, <3>1 DEF GetKey
  <2>2. Moves(s) /\ tries' \in [Senders -> Nat]
      BY <1>4, RetryMoves DEF GetKey, Steps
  <2> QED
      BY <1>4, <2>1, <2>2 DEF GetKey, Moves
<1>5. ASSUME NEW s \in Senders, Query(s) PROVE TypeInv'
  <2>1. /\ pc[s] \notin {"writePtr", "writeLen"}
        /\ \E next \in {"accSeq", "gasKey", "lock", "done"} :
              Succeeded(s, next) \/ FailedAttempt(s)
      BY <1>5 DEF Query, EnsureExists, GetAccountNumberSequence, Simulate
  <2>2. Moves(s) /\ tries' \in [Senders -> Nat]
      BY <2>1, RetryMoves DEF Steps
  <2> QED
      BY <1>5, <2>2 DEF Query, EnsureExists, GetAccountNumberSequence, Simulate, Moves
<1>6. ASSUME NEW s \in Senders, GasKey(s) PROVE TypeInv'
  <2>1. simKey' \in [Senders -> Accounts \cup {NoKey}]
    <3>1. HasKey(s) => Key(s) \in Accounts
        BY <1>0, FoundKey
    <3> QED
        BY <1>6, <3>1 DEF GasKey
  <2> QED
      BY <1>6, <2>1 DEF GasKey, Steps, Goto
<1>7. ASSUME NEW s \in Senders, Lock(s) PROVE TypeInv'
    BY <1>7 DEF Lock, Steps, Section, Goto
<1>8. ASSUME NEW s \in Senders, SetPrefix(s) PROVE TypeInv'
  <2>1. prefix' \in [account : Prefixes, validator : Prefixes, consensus : Prefixes]
      BY <1>8 DEF SetPrefix, Prefixes
  <2>2. Moves(s)
      BY <1>8, GotoMoves DEF SetPrefix, Steps, Section
  <2> QED
      BY <1>8, <2>1, <2>2 DEF SetPrefix, Moves
<1>9. ASSUME NEW s \in Senders, Sign(s) PROVE TypeInv'
  <2>1. signed' \in [Senders -> Accounts \cup {NoKey}]
    <3>1. HasKey(s) => Key(s) \in Accounts
        BY <1>0, FoundKey
    <3> QED
        BY <1>9, <3>1 DEF Sign
  <2>2. signedUnder' \in [Senders -> [account : Prefixes, validator : Prefixes,
                                      consensus : Prefixes]]
      BY <1>9 DEF Sign
  <2>3. Moves(s)
      BY <1>9, GotoMoves DEF Sign, Steps, Section
  <2> QED
      BY <1>9, <2>1, <2>2, <2>3 DEF Sign, Moves
<1>10. ASSUME NEW s \in Senders, Broadcast(s) PROVE TypeInv'
  <2>1. depth' \in [Senders -> Nat]
      BY <1>10 DEF Broadcast
  <2>2. crashed' \in BOOLEAN
      BY <1>10, Zenon DEF Broadcast
  <2> QED
      BY <1>10, <2>1, <2>2, Zenon DEF Broadcast
<1>11. CASE KeyChanges
  <2>1. PICK c \in Clients, k \in Keys, account \in Accounts \cup {NoKey} :
           /\ ChangeKey(c, k, account)
           /\ reused' \in SUBSET Clients /\ reused \subseteq reused'
           /\ account \in {k, NoKey} \/ c \in reused'
      BY <1>11 DEF KeyChanges, DeleteKey, KeyAddOrRestore
  <2>2. keyring' \in [Clients -> [Keys -> Accounts \cup {NoKey}]]
      BY <2>1 DEF ChangeKey
  <2>3. NamesAccounts'
      BY <2>1 DEF ChangeKey
  <2> QED
      BY <2>1, <2>2, <2>3 DEF ChangeKey
<1>12. CASE UNCHANGED vars
    BY <1>12 DEF vars
<1> QED
    BY <1>1, <1>2, <1>3, <1>4, <1>5, <1>6, <1>7, <1>8, <1>9, <1>10, <1>11, <1>12
    DEF Next, Step

-----------------------------------------------------------------------------
\* What an action outside the section leaves alone.
SectionUntouched(s) ==
    /\ UNCHANGED <<clientOf, prefix, sdkConfigMutex, signed, signedUnder>>
    /\ pc[s] \notin Section /\ pc'[s] \notin Section
    /\ \A t \in Senders : t # s => pc'[t] = pc[t]

LEMMA OutsideSection ==
    ASSUME TypeInv, NEW s \in Senders, Outside(s)
    PROVE  SectionUntouched(s)
<1> USE DEF TypeInv, TypeOK, constants, globals, txData, At, SectionUntouched, Section
<1>1. CASE Resolve(s)
    BY <1>1 DEF Resolve, Goto
<1>2. CASE WriteKey(s)
    BY <1>2 DEF WriteKey, Goto
<1>3. CASE Resolved(s)
    BY <1>3 DEF Resolved, Goto
<1>4. CASE GetKey(s)
    BY <1>4 DEF GetKey, Goto, FailedAttempt, Succeeded
<1>5. CASE Query(s)
    BY <1>5 DEF Query,
                EnsureExists, GetAccountNumberSequence, Simulate,
                Goto, FailedAttempt, Succeeded
<1>6. CASE GasKey(s)
    BY <1>6 DEF GasKey, Goto
<1>7. CASE Broadcast(s)
    BY <1>7 DEF Broadcast
<1> QED
    BY <1>1, <1>2, <1>3, <1>4, <1>5, <1>6, <1>7 DEF Outside

\* The section of one sender excludes the steps of the section of another, so
\* that the prefixes stay as the holder of the mutex sets them until it signs.
LEMMA StepSection == SectionInv /\ [Next]_vars => SectionInv'
<1> SUFFICES ASSUME SectionInv, [Next]_vars PROVE SectionInv'
    OBVIOUS
<1>0. TypeInv /\ TypeInv' /\ TypeOK
    BY StepType DEF SectionInv, TypeInv
<1> USE DEF SectionInv, MutexGuardsSection, SectionProgress, PrefixesWhole,
            SignedUnderOwnPrefix
<1>1. ASSUME NEW s \in Senders, Outside(s) PROVE SectionInv'
  <2>1. SectionUntouched(s)
      BY <1>0, <1>1, OutsideSection
  <2>2. MutexGuardsSection'
      BY <2>1 DEF SectionUntouched
  <2>3. SectionProgress'
      BY <2>1 DEF SectionUntouched, Section
  <2>4. PrefixesWhole'
      BY <2>1 DEF SectionUntouched
  <2>5. SignedUnderOwnPrefix'
      BY <2>1 DEF SectionUntouched
  <2> QED
      BY <1>0, <2>2, <2>3, <2>4, <2>5
<1>2. ASSUME NEW s \in Senders, Lock(s) PROVE SectionInv'
  <2> USE <1>0, <1>2, SendersAssumption
      DEF Lock, At, Goto, TypeOK, Section, SendersAssumption, constants, txData
  <2>1. MutexGuardsSection'
      OBVIOUS
  <2>2. SectionProgress'
      OBVIOUS
  <2>3. PrefixesWhole' /\ SignedUnderOwnPrefix'
      OBVIOUS
  <2> QED
      BY <1>0, <2>1, <2>2, <2>3
<1>3. ASSUME NEW s \in Senders, SetPrefix(s) PROVE SectionInv'
  <2> USE <1>0, <1>3, SendersAssumption
      DEF SetPrefix, At, Goto, TypeOK, Section, SendersAssumption, constants, txData
  <2>1. MutexGuardsSection'
      OBVIOUS
  <2>2. SectionProgress'
    <3>1. \A t \in Senders : t # s => pc'[t] = pc[t] /\ pc[t] \notin Section
        OBVIOUS
    <3>2. ASSUME NEW t \in Senders, t # s
          PROVE  pc'[t] \notin {"setValidator", "setConsensus", "sign"}
        BY <3>1, <3>2
    <3>3. /\ pc'[s] \in {"setValidator", "setConsensus", "sign"}
               => prefix'.account = clientOf[s]
          /\ pc'[s] \in {"setConsensus", "sign"} => prefix'.validator = clientOf[s]
          /\ pc'[s] = "sign" => prefix'.consensus = clientOf[s]
        OBVIOUS
    <3> QED
        BY <3>2, <3>3
  <2>3. PrefixesWhole' /\ SignedUnderOwnPrefix'
      OBVIOUS
  <2> QED
      BY <1>0, <2>1, <2>2, <2>3
<1>4. ASSUME NEW s \in Senders, Sign(s) PROVE SectionInv'
  <2> USE <1>0, <1>4 DEF Sign, At, TypeOK, constants
  <2>1. /\ pc' \in [Senders -> Steps] /\ pc'[s] \notin Section
        /\ \A t \in Senders : t # s => pc'[t] = pc[t]
    <3>1. Goto(s, "broadcast") \/ Goto(s, "done")
        OBVIOUS
    <3>2. pc' = [pc EXCEPT ![s] = "broadcast"] \/ pc' = [pc EXCEPT ![s] = "done"]
        BY <3>1, Zenon DEF Goto
    <3>3. "broadcast" \in Steps \ Section /\ "done" \in Steps \ Section
        BY DEF Steps, Section
    <3>4. pc \in [Senders -> Steps]
        OBVIOUS
    <3> HIDE <1>4 DEF Sign, At, TypeOK, constants
    <3> QED
        BY <3>2, <3>3, <3>4
  <2>2. MutexGuardsSection'
      BY <2>1, SendersAssumption DEF SendersAssumption, Section
  <2>3. SectionProgress'
      BY <2>1 DEF Section
  <2>4. prefix = PrefixesOf(clientOf[s])
      BY DEF PrefixesOf
  <2>5. PrefixesWhole'
      BY <2>4 DEF Prefixes
  <2>6. SignedUnderOwnPrefix'
    <3>1. ASSUME NEW t \in Senders
          PROVE  UNCHANGED <<signed[t], signedUnder[t]>> \/ (t = s /\ signedUnder'[t] = prefix)
        BY <3>1
    <3> QED
        BY <2>4, <3>1
  <2> QED
      BY <1>0, <2>2, <2>3, <2>5, <2>6
<1>5. CASE KeyChanges
    BY <1>0, <1>5 DEF KeyChanges, KeyAddOrRestore, DeleteKey, ChangeKey, constants, txData
<1>6. CASE UNCHANGED vars
    BY <1>0, <1>6 DEF vars, constants, globals, txData
<1> QED
    BY <1>1, <1>2, <1>3, <1>4, <1>5, <1>6 DEF Next, Step, Outside

LEMMA SectionInvariance == Spec => []SectionInv
BY InitSection, StepSection, PTL DEF Spec

\* Every variable keeps its type.
THEOREM TypeCorrect == Spec => []TypeOK
<1>1. SectionInv => TypeOK
    BY DEF SectionInv, TypeInv
<1> QED
    BY <1>1, SectionInvariance, PTL

\* sdkConfigMutex is held by exactly the sender inside the section.
THEOREM MutexGuards == Spec => []MutexGuardsSection
<1>1. SectionInv => MutexGuardsSection
    BY DEF SectionInv
<1> QED
    BY <1>1, SectionInvariance, PTL

\* However many senders of however many chains run, each transaction is signed
\* under the bech32 prefixes of its own chain.
THEOREM SignedUnderOwn == Spec => []SignedUnderOwnPrefix
<1>1. SectionInv => SignedUnderOwnPrefix
    BY DEF SectionInv
<1> QED
    BY <1>1, SectionInvariance, PTL

\* Nobody who takes the mutex finds the prefixes of two chains mixed.
THEOREM PrefixesNeverMixed == Spec => []PrefixesWhole
<1>1. SectionInv => PrefixesWhole
    BY DEF SectionInv
<1> QED
    BY <1>1, SectionInvariance, PTL

-----------------------------------------------------------------------------
Disturbed(s) == clientOf[s] \in reused \/ \E t \in Senders : SwitchedBy(t, s)

Early == {"resolve", "writePtr", "writeLen"}

\* The key a call was asked for.
Asked(s) == IF arg[s] \in Keys THEN arg[s] ELSE DefaultKey

\* A sender whose client's key nobody else switches finds both words of
\* Config.Key as it left them, and has used that key only.
OwnKey(s) ==
    /\ pc[s] = "writeLen" => keyPtr[clientOf[s]] = arg[s]
    /\ pc[s] # "writeLen" => keyPtr[clientOf[s]] = keyLen[clientOf[s]]
    /\ pc[s] \in Early => KeysOf(s) \subseteq {NoKey}
    /\ pc[s] \notin Early \cup {"done"} => keyPtr[clientOf[s]] = Asked(s)
    /\ pc[s] \in {"resolve", "writePtr"} => keyPtr[clientOf[s]] = DefaultKey
    /\ KeysOf(s) \subseteq {Asked(s), NoKey}

AccountInv == \A s \in Senders : Disturbed(s) \/ OwnKey(s)

LEMMA InitAccount == Init => AccountInv
<1> SUFFICES ASSUME Init, NEW s \in Senders PROVE OwnKey(s)
    BY DEF AccountInv
<1>1. /\ pc[s] = "resolve" /\ clientOf[s] \in Clients
      /\ keyPtr[clientOf[s]] = DefaultKey /\ keyLen[clientOf[s]] = DefaultKey
    BY DEF Init
<1>2. KeysOf(s) \subseteq {NoKey}
    BY DEF Init, KeysOf
<1> QED
    BY <1>1, <1>2 DEF OwnKey, Early

\* A sender never gets back before its write of Config.Key, so that a switch
\* once begun stays one.
LEMMA DisturbedStays ==
    ASSUME TypeInv, [Next]_vars, NEW s \in Senders, Disturbed(s)
    PROVE  Disturbed(s)'
<1> USE DEF TypeInv, TypeOK, At, constants, globals, keys, cfgKey, txData
<1>1. UNCHANGED <<clientOf, arg>> /\ reused \subseteq reused'
    BY DEF Next, Step, vars, Resolve, WriteKey, Resolved, GetKey, Query,
           EnsureExists, GetAccountNumberSequence, Simulate, GasKey, Lock,
           SetPrefix, Sign, Broadcast, KeyChanges, KeyAddOrRestore, DeleteKey, ChangeKey
<1>2. ASSUME NEW t \in Senders, pc[t] \notin {"resolve", "writePtr"}
      PROVE  pc'[t] \notin {"resolve", "writePtr"}
  <2>1. ASSUME NEW u \in Senders, Step(u) PROVE pc'[t] \notin {"resolve", "writePtr"}
    <3>1. CASE Resolve(u)
        BY <1>2, <3>1 DEF Resolve, Goto
    <3>2. CASE WriteKey(u)
        BY <1>2, <3>2 DEF WriteKey, Goto
    <3>3. CASE Resolved(u) \/ GasKey(u) \/ Lock(u) \/ Broadcast(u)
        BY <1>2, <3>3 DEF Resolved, GasKey, Lock, Broadcast, Goto
    <3>4. CASE GetKey(u) \/ Query(u)
        BY <1>2, <3>4 DEF GetKey, Query,
                          EnsureExists, GetAccountNumberSequence, Simulate,
                          FailedAttempt, Succeeded, Goto
    <3>5. CASE SetPrefix(u) \/ Sign(u)
        BY <1>2, <3>5 DEF SetPrefix, Sign, Goto
    <3> QED
        BY <2>1, <3>1, <3>2, <3>3, <3>4, <3>5 DEF Step
  <2>2. KeyChanges => pc' = pc
      BY DEF KeyChanges, KeyAddOrRestore, DeleteKey, ChangeKey
  <2>3. CASE UNCHANGED vars
      BY <1>2, <2>3 DEF vars
  <2> QED
      BY <1>2, <2>1, <2>2, <2>3 DEF Next
<1> QED
    BY <1>1, <1>2 DEF Disturbed, SwitchedBy

\* A step of another sender leaves an undisturbed one with its key.
LEMMA OthersKeepKey ==
    ASSUME TypeInv, NEW s \in Senders, NEW t \in Senders, t # s, Step(t),
           OwnKey(s), ~Disturbed(s)'
    PROVE  OwnKey(s)'
<1> USE DEF TypeInv, TypeOK, At, constants, globals, cfgKey, txData
<1>1. /\ UNCHANGED <<clientOf, arg>>
      /\ pc'[s] = pc[s] /\ KeysOf(s)' = KeysOf(s)
  <2>1. CASE Resolve(t)
      BY <2>1 DEF Resolve, Goto, KeysOf
  <2>2. CASE WriteKey(t)
      BY <2>2 DEF WriteKey, Goto, KeysOf
  <2>3. CASE Resolved(t) \/ GasKey(t) \/ Lock(t) \/ Broadcast(t)
      BY <2>3 DEF Resolved, GasKey, Lock, Broadcast, Goto, KeysOf
  <2>4. CASE GetKey(t) \/ Query(t)
      BY <2>4 DEF GetKey, Query,
                  EnsureExists, GetAccountNumberSequence, Simulate,
                  FailedAttempt, Succeeded, Goto, KeysOf
  <2>5. CASE SetPrefix(t) \/ Sign(t)
      BY <2>5 DEF SetPrefix, Sign, Goto, KeysOf
  <2> QED
      BY <2>1, <2>2, <2>3, <2>4, <2>5 DEF Step
<1>2. UNCHANGED <<keyPtr[clientOf[s]], keyLen[clientOf[s]]>>
  <2>1. CASE WriteKey(t)
    <3>1. clientOf[t] # clientOf[s]
        BY <1>1, <2>1 DEF WriteKey, Goto, WritersNameKeys, Disturbed, SwitchedBy
    <3> QED
        BY <2>1, <3>1 DEF WriteKey
  <2>2. CASE ~WriteKey(t)
      BY <2>2 DEF Step, Resolve, Resolved, GetKey, Query,
                  EnsureExists, GetAccountNumberSequence, Simulate,
                  GasKey, Lock, SetPrefix,
                  Sign, Broadcast
  <2> QED
      BY <2>1, <2>2
<1>3. Asked(s)' = Asked(s)
    BY <1>1 DEF Asked
<1> QED
    BY <1>1, <1>2, <1>3 DEF OwnKey

\* The account an undisturbed sender finds is that of the key it asked for.
LEMMA OwnKeyFound ==
    ASSUME TypeInv, NEW s \in Senders, OwnKey(s), clientOf[s] \notin reused,
           pc[s] \notin Early \cup {"done"}, HasKey(s)
    PROVE  Key(s) = Asked(s)
<1>1. keyPtr[clientOf[s]] = keyLen[clientOf[s]] /\ keyPtr[clientOf[s]] = Asked(s)
    BY DEF OwnKey, Early
<1>2. Key(s) = keyring[clientOf[s]][Asked(s)] /\ Asked(s) \in Keys /\ Key(s) # NoKey
    BY <1>1 DEF Key, HasKey, KeyExists, NameOf
<1>3. clientOf[s] \in Clients
    BY DEF TypeInv, TypeOK
<1> QED
    BY <1>2, <1>3 DEF TypeInv, NamesAccounts

\* A step that looks the key up once, if at all, and stays behind the write of Config.Key.
Looks(s) ==
    /\ UNCHANGED <<keyPtr, keyLen>>
    /\ pc[s] \notin Early \cup {"done"} /\ pc'[s] \notin Early
    /\ \A k \in KeysOf(s)' : k \in KeysOf(s) \/ (HasKey(s) /\ k = Key(s))

LEMMA LookKeepsKey ==
    ASSUME TypeInv, NEW s \in Senders, OwnKey(s), clientOf[s] \notin reused,
           UNCHANGED <<clientOf, arg>>, Looks(s)
    PROVE  OwnKey(s)'
<1>1. HasKey(s) => Key(s) = Asked(s)
    BY OwnKeyFound DEF Looks
<1>2. KeysOf(s)' \subseteq {Asked(s), NoKey}
    BY <1>1 DEF Looks, OwnKey
<1>3. keyPtr[clientOf[s]] = keyLen[clientOf[s]] /\ keyPtr[clientOf[s]] = Asked(s)
    BY DEF OwnKey, Early, Looks
<1>4. Asked(s)' = Asked(s)
    BY DEF Asked
<1> QED
    BY <1>2, <1>3, <1>4 DEF Looks, OwnKey, Early

\* A step of the sender itself: it switches the key before it uses one.
LEMMA SelfKeepsKey ==
    ASSUME TypeInv, NEW s \in Senders, Step(s), OwnKey(s), clientOf[s] \notin reused
    PROVE  OwnKey(s)'
<1> USE DEF TypeInv, TypeOK, At, constants, globals, cfgKey, txData, Early
<1>0. UNCHANGED <<clientOf, arg>>
    BY DEF Step, Resolve, WriteKey, Resolved, GetKey, Query,
           EnsureExists, GetAccountNumberSequence, Simulate, GasKey, Lock,
           SetPrefix, Sign, Broadcast
<1>00. Asked(s)' = Asked(s)
    BY <1>0 DEF Asked
<1>1. CASE Resolve(s)
  <2>1. UNCHANGED <<keyPtr, keyLen>> /\ pc[s] = "resolve"
      BY <1>1 DEF Resolve
  <2>2. KeysOf(s)' \subseteq {NoKey}
      BY <1>1, <1>0, <2>1 DEF Resolve, KeysOf, OwnKey
  <2>3. /\ arg[s] \in Keys => pc'[s] \in {"writePtr", "done"}
        /\ pc'[s] \in {"resolved", "writePtr", "getKey", "done"}
      BY <1>1, KeysAssumption DEF Resolve, Goto, KeysAssumption
  <2>4. keyPtr[clientOf[s]] = DefaultKey /\ keyPtr[clientOf[s]] = keyLen[clientOf[s]]
      BY <2>1 DEF OwnKey
  <2> QED
      BY <1>0, <2>1, <2>2, <2>3, <2>4 DEF OwnKey, Asked
<1>2. CASE WriteKey(s)
  <2>1. KeysOf(s)' \subseteq {NoKey} /\ Asked(s) = arg[s]
      BY <1>0, <1>2 DEF WriteKey, OwnKey, KeysOf, Asked, WritersNameKeys
  <2>2. CASE pc[s] = "writePtr"
    <3>1. pc'[s] = "writeLen" /\ keyPtr'[clientOf[s]] = arg[s]
        BY <1>2, <2>2 DEF WriteKey, Goto
    <3> QED
        BY <1>0, <2>1, <3>1 DEF OwnKey
  <2>3. CASE pc[s] = "writeLen"
    <3>1. /\ pc'[s] = "resolved"
          /\ keyLen'[clientOf[s]] = arg[s] /\ UNCHANGED keyPtr
        BY <1>2, <2>3 DEF WriteKey, Goto
    <3>2. keyPtr[clientOf[s]] = arg[s]
        BY <2>3 DEF OwnKey
    <3> QED
        BY <1>0, <1>00, <2>1, <3>1, <3>2 DEF OwnKey
  <2> QED
      BY <1>2, <2>2, <2>3 DEF WriteKey
<1>3. CASE Resolved(s) \/ GetKey(s) \/ GasKey(s)
  <2>1. \A k \in KeysOf(s)' : k \in KeysOf(s) \/ (HasKey(s) /\ k = Key(s))
    <3>1. CASE Resolved(s)
        BY <1>0, <3>1 DEF Resolved, KeysOf
    <3>2. CASE GetKey(s)
        BY <1>0, <3>2 DEF GetKey, KeysOf
    <3>3. CASE GasKey(s)
        BY <1>0, <3>3 DEF GasKey, KeysOf
    <3> QED
        BY <1>3, <3>1, <3>2, <3>3
  <2>2. Looks(s)
      BY <1>3, <2>1 DEF Looks, Resolved, GetKey, GasKey, FailedAttempt, Succeeded, Goto
  <2> QED
      BY <1>0, <2>2, LookKeepsKey
<1>4. CASE Sign(s)
  <2>1. \A k \in KeysOf(s)' : k \in KeysOf(s) \/ (HasKey(s) /\ k = Key(s))
      BY <1>0, <1>4 DEF Sign, KeysOf
  <2>2. Looks(s)
      BY <1>4, <2>1 DEF Looks, Sign, Goto
  <2> QED
      BY <1>0, <2>2, LookKeepsKey
<1>5. CASE Query(s) \/ Lock(s) \/ SetPrefix(s) \/ Broadcast(s)
  <2>1. UNCHANGED <<keyPtr, keyLen>> /\ KeysOf(s)' = KeysOf(s)
      BY <1>0, <1>5 DEF Query,
                  EnsureExists, GetAccountNumberSequence, Simulate,
                  Lock, SetPrefix, Broadcast, KeysOf
  <2>2. pc[s] \notin Early \cup {"done"}
      BY <1>5 DEF Query,
                  EnsureExists, GetAccountNumberSequence, Simulate,
                  Lock, SetPrefix, Broadcast
  <2>3. pc'[s] \notin Early
      BY <1>5, <2>2 DEF Query,
                        EnsureExists, GetAccountNumberSequence, Simulate,
                        Lock, SetPrefix, Broadcast, FailedAttempt, Succeeded, Goto
  <2> QED
      BY <1>0, <2>1, <2>2, <2>3, LookKeepsKey DEF Looks
<1> QED
    BY <1>1, <1>2, <1>3, <1>4, <1>5 DEF Step

LEMMA StepAccount == TypeInv /\ AccountInv /\ [Next]_vars => AccountInv'
<1> SUFFICES ASSUME TypeInv, AccountInv, [Next]_vars, NEW s \in Senders, ~Disturbed(s)'
             PROVE  OwnKey(s)'
    BY DEF AccountInv
<1>1. OwnKey(s) /\ clientOf[s] \notin reused
    BY DisturbedStays DEF AccountInv, Disturbed
<1>2. ASSUME NEW t \in Senders, Step(t) PROVE OwnKey(s)'
    BY <1>1, <1>2, SelfKeepsKey, OthersKeepKey
<1>3. CASE KeyChanges
    BY <1>1, <1>3 DEF KeyChanges, KeyAddOrRestore, DeleteKey, ChangeKey, OwnKey, Asked, KeysOf,
                      constants, cfgKey, txData
<1>4. CASE UNCHANGED vars
    BY <1>1, <1>4 DEF vars, OwnKey, Asked, KeysOf, constants, globals, keys, cfgKey, txData
<1> QED
    BY <1>2, <1>3, <1>4 DEF Next

\* As long as nobody else switches the key of its client or reuses a name, a call
\* counts for, simulates and signs as one account, that of the key it was asked for or of
\* the client's default key, and spends from it unless it was given an address.
THEOREM OneAccount == Spec => []OneAccountUnlessSwitched
<1>1. AccountInv => OneAccountUnlessSwitched
    BY DEF AccountInv, OneAccountUnlessSwitched, OwnKey, Disturbed, Asked
<1>2. SectionInv => TypeInv
    BY DEF SectionInv
<1> QED
    BY <1>1, <1>2, InitAccount, StepAccount, SectionInvariance, PTL DEF Spec

-----------------------------------------------------------------------------
\* The account prefix is of a call that has set it.
LastSet ==
    (\E s \in Senders : HasSet(s)) => \E t \in Senders : MaySet(t) /\ prefix.account = clientOf[t]

LEMMA StepLastSet == TypeInv /\ LastSet /\ [Next]_vars => LastSet'
<1> SUFFICES ASSUME TypeInv, LastSet, [Next]_vars PROVE LastSet'
    OBVIOUS
<1> USE DEF TypeInv, TypeOK, At
<1>1. CASE /\ UNCHANGED <<clientOf, prefix>>
           /\ \A s \in Senders : (HasSet(s)' => HasSet(s)) /\ (MaySet(s) => MaySet(s)')
    BY <1>1 DEF LastSet
<1>2. ASSUME NEW s \in Senders, Outside(s) PROVE LastSet'
  <2>1. SectionUntouched(s) /\ pc' \in [Senders -> Steps]
      BY <1>2, OutsideSection, StepType
  <2>2. pc'[s] = "broadcast" => pc[s] = "broadcast"
      BY <1>2 DEF Outside, Resolve, WriteKey, Resolved, GetKey, Query, EnsureExists,
                  GetAccountNumberSequence, Simulate, GasKey, Broadcast, Goto, FailedAttempt,
                  Succeeded
  <2>3. pc[s] = "broadcast" => pc'[s] = "broadcast"
      BY <1>2 DEF Outside, Resolve, WriteKey, Resolved, GetKey, Query, EnsureExists,
                  GetAccountNumberSequence, Simulate, GasKey, Broadcast
  <2>4. pc[s] # "done"
      BY <1>2 DEF Outside, Resolve, WriteKey, Resolved, GetKey, Query, EnsureExists,
                  GetAccountNumberSequence, Simulate, GasKey, Broadcast
  <2> QED
      BY <1>1, <2>1, <2>2, <2>3, <2>4 DEF SectionUntouched, HasSet, MaySet, Section
<1>3. ASSUME NEW s \in Senders, Lock(s) PROVE LastSet'
    BY <1>1, <1>3 DEF Lock, Goto, HasSet, MaySet, constants, txData
<1>4. ASSUME NEW s \in Senders, SetPrefix(s) PROVE LastSet'
  <2>1. CASE pc[s] = "setAccount"
    <3>1. prefix'.account = clientOf[s] /\ pc'[s] = "setValidator" /\ UNCHANGED clientOf
        BY <1>4, <2>1 DEF SetPrefix, Goto, constants
    <3> QED
        BY <3>1 DEF LastSet, HasSet, MaySet
  <2>2. CASE pc[s] # "setAccount"
    <3>1. /\ UNCHANGED <<clientOf, signed, prefix.account>>
          /\ pc[s] \in {"setValidator", "setConsensus"} /\ pc'[s] \in {"setConsensus", "sign"}
          /\ \A t \in Senders : t # s => pc'[t] = pc[t]
        BY <1>4, <2>2 DEF SetPrefix, Goto, constants, txData
    <3> QED
        BY <3>1 DEF LastSet, HasSet, MaySet
  <2> QED
      BY <2>1, <2>2
<1>5. ASSUME NEW s \in Senders, Sign(s) PROVE LastSet'
  <2>1. /\ UNCHANGED <<clientOf, prefix>>
        /\ pc[s] = "sign" /\ pc'[s] \in {"broadcast", "done"}
        /\ \A t \in Senders : t # s => pc'[t] = pc[t] /\ signed'[t] = signed[t]
      BY <1>5 DEF Sign, Goto, constants
  <2> QED
      BY <1>1, <2>1 DEF HasSet, MaySet
<1>6. CASE KeyChanges
    BY <1>1, <1>6 DEF KeyChanges, KeyAddOrRestore, DeleteKey, ChangeKey, constants, txData, HasSet,
                      MaySet
<1>7. CASE UNCHANGED vars
    BY <1>1, <1>7 DEF vars, constants, globals, txData, HasSet, MaySet
<1> QED
    BY <1>2, <1>3, <1>4, <1>5, <1>6, <1>7 DEF Next, Step, Outside

\* A Broadcaster that reads the prefixes without the mutex refuses no user of its
\* chain once a call on it has set them, as long as other chains stay away.
THEOREM UserIsAccepted == Spec => []UserAccepted
<1>1. Init => LastSet
    BY DEF Init, LastSet, HasSet
<1>2. LastSet => UserAccepted
    BY DEF LastSet, UserAccepted, AccAddressFromBech32
<1>3. SectionInv => TypeInv
    BY DEF SectionInv
<1> QED
    BY <1>1, <1>2, <1>3, StepLastSet, SectionInvariance, PTL DEF Spec

-----------------------------------------------------------------------------
\* How many places of the sequence of steps are left.
Rank(step) ==
    CASE step = "resolve" -> 15      [] step = "writePtr" -> 14
      [] step = "writeLen" -> 13     [] step = "resolved" -> 12
      [] step = "getKey" -> 11       [] step = "ensure" -> 10
      [] step = "accSeq" -> 9        [] step = "gasKey" -> 8
      [] step = "simulate" -> 7      [] step = "lock" -> 6
      [] step = "setAccount" -> 5    [] step = "setValidator" -> 4
      [] step = "setConsensus" -> 3  [] step = "sign" -> 2
      [] step = "broadcast" -> 1     [] step = "done" -> 0

\* Each place takes at most this many steps: attempts, or frames of the recursion.
PerPlace == RtyAttNum + MaxDepth
StepsLeft(s) == Rank(pc[s]) * PerPlace - tries[s] - depth[s]

\* Attempts are counted where a retry runs and below its limit, frames in the
\* recursion, which the process does not survive to the last.
Retried == {"getKey", "ensure", "accSeq", "simulate"}
Counted(s) ==
    /\ tries[s] < RtyAttNum
    /\ tries[s] > 0 => pc[s] \in Retried
    /\ depth[s] <= MaxDepth
    /\ depth[s] > 0 => pc[s] = "broadcast"
    /\ depth[s] = MaxDepth => crashed
CountedInv == \A s \in Senders : Counted(s)

\* What a step of a call comes to: a later place with fresh counts, another attempt
\* or another frame.
Forward(s) == /\ Rank(pc'[s]) < Rank(pc[s])
              /\ tries'[s] = 0 /\ depth'[s] = depth[s] /\ depth[s] = 0
Again(s) == /\ pc'[s] = pc[s] /\ pc[s] \in Retried
            /\ tries'[s] = tries[s] + 1 /\ tries'[s] < RtyAttNum
            /\ depth'[s] = depth[s]
Deeper(s) == /\ pc'[s] = pc[s] /\ pc[s] = "broadcast"
             /\ tries'[s] = tries[s]
             /\ depth'[s] = depth[s] + 1
             /\ depth'[s] < MaxDepth \/ crashed'

LEMMA RankType == ASSUME NEW step \in Steps PROVE Rank(step) \in 0..15
BY DEF Rank, Steps, Section

\* A retried step tries again or moves to a later place.
LEMMA RetryGoesOn ==
    ASSUME TypeInv, CountedInv, NEW s \in Senders, pc[s] \in Retried,
           NEW next \in Steps, Rank(next) < Rank(pc[s]),
           Succeeded(s, next) \/ FailedAttempt(s), UNCHANGED depth
    PROVE  Forward(s) \/ Again(s)
<1>0. /\ pc \in [Senders -> Steps] /\ tries \in [Senders -> Nat]
      /\ depth'[s] = depth[s] /\ depth[s] = 0
  <2>1. /\ pc \in [Senders -> Steps] /\ tries \in [Senders -> Nat]
        /\ depth \in [Senders -> Nat]
      BY DEF TypeInv, TypeOK
  <2>2. pc[s] # "broadcast"
      BY DEF Retried
  <2>3. depth[s] > 0 => pc[s] = "broadcast"
      BY Zenon DEF CountedInv, Counted
  <2> QED
      BY <2>1, <2>2, <2>3
<1>1. CASE Succeeded(s, next)
  <2>1. pc'[s] = next /\ tries'[s] = 0
      BY <1>0, <1>1 DEF Succeeded, Goto
  <2> QED
      BY <1>0, <2>1 DEF Forward
<1>2. CASE FailedAttempt(s) /\ tries[s] + 1 < RtyAttNum
    BY <1>0, <1>2 DEF FailedAttempt, Again
<1>3. CASE FailedAttempt(s) /\ ~(tries[s] + 1 < RtyAttNum)
  <2>1. pc'[s] = "done" /\ tries'[s] = 0
      BY <1>0, <1>3 DEF FailedAttempt, Goto
  <2>2. Rank("done") < Rank(pc[s])
      BY DEF Rank, Retried
  <2> QED
      BY <1>0, <2>1, <2>2 DEF Forward
<1> QED
    BY <1>1, <1>2, <1>3

LEMMA GoesOn ==
    ASSUME TypeInv, CountedInv, NEW s \in Senders, Step(s)
    PROVE  Forward(s) \/ Again(s) \/ Deeper(s)
<1> USE DEF TypeInv, TypeOK, At, CountedInv, Counted, globals, txData
<1>1. CASE GetKey(s)
  <2>1. /\ pc[s] = "getKey" /\ UNCHANGED depth
        /\ Succeeded(s, "ensure") \/ FailedAttempt(s)
      BY <1>1 DEF GetKey
  <2>2. "ensure" \in Steps /\ pc[s] \in Retried /\ Rank("ensure") < Rank(pc[s])
      BY <2>1 DEF Rank, Steps, Retried
  <2> HIDE DEF TypeInv, CountedInv
  <2> QED
      BY <2>1, <2>2, RetryGoesOn
<1>2. CASE Query(s)
  <2>1. CASE EnsureExists(s)
    <3>1. /\ pc[s] = "ensure" /\ UNCHANGED depth
          /\ Succeeded(s, "accSeq") \/ FailedAttempt(s)
        BY <2>1 DEF EnsureExists
    <3>2. "accSeq" \in Steps /\ pc[s] \in Retried /\ Rank("accSeq") < Rank(pc[s])
        BY <3>1 DEF Rank, Steps, Retried
    <3> HIDE DEF TypeInv, CountedInv
    <3> QED
        BY <3>1, <3>2, RetryGoesOn
  <2>2. CASE GetAccountNumberSequence(s)
    <3>1. /\ pc[s] = "accSeq" /\ UNCHANGED depth
          /\ Succeeded(s, "gasKey") \/ FailedAttempt(s)
        BY <2>2 DEF GetAccountNumberSequence
    <3>2. "gasKey" \in Steps /\ pc[s] \in Retried /\ Rank("gasKey") < Rank(pc[s])
        BY <3>1 DEF Rank, Steps, Retried
    <3> HIDE DEF TypeInv, CountedInv
    <3> QED
        BY <3>1, <3>2, RetryGoesOn
  <2>3. CASE Simulate(s)
    <3>1. /\ pc[s] = "simulate" /\ UNCHANGED depth
          /\ Succeeded(s, "lock") \/ FailedAttempt(s) \/ Succeeded(s, "done")
        BY <2>3 DEF Simulate
    <3>2. /\ {"lock", "done"} \subseteq Steps /\ pc[s] \in Retried
          /\ Rank("lock") < Rank(pc[s]) /\ Rank("done") < Rank(pc[s])
        BY <3>1 DEF Rank, Steps, Retried
    <3> HIDE DEF TypeInv, CountedInv
    <3> QED
        BY <3>1, <3>2, RetryGoesOn
  <2> QED
      BY <1>2, <2>1, <2>2, <2>3 DEF Query
<1>3. CASE Broadcast(s)
  <2>1. /\ pc[s] = "broadcast" /\ UNCHANGED <<pc, tries>>
        /\ depth' = [depth EXCEPT ![s] = @ + 1]
        /\ depth[s] + 1 < MaxDepth \/ crashed'
      BY <1>3, Zenon DEF Broadcast, At, txData
  <2> QED
      BY <2>1 DEF Deeper
<1>4. CASE ~GetKey(s) /\ ~Query(s) /\ ~Broadcast(s)
  <2>1. UNCHANGED <<tries, depth>> /\ pc[s] \notin Retried /\ pc[s] # "broadcast"
      BY <1>4 DEF Step, Resolve, WriteKey, Resolved, GasKey, Lock, SetPrefix, Sign, Retried
  <2>2. Rank(pc'[s]) < Rank(pc[s])
    <3>1. CASE Resolve(s)
        BY <3>1 DEF Resolve, Goto, Rank
    <3>2. CASE WriteKey(s)
        BY <3>2 DEF WriteKey, Goto, Rank
    <3>3. CASE Resolved(s) \/ GasKey(s)
        BY <3>3 DEF Resolved, GasKey, Goto, Rank
    <3>4. CASE Lock(s)
        BY <3>4 DEF Lock, Goto, Rank
    <3>5. CASE SetPrefix(s)
        BY <3>5 DEF SetPrefix, Goto, Rank
    <3>6. CASE Sign(s)
        BY <3>6 DEF Sign, Goto, Rank
    <3> QED
        BY <1>4, <3>1, <3>2, <3>3, <3>4, <3>5, <3>6 DEF Step
  <2> QED
      BY <2>1, <2>2 DEF Forward
<1> QED
    BY <1>1, <1>2, <1>3, <1>4

\* What one call does leaves the places and counts of the others.
LEMMA OthersStay ==
    ASSUME TypeInv, NEW s \in Senders, Step(s)
    PROVE  /\ \A t \in Senders : t # s => UNCHANGED <<pc[t], tries[t], depth[t]>>
           /\ crashed => crashed'
<1> USE DEF TypeInv, TypeOK, At, globals, txData
<1>1. CASE Resolve(s) \/ WriteKey(s) \/ Resolved(s) \/ GasKey(s)
    BY <1>1 DEF Resolve, WriteKey, Resolved, GasKey, Goto
<1>2. CASE GetKey(s) \/ Query(s)
    BY <1>2 DEF GetKey, Query, EnsureExists, GetAccountNumberSequence, Simulate, FailedAttempt,
                Succeeded, Goto
<1>3. CASE Lock(s) \/ SetPrefix(s) \/ Sign(s)
    BY <1>3 DEF Lock, SetPrefix, Sign, Goto
<1>4. CASE Broadcast(s)
    BY <1>4 DEF Broadcast
<1> QED
    BY <1>1, <1>2, <1>3, <1>4 DEF Step

LEMMA StepCounted == TypeInv /\ CountedInv /\ [Next]_vars => CountedInv'
<1> SUFFICES ASSUME TypeInv, CountedInv, [Next]_vars PROVE CountedInv'
    OBVIOUS
<1>1. ASSUME NEW s \in Senders, Step(s) PROVE CountedInv'
  <2>1. Counted(s)'
    <3>1. CASE Forward(s)
        BY <3>1, BoundsAssumption DEF Forward, Counted, BoundsAssumption
    <3>2. CASE Again(s)
        BY <3>2, <1>1, OthersStay
        DEF Again, CountedInv, Counted, Retried, TypeInv, TypeOK
    <3>3. CASE Deeper(s)
      <4>1. ~crashed
          BY <1>1, <3>3 DEF Step, Deeper, Resolve, WriteKey, Resolved, GetKey, Query, EnsureExists,
                            GetAccountNumberSequence, Simulate, GasKey, Lock, SetPrefix, Sign,
                            Broadcast, At
      <4>2. depth[s] <= MaxDepth /\ depth[s] # MaxDepth
          BY <4>1, Zenon DEF CountedInv, Counted
      <4>3. depth \in [Senders -> Nat]
          BY DEF TypeInv, TypeOK
      <4>4. depth[s] < MaxDepth /\ depth[s] \in Nat
          BY <4>2, <4>3, BoundsAssumption DEF BoundsAssumption
      <4> QED
          BY <3>3, <4>4, BoundsAssumption DEF Deeper, CountedInv, Counted, Retried, BoundsAssumption
    <3> QED
        BY <1>1, <3>1, <3>2, <3>3, GoesOn
  <2>2. ASSUME NEW t \in Senders, t # s PROVE Counted(t)'
      BY <1>1, <2>2, OthersStay DEF CountedInv, Counted
  <2> QED
      BY <2>1, <2>2 DEF CountedInv
<1>2. CASE KeyChanges
    BY <1>2 DEF KeyChanges, KeyAddOrRestore, DeleteKey, ChangeKey, CountedInv, Counted
<1>3. CASE UNCHANGED vars
    BY <1>3 DEF vars, globals, CountedInv, Counted
<1> QED
    BY <1>1, <1>2, <1>3 DEF Next

\* One place less is worth all the steps that a place can take.
LEMMA PlaceWorth ==
    ASSUME NEW a \in 0..15, NEW b \in 0..15, a < b, NEW k \in Nat
    PROVE  a * k + k <= b * k
<1>1. PICK d \in 0..15 : b = a + 1 + d
    BY b - a - 1 \in 0..15
<1>2. b * k = a * k + k + d * k
    BY <1>1
<1>3. d * k >= 0
    OBVIOUS
<1> QED
    BY <1>2, <1>3

\* The number of steps a call has left falls with each of its steps, whatever it runs
\* into, and nobody else adds to it: no retry is counted anew, no step is done twice.
StepsFall ==
    \A s \in Senders : /\ Step(s) => StepsLeft(s)' < StepsLeft(s)
                       /\ StepsLeft(s)' <= StepsLeft(s)
StepsBounded == \A s \in Senders : StepsLeft(s) \in 0..(15 * PerPlace)

LEMMA BoundedByCount == TypeInv /\ CountedInv => StepsBounded
<1> SUFFICES ASSUME TypeInv, CountedInv, NEW s \in Senders
             PROVE  StepsLeft(s) \in 0..(15 * PerPlace)
    BY DEF StepsBounded
<1> DEFINE r == Rank(pc[s])
<1>1. r \in 0..15 /\ PerPlace \in Nat /\ tries[s] \in Nat /\ depth[s] \in Nat
    BY RankType, BoundsAssumption DEF TypeInv, TypeOK, PerPlace, BoundsAssumption
<1>2. tries[s] + depth[s] <= PerPlace /\ (r = 0 => tries[s] = 0 /\ depth[s] = 0)
    BY BoundsAssumption DEF CountedInv, Counted, PerPlace, Rank, Retried, TypeInv, TypeOK,
                            BoundsAssumption
<1> HIDE DEF r
<1>3. r * PerPlace <= 15 * PerPlace
  <2>1. CASE r = 15
      BY <2>1, <1>1
  <2>2. CASE r < 15
      BY <2>2, <1>1, PlaceWorth
  <2> QED
      BY <1>1, <2>1, <2>2
<1>4. r > 0 => PerPlace <= r * PerPlace
  <2>1. r > 0 => 0 * PerPlace + PerPlace <= r * PerPlace
      BY <1>1, PlaceWorth
  <2> QED
      BY <1>1, <2>1
<1>5. r * PerPlace \in Int
    BY <1>1
<1>6. CASE r = 0
  <2>1. r * PerPlace = 0
      BY <1>1, <1>6
  <2>2. StepsLeft(s) = 0
      BY <1>2, <1>6, <2>1 DEF StepsLeft, r
  <2> QED
      BY <2>2, <1>1
<1>7. CASE r > 0
    BY <1>1, <1>2, <1>3, <1>4, <1>5, <1>7 DEF StepsLeft, r
<1> QED
    BY <1>1, <1>6, <1>7

LEMMA StepFalls == TypeInv /\ CountedInv /\ [Next]_vars => StepsFall
<1> SUFFICES ASSUME TypeInv, CountedInv, [Next]_vars, NEW s \in Senders
             PROVE  /\ Step(s) => StepsLeft(s)' < StepsLeft(s)
                    /\ StepsLeft(s)' <= StepsLeft(s)
    BY DEF StepsFall
<1>1. TypeInv' /\ CountedInv'
    BY StepType, StepCounted
<1>2. /\ PerPlace \in Nat /\ tries[s] < RtyAttNum
      /\ Rank(pc[s]) \in 0..15 /\ tries[s] \in Nat /\ depth[s] \in Nat
      /\ Rank(pc'[s]) \in 0..15 /\ tries'[s] \in Nat /\ depth'[s] \in Nat
    BY <1>1, RankType, BoundsAssumption
    DEF TypeInv, TypeOK, PerPlace, CountedInv, Counted, BoundsAssumption
<1>3. StepsLeft(s)' = Rank(pc'[s]) * PerPlace - tries'[s] - depth'[s]
    BY DEF StepsLeft, PerPlace, Rank
<1>4. /\ Rank(pc[s]) * PerPlace \in Int /\ Rank(pc'[s]) * PerPlace \in Int
    BY <1>2
<1>5. ASSUME Step(s) PROVE StepsLeft(s)' < StepsLeft(s)
  <2>1. CASE Forward(s)
    <3>1. Rank(pc'[s]) * PerPlace + PerPlace <= Rank(pc[s]) * PerPlace
        BY <2>1, <1>2, PlaceWorth DEF Forward
    <3>2. tries[s] < PerPlace
        BY <1>2, BoundsAssumption DEF PerPlace, BoundsAssumption
    <3> QED
        BY <2>1, <1>2, <1>3, <1>4, <3>1, <3>2 DEF Forward, StepsLeft
  <2>2. CASE Again(s) \/ Deeper(s)
    <3>1. Rank(pc'[s]) * PerPlace = Rank(pc[s]) * PerPlace
        BY <2>2 DEF Again, Deeper
    <3> QED
        BY <2>2, <1>2, <1>3, <1>4, <3>1 DEF Again, Deeper, StepsLeft
  <2> QED
      BY <1>5, <2>1, <2>2, GoesOn
<1>6. CASE Step(s)
    BY <1>5, <1>6, <1>2, <1>3, <1>4 DEF StepsLeft
<1>7. CASE UNCHANGED <<pc[s], tries[s], depth[s]>>
    BY <1>2, <1>3, <1>4, <1>5, <1>7 DEF StepsLeft
<1>8. ASSUME NEW t \in Senders, t # s, Step(t) PROVE UNCHANGED <<pc[s], tries[s], depth[s]>>
    BY <1>8, OthersStay
<1>9. KeyChanges \/ UNCHANGED vars => UNCHANGED <<pc, tries, depth>>
    BY DEF KeyChanges, KeyAddOrRestore, DeleteKey, ChangeKey, vars
<1> QED
    BY <1>5, <1>6, <1>7, <1>8, <1>9 DEF Next

\* A call takes at most 15 * (RtyAttNum + MaxDepth) steps, whatever keys, node and
\* other senders do: with fairness it ends.
THEOREM CallsAreBounded == Spec => []StepsBounded /\ [][StepsFall]_vars
<1>1. Init => CountedInv
  <2> SUFFICES ASSUME Init, NEW s \in Senders PROVE Counted(s)
      BY DEF CountedInv
  <2>1. tries[s] = 0 /\ depth[s] = 0
      BY DEF Init
  <2> QED
      BY <2>1, BoundsAssumption DEF Counted, BoundsAssumption
<1>2. SectionInv => TypeInv
    BY DEF SectionInv
<1> QED
    BY <1>1, <1>2, StepCounted, BoundedByCount, StepFalls, SectionInvariance, PTL DEF Spec
=============================================================================
