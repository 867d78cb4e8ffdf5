-------------------------- MODULE CliStartup_proofs --------------------------
EXTENDS CliStartup, TLAPS

\* What a run has found that saw no file.
Unseen == {"none", "denied"}

\* No file is ever removed: one that was found is still there.
FileStays == \A r \in Runs : found[r] \notin Unseen => file # "none"

\* A file that runs have open is their own, not the user's.
OpenedIsOwn ==
    /\ opened # {} => file \in {"empty", "generated"}
    /\ \A r \in opened : stage[r] = "write"

\* Only a run that saw no file creates one.
Creating == {"restat", "statHome", "mkdir", "open", "write"}
CreatesIfNone == \A r \in Runs : stage[r] \in Creating => found[r] \in Unseen

\* A configuration gets its chains only while the file is created, clients only from
\* its chains.
ChainsIfNone ==
    /\ \A r \in chains : stage[r] # "idle" /\ found[r] \in Unseen
    /\ \A r \in Runs : stage[r] = "write" => r \in chains
    /\ clients \subseteq chains

\* An empty file is still open, or was left by a run that came to nothing.
Torn(r) == outcome[r] \in {"killed", "failed"}
EmptyIsOpen == file = "empty" => opened # {} \/ \E r \in chains : Torn(r)

\* A run that has ended stays so.
EndedIsFinal == \A r \in Runs : outcome[r] # None => stage[r] = "done"

\* No run but one that saw no file gets clients: what the user or another run has
\* written is not read back.
OnlyCreatorHasClients == \A r \in clients : found[r] \in Unseen

IInv == TypeOK /\ FileStays /\ OpenedIsOwn /\ CreatesIfNone /\ ChainsIfNone
          /\ EmptyIsOpen /\ EndedIsFinal

LEMMA InitIInv == Init => IInv
<1> SUFFICES ASSUME Init PROVE IInv
    OBVIOUS
<1>1. TypeOK
    BY DEF Init, TypeOK, Contents, Stages
<1>2. FileStays /\ OpenedIsOwn /\ CreatesIfNone /\ ChainsIfNone
    BY DEF Init, FileStays, OpenedIsOwn, CreatesIfNone, Creating, ChainsIfNone, Unseen
<1>3. EmptyIsOpen /\ EndedIsFinal
    BY DEF Init, EmptyIsOpen, EndedIsFinal
<1> QED
    BY <1>1, <1>2, <1>3 DEF IInv

\* A run that only looks, reads or ends.
LEMMA QuietInv ==
    ASSUME IInv, NEW r \in Runs,
           \/ StatConfig(r) \/ StatAgain(r) \/ StatHome(r) \/ Mkdir(r) \/ ReadInConfig(r)
           \/ Unmarshal(r) \/ Validate(r)
    PROVE  IInv'
<1>1. /\ UNCHANGED <<parent, access, file, opened, chains, clients>>
      /\ home' \in BOOLEAN
    BY DEF IInv, TypeOK, StatConfig, StatAgain, StatHome, Mkdir, ReadInConfig, Unmarshal, Validate,
       Goto, End, disk
<1>2. PICK s \in Stages, o \in {None, "failed", "panicked"} :
          /\ stage' = [stage EXCEPT ![r] = s]
          /\ outcome' = outcome \/ (s = "done" /\ outcome' = [outcome EXCEPT ![r] = o])
          /\ s \in Creating \ {"write"} => stage[r] \in Creating \/ found'[r] \in Unseen
          /\ stage[r] # "done" /\ stage[r] # "write" /\ s # "idle" /\ s # "write"
    <2>1. CASE StatConfig(r)
        <3>1. found[r] \notin Unseen => file # "none"
            BY DEF IInv, FileStays
        <3> QED
            BY <2>1, <3>1 DEF StatConfig, Goto, At, Stages, Creating, Unseen, IInv, TypeOK
    <2>2. CASE StatAgain(r) \/ StatHome(r) \/ Mkdir(r)
        BY <2>2 DEF StatAgain, StatHome, Mkdir, Goto, End, At, Stages, Creating
    <2>3. CASE ReadInConfig(r) \/ Unmarshal(r) \/ Validate(r)
        BY <2>3 DEF ReadInConfig, Unmarshal, Validate, Goto, End, At, Stages, Creating
    <2> QED
        BY <2>1, <2>2, <2>3
<1>3. found' = found \/ found' = [found EXCEPT ![r] = "denied"]
    BY DEF StatConfig, StatAgain, StatHome, Mkdir, ReadInConfig, Unmarshal, Validate, Goto, End
<1>4. TypeOK'
    BY <1>1, <1>2, <1>3 DEF IInv, TypeOK
<1>5. FileStays' /\ OpenedIsOwn'
    BY <1>1, <1>2, <1>3 DEF IInv, TypeOK, FileStays, OpenedIsOwn, Unseen
<1>6. CreatesIfNone' /\ ChainsIfNone'
    BY <1>1, <1>2, <1>3 DEF IInv, TypeOK, CreatesIfNone, Creating, ChainsIfNone, Unseen
<1>7. EndedIsFinal'
    BY <1>1, <1>2 DEF IInv, TypeOK, EndedIsFinal
<1>8. \A d \in Runs : Torn(d) => Torn(d)'
  <2>1. outcome[r] = None \/ stage[r] = "done"
      BY DEF IInv, EndedIsFinal
  <2> QED
      BY <1>2, <2>1, NoneAssumption DEF IInv, TypeOK, Torn, NoneAssumption
<1>9. EmptyIsOpen'
    BY <1>1, <1>8 DEF IInv, TypeOK, EmptyIsOpen
<1> QED
    BY <1>4, <1>5, <1>6, <1>7, <1>9 DEF IInv

LEMMA BeginInv ==
    ASSUME IInv, NEW r \in Runs, Begin(r)
    PROVE  IInv'
<1>1. /\ stage[r] = "idle" /\ stage' = [stage EXCEPT ![r] = "stat"]
      /\ found' = [found EXCEPT ![r] = file]
      /\ UNCHANGED <<parent, access, home, file, opened, outcome, chains, clients>>
    BY DEF Begin, At, disk
<1>2. r \notin chains /\ r \notin clients
    BY <1>1 DEF IInv, ChainsIfNone
<1>3. TypeOK'
    BY <1>1 DEF IInv, TypeOK, Stages
<1>4. FileStays' /\ OpenedIsOwn' /\ CreatesIfNone'
    BY <1>1 DEF IInv, TypeOK, FileStays, OpenedIsOwn, CreatesIfNone, Creating, Unseen
<1>5. ChainsIfNone'
    BY <1>1, <1>2 DEF IInv, TypeOK, ChainsIfNone
<1>6. EmptyIsOpen' /\ EndedIsFinal'
    BY <1>1 DEF IInv, TypeOK, EmptyIsOpen, Torn, EndedIsFinal
<1> QED
    BY <1>3, <1>4, <1>5, <1>6 DEF IInv

LEMMA OpenInv ==
    ASSUME IInv, NEW r \in Runs, Open(r)
    PROVE  IInv'
<1>1. /\ stage[r] = "open" /\ chains' = chains \cup {r}
      /\ UNCHANGED <<parent, access, home, clients, found>>
    BY DEF Open, At, Goto, End
<1>2. found[r] \in Unseen
    BY <1>1 DEF IInv, CreatesIfNone, Creating
<1>3. CASE file' = "empty" /\ opened' = opened \cup {r} /\ Goto(r, "write")
    <2>1. stage' = [stage EXCEPT ![r] = "write"] /\ outcome' = outcome
        BY <1>3 DEF Goto
    <2>2. TypeOK'
        BY <1>1, <1>3, <2>1 DEF IInv, TypeOK, Stages, Contents
    <2>3. FileStays' /\ OpenedIsOwn' /\ CreatesIfNone' /\ ChainsIfNone'
        BY <1>1, <1>2, <1>3, <2>1 DEF IInv, TypeOK, FileStays, OpenedIsOwn, CreatesIfNone, Creating,
           ChainsIfNone
    <2>4. EmptyIsOpen' /\ EndedIsFinal'
        BY <1>1, <1>3, <2>1 DEF IInv, TypeOK, EmptyIsOpen, EndedIsFinal
    <2> QED
        BY <2>2, <2>3, <2>4 DEF IInv
<1>4. CASE End(r, "failed") /\ UNCHANGED <<file, opened>>
    <2>1. stage' = [stage EXCEPT ![r] = "done"] /\ outcome' = [outcome EXCEPT ![r] = "failed"]
        BY <1>4 DEF End
    <2>2. TypeOK'
        BY <1>1, <1>4, <2>1 DEF IInv, TypeOK, Stages
    <2>3. FileStays' /\ OpenedIsOwn' /\ CreatesIfNone' /\ ChainsIfNone'
        BY <1>1, <1>2, <1>4, <2>1 DEF IInv, TypeOK, FileStays, OpenedIsOwn, CreatesIfNone, Creating,
           ChainsIfNone
    <2>4. EmptyIsOpen' /\ EndedIsFinal'
        BY <1>1, <1>4, <2>1 DEF IInv, TypeOK, EmptyIsOpen, Torn, EndedIsFinal
    <2> QED
        BY <2>2, <2>3, <2>4 DEF IInv
<1> QED
    BY <1>3, <1>4 DEF Open

\* A run that goes on after its write, or ends with one it has not done.
LEMMA WriteInv ==
    ASSUME IInv, NEW r \in Runs, Write(r)
    PROVE  IInv'
<1>1. /\ stage[r] = "write" /\ opened' = opened \ {r}
      /\ UNCHANGED <<parent, access, home, chains, clients, found>>
    BY DEF Write, At, Goto, End
<1>2. r \in chains
    BY <1>1 DEF IInv, ChainsIfNone
<1>3. CASE Goto(r, "viper") /\ file' = IF r \in opened THEN "generated" ELSE file
    <2>1. stage' = [stage EXCEPT ![r] = "viper"] /\ outcome' = outcome
        BY <1>3 DEF Goto
    <2>2. TypeOK'
        BY <1>1, <1>3, <2>1 DEF IInv, TypeOK, Stages, Contents
    <2>3. FileStays' /\ OpenedIsOwn' /\ CreatesIfNone' /\ ChainsIfNone'
        BY <1>1, <1>3, <2>1 DEF IInv, TypeOK, FileStays, OpenedIsOwn, CreatesIfNone, Creating,
           ChainsIfNone
    <2>4. EmptyIsOpen' /\ EndedIsFinal'
        BY <1>1, <1>3, <2>1 DEF IInv, TypeOK, EmptyIsOpen, Torn, EndedIsFinal
    <2> QED
        BY <2>2, <2>3, <2>4 DEF IInv
<1>4. CASE End(r, "failed") /\ UNCHANGED file
    <2>1. stage' = [stage EXCEPT ![r] = "done"] /\ outcome' = [outcome EXCEPT ![r] = "failed"]
        BY <1>4 DEF End
    <2>2. TypeOK'
        BY <1>1, <1>4, <2>1 DEF IInv, TypeOK, Stages
    <2>3. FileStays' /\ OpenedIsOwn' /\ CreatesIfNone' /\ ChainsIfNone'
        BY <1>1, <1>4, <2>1 DEF IInv, TypeOK, FileStays, OpenedIsOwn, CreatesIfNone, Creating,
           ChainsIfNone
    <2>4. EmptyIsOpen' /\ EndedIsFinal'
        BY <1>1, <1>2, <1>4, <2>1 DEF IInv, TypeOK, EmptyIsOpen, Torn, EndedIsFinal
    <2> QED
        BY <2>2, <2>3, <2>4 DEF IInv
<1> QED
    BY <1>3, <1>4 DEF Write

LEMMA KillInv ==
    ASSUME IInv, NEW r \in Runs, Kill(r)
    PROVE  IInv'
<1>1. /\ stage[r] \notin {"idle", "done"} /\ opened' = opened \ {r}
      /\ stage' = [stage EXCEPT ![r] = "done"] /\ outcome' = [outcome EXCEPT ![r] = "killed"]
      /\ UNCHANGED <<parent, access, home, file, chains, clients, found>>
    BY DEF Kill, End
<1>2. r \in opened => r \in chains
    BY DEF IInv, OpenedIsOwn, ChainsIfNone
<1>3. TypeOK'
    BY <1>1 DEF IInv, TypeOK, Stages
<1>4. FileStays' /\ OpenedIsOwn' /\ CreatesIfNone' /\ ChainsIfNone'
    BY <1>1 DEF IInv, TypeOK, FileStays, OpenedIsOwn, CreatesIfNone, Creating, ChainsIfNone
<1>5. EmptyIsOpen' /\ EndedIsFinal'
    BY <1>1, <1>2 DEF IInv, TypeOK, EmptyIsOpen, Torn, EndedIsFinal
<1> QED
    BY <1>3, <1>4, <1>5 DEF IInv

LEMMA InitializeInv ==
    ASSUME IInv, NEW r \in Runs, Initialize(r)
    PROVE  IInv'
<1>1. PICK s \in {"validate", "done"}, o \in {None, "failed"} :
          /\ stage' = [stage EXCEPT ![r] = s]
          /\ outcome' = outcome \/ (s = "done" /\ outcome' = [outcome EXCEPT ![r] = o])
    BY DEF Initialize, Goto, End
<1>2. /\ stage[r] = "clients" /\ clients' \subseteq clients \cup (chains \cap {r})
      /\ UNCHANGED <<parent, access, home, file, opened, chains, found>>
    BY DEF Initialize, At, Goto, End, disk
<1>3. TypeOK'
    BY <1>1, <1>2 DEF IInv, TypeOK, Stages
<1>4. FileStays' /\ OpenedIsOwn' /\ CreatesIfNone' /\ ChainsIfNone'
    BY <1>1, <1>2 DEF IInv, TypeOK, FileStays, OpenedIsOwn, CreatesIfNone, Creating, ChainsIfNone
<1>5. EmptyIsOpen' /\ EndedIsFinal'
    BY <1>1, <1>2 DEF IInv, TypeOK, EmptyIsOpen, Torn, EndedIsFinal
<1> QED
    BY <1>3, <1>4, <1>5 DEF IInv

\* What the user does to the file or its permissions.
LEMMA UserInv ==
    ASSUME IInv, Permit \/ \E c \in {"edited", "malformed"} : Edit(c)
    PROVE  IInv'
BY DEF Permit, Edit, IInv, TypeOK, Contents, FileStays, OpenedIsOwn, CreatesIfNone, ChainsIfNone,
   EmptyIsOpen, Torn, EndedIsFinal

LEMMA StepIInv == IInv /\ [Next]_vars => IInv'
<1> SUFFICES ASSUME IInv, [Next]_vars PROVE IInv'
    OBVIOUS
<1>1. ASSUME NEW r \in Runs, Step(r) PROVE IInv'
    BY <1>1, QuietInv, BeginInv, OpenInv, WriteInv, InitializeInv DEF Step
<1>2. ASSUME NEW r \in Runs, Kill(r) PROVE IInv'
    BY <1>2, KillInv
<1>3. CASE Permit \/ \E c \in {"edited", "malformed"} : Edit(c)
    BY <1>3, UserInv
<1>4. CASE UNCHANGED vars
    BY <1>4 DEF vars, disk, IInv, TypeOK, FileStays, OpenedIsOwn, CreatesIfNone, ChainsIfNone,
       EmptyIsOpen, Torn, EndedIsFinal
<1> QED
    BY <1>1, <1>2, <1>3, <1>4 DEF Next

LEMMA Invariance == Spec => []IInv
    BY InitIInv, StepIInv, PTL DEF Spec

\* Every variable keeps its type, for any number of runs.
THEOREM TypeCorrect == Spec => []TypeOK
<1>1. IInv => TypeOK
    BY DEF IInv
<1> QED
    BY <1>1, Invariance, PTL

\* However many runs there are, only those that saw no file get clients: no run reads
\* back what another one, or the user, has written.
THEOREM NothingReadBack == Spec => []OnlyCreatorHasClients
<1>1. IInv => OnlyCreatorHasClients
    BY DEF IInv, ChainsIfNone, OnlyCreatorHasClients
<1> QED
    BY <1>1, Invariance, PTL

\* However many runs there are, an empty file is being written, or was left by a run
\* that saw no file and was killed or failed.
THEOREM EmptyByTearing == Spec => []EmptyIfTorn
<1>1. IInv => EmptyIfTorn
  <2> SUFFICES ASSUME IInv, file = "empty"
               PROVE  \E r \in chains : /\ found[r] \in {"none", "denied"}
                                        /\ \/ stage[r] = "write"
                                           \/ outcome[r] \in {"killed", "failed"}
      BY DEF EmptyIfTorn
  <2>1. \A r \in chains : found[r] \in {"none", "denied"}
      BY DEF IInv, ChainsIfNone, Unseen
  <2>2. CASE opened # {}
      BY <2>1, <2>2 DEF IInv, TypeOK, OpenedIsOwn, ChainsIfNone
  <2>3. CASE \E r \in chains : Torn(r)
      BY <2>1, <2>3 DEF Torn
  <2> QED
      BY <2>2, <2>3 DEF IInv, EmptyIsOpen
<1> QED
    BY <1>1, Invariance, PTL

\* A step that loses an edit is a run's Open, since no run has an edited file open.
LEMMA StepKeepsEdits ==
    ASSUME IInv, [Next]_vars, file = "edited", file' \notin {"edited", "malformed"}
    PROVE  \E r \in Runs : /\ stage[r] = "open" /\ stage'[r] = "write"
                           /\ found[r] \in {"none", "denied"}
<1>1. PICK r \in Runs : Step(r) \/ Kill(r)
    BY DEF Next, Edit, Permit, vars, disk
<1>2. file' # file
    OBVIOUS
<1>3. Open(r) \/ Write(r)
    BY <1>1, <1>2 DEF Step, Begin, StatConfig, StatAgain, StatHome, Mkdir, ReadInConfig, Unmarshal,
       Initialize, Validate, Kill, disk
<1>4. ~Write(r)
    BY <1>2 DEF Write, IInv, OpenedIsOwn
<1>5. /\ stage[r] = "open" /\ stage' = [stage EXCEPT ![r] = "write"]
    BY <1>2, <1>3, <1>4 DEF Open, At, Goto
<1> QED
    BY <1>5 DEF IInv, TypeOK, CreatesIfNone, Creating, Unseen

\* However many runs there are, what the user saved is lost only to one that found
\* no file when it began, or was denied to look.
THEOREM EditsAreKept == Spec => EditsKept
<1>1. ASSUME IInv, [Next]_vars
      PROVE  [file = "edited" /\ file' \notin {"edited", "malformed"}
                => \E r \in Runs : /\ stage[r] = "open" /\ stage'[r] = "write"
                                   /\ found[r] \in {"none", "denied"}]_vars
    BY <1>1, StepKeepsEdits
<1> QED
    BY <1>1, Invariance, PTL DEF Spec, EditsKept
=============================================================================
