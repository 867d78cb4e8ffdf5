------------------------------ MODULE CliStartup ------------------------------
(***************************************************************************)
(* What every command of the CLI does first: initConfig (cmd/config.go)    *)
(* looks for config.yaml in the home directory, creates it if it sees      *)
(* none, reads it, makes the clients of its chains and validates it.       *)
(* Commands run side by side and one after the other, are killed at any    *)
(* moment, and the user edits the file and takes or gives permissions.     *)
(***************************************************************************)
EXTENDS Naturals

CONSTANTS Runs,         \* of the command
          None

ASSUME NoneAssumption == None \notin {"failed", "panicked", "killed"}

VARIABLES
    parent, access,     \* home can be made if it is not there, and searched by now
    home, file,         \* whether there is a home, and the contents of config.yaml
    stage, outcome,     \* of each run
    opened,             \* runs with the current config.yaml open for writing
    chains, clients,    \* runs whose configuration has chains, or that have clients
    found               \* what a run found when it began, or that it was denied to
                        \* look (for the properties)

disk == <<parent, access, home, file, opened>>
vars == <<disk, stage, outcome, chains, clients, found>>

\* The YAML of a configService, "generated", is "{}": both its fields are unexported.
\* What the user saves is a mapping that configures chains, or no mapping: edited, or
\* malformed.
Contents == {"none", "empty", "generated", "edited", "malformed"}

Stages == {"idle", "stat", "restat", "statHome", "mkdir", "open", "write",
           "viper", "read", "clients", "validate", "done"}

Init ==
    /\ parent \in BOOLEAN /\ access \in BOOLEAN /\ home \in BOOLEAN
    /\ home => parent
    /\ ~access => home
    /\ file \in {"none", "edited", "malformed"} /\ (~home => file = "none")
    /\ stage = [r \in Runs |-> "idle"] /\ outcome = [r \in Runs |-> None]
    /\ opened = {} /\ chains = {} /\ clients = {}
    /\ found = [r \in Runs |-> "none"]

At(r, s) == stage[r] = s
Goto(r, s) == stage' = [stage EXCEPT ![r] = s] /\ UNCHANGED <<outcome, found>>
End(r, o) ==
    /\ stage' = [stage EXCEPT ![r] = "done"] /\ outcome' = [outcome EXCEPT ![r] = o]
    /\ UNCHANGED found

\* NewConfigService(nil): no conf, an empty clientConfig.
Begin(r) ==
    /\ At(r, "idle")
    /\ stage' = [stage EXCEPT ![r] = "stat"] /\ found' = [found EXCEPT ![r] = file]
    /\ UNCHANGED <<disk, outcome, chains, clients>>

\* Variant of StatConfig: the file is always written.
StatNothing(r) ==
    /\ At(r, "stat") /\ Goto(r, "restat")
    /\ UNCHANGED <<disk, chains, clients>>

\* Any error of Stat means that there is no configuration.
StatConfig(r) ==
    /\ At(r, "stat")
    /\ \/ access /\ Goto(r, IF file # "none" THEN "viper" ELSE "restat")
       \/ /\ ~access
          /\ stage' = [stage EXCEPT ![r] = "restat"]
          /\ found' = [found EXCEPT ![r] = "denied"]
          /\ UNCHANGED outcome
    /\ UNCHANGED <<disk, chains, clients>>

\* createNewConfig looks again: only if there is no file it looks for the home.
StatAgain(r) ==
    /\ At(r, "restat") /\ Goto(r, IF access /\ file = "none" THEN "statHome" ELSE "open")
    /\ UNCHANGED <<disk, chains, clients>>

StatHome(r) ==
    /\ At(r, "statHome") /\ Goto(r, IF home THEN "open" ELSE "mkdir")
    /\ UNCHANGED <<disk, chains, clients>>

\* os.Mkdir, which fails for a home that is there by now.
Mkdir(r) ==
    /\ At(r, "mkdir")
    /\ \/ parent /\ ~home /\ home' = TRUE /\ Goto(r, "open")
       \/ ~(parent /\ ~home) /\ End(r, "failed") /\ UNCHANGED home
    /\ UNCHANGED <<parent, access, file, opened, chains, clients>>

\* The first half of os.WriteFile, which truncates; clientConfig has its chains.
Open(r) ==
    /\ At(r, "open")
    /\ chains' = chains \cup {r}
    /\ \/ access /\ file' = "empty" /\ opened' = opened \cup {r} /\ Goto(r, "write")
       \/ ~access /\ End(r, "failed") /\ UNCHANGED <<file, opened>>
    /\ UNCHANGED <<parent, access, home, clients>>

\* Variant of Write: the YAML of conf instead of the whole.
WriteConf(r) ==
    /\ At(r, "write") /\ Goto(r, "viper")
    /\ file' = IF r \in opened THEN "null" ELSE file
    /\ opened' = opened \ {r}
    /\ UNCHANGED <<parent, access, home, chains, clients>>

\* The second half, into a file that may have been replaced; the disk may be full.
Write(r) ==
    /\ At(r, "write")
    /\ \/ Goto(r, "viper") /\ file' = IF r \in opened THEN "generated" ELSE file
       \/ End(r, "failed") /\ UNCHANGED file
    /\ opened' = opened \ {r}
    /\ UNCHANGED <<parent, access, home, chains, clients>>

Readable == access /\ file # "malformed"

\* Variant of ReadInConfig: a file that cannot be read is created anew.
ReadInConfigOrCreate(r) ==
    /\ At(r, "viper")
    /\ Goto(r, IF Readable THEN "read" ELSE "restat")
    /\ UNCHANGED <<disk, chains, clients>>

\* Viper.ReadInConfig: an empty document is one.
ReadInConfig(r) ==
    /\ At(r, "viper")
    /\ IF Readable THEN Goto(r, "read") ELSE End(r, "failed")
    /\ UNCHANGED <<disk, chains, clients>>

\* os.ReadFile and yaml.Unmarshal, which skips unexported fields.
Unmarshal(r) ==
    /\ At(r, "read")
    /\ IF Readable THEN Goto(r, "clients") ELSE End(r, "failed")
    /\ UNCHANGED <<disk, chains, clients>>

\* Initialize: a client for each chain, or the error of one of them.
Initialize(r) ==
    /\ At(r, "clients")
    /\ \/ Goto(r, "validate") /\ clients' = IF r \in chains THEN clients \cup {r} ELSE clients
       \/ r \in chains /\ End(r, "failed") /\ UNCHANGED clients
    /\ UNCHANGED <<disk, chains>>

\* ValidateConfig is called on conf, which is nil.
Validate(r) ==
    /\ At(r, "validate") /\ End(r, "panicked")
    /\ UNCHANGED <<disk, chains, clients>>

Kill(r) ==
    /\ stage[r] \notin {"idle", "done"} /\ End(r, "killed")
    /\ opened' = opened \ {r}
    /\ UNCHANGED <<parent, access, home, file, chains, clients>>

\* The user saves config.yaml, in a new file that takes its place.
Edit(c) ==
    /\ home /\ access /\ file # c
    /\ file' = c /\ opened' = {}
    /\ UNCHANGED <<parent, access, home, stage, outcome, chains, clients, found>>

\* The permission to search home is given or taken away.
Permit ==
    /\ home /\ access' = ~access
    /\ UNCHANGED <<parent, home, file, opened, stage, outcome, chains, clients, found>>

Step(r) ==
    \/ Begin(r) \/ StatConfig(r) \/ StatAgain(r) \/ StatHome(r) \/ Mkdir(r) \/ Open(r) \/ Write(r)
    \/ ReadInConfig(r) \/ Unmarshal(r) \/ Initialize(r) \/ Validate(r)

Next ==
    \/ \E r \in Runs : Step(r) \/ Kill(r)
    \/ \E c \in {"edited", "malformed"} : Edit(c)
    \/ Permit

Spec == Init /\ [][Next]_vars

-----------------------------------------------------------------------------
\* Every variable keeps its type.
TypeOK ==
    /\ parent \in BOOLEAN /\ access \in BOOLEAN /\ home \in BOOLEAN
    /\ file \in Contents
    /\ stage \in [Runs -> Stages]
    /\ outcome \in [Runs -> {None, "failed", "panicked", "killed"}]
    /\ opened \subseteq Runs /\ chains \subseteq Runs /\ clients \subseteq Runs
    /\ found \in [Runs -> Contents \cup {"denied"}]

\* What the user saved is lost to no run that began after it and could look: only to
\* one that found no file when it began, or was denied to look for a moment, and has
\* not noticed the file since.
EditsKept ==
    [][file = "edited" /\ file' \notin {"edited", "malformed"}
         => \E r \in Runs : /\ stage[r] = "open" /\ stage'[r] = "write"
                            /\ found[r] \in {"none", "denied"}]_vars

\* An empty file, which every later run takes for a configuration, is the work of a run
\* that was killed, or failed, between the halves of its own WriteFile, or is between
\* them; no run tears a file that it saw when it began.
EmptyIfTorn ==
    file = "empty" => \E r \in chains : /\ found[r] \in {"none", "denied"}
                                       /\ \/ stage[r] = "write"
                                          \/ outcome[r] \in {"killed", "failed"}

\* cmd/chains_test.go:42-48 runs one command after the other on a home directory, and
\* the second one reads what the first one has saved.  A command that gets through
\* its startup does not end in a panic, and has the chains of the file it found.
CommandsRun ==
    \A r \in Runs : stage[r] = "done" /\ outcome[r] \notin {"failed", "killed"} =>
        /\ outcome[r] # "panicked"
        /\ found[r] = "edited" => r \in clients
=============================================================================
