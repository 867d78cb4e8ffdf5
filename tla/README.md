# A verification project for cosmos-client

TLA+ models of the parts of cosmos-client that hold state or run concurrently,
TLC runs that check them on small instances, and TLAPS proofs of what holds for
every instance. File names with a line number are relative to `src/`.

## Inventory

| component | state | operations | interacts with | hard behaviour |
|---|---|---|---|---|
| Health checks (`client/chain_client.go` 54-122, 193-201) | `rpcLiveness` of each client; ticker, quit channel, WaitGroup | `HealthChecks`, `healthCheck`, `IsActive` | RPC node through `QueryLatestHeight`; the poller reads `IsActive` | concurrent probes that write a record field by field, a round longer than the ticker's period, a channel closed more than once |
| Sending (`client/tx.go`, `hack.go`, `account_retriever.go`, `grpc_query.go` 142-155, `chain_client.go` 264-285) | `Config.Key`, the SDK's global prefixes, `sdkConfigMutex`, the keyring | `AccountFromKeyOrAddress`, `SendMsgs`, `PrepareFactory`, `CalculateGas`, `SetSDKContext`, `TxServiceBroadcast` | keyring, node; every other sender of the process | globals shared by all chains, a key read four times and written by others, retries, a recursion |
| Keyring (`client/keys.go`) | the keys on disk: names and their accounts | `AddKey`, `RestoreKey`, `DeleteKey`, `KeyExists`, ... | senders, other processes | a name that goes away, or gets another account, between two lookups |
| Broadcaster (`client/broadcaster.go`) | one `bytes.Buffer` | `BroadcastTx`, `GetFactory`, `GetClientContext`, `GetTxResponseBytes` | SDK, node; reads the global prefixes that senders write | the buffer shared by calls, lost answers, timeouts against late inclusion, addresses checked without the mutex |
| Block poller (`poller/`) | map of mutexes, goroutines, channels | `awaitBlocks`, `getLatestBlocks`, `AwaitBlocks` | websocket of the node, `IsActive` | map race, mutex held for ever, a URL dialled as a host, a goroutine that waits for itself |
| Endpoint scan (`client/chain_registry/chain_info.go`) | slice and counters of a scan | `GetRPCEndpoints`, `GetRPCEndpointWithDomain`, `GetPreferredRPCEndpoint`, `GetRandomRPCEndpoint` | errgroup of probes | probes append to one slice without a lock |
| RPC selection (`client/config.go`) | none | `GetChain`, `GetChainConfigWithOpts` | downloads, endpoint scan; its result configures a client | fallback decided by the error of the step before |
| Startup of the CLI (`cmd/root.go`, `config.go`, `appstate.go` 47-95, `default_config.go`) | `config.yaml`, `appState` | `initConfig`, `createNewConfig`, `Initialize` | file system, clients, other runs | looks and writes apart, kills between truncation and write, what is written is not what is read back, a nil `conf` |
| Changes of the CLI's configuration (`cmd/chains.go`, `appstate.go` 31-45) | the same | `chains add/delete/edit/set-default`, `OverwriteConfig` | the same | cannot run: see finding 5 |
| Query layer (`client/grpc_query.go`, `client/query/`, `client/query.go`) | none | `Invoke`, `RunGRPCQuery`, `GetQueryContext`, `BlockRPC`, `TxsRPC`, ... | RPC client, node | two requests under one deadline, heights handed through metadata, timeouts that do not parse, a node that grows and prunes meanwhile |
| Pagination (`cmd/flags.go` 90-114, `client/query/tendermint.go` 115-130) | none | `ReadPageRequest`, `TxsRPC` | query commands, the node's pages | products, divisions and casts in 64 bits |
| IBC configuration (`chain_client.go` 124-191) | none | `GetIbcConfig`, `GetIbcTransferConfig` | the chain registry, `Config.ChainName` of RPC selection | two requests to a registry that changes, the reversed file and its swap |
| Chain registry download (`client/chain_registry/cosmos_github_registry.go`) | none | `GetChain`, `ListChains`, `GetAssetList` | HTTP | no timeout |
| CLI commands, addresses, codec, errors, module list | none | conversions, one HTTP GET each, printing | libraries | none that a model would show |

What makes the modelled components correct:

* Health checks: every client of a round gets its verdict before the round is
  over; outside of a round verdict and times agree; checks are spaced; the monitor does not
  panic, and runs as long as it is needed (it does not: see the findings).
* Sending and the keyring: a transaction is signed under the prefixes of its chain,
  with one account throughout, whatever happens to the keys meanwhile; the mutex is
  always released; every call returns; a Broadcaster, which reads the prefixes without
  the mutex, accepts the users of a chain that nobody else has changed them from.
* Broadcaster: a call that succeeds returns a transaction that is on the
  chain, its own; a refused one is not waited for; every call returns.
* Poller: one query per chain; heights in order; observers are notified.
* Endpoint scan and RPC selection: only verified endpoints are returned; a call
  fails only when its last scan found none; an endpoint that is the only
  healthy one is taken, though the appends race.
* IBC configuration: found under either order of the names, and turned round so
  that the client's own end comes first, everywhere.
* Startup of the CLI: a user's configuration is not lost, what is written is read
  back (it is not), and the command runs (it does not).
* Query layer: an answer is of the height that was asked for, in the time of the
  configuration, and of the page of the flags; queries end.

## Modules

| module | models | state and its code |
|---|---|---|
| `HealthChecks` | the monitor | `pc`, `roundStart`: the goroutine; `probe`: how far each probe goroutine is, and with it the WaitGroup; `ticked`, `nextTick`: `ticker.C`; `quit`: the channel; `isActive`, `lastChecked`, `lastActive`: `rpcLiveness`; `now`: the clock |
| `TxSend` | one call per sender from `AccountFromKeyOrAddress` to the broadcast, while keys are added, restored and deleted | `keyPtr`, `keyLen`: the two words of `Config.Key`; `prefix`: the SDK's global config; `sdkConfigMutex`; `keyring`: the account of each name; `reused`: the clients one of whose names got another account; per call the step, the attempts of the current `retry.Do`, and the accounts it used |
| `Broadcaster` | calls of `BroadcastTx` on one Broadcaster | `filled`, `array`: the buffer's length and its array; `txBytes`: what a caller's slice decoded to; `mempool`, `chain`, `dropped`: the node; `timed`: whether its requests have a timeout |
| `Submission` | what a caller of `BroadcastTx` relies on | `chain`, `outcome` |
| `Poller` | `awaitBlocks`, its `getLatestBlocks` goroutines, and programs that run `AwaitBlocks` | `mutexes`, `inserting`: the map; `holder`: the mutexes; `todo`: the pass of the loop; `pc`, `seen`, `received`: the sessions |
| `EndpointScan` | one scan: its probes and their unlocked appends, word by word | `header`, `array`, `size`: the slice and its arrays; `regs`, `todo`: a probe in the middle of `append`; `verified`: who was found healthy |
| `RpcSelect` | `GetChain` and `GetChainConfigWithOpts`, on top of `EndpointScan` | `parses`: the registry's URLs; `stage`, `outcome`: the downloads, the fallbacks and `RPCAddr` |
| `Selection` | what a caller of `GetChain` relies on | `healthy`, `result` |
| `ChainSetup` | `GetChain`, `NewChainClient`, `GetIbcConfig` and `GetIbcTransferConfig` one after the other, on top of `RpcSelect` | `chainName`: `Config.ChainName`; `step`: of the program; `file`: the registry's; `moved`: whether it has changed meanwhile; `config`: the result |
| `Paging` | from `--page`, `--offset`, `--limit` to the page the node cuts: operators on words of `2 * Half` values | none |
| `QueryLayer` | one query of any sort, on top of `Paging` | `kind`, `heights`, `flags`: what is asked; `stage`, `asked`, `search`: the requests; `deadline`, `issued`: the context and the HTTP timeout; `stored`, `applied`, `base`: the node |
| `Reading` | what a program relies on of a query | `now`; `oldest`, `latest`: the node's heights; `status`, `height`: of the query; `pinned`, `limit`, `began`, `since`: what it asks for, and when |
| `CliStartup` | runs of the command up to the end of `initConfig` | `home`, `file`, `parent`, `access`: the home directory and its `config.yaml`; `opened`: open file handles; per run `stage`, `outcome`, whether it has `chains` and `clients`, and what it `found` |
| `*_proofs` | theorems about the module | |
| `MC*` | values for TLC | |

Each action is one step between two points at which another goroutine, the
node or the clock can interfere; `PROJECT.json` gives the lines of each. The
definitions called "Variant of ..." are the code with a mistake put in. No
action uses them: they show that the properties can fail.

Abstractions. A transaction is named by its call, a key by its name, and a block
by its height.

* `HealthChecks`: a scheduled step runs before the clock moves (`Urgent`), seconds
  being long against scheduling; a probe's request ends when its HTTP timeout expires, or
  never when it has none. The three fields of a record are written one by one, and the clock,
  which is read for two of them, may move in between.
* `TxSend`: what a transaction holds, its gas and its fees are left out; the queries
  succeed or fail at will. The steps of `SendMsgs` that fail in one way only, by returning an
  error, are folded into the failure of the step before. A keyring maps names to accounts and is
  changed at any time, by this process or another. The names of keys have different lengths,
  so a torn read of `Config.Key` names no key. An argument that is an address may be that of
  a key or of none.
* `Broadcaster`: the bytes of the buffer are reduced to the first response in the array,
  since JSON decoding takes the first value, and a response to its hash and whether its code
  is 0. Bytes of two calls that overlap decode as any mixture of the two (`Mixtures`): either
  hash or none, with any code.
* `Poller`: a program that calls `AwaitBlocks` gives it a host. `getLatestBlocks` gives it
  `RPCAddr`, a URL, and no host of that form can be dialled (`UsableHost`).
* `EndpointScan`: a probe finds its endpoint healthy or not at will; `append` loads and
  stores the words of the slice header and of the string in any order, while the copy of the
  old elements by `growslice` is one step, with its rule for less than 256 elements. A string
  is two words, so a torn one has the bytes of one endpoint and the length of another. An
  element read beyond its array is any string (`Outside`); a write there changes memory that
  is not the scan's, which is followed no further than to `fault`, as an access that ends
  the process is. The counters that are only logged and the texts of errors are left out.
* `RpcSelect`: each option is read once, so its value is chosen where it is read.
* `ChainSetup`: a file of the registry is the order of the two chains in its name and its
  number of channels; every identifier in it is the chain it belongs to; a download may fail,
  and may also never end.
* `QueryLayer`: an answer is the height it is of and whether its code is OK; one transaction
  of each block matches a search; blocks, results and states are pruned together. Left out
  are proofs, the pagination inside gRPC requests, queries by hash, the check for an empty
  list of events, and what a caller's own context may add. Queries share no state, so one
  is enough.
* `CliStartup`: the file is nothing, empty, the generated `{}`, a mapping of the user's, or
  malformed; `yaml.v2` skips the unexported fields of `configService` in both directions. The
  user's editor saves by renaming a new file, so that a run may go on writing to the old one.
  The permission to search the home directory may change at any time (`Permit`), so that a
  Stat fails where a later write succeeds; a write fails with a full disk. The parent
  directory stays as it is.

External parts (the node, the ticker, `append`, the SDK's `tx.BroadcastTx`,
`testutil.WaitForCondition`, `retry.Do`, Go's map race detection) are modelled
from how `src/` uses them, and marked so in the map.

## Runs

Run in this directory: `tlc -config <cfg> <module>`.

| cfg | module | checks | result |
|---|---|---|---|
| `MCHealthChecks.cfg` | `MCHealthChecks` | types, `StopsInTime`, `EveryClientProbed`, `PanicNeedsSlowNode`, `VerdictsSettled`, `ProbeSpacing`, `MonitorEnds` | hold, 1 020 000 states |
| `StopsOnlyWhenIdle.cfg` | `MCHealthChecks` | the comment at `client/chain_client.go:103` | violated |
| `MCTxSend.cfg` | `MCTxSend` | types, `SignedUnderOwnPrefix`, `UserAccepted`, `OneAccountUnlessSwitched`, `EverySendEnds` | hold, 370 000 states |
| `SendingReturns.cfg` | `MCTxSend` | the comment at `client/tx.go:51` | violated |
| `MCBroadcaster.cfg` | `MCBroadcaster` | types, `AnswerKept`, `QueriesAccepted`, `ImplementsSubmission`, `EveryCallEnds` | hold, 24 000 states |
| `ReturnsOwnResponse.cfg` | `MCBroadcaster` | the comment at `client/broadcaster.go:156` | violated |
| `MCPoller.cfg` | `MCPoller` | types, `OneQueryPerChain`, `CrashNeedsTwoChains`, `DialledForGood`, `HeightsInOrder`, `SpawnsWithoutEnd` | hold, 106 000 states |
| `ObserversNotified.cfg` | `MCPoller` | the comment at `poller/types.go:3` | violated |
| `MCChainSetup.cfg` | `MCChainSetup` | types, `OutsideNeedsThree`, `OwnEndFirst`, `FoundUnlessMoved`, `ImplementsSelection`, `SoleHealthyTaken`, `EveryStepCounts` | hold, 630 000 states up to symmetry |
| `MCQueryLayer.cfg` | `MCQueryLayer` | types, `AnsweredAtHeight`, `LatestBlockFound`, `PageReached`, `NextIncluded`, `ImplementsReading`, `QueryEnds` | hold, 160 000 states |
| `MCCliStartup.cfg` | `MCCliStartup` | types, `EmptyIfTorn`, `EditsKept` | hold, 230 000 states up to symmetry |
| `CommandsRun.cfg` | `MCCliStartup` | the tests at `cmd/chains_test.go:42` and the comment at `cmd/root.go:83` | violated |

What `MCTxSend` shows: a call may sign as another account than it spends from, not only
if another caller switches the client's key, but also if a key is deleted and its name
restored from another mnemonic while the call runs. And a call that was given an address
(`client/chain_client.go:282`) spends from it and yet counts for, simulates and signs as
whatever `Config.Key` names, which no concurrency is needed for. A call ends, unless a
request without a timeout hangs: `PrepareFactory` queries with `context.Background()`
(`client/account_retriever.go:36`), and a `Config.Timeout` that does not parse leaves the HTTP
client without one. A Broadcaster may refuse a user
of its own chain before the first call on that chain comes to its signature, and after
one on another chain has (`client/broadcaster.go:70`).

What `MCChainSetup` shows of the races: healthy endpoints can be lost, but never
all of them; two healthy ones are enough to return a string that belongs to
none, or to end the process, and with three a slice whose header is torn between two arrays
is read and written beyond the shorter one. Preferred hosts without preferred domains are never
tried (`client/config.go:111`): `err` is nil there. A client of a built-in configuration
(`client/config.go` 49-85) has no `ChainName` and finds no IBC configuration. A file that is
renamed between the two requests is missed under both names, though it has always
been there.

What `MCQueryLayer` shows: by whatever sort of query, with one request or two, a program reads
one height, no older than its query and in time (`Reading`). A client whose timeout does not parse answers no query
of `client/query` at all, since its contexts expire at once. The comment at
`client/query/query_options.go:29-31` counts on a validated timeout, but only the
CLI calls `Validate`, not `NewChainClient`. An offset that is no multiple of the limit finds
its next transaction, but not first on its page. With the default limit of 1000
the node's maximum is exceeded and `NextIncluded` promises nothing.

What `MCCliStartup` shows besides: of two first runs one may fail at `os.Mkdir`
(`cmd/config.go:103`); a run killed before its write leaves an empty file that later
runs accept, and so does one whose disk is full. A file of the user's is lost to a run
that could not look for it, if it may write a moment later: `initConfig` takes any error of
Stat for a missing file (`cmd/config.go:58`). And of `Broadcaster`: when calls overlap, the
hash of a refused transaction with the code of an accepted one is polled for in vain; a transaction that is included but failed in its
execution is returned without an error, its code is the caller's to read.

Bounds, and why they are enough:

* `MCHealthChecks`: two clients, so that a fast and a slow probe share a
  round. The period of 10 s, the age of 9 s and the 10 minutes become 3, 2 and
  2 units, keeping their order where the code compares them (9 s below the
  period, the first round beyond every age); timeouts 2, 4 and none lie below
  the period, above it, and beyond. `MaxTime` 15 leaves room for the rounds
  there can be: the monitor ends after its second at the latest.
* `MCTxSend`: two senders on one chain or two, two keys, two attempts of each
  `retry.Do` (the code makes five; one attempt that fails and is repeated shows what
  there is) and a stack of two frames. The default key of one chain (`Volatile`)
  comes and goes until its name gets another account: once is enough for a call
  that reads it before and after. One client has a timeout (`Timed`), the other none; an
  address is that of a key other than the default, or of no key (`Addresses`).
* `MCBroadcaster`: two calls and two polls for each wait (the code has 6 and
  12). The timeout is allowed from the last but one poll on, since it may
  race with it. A timeout of the requests is there or not (`timed`), and one hash that is of
  no transaction stands for all (`NoHash`).
* `MCPoller`: two chains and two goroutines, of which a program may own some.
  A chain publishes three blocks, enough to leave one out, the other one. The
  pool of goroutines is a bound; `SpawnsWithoutEnd` says that the code
  exhausts it.
* `MCChainSetup`: four endpoints, three of the registry, which are probed at once, and a
  preferred host. Two appends show every race between a pair (a lost element, a torn header or
  string); with three a header can be torn between two arrays. The three are interchangeable,
  so only one of each set of symmetric states is looked at; that is sound since no liveness is
  checked there. Files have at most two channels, a first and another. The theorems cover any
  number of either.
* `MCQueryLayer`: words of three bits with a limit of the node of 2, so that
  offsets overflow, ints become negative and limits are cut; three blocks let the
  chain grow and prune between two requests; time for a query that begins late
  and uses all of its timeout of 2.
* `MCCliStartup`: three runs, interchangeable: two that race, and one before or after.
  Edits and changes of permissions are not bounded.

`CHECK_DEADLOCK FALSE` stands where the system may stop: the monitor returns,
all calls or queries have ended, the process has crashed or all sessions are blocked.

Fairness. Nothing is assumed of a node: a request ends only if it has a timeout.

* `HealthChecks`: the clock and the monitor's ready steps go on, and a request with an
  HTTP timeout ends; one without may hang.
* `TxSend` and `Poller`: each goroutine goes on while it can (the Go scheduler), and a
  waiter for a `sync.Mutex` gets it in the end if it is free again and again (strong fairness
  of `Lock`; Go's mutex has a starvation mode). In `TxSend` the steps that wait for an answer
  (`AtRequest`) go on only for the clients in `Timed`; in `Poller` a websocket may have
  nothing to read for ever.
* `Broadcaster`: a call goes on, its polls are paced by timers, except where it waits for an
  answer without an HTTP timeout: the deadlines of `WaitForCondition` are not looked at during
  a request. Transactions may never be included.
* `ChainSetup`: none. `EveryStepCounts` says of each step that it brings the call nearer to
  its end; whether the steps are taken depends on the downloads, which have no timeout
  (`http.Get`), and on the probes, which have one of five seconds.
* `QueryLayer`: time passes and timers fire; nothing is assumed of the node.

## Findings

1. `client/chain_client.go:115`: the monitor closes `quit` after its first
   round, whatever the verdicts, so liveness is checked once (or twice, with
   a panic). The comments promise continuous checks (line 78) that stop after
   ten minutes without an active node (line 103).
2. `client/grpc_query.go:149`: `TxServiceBroadcast` calls itself; every send
   that reaches it ends the process.
3. `client/broadcaster.go:125`: overlapping calls on one Broadcaster may return
   each other's response.
4. `poller/poller.go:32`: the poller passes `RPCAddr`, a URL, as the host of a
   wss URL (`poller/rpc.go:41`). The dial fails, and the session waits for ever in its receive
   loop (line 35), for heights nobody sends, with the chain's mutex held. With a host
   that can be dialled it would block at the first block instead: only its own goroutine
   receives, later. (The poller is not reachable from outside its package yet.)
5. `cmd/config.go:87`: `initConfig` validates through `conf`, which
   `NewConfigService(nil)` (`cmd/root.go:80`) leaves nil: every command of the CLI
   panics at the end of its startup, after it has written a first `config.yaml`
   that holds nothing.
6. `cmd/config.go:77`: what is in `config.yaml` is not read back, since both fields of
   `configService` are unexported (lines 14-15): a run that finds the user's chains has
   no client for them, though `cmd/root.go:83` says that the file is read before each command, and
   the tests at `cmd/chains_test.go:42-48` and 77-103 expect of a second command what the first
   has saved. The run of finding 5 shows this, too: `CommandsRun` asks for both.

## Proofs

`tlapm <module>_proofs.tla`. The theorems hold for every value of the
constants under the assumptions the modules name: distinct names for absent
values, a positive period, `MinAge <= Idle`, timeouts in `Nat`, at least one
attempt and frame. Each safety theorem follows from an inductive invariant
`IInv`, with lemmas `InitIInv`, `StepIInv` and `Invariance`.

* `HealthChecks_proofs`: types, `AllProbed`, `VerdictsAgree`,
  `PanicOnlyWithSlowNode`, `ChecksSpaced`, `EndsOnSchedule`. Probes run only while the monitor waits
  for them (`Waited`), and what the three writes of a record have come to is known at each step of
  its probe (`VerdictsOfProbes`), from which `VerdictsAgree` follows. The invariant adds that a probe in
  flight renews a verdict older than the start of its round by `MinAge`
  (`InflightStale`, for the spacing), that a client never probed is in flight
  during the first round (`FirstRound`), and that without slow nodes a round
  ends before the next tick, so that `quit` and a tick are never ready together
  (`RoundFits`, for the panic). `EndsOnSchedule` gives the monitor a timetable: when each of
  the two rounds there can be may begin, and by when it ends (`Schedule`); it holds as long as
  no timeout exceeds a given one.
* `TxSend_proofs`: types, `MutexGuards`, `SignedUnderOwn`, `PrefixesNeverMixed`,
  `OneAccount`, `UserIsAccepted`, `CallsAreBounded`. Under the mutex the prefixes set so far are the
  holder's own; a name stands for its first account or was reused (`NamesAccounts`), so
  a call's accounts are the key it asked for unless someone else has begun to write
  `Config.Key`, the one it spends from excepted if it was given an address; once a call has set the account prefix, it is that of some call which
  may have set it (`LastSet`). For `CallsAreBounded` every call has a number of steps left
  (`StepsLeft`), from its place, its attempts and its frames; that each `retry.Do` starts to
  count anew is the invariant (`CountedInv`) behind it.
* `Broadcaster_proofs`: types, `OwnAnswerKept`, `AcceptedOnly`, `SentOnce`,
  `CallsAreBounded`, and `Implements`, the refinement of `Submission`. Without overlap at most one call is active
  (`OneActive`), the buffer is clean until its answer (`CleanBuffer`), and what
  it has read is its own (`ResponseRead`). For `AcceptedOnly`, without overlap a response in
  the buffer with code 0 is of a transaction the node has accepted (`AnswersTruthful`), also
  of one it has dropped since (`dropped`); with overlap responses mix and this is not so. A call that has not sent yet is unknown to the node
  (`Unsent`), so a lost answer or a timeout leads to no second transaction. The steps left fall
  with each poll, each wait keeping to its own limit (`PollsInv`).
* `Poller_proofs`: types, `NoConcurrentQueries`, `CrashOnlyWithTwoChains`,
  `LockedForGood`, `HeightsOrdered`, `NoObserverNotified`, `StuckForGood`. A mutex is held exactly by the session that
  queries its chain (`HolderQueries`, `QuerierHolds`), a chain gets its mutex
  once and before its first session (`MutexesOfObserved`), and the height read
  next is one more than the last received (`ReadNext`). The last two say of every execution
  what finding 4 shows in one: no observer is ever notified, and no session that has come to
  its receive loop, or waits for a mutex such a session holds, goes on.
* `RpcSelect_proofs`: types, `FailsForGoodReason`, `OnlyVerified`, `HarmIsOfRaces`,
  `SoleTaken`, `SelectionProgresses`, and `Implements`, the refinement of `Selection`. Lengths stay below the number of probes that have appended
  (`OneElementEach`, with the cardinality of `Writers`); once a probe has stored
  its length, the slice has one for good (`Counted`); what arrays hold comes from
  verified endpoints, or was read outside of an array (`Provenance`), and so does what is
  returned (`ResultSources`): `OnlyVerified` says so of every string, and that it is a
  verified endpoint's as long as the scan has verified only one. While at most one endpoint is verified, the
  scan is the sequential one (`Alone`), from which the harmless cases follow (`NeedsTwo`). For
  `SelectionProgresses`, a probe has a number of words left to load and store (`WordsLeft`), which
  its steps and nobody else's reduce, and a scan is followed by later ones only.
* `ChainSetup_proofs`: types, `SetupSelects`, `OwnEndComesFirst`, `FoundIfStill`. A step of the
  program is one of `RpcSelect` or leaves it alone, so what holds of `RpcSelect` holds here
  (`SetupSelects`, and with it `SetupImplements`). While the registry has not changed, a
  program at its second request has not found the file under the first name (`HalfAsked`).
* `QueryLayer_proofs`: types, `HeightKept`, `OneDeadline`, `BlockIsThere`,
  `NoTimeNoAnswer`, `PageKept`, `OffsetFound`, `EachOnOnePage`, and `Implements`, the refinement
  of `Reading`. A request is for the height that was
  pinned or for one the node has had since the query began, a search for the page
  of the flags (`Sent`), and the deadline is that of the query's start (`Waiting`). For the
  refinement, the node's state is at most a block behind its blocks, and no query but
  `BlockRPC` and `BlockResultsRPC` makes a second request (`Steady`).
  The arithmetic is in lemmas of its own (`PageAndBack`, `PageHoldsNext`), for words
  of any size.
* `CliStartup_proofs`: types, `NothingReadBack`, `EmptyByTearing`, `EditsAreKept`. No file is ever removed
  (`FileStays`), a file that is open for writing is not the user's (`OpenedIsOwn`), and only
  runs that saw no file create one and have chains (`CreatesIfNone`, `ChainsIfNone`); an empty
  file is open, or was left by a run that was killed or failed (`EmptyIsOpen`).
  `NothingReadBack` is finding 6 for every execution, with any number of runs.

Only model-checked: `OutsideNeedsThree`, the liveness properties, since the prover has neither
fairness nor ENABLED within its reach, and the violations. What is proved of four of the five is what
remains without fairness, that nothing can go on for ever:

| property | proved without fairness |
|---|---|
| `MonitorEnds` | `EndsOnSchedule`: over by two timeouts after the first tick |
| `EverySendEnds`, `EveryCallEnds` | `CallsAreBounded`: a bounded number of steps, each of which uses one up, and nobody adds any |
| `QueryEnds` | `Implements`, `OneDeadline`: pending only until the limit |
| `SpawnsWithoutEnd` | |

Of the choice of an endpoint no liveness is checked but its measure, `EveryStepCounts`, which
`SelectionProgresses` proves: every step uses up a word of a probe or one of the scans.

## Not modelled, and the plan

Left out for good: addresses, codec, output and the commands (conversions and I/O without
state). Left out of the modelled parts: options of the Broadcaster, contents of
transactions, the account sequences of several transactions of one account, which the
broadcast that never returns (finding 2) makes unobservable; of the keyring
`CreateKeystore` and the export of keys; `ListChains`, one request without state; queries by
hash, which pin no height. A `limit` of 0 ends a search in a division by zero
(`client/query/tendermint.go:121`), which `AskPage` models and no property speaks of.

The composition of senders with Broadcasters goes as far as the prefixes they share:
`UserAccepted` says in `TxSend` which addresses a Broadcaster would refuse. A full product of the
two modules would add states and no further shared variable.

The `chains` commands and `OverwriteConfig` wait for a CLI that gets past its startup:
a model of them now would have no reachable step.
