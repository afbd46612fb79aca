# TLA+ models of the ArangoDB starter (setup relaunch and test lifecycle)

This directory holds TLA+ models of the Go code under `src/`. They are checked
with TLC. `PROJECT.json` lists each component, each run, each mutant, the map
from definitions to source lines, the findings, and the hazards.

## The system

The code under `src/` has two parts. Most of the starter (runner, HTTP
server, peer negotiation, CLI) is not under `src/`. It is described only in
`spec.md`.

1. **Service bootstrap** (`src/service/`)
   - `setup_config.go` is the persisted state. `saveSetup` writes
     `setup.json` (version, own ID, peer registry, start-local-slaves flag)
     into the data directory. On start, `relaunch` reads that file. If the
     file is readable, parses and has the current `SetupConfigVersion`, the
     service restores its ID and registry, starts its HTTP server, restarts
     its local slaves when the flag is set, runs, and waits for the slaves.
     In every other case the service starts fresh.
   - `local_slaves.go` starts local slaves. On a fresh start,
     `createAndStartLocalSlaves` creates AgencySize-1 peers, each with a new
     unique ID and data directory `local-slave-(i-1)`. An index whose ID
     cannot be created is skipped. `startLocalSlaves` starts one `Service`
     goroutine per peer, except the master itself. It skips a peer whose
     service cannot be created.
   - The peers interact through files and the network. The master saves its
     registry each time a slave says hello. Each slave saves the answer it
     received. After a crash, every process relaunches from its own file,
     independently of the others.
2. **Integration-test helpers** (`src/test/`)
   - `util.go`:
     - `WaitUntilStarterReady` runs one goroutine per starter process, each
       waiting up to a minute for the ready line. They share a `result`
       flag.
     - `SendIntrAndWait` starts the waiters, each with a 30 s timeout,
       sleeps, sends Ctrl-C to each starter, and joins.
     - `ShutdownStarter` POSTs `/shutdown`, then calls
       `WaitUntilStarterGone`. That function polls `/version` until three
       consecutive failures.
   - `server_util.go`: `testProcesses` checks the process listing a starter
     reports against the mode and TLS. `testArangodReachable` GETs each
     server.
   - `process_single_test.go` chains these steps: ready-wait, checks, then a
     stop by Ctrl-C or by the API.

### The hard behaviours

- Concurrent slave goroutines, whose hellos and saves interleave with the
  master's.
- A crash at any step, including in the middle of the non-atomic
  `ioutil.WriteFile`.
- Relaunches that each read their own, possibly stale, file.
- In the tests:
  - goroutines racing their timeouts;
  - a shared unsynchronised flag;
  - a polling loop with a counter that every success resets;
  - a shutdown request that can fail.

## Modules

### `SetupRelaunch.tla`: setup persistence, relaunch and local slaves

**Constants**
- `AgencySize`: the largest agency size a start is given. It bounds the
  data directories and the IDs.
- `FlagSizes`: the values `--agency-size` may have at each start. Every
  start picks one of them.
- `MaxBoots`: bound on the number of starts.
- Fault switches:
  - `TornWrites`: a crash may tear the last write;
  - `WriteErrors`: `ioutil.WriteFile` may return an error, leaving the old
    file or a truncated one (`Written`);
  - `SpawnFailures`: `createUniqueID` and `NewService` may fail
    (`Failing`).
- Model values `Absent` and `Corrupt`: a missing file and an unparsable
  file.

**State and how it maps to the code**

| Variable | What it models |
|---|---|
| `file[d]` | `setup.json` in data directory `d`. Directory 0 is the master's. Directory i is `local-slave-(i-1)`. A record carries the agency size of its registry (`asize`). |
| `lastWrite` | The file of the most recent write. |
| `mid`, `reg`, `size` | The master's `s.ID`, `s.myPeers` and `s.AgencySize`. |
| `slaves[i]` | One local slave goroutine: its configured ID, its data directory, the ID it adopted, its phase, and its view of the registry with that registry's agency size. |
| `attempts` | The number of slaves `startLocalSlaves` tried to launch. |
| `nextID` | Abstracts `createUniqueID`. |

**Actions**

- `MasterRelaunch` and `SlaveRelaunch(i)` are the `relaunch` branch taken
  when the file is current (`IsCurrent`). They restore the ID, the peers and
  the agency size (line 78), overriding the flag of this start. This
  includes `startLocalSlaves` on the persisted peers.
- `MasterFreshStart` and `SlaveFreshStart(i)` are the fall-through of
  `relaunch`. The master's fresh start takes a flag size and includes
  `createAndStartLocalSlaves`:
  - `CreateLocalPeers` (ID failures skip an index);
  - `LaunchPeers` (the self-skip);
  - `SlaveService` (the per-peer config: ID, data directory, and
    `StartLocalSlaves` forced to false, which the slave's save records);
  - `StartLocalSlaves` (NewService failures skip a peer).
- `HandleHello`, `SlaveSaveSetup` and `MasterStartRunning` model the
  negotiation. That code is not under `src/`, so these actions come from the
  spec.
- `Crash` stops every process. When `TornWrites` holds, it may leave the
  last written file `Corrupt`.

**Properties**

- `ClusterAgreement`: while the master runs, its registry starts with its
  own ID. Every welcomed slave's view is a prefix of that registry and
  contains the slave itself.
- `DistinctPeers`: no slave uses the master's directory, no two slaves share
  a directory or an ID, and the registry has no duplicate.
- `AgencySizeRestored`: while the process is up, the master's agency size
  is that of its committed record. Its registry never outgrows it, and every
  slave holding the registry holds the same size.
- `ClusterForms`: under `FairSpec`, a negotiating master reaches Running
  unless the process dies first or a slave of this boot was lost. `lost` is
  a history variable recording whether `createUniqueID` or `NewService`
  failed in this boot.
- `SlaveCount`: a running master launched exactly `s.AgencySize`-1 slaves.
- `MasterRecordRefines`: the refinement described below.

### `MasterSetup.tla`: what the master's committed record promises

This is an abstract spec with no code behind it. Its variables:
- `rid`: the master ID in the record, or `NoID` when there is no usable
  record;
- `rpeers`: the committed registry;
- `rsize`: its agency size, fixed when the cluster is founded;
- `founders`: the IDs that have ever founded a cluster in this directory.

It has two actions:
- `Found(id, n)`: only possible when there is no usable record, and only
  under an ID that never founded a cluster before, for a cluster of n peers;
- `Join(p)`: appends a peer with a new ID and a new directory, up to
  `rsize` peers.

SetupRelaunch instantiates it as `Record == INSTANCE MasterSetup WITH ...`:
- `rid`, `rpeers` and `rsize` are `file[Root]`, read the way `relaunch`
  reads it (`Committed`);
- `founders` are the IDs that fresh starts took from `nextID`.

`MasterRecordRefines == Record!Spec` is checked as a PROPERTY. It says the
following across every crash and relaunch:
- a usable record is never replaced;
- saves that rewrite the record unchanged are stuttering steps;
- its agency size never changes;
- the registry only grows, and never past that size.

With torn writes the refinement fails at once: the record becomes unusable
without a fresh start. That is finding 2 again, so it is not a separate run.

### `LocalSlaveLifecycle.tla`: the WaitGroup join in relaunch

This module models the relaunch path with local slaves. The relaunch
itself is `RelaunchStart`, then startLocalSlaves loops over the persisted
peers:
- `StartLocalSlavesIter` is one loop iteration. It skips the master itself
  and skips a slave whose `NewService` failed. Otherwise it does
  `wg.Add(1)` and starts `go Run(s.ctx)`.
- `StartLocalSlavesDone` ends the loop.

After the loop:
- `StartRunning` is `startRunning` returning once `s.ctx` is cancelled.
- `WaitGroupWait` is `wg.Wait()` followed by `return true`.

The slave goroutines are `SlaveRunReturns(p)` (after cancellation) and
`SlaveRunFails(p)` (an early failure), each followed by the deferred
`wg.Done`. `Cancel` is a shutdown request or an interrupt.

**Properties**
- `JoinRefines`: the refinement into `SlaveJoin`, described below.
- `RelaunchReturns`: `cancelled ~> mpc = "returned"`. Once the context is
  cancelled, relaunch returns: the counter counts exactly the goroutines
  that will call `Done`.

This path is a separate module from SetupRelaunch, which has crashes but no
orderly shutdown. The two share only the peer list that startLocalSlaves
walks.

### `SlaveJoin.tla`: the join barrier relaunch promises

This is an abstract spec with no code behind it. It states what the spec
says of local slaves (§4.3 steps 5 and 6, §5): a wait-group-style barrier at
the join point, and no slave outliving its parent's shutdown path.
- `Launch(p)` starts slave p, at most once and only while launching.
- `Serve` ends the launching phase.
- `Exit(p)` is a live slave exiting, at any time.
- `Join` is only possible when no launched slave is live.

LocalSlaveLifecycle instantiates it as `Barrier`:
- `phase` comes from `mpc`: `relaunch` and `slaves` map to launching,
  `running` and `waiting` to serving, and `returned` to joined;
- `started` is the set of slaves whose goroutine was started;
- `live` is the set whose `Run` has not returned.

`JoinRefines == Barrier!Spec` then says that the WaitGroup counter is zero
exactly when no started slave is live. A failed `NewService` and
`StartRunning` are stuttering steps of the barrier.

### `TestModes.tla`: which tests run

- `SplitOn` is `strings.Split`, written with `FoldRight`. The value of
  `$TEST_MODES` is a sequence of tokens: each mode name is one symbol,
  plus the space.
- `InitTestModes` is `init`, including its empty-value special case.
- `NeedTestMode` is the loop and the no-modes fallback.

`Selected` is the intended rule, written independently: a test runs when
the variable has no words, or when one of its words is the test's mode.
`SelectsAsIntended` compares the two.

### `StarterShutdown.tla`: test-side lifecycle of N starters

**Constants**
- `NumStarters`.
- `MaxBlips`: bound on consecutive transient `/version` failures of a live
  starter.
- `ShutdownMayFail`: whether the POST may be lost.
- `StopVia`: `"api"` or `"intr"`, which test variant is run.

**State and how it maps to the code**

- `sstate[s]` models the starter process. It is taken from the spec:
  `StarterReady`, `StarterExit`, and `HandleShutdown` for the `/shutdown`
  handler.
- `pc` is the test's program counter through `TestProcessSingle` and
  `TestProcessSingleShutdownViaAPI`.
- `rdy[s]` and `waiter[s]` are the goroutines of the two waiters. `result`
  is their shared flag.
- `cur` and `failures` are the loop index and consecutive-failure counter
  of `WaitUntilStarterGone`. `gone` is the set of starters it has declared
  gone.

**Actions**

| Code | Actions |
|---|---|
| `WaitUntilStarterReady` | `ReadyMatched`, `ReadyTimedOut`, `ReadyJoin` |
| `testProcesses` queries | `QueryVersion`, `QueryProcesses` |
| `ShutdownStarter` | `ShutdownStarter`: answered, answer lost, or request lost |
| `WaitUntilStarterGone` | `PollVersion` and `GoneCheck` |
| `SendIntrAndWait` | `StartWaiters`, `SendIntr`, `WaiterExited`, `WaiterTimedOut`, `IntrJoin` |

**Properties**

- `GoneOnlyWhenTerminated`: a starter is declared gone only once it has
  terminated.
- `IntrResultSound`: `SendIntrAndWait` returning true implies that every
  starter terminated.
- `ShutdownReturns`: the test eventually finishes or aborts.
- `StartersReaped`: every spawned starter is eventually terminated. This
  also covers a test that `t.Fatalf` aborted after a failed process
  listing. There, only `TestCleanup` stops the starter: that is the
  deferred `child.Close()`, which `runtime.Goexit` runs. The model assumes
  gexpect's `Close` ends the child process; gexpect is not in `src/`.

### `ProcessCheck.tla`: the process-listing check

`TestProcesses` is `testProcesses` written as a pure operator, built from
one `CheckServer` per server type and `ArangodReachable`.
`ExpectedErrors` is the contract, written independently:
- a cluster needs a coordinator and a db-server, and may have an agent;
- a single deployment has exactly one single server;
- every process must have the expected TLS setting and must be reachable.

The constant-state spec enumerates every input (both modes, TLS on or off,
each type absent or present, secure or not, reachable or not). The property
`MatchesContract` requires `TestProcesses` to equal `ExpectedErrors` on all
of them.

## Runs

| Run | Config | Expect | What it shows |
|---|---|---|---|
| setup_atomic | MC_SetupRelaunch.cfg | pass | With atomic saves, fresh starts with `--agency-size` 3 or 4, failing ID and service creation, hellos, saves, crashes and relaunches keep `ClusterAgreement`, `DistinctPeers` and `AgencySizeRestored`. The master's record refines `MasterSetup`. Under `FairSpec`, a negotiating master that lost no slave reaches Running unless the process dies (`ClusterForms`). |
| setup_torn_safety | MC_SetupRelaunch_TornSafety.cfg | pass | Even with torn writes and failing writes, launched slaves never share a directory or an ID (3.8 million states, about 1.5 minutes). |
| setup_torn_stuck | MC_SetupRelaunch_TornStuck.cfg | violation | The master's file is torn, and it fresh-starts. A slave whose file survived relaunches into the old cluster and never says hello, so the master negotiates forever (finding 5). |
| setup_relaunch_slave_count | MC_SetupRelaunch_SlaveCount.cfg | violation | The master fresh-starts and saves `[self]`, then crashes before any slave joined. It relaunches with 0 slaves (finding 1). |
| setup_torn_split_brain | MC_SetupRelaunch_Torn.cfg | violation | The master's save during a hello is torn by a crash. The master starts fresh under a new ID, while slave 1 relaunches with the old ID and registry (finding 2). |
| shutdown_api | MC_StarterShutdown.cfg | pass | The API stop with a delivered request: a starter is declared gone only once terminated, despite up to 2 transient failures. The test ends, and every starter is eventually reaped. |
| shutdown_intr | MC_StarterShutdown_Intr.cfg | pass | The Ctrl-C stop: a true result means every starter terminated. |
| shutdown_lost_request | MC_StarterShutdown_LostShutdown.cfg | violation | A lost `/shutdown` leaves `WaitUntilStarterGone` polling forever (finding 3). |
| process_check | MC_ProcessCheck.cfg | pass | `testProcesses` matches the contract on all 2,500 inputs. |
| slave_lifecycle | MC_LocalSlaveLifecycle.cfg | pass | With 5 local slaves, any of which may fail to be created or fail on its own, and cancellation at any point, relaunch refines the `SlaveJoin` barrier and `wg.Wait` never hangs. |
| test_modes | MC_TestModes.cfg | pass | For a `$TEST_MODES` written as space-separated modes, up to 5 tokens, the selection is as intended. |
| test_modes_blank | MC_TestModes_Blank.cfg | violation | `TEST_MODES=" "` skips every test (finding 4). |

Every property of every passing run has a mutant in `PROJECT.json`: a
plausible bug in a mapped definition that TLC catches.
- `CreateLocalPeersDirOffByOne` uses the index instead of index-1 for the
  directory.
- `LaunchPeersNoSelfCheck` drops the self-skip.
- `SlaveServiceInheritsSls` drops `config.StartLocalSlaves = false`.
- `SlaveServiceByIndex` takes the directory from the loop index after
  skipped IDs.
- `GoneCheckEarly` and `GoneCheckLate` are off by one in the gone check.
- `PollVersionLocalCounter` resets the counter on every iteration.
- `WaiterTimedOutNoFlag` is a timed-out waiter that does not clear `result`.
- `TestProcessesCopyPaste` is the single-server block with the wrong
  forbidden mode.
- `MasterFreshStartOverRecord` is relaunch's early return dropped.
- `TestCleanupNotDeferred` is `child.Close()` not deferred.
- `SlaveRunReturnsDoubleDone` calls `wg.Done` twice, which drives the
  counter negative. Go panics on that.
- `WaitGroupWaitSkipped` has no `wg.Wait`.
- `StartLocalSlavesIterAddEarly` does `wg.Add` before the `NewService`
  error check.
- `InitTestModesNoEmptyCheck` is `init` without its empty-value case.
- `MasterRelaunchFlagSize` keeps the `--agency-size` of the start instead
  of the restored one.
- `CreateLocalPeersShort` stops the index loop one short.

### Findings

1. **Relaunch does not restore the full set of slaves**
   (`setup_config.go:83`). `relaunch` restarts slaves only for the peers in
   `setup.json`. The master saves that file each time a slave joins. After a
   crash during joining, the master runs with fewer than N-1 local slaves,
   and nothing recreates the missing ones. The spec says that N-1 local
   slaves are launched.
2. **The setup save is not atomic** (`setup_config.go:60`). The spec
   requires the save to be atomic (write a temporary file, then rename).
   `ioutil.WriteFile` truncates and writes in place. A crash in between
   leaves a file that `relaunch` ignores, and the processes then disagree
   about the master's ID.
3. **`ShutdownStarter` has no timeout** (`util.go:182-185`). The spec says
   the caller of `WaitUntilStarterGone` should wrap it in a timeout.
   `ShutdownStarter` only logs a failed shutdown request, then polls with no
   bound.

4. **A blank `TEST_MODES` skips every test** (`util.go:60`). `init` treats
   only the empty value as "no modes". A blank value such as `" "` splits
   into two empty parts, so `needTestMode` finds neither a match nor an
   empty list and skips every test.

5. **A torn save can hang negotiation for good** (`setup_config.go:60`).
   This is another consequence of the save not being atomic. The master's
   file is torn while its slaves' files still name the old cluster. The
   master then fresh-starts and waits for hellos. A slave whose file
   survived relaunches into the old cluster and never sends one. The spec
   says Negotiating converges on Running.

The `startLocalSlaves` log line prints `len(peers)-1`, which on a fresh
start is one less than the number launched. This is cosmetic and not
modelled.

## Bounds

**SetupRelaunch: AgencySize 4, FlagSizes {3, 4}, MaxBoots 4**
- Two flag sizes let a start ask for a different size than the record
  holds, which is the case line 78 decides.
- There are 3 slaves, so a failed ID in the middle of the index range
  shifts later slaves. That is the case where the directory and the
  position in the list differ.
- 4 boots allow fresh start, crash, relaunch, crash, relaunch, which is
  enough for a slave to relaunch against a master that has already started
  fresh.
- IDs come from `1..MaxBoots*AgencySize`, enough for every fresh start.
- The model stops for good after `MaxBoots` starts. For that reason the
  setup cfgs say `CHECK_DEADLOCK FALSE`.

**StarterShutdown: 3 starters, MaxBlips 2**
- With 3 starters, goroutines interleave and one times out while the others
  exit. The API stop polls each starter in turn, so a later starter can
  still be up while an earlier one is declared gone.
- `MaxBlips` 2 is the most failures a live starter can have without
  reaching the `> 2` threshold. So both the "transient failures then
  success" path and the threshold are reached, and an off-by-one in either
  direction is caught.
- The test finishes in `done` or `aborted`, hence `CHECK_DEADLOCK FALSE`.

**LocalSlaveLifecycle: 6 peers** (the master and 5 slaves). That gives a
mix of created, failed and self-skipped positions, with cancellation before,
during and after the loop: 1,499 states.

**TestModes: up to 5 tokens.** That covers two modes with a separator, a
leading or trailing space, a double space, and adjacent modes that form one
unknown word.

**ProcessCheck**: the input space is small enough to enumerate
exhaustively.

## Fairness

The StarterShutdown spec has weak fairness on each test goroutine and on
`StarterExit`:
- every step of the test code is a local computation, or an I/O call with a
  timeout that eventually returns;
- a starter that received Ctrl-C or `/shutdown` terminates in bounded time,
  as the spec states.

`StarterReady` has no fairness, because a starter may never become ready.
The ready timeout handles that case.

`TestCleanup` is weakly fair: the deferred calls run when the test
function ends.

In LocalSlaveLifecycle, the master's steps are weakly fair. They are local
computation, or `startRunning` returning once the context is cancelled.
Each `SlaveRunReturns(p)` is weakly fair too, because `Run` returns in
bounded time after cancellation (spec §5: "must deterministically reach
Terminated within a bounded time"). Neither `Cancel` nor a slave's own
failure is assumed to happen.

`FairSpec` in SetupRelaunch has weak fairness on each slave's steps
(`SlaveSteps(i)`) and on `MasterStartRunning`:
- a slave's goroutine keeps running `Run` while the process is up;
- its hello is retried until answered;
- the master's start is local.

`Crash` and the next start have no fairness, because the environment may
kill the process at any time and need not restart it. `ClusterForms`
excludes boots that lost a slave. The spec lets a cluster go on with fewer
agents after such a failure, and leaves the consequence to later quorum
checks. The storage-fault runs check safety only, and use `Spec` without
fairness.

## Not modelled

- **The fresh-start caller of `createAndStartLocalSlaves` and its
  `wg.Wait`.** Both are outside `src/`. The join is modelled on the relaunch
  path only.
- **Where the registry's agency size is set.** The `peers` type is outside
  `src/`. The model follows the spec: a fresh start founds the registry with
  its flag size, and the registry keeps that size.
- **`Spawn`, `SetUniqueDataDir`, `describe`, `NewStarterClient` and the
  endpoint helpers.** Process creation and formatting.
- **The runner, TLS, CLI, HTTP transport, and the real hello handler.**
  These are not under `src/`. Only their effect on the modelled phases is
  included, taken from the spec.
- **The master address given to slaves** (`local_slaves.go:55-59, 67`). It
  is string formatting, and no property depends on it.
- **A slave fresh start with `StartLocalSlaves` set.** The correct code never
  has one, and the caller that would create its slaves is outside `src/`.
  The mutant that drops the override is caught through the slave's save and
  its later relaunch.
- **Why some components stay partly modelled.** `createUniqueID`, the peer
  negotiation and the starter's control plane are not under `src/`. The
  models keep what the code under `src/` relies on, taken from the spec, and
  go no further.
- **A composition of LocalSlaveLifecycle with crashes.** A crash ends every
  goroutine at once, and nothing of the WaitGroup survives it. The
  composition would add no behaviour beyond the two modules.
- **Idempotent `/shutdown`.** It is the starter's handler, outside `src/`.
  The test helpers call it once per starter.
- **The Go data race on `result`.** It has one outcome, because every writer
  stores `false`, so only the order of writes is kept.
