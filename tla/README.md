# A TLA+ verification project for Kastor

Kastor compiles modules of agents written in HCL. It generates code from them
(`kastor build`) and reconciles them with agents on a remote platform
(`kastor plan`, `apply`, `destroy`). This directory models the parts of it that
keep state between commands, share it between processes or talk to a process or
a server that may fail, and the pure algorithms the rest relies on. TLC checks
them on small instances; TLAPS proves every safety property of the state
machines, both refinements, and what the pure algorithms promise, for
every instance.

Paths are relative to `src/`; `plan.go`, `apply.go`, `state.go`, `lock.go` and
`write.go` stand for `internal/provider/plan.go`, `internal/provider/apply.go`,
`internal/state/state.go`, `internal/state/lock.go` and
`internal/build/write.go`. The comment of an action names the function it
models; `PROJECT.json` ("map") gives the lines.

## The system

| Part | State it keeps | Operations | Interacts with |
| --- | --- | --- | --- |
| Platform reconciliation (`internal/provider`, `cmd/kastor/platform.go`, `apply.go`, `plan.go`) | the plan, in memory | compile, lock, load, plan, apply change by change, save | state file, lock, provider |
| State file and lock (`internal/state`) | `kastor.state.json`: serial, resources and plugin identity per target; `.kastor.state.lock` | `Load`, `Write`, `Bind`, `Lock`, release | every platform command; people who delete stale lock files |
| State ownership (`cmd/kastor/state_ownership.go`) | the plugin identities in the state file | `bindStateOwnership`, metadata commit of apply | module declarations, installed plugins |
| Dependency order (`internal/graph`, `plan.go`) | none | depth-first order, cycle error, reverse order of recorded dependencies | compile, plan |
| Build output (`internal/build/write.go`, `build.go`) | output directory, marker `.kastorbuild`, sidecars | `claim`, `syncStub`, `removeStale` | the user, who edits the same files |
| Code generators (`internal/build/langgraph`, `eve`) | none | module to file contents | build output |
| Plugin RPC (`protocol/v1`, `internal/plugin/client.go`) | request counter, pipes, the plugin process | `call`, cancellation, `Close`, `Serve` | plugins |
| Plugin installation (`internal/plugin/install.go`, `lock.go`) | dependency lock, a cache shared by all modules | `Init`, `ensureInstalled`, `LockedExecutable` | releases on a server, other commands |
| Claude provider (`internal/provider/claude`) | pacing of requests; the objects are remote | CRUD with retries, versioned updates; normalization and diff | HTTP API |
| Doctor (`internal/provider/doctor.go`, `claude/check.go`) | none | `BuildReport`, `Ready` | provider, vault, environment |
| Module loading (`internal/module`, `schema`, `parser`, `provider/config.go`) | none | parse, resolve references, validate, render | every command |
| Target plugins (`cmd/kastor/plugins.go`, `validate.go`), text diff, formatter | none | select, validate, report | reconciliation, build |

The interesting interactions are through shared state without a server to
arbitrate: two commands on one module directory have a lock file only; builds
have nothing at all; the remote platform is changed by others; the output
directory is edited by the user while Kastor writes it.

**What is hard.** Commands may crash between a remote call and the save of the
state. A remote call may fail although the platform executed it. The module is
compiled before the lock is taken, and planned on remote reads that are old
when the plan is executed. The state file mixes what several applies recorded.
Stale locks are removed by hand. A build decides file by file whose the file
is, from a record that is written at the very end. The plugin cache is shared
and its files are removed before they are replaced. A plugin process may stop
reading, answer late or not at all. `PROJECT.json` ("hazards")
lists each of these at its line, with the properties that cover it.

**What makes each part correct.**

* Reconciliation: an apply that succeeds leaves platform and state as the
  module wants them; an interrupted one leaves exactly the remainder to do;
  creates come after dependencies, deletes before them; a module the provider
  cannot express changes nothing; crashes lose a bounded amount.
* State and lock: one command at a time; no update is lost; ids stay
  one-to-one; a failed command lets go of the lock, if its plugins answer.
* Ownership: no plugin ever operates on objects of another source; files are
  migrated with the first change and never without cause.
* Build output: the user's work, saved in time, is not touched; every change of a stub reaches
  the user once; after a complete build the directory is what the module says.
* Plugin RPC: an answer is given to the call that asked; a call ends when its
  context does; no process is left behind.
* Plugin installation: what is executed is what the lock names; pins stay.
* Claude provider: a retry does not repeat an effect, an update never
  overwrites a version it has not read.
* Claude configurations: what is sent, echoed, stored and read back compares
  equal, and a plan without differences leaves no grant unseen.
* Doctor: ready only if it is so, failed only if somebody said so.
* Loading: what later stages look up without a check has been resolved.
* Graph: an order or a real cycle, never neither.

## Modules

| Module | What it is |
| --- | --- |
| `Dependencies` | what a dependency order has to achieve (`Acyclic`, `DependenciesFirst`: each address after those it depends on, unless a circle is listed between the two; `Lists`) |
| `DepOrder` | the depth-first walk of `graph.sortTopologically` and `reverseDependencyOrder`, with an explicit stack, as a recursive function of the number of steps |
| `StateStore` | abstract specification: what lock and state file promise together |
| `Reconcile` | `plan`, `apply`, `destroy` on one target, by several processes; implements `StateStore` |
| `ReconcileProofs` | theorems about lock, state file and the refinement, and about what plan, apply and destroy achieve |
| `Ownership` | several targets in one state file, owners, migration of format 1 |
| `OwnershipProofs` | theorems about `Ownership` |
| `BuildWrite` | `build.Write` against a user who edits the output directory |
| `BuildWriteProofs` | theorems about `BuildWrite` |
| `ClaudeAgents` | the provider's calls, attempts and requests against a platform that others change |
| `ClaudeAgentsProofs` | theorems about `ClaudeAgents` |
| `PluginInstall` | `init` and plugin starts of several modules on one cache |
| `PluginInstallProofs` | theorems about `PluginInstall` |
| `RpcCalls` | abstract specification: a call acts at most once, succeeds only if it acted, and does not act after it returned or after `Close` |
| `PluginRpc` | `protocol.Client`, the pipes and the plugin process; implements `RpcCalls` |
| `PluginRpcProofs` | theorems about `PluginRpc` |
| `ClaudeConfig`, `Doctor` | normalization and diff of Claude configurations; doctor's report over them |
| `ModuleLoad` | what the parsers admit, what loading resolves, `DesiredConfig` |
| `Versions`, `TextDiff` | version constraints and the choice of a release; `internal/diff` |
| `MCReconcile`, `MCOwnership`, `MCBuildWrite`, `MCClaudeAgents`, `MCPluginInstall`, `MCPluginRpc` | instances for TLC |
| `MCAlgorithms` | the inputs and the promises of the pure modules |
| `AlgorithmsProofs`, `TextDiffProofs` | theorems that the promises of `MCAlgorithms` hold of inputs of any size |

### Reconcile

`spec` is the content of the module's files, `disk` the state file, `lock` the
lock file with the process its payload names, `remote` the platform's objects
by id. A command has a program counter and a session: `kind` (the command),
`mod` (the module as compiled, before the lock), `mem` (its `*state.File`),
`todo` (agents `BuildPlan` has not reached) and `plan` (changes not executed).

| Code | Actions |
| --- | --- |
| `preparePlatform` up to the lock | `Start` |
| `state.Lock`, `contentionError` | `AcquireLock`, `LockContended`, `LockFails` |
| `state.Load`, `removedFromSpec`, `BuildDestroyPlan` | `Load`, `LoadFails` |
| loop of `BuildPlan` | `PlanCreate`, `PlanCompare`, `PlanRejected`, `PlanReadFails`, `PlanDone` |
| cases of `provider.Apply` | `ApplyCreate`, `ApplyUpdate`, `ApplyDelete`, `ApplyNoop`, `ApplyRefresh`, `ApplyUpdateMissing`, `ApplyRemoteFails`, `ApplyDone` |
| `File.Write` after each change | `Save`, `SaveFails` |
| the deferred release | `ClosePlugins` (`closePlatformJobs`), then `Release` (`releaseState`) |
| a process that dies, Ctrl-C included | `Crash` |
| people | `JudgeStale`, `DeleteLock`, `EditModule`, `RemoteEdit` |

Configurations are opaque: `Diff` is equality, plus the configurations it
rejects (`Inexpressible`). The remote call and the save after it are separate
steps: this is where crashes and failures fall. The temporary file and rename
of `File.Write` are one step, being atomic. A remote call that fails may have
had its effect. `OrderOf` is a parameter, for which the runs take `DepOrder`'s
walk. The proofs assume of it (`OrderAssumption`) that it lists each address
once, and after those it depends on unless a circle is listed between the two:
which is what `AlgorithmsProofs!OrderSound` proves of the walk, on any finite
graph, those with cycles and with edges that lead outside included.

### Ownership

Operations are coarser (any create, update or delete), the state file finer:
one entry per target, with the owner's source and version. `Compile` fixes the
declaration and the identities of the selected targets, `Bind` is the lock,
`Load` and `bindStateOwnership` together, the jobs are a set taken in label
order (`Rank`), `FinishJob` and `Save` contain the metadata commit of `runApply`. `obj`
remembers which source created each object, so that the properties can say
what the recorded owner is worth.

### BuildWrite

One action per file and outcome of `Write`'s loop and of `removeStale`:
`SyncPlain`, `SyncOwned`, `SyncImplemented`, then `KeepOrphan`, `RemoveStale`.
The turn of a stub, and of a file that is no longer generated, has two steps:
`Read` takes what is in the file (`found`; `write.go:167`, 271), and the
action after it judges that and then writes or removes the file by its name
(`write.go:190`, 292), whatever is in it by then. `RemoveVanished` is the error
when it is gone by then. `Claim` and `Finish` read and write the marker. `Fail` (an error or crash
between files), `Tear` (a crash or error in the middle of
a file's turn: a torn file or sidecar, a sidecar removed and its file not) and `DamageMarker` (what
`parseManifest` makes of a marker that was edited, cut or is of a later
format) are the faults; `EditFile`, `Reconcile` and `ChangeModule` are the
user, between any two steps. A hash stands for its content. Directories,
modification times and hidden entries are left out. `placed`, `work`, `told`
and `settled` are history: which stubs a build put there, which of them the
user has implemented, what the user has been shown, and whether the last
build was undisturbed.

What the user saves between the read and the write of one file is lost: the
build judged what was there before. Nothing in `write.go` protects it, so the
properties about work are about work saved in time (`InTime`: the file is not
under judgement, or holds what the build has read).

### ClaudeAgents

`agents` holds the platform's agents with the history of who wrote each
version; `calls` the provider calls with their step (the read that prepares,
the act), attempt and version read; `net` the requests on their way. A request
may be carried out and answered otherwise (`Execute` with a fault), turned down,
or given up while it is still on its way (`GiveUp`) and be carried out later.
`Retry`, `MayRetry` and `Received` are the loop of `doRequest` with
`classifyError`; `AfterRead...` and `AfterAct` are what `Read`, `Update` and
`Delete` make of the answer. Others edit and archive at any time.

`ClaudeAgents` is what `Reconcile` assumes of a provider: that a failed call
may have had its effect (`ApplyRemoteFails`). Create's retries make that up to
three objects, which is `CreateOrphansBounded` here and one opaque step there.

### PluginInstall

`lock` holds the dependency lock of each module, `cache` the archive and the
executable of each version, `published` what the publisher offers. Each action
is one access of a file: the archive is removed in one step and the new one
renamed there in another, `Extract` opens it again, the executable likewise,
`RemoveLock` and `RenameLock` write the lock (the removal on Windows only).
Requirements are taken in order of label (`Rank`), and a release by constraint
alone: if the highest one admitted is `Bare`, without checksums or an archive
for this platform, `ResolveFails` (`install.go:195-214`). An init whose module
has a lock that does not parse fails (`StartInitFails`) and a start is refused;
such a lock was committed so, hence it occurs in initial states only. Initially
every file there is was offered by a publisher at some time, or is damaged; a
file of the cache may be deleted or damaged at any moment after that, between a
check and the use of what was checked too. Starts are `DiscoverAt` and `LockedExecutable`:
`ReadLock`, `CheckArchive`, `ReadArchive`, `CheckExecutable`, `Exec`.
`pinned` is history: the last lock each module had, which Windows may lose. A build
stands for an archive with its executable; a checksum is the build it is of.

### PluginRpc

A caller goes through `Lock`, `Encode`, `Decode` or cancellation, and `Drain`;
`stdin` and `stdout` hold what the other side has not read. `Kind`
distinguishes calls whose request fits the pipe (`Encode`), calls whose request
does not, whose write ends when the plugin has read all of it (`TakeBig`, a step
of the plugin, which need never come), a Diff, whose context nobody can cancel,
and calls whose input has no JSON (`MarshalFails`). Stray lines (no JSON, or an answer to a call that is over), a
plugin that hangs (it may always not step), dies or is killed at any moment are
actions; `helper` says that a process the plugin started holds its pipes.
`Close` closes stdin, and waits, with a time limit, before it kills. Under the
refinement mapping `RpcCalls` sees that a call acts at most once, succeeds only
if it acted, and acts no more once it returned (unless the plugin broke the
protocol) or the client was closed.

### The pure modules

`ClaudeConfig` gives agents, requests and echoes as records with tools,
servers, defaults and a marker; `Doctor` builds the set of checks with their
status; `ModuleLoad` takes files of blocks and says which load and what they
resolve to. A behaviour of `MCAlgorithms` picks one input, and each invariant
is about one kind of input, so that one run covers all domains. The walk of
`DepOrder` and the lists of `ClaudeConfig` (`Groups`, `Members`,
`SpecMCPServers`) are recursive functions and folds that go through their input
as the loops of the code do, so that the proofs can follow them step by step.

## Runs

| Run | Question |
| --- | --- |
| `reconcile_safety` | two concurrent commands, two agents, three modules, two edits, two faults of any kind: all safety properties and the refinement of `StateStore` |
| `reconcile_liveness` | two commands re-run for ever, one edit, one fault, plugins that may hang: the lock is released, apply converges, if plugins answer |
| `ownership_migration` | one command at a time, both reserved labels, every declaration of them, one edit or upgrade, one fault |
| `ownership_concurrent` | two commands on a reserved and an ordinary label, one edit |
| `build_sync` | a regenerated file and a stub, every spec of them, four edits at any moment, one fault of any kind |
| `build_rebound` | finding 1 |
| `claude_agents` | two calls of any kind, one edit or archive by others, one request that may arrive late, three attempts each |
| `plugin_install` | two modules that share a plugin, two commands at once and two in all, one fault or change; locks from elsewhere or unreadable, caches damaged or ahead, an incomplete release |
| `plugin_rpc` | two callers and `Close`, two calls, one stray answer, a pipe of one request: safety, liveness and the refinement of `RpcCalls` |
| `rpc_stuck` | finding 2 |
| `doctor_collision` | finding 3 |
| `algorithms` | see below |

What the properties say, the comments in the modules saying it in full:

* `reconcile_safety`: `MutualExclusion`, `SnapshotCurrent` (no copy of the state
  gets old while it is used), `ObjectsTracked` (ids are one-to-one, and a fault
  leaves at most one object that no state knows), `SuccessSettles` (what an apply
  or destroy that succeeded leaves), `PlanIsExact` (a plan is what is left to do,
  and nothing when the module is rejected), `DependenciesRespected` (order of
  creates and deletes), `DriftIsForeign`, `ImplementsStore`.
* `reconcile_liveness`: `LockIsReleased`, `EventuallyConverges`, both under
  `PluginAnswers`.
* `ownership_migration`: `OwnersRecorded` (a migrated file names an owner for
  each target that has objects), `ApplyCommitsOwnership`, `WritesHaveCause`.
  `ownership_concurrent`: `OwnersMatch` (the recorded owner made the objects, or
  the user asserted it),
  `OthersKept`, `OwnerIsFrozen`.
* `build_sync`: `OutputMatches` (after a complete build), `UndisturbedWorkKept`
  and `RecordedWorkKept` (of work saved in time), `ReportedOnce` (a changed stub reaches the user once).
* `claude_agents`: `SuccessIsEffect`, `CreateOrphansBounded`,
  `NoBlindOverwrite`, `CallEnds`.
* `plugin_install`: `StartedIsLocked` (but for damage between the last check and
  the start), `InstalledRuns`, `LockBypassedInWindow`, `InitRepairs` (after any
  interruption), `PinsKept` (from the last lock to the next init, but for an init
  that died on Windows in the middle of `WriteLock`).
* `plugin_rpc`: `ImplementsCalls`, `CloseEnds`, `CancelledEnd`.
* `algorithms`: `ConfigRoundTrips` and `NoGrantUnseen` (`ClaudeConfig`),
  `DoctorTruthful`, `LoadedModuleServes`, `GraphSound` (an order or a real
  cycle), `ReleaseIsMeant` (`Versions`), `DiffApplies` (`TextDiff`).

**Why these bounds are enough.** Two processes are all that a lock and a file
replaced as a whole can tell apart: every conflict is between the holder and
one other. Two agents give an order, a dependency on a removed agent, a prefix
of a plan and a remainder; the walk itself is checked in `algorithms` for all
graphs of up to four nodes. Two edits and two faults let a
crash be followed by another while the module changed in between; with one
fault the second crash on a half-repaired state would never happen. The three
modules are: the base (agent 2 depends on agent 1), agent 1 removed and agent 2
changed, an inexpressible agent. In
`build_sync` four edits suffice for the longest history of a stub that decides
something: implemented, changed, dropped and back. `MaxEdits` also bounds
`destroy` commands, which create work without end otherwise. Symmetry is used
over processes, in runs without liveness.

`claude_agents` needs two calls, since every conflict is between the call that
read and one that wrote after it, and three attempts are the code's own number.
`plugin_install` needs two modules for a cache that is shared and two plugins
for an init that fails half-way; its single event is an interrupt, a damaged
file, a release, a replaced archive or an edited requirement, and the initial
states already hold what earlier events left: two commands and one event between
their steps are an init that dies and the one after it, or a start and damage in
its window. In `plugin_rpc` the second caller is
what a call with the mutex held can block, the second call what a late response
could be taken by.

`algorithms` picks: agents with up to three tools of a platform toolset and two
servers, with names that collide, every gating, and every single edit of the
stored agent, among them a toolset moved to another server and a declared name
granted on another one; doctor's jobs over those with every vault answer; a module of
four files after any two edits, and every list of two auth blocks; all graphs
of up to four nodes, with dependencies on addresses outside them; all versions of components below three; texts of up to
four lines, and long ones with two changes at every distance up to ten, which is
where hunks merge, touch and split.

`reconcile_*` checks deadlock. The others do not: a module may declare no
platform target, a build may be refused for good, and users, calls and inputs
run out.

**Fairness.** In `reconcile_liveness`, a command that runs goes on by itself
where it does not wait for its plugin (weak fairness of `~AwaitsPlugin /\ Step`).
Where it does, nothing is assumed: the calls of `internal/plugin/platform.go` have
a context that never ends (`Diff` even one of its own, :63), and the lock is
released after `closePlatformJobs` (`cmd/kastor/platform.go:81`), whose wait has
no limit either once the process was killed (`rpc.go:434`). A plugin that hangs
there keeps the lock for as long as the command lives; killing the command is
`Crash`, and leaves the lock file to the operators. `LockIsReleased` and
`EventuallyConverges` therefore have a premise, `PluginAnswers`: a command does
not wait for its plugin for ever from some point on. They show that nothing else
keeps the lock, whatever reads, changes and saves do. A plugin that hangs before
the lock is taken, or when a command closes it after contention, keeps its own
process only, which the model leaves out. Operators eventually handle a stale lock (weak fairness).
Contention is an error and not a wait, so nothing in the code makes a command
ever get the lock: `EventuallyConverges` assumes that users re-run `apply` now
and then while nobody holds the lock, and that it gets the lock again and
again (strong fairness). Crashes are bounded by `MaxFaults` and not fair.
In `claude_agents` a call goes on by itself and a request is answered or given
up some time (HTTP clients time out). In `plugin_rpc` the host's goroutines,
the time limit of `Close` among their steps, and the arrival of a kill are
weakly fair. Nothing is assumed of the plugin, which may never do anything, take
a big request (`TakeBig`) included, and no caller need ever call or cancel.

**Type invariants.** Those of all six state machines are proved.
`reconcile_safety` checks `TypeOK` as well; the other runs spend the time on
the other properties.

## Proved

`tlapm` checks the theorems below for any sets of processes, addresses,
targets, configurations, modules and paths, and any bounds. Each stands on one
inductive invariant, `IInv` in the proof modules, of which the module shows
that `Init` implies it and that every action keeps it; the theorems follow. The
properties themselves are not inductive: they speak of the end of a session,
and the invariant has to say what is true in the middle of it. TLC confirmed
each invariant on the instance of the component's run before it was proved.

### Reconcile

* `ReconcileProofs!TypeCorrect`: `Spec => [](TypeOK /\ Working)`.
* `Mutex`: with at most one operator (`SingleOperator`), `MutualExclusion`. The
  invariant is `LockInv`: whoever is past the lock is named by the lock file,
  and if an operator has judged the lock stale, it still is. The second part is
  why two operators break it (see Findings). Everything below assumes
  `SingleOperator` too, for it is false without mutual exclusion.
* `NoLostUpdate`: `SnapshotCurrent`, from `LockInv`: only the process the lock
  names writes the file, so a copy cannot get old.
* `StoreImplemented`: every step of `Reconcile` is a step of `StateStore` under
  the refinement mapping or leaves it unchanged: a save is a commit *on top of
  the file as it is* only because the copy is current.
* `ObjectsAreTracked`, `SuccessIsSettled`, `PlansAreExact`,
  `OrderIsRespected`, `DriftIsTrue`: the five properties that say what the
  commands are for. Their invariant judges a session by what is *left* of its
  plan (`Left`: the head counts no longer once it is executed and only its save
  is outstanding). No address is planned twice (`Distinct`); deletes are of
  what the module does not declare (`Meant`); nothing inexpressible was passed
  over (`Expressed`); a change that is left fits the entry held, and a noop the
  remote object until somebody changes it (`Fits`); what needs a change has
  one left and nothing else has (`Exact`), from which convergence follows when
  the plan is empty; dependencies are settled or still ahead in the plan
  (`AgentsOrdered`, `DeletesOrdered`); and the entry about to be saved replaces
  one for the same object or a dead one (`Replaces`), without which a save
  could lose an object. Of the whole system: ids are unique, orphans are at
  most the faults, and entries tell what Kastor wrote last unless somebody has
  written since (`Truthful`). A change disturbs only the object it is about
  (`OthersUntouched`), because ids are one-to-one, and no other command's
  session (`OthersKept`), because of the lock.

### Ownership

`OwnersAreRight`, `OwnersAreRecorded`, `OthersAreKept`, `ApplyCommits`,
`WritesAreCaused` and the action property `OwnersAreFrozen`, with
`TypeCorrect`. The invariant relates four things for the command that is past
the lock: its copy of the file, the file as it loaded it, the file now, and who
made the objects (`CopyOwned`, `CopyCurrent`, `Committed`, `Caused`);
`DiskOwned` says what a recorded owner is worth in either format.

### BuildWrite

`TypeCorrect`, `OutputIsRight`, `RecordedWorkIsKept`, `UndisturbedWorkIsKept`
and `ChangesAreReported`. `RecordedWorkIsKept` needs only `WorkIsUsers`: a file
that counts as work holds what a user wrote, a recorded stub holds what a
generator made, so the two differ when the build reads the file in its turn,
whatever was edited before; this is what `syncStub` and `removeStale` decide by.
It is of work saved in time, as `UndisturbedWorkIsKept` is. The others need to
know how far a build has come: the paths `Ahead` of it are as the old marker
says, those behind as the new one will say (`PlacedRecorded`, `Building`,
`Settled`).

### ClaudeAgents

`SuccessMeansEffect`, `OrphansAreBounded` and the action property
`NothingOverwritten`, with `TypeCorrect`. The invariant says that what is on the
network is what its call is about (`Asked`), that every version has the author
who sent the request for it (`Authored`), and counts the attempts of a create:
those on the network and the agents made are together at most those sent.

### PluginInstall

`StartedRight`, `InstalledAreRunnable`, `InitsRepair` and the action properties
`LocksAreNotBypassed` and `PinsAreKept`, with `TypeCorrect`. The invariant says
for each place in an init or a start what the command has verified and still
may rely on: if no other init runs (`Undisturbed`), and if any number do, which
remove and rename the same files (`ReleaseKept`: a file is there, or a command
is about to put it there). `Sources` and `FilesOffered`: nothing is in use that
no publisher has offered for that release.

### PluginRpc

`TypeCorrect`, and `CallsImplemented`: `PluginRpc` implements `RpcCalls`. The
invariant: whoever is in a call has the mutex, and its call is the last that
was sent (`OneInCall`); a request is in the pipe, with the plugin or past it,
never twice (`Requests`); and while a plugin has kept to the protocol, the last
call is all that is on its way (`InStep`), so that an answer is the call's own.

### The pure modules

`AlgorithmsProofs` and `TextDiffProofs` state of any input what `algorithms`
checks of small ones.
The provers cannot instantiate the library's induction theorem, whose parameter
is an operator, so the module begins with induction in the form of sets
(`Induction`: a set of naturals that has 0 and the successors of its elements
is `Nat`), from which follow that a function can be iterated (`Iteration`) and
that a fold over a list is the iteration of its step (`SetFoldExists`,
`FoldOverList`). Each algorithm is then a walk with an invariant, like the
state machines above.

* `OrderSound`, `CyclesSound`, `AnyGraphIsSound`: any finite set of addresses,
  any edges. The invariant (`WalkInv`) says that each address is entered once,
  that the stack is a path, that a listed address depends on nothing that was
  not entered, and that one which depends on an address still on the stack is
  in a circle with all that is listed between the two; `WalkCounts` says that a
  step enters or leaves an address, so that twice their number is enough.
  A graph in which some addresses all depend on one of them closes a cycle, and
  each that is reported is read off the stack, which is a path.
* `AnyReleaseIsMeant`: any versions, constraints and list of releases. A `~>`
  constraint is of one to three components and of a release: what it means
  when it has a prerelease itself, no comment of the code says.
* `AnyLoadedModuleServes`: any number of files and blocks. What `Loads` says of
  one block after the other is turned into what it says of the table of blocks
  (`Usable`); the lookups of later stages follow from it.
* `AnyConfigRoundTrips`: whatever form a configuration is in (of the module, of
  the state file, of a state file from before permissions), it reads as the
  toolsets of the module's spec (`SpecToolset`); what the platform resolves of
  a request with open permissions is these toolsets again (`StoredIs`).
* `AnyGrantIsSeen`: toolsets without a difference are equal (`SameArrays`), and
  those of the spec grant what is declared and nothing else (`SpecGrants`,
  from what each fold has collected: `GroupsAre`, `MembersAre`, `ServersAre`).
* `AnyReportIsTruthful`: a tool without a failed check is granted
  (`CheckedGranted`, from `PoliciesAre`) if the names tell tools apart, which is
  a condition of the property itself: `NamesDistinct` of the module's tools, and
  `NamesPlaced`, that the deployed agent has these names on their own servers
  only. The lookup by bare name (`check.go:192-213`, 256-295) takes both for
  granted, and finding 3 is what it says when one is false. A failure is somebody's answer
  (`FailuresEstablished`, of every job without any condition).
* `AnyDiffApplies` (in `TextDiffProofs`): any two texts. The table has what it
  says of each cell (`LcsIs`), so no matching of equal lines in their order is
  longer than its first one (`NoMatchIsLonger`, from the last lines back to the
  first), and the script keeps that many because no step of the walk
  gives away what the table promises (`Walked`). Groups of changes are more
  than two contexts apart (`Grouped`), hence hunks are too; between them both
  texts are the same (`KeptStretch`), so that the patch after each hunk is a
  beginning of the new text (`PatchedMore`). The run counts what is kept for old
  texts of up to four lines, the theorem for all.

Their hypotheses say what an input is, and every input of the run `algorithms`
is one. The null value is none of the words the code writes and no object
(`NullIsNothing`). A closure (`IsClosure`) is one that `DesiredConfig` renders
and the target can express, and each of its servers is used by one of its tools
(`config.go` collects them that way). An answer (`IsAnswer`) states a
permission for each tool, as the API does. Addresses are numbers, their order being that of the names.

### What the proofs assume

Of the state machines, only the named `ASSUME`s of the modules, which TLC
evaluates on every run.
Names and contents that stand for different things are distinct
(`ProcAssumption`, `ConfigAssumption`, `UntrackedAssumption`,
`ContentAssumption`, `NamesAssumption`, `AbsentAssumption`; that a generator's
output is never what a user wrote over it is in `ContentAssumption`); modules
compile (`ModulesAssumption`); the paths, targets and plugins that a loop takes
in order have a `Rank`; bounds are naturals (`BoundsAssumption`); and the order
is one (`OrderAssumption`, which `OrderSound` proves of the walk that the code
uses). That deletes respect dependencies is as strong as `DependenciesFirst`,
and no stronger. Of the pure modules, the hypotheses above.

**Only model-checked:** liveness (`LockIsReleased`, `EventuallyConverges`,
`CallEnds`, `CloseEnds`, `CancelledEnd`), which needs fairness and `ENABLED`.
The refinements are proved of `Spec`,
without the fairness of `FairSpec`, and the abstract specifications state none.

## Findings

Three have a run that TLC finds violated.

1. `build_rebound` - a tool rebound to another kind is generated at the path of
   the stub the user implemented, and overwrites it; `write.go:193` says never.
2. `rpc_stuck` - a plugin that answers the handshake and then does not read its
   input blocks `call` in the write of a request larger than the pipe
   (`protocol/v1/rpc.go:366`), before the context of that call, which is
   cancelled, is looked at, and with the mutex that `Close` needs; `rpc.go:218`
   says that a stuck plugin cannot leave the host blocked. The run leaves out
   `Diff`, which has no context to cancel and can be stuck as well
   (`internal/plugin/platform.go:63`). `CancelledEnd` is what holds: a
   call ends when its context does, as long as requests fit the pipe, no `Diff`
   is made, nothing else holds the pipes and the plugin writes answers only.
3. `doctor_collision` - `declaredToolPolicies` (`claude/check.go:256`) keys
   policies by name alone and `permissionChecks` looks the declared tools up by
   it (`check.go:192-213`), so that a tool of one server answers for that of
   another: two servers of the module with a tool of the same name, or (the run's
   trace) a deployed agent that was given the declared name on another server.
   doctor reports ready for an agent that may not call the tool;
   `check.go:46-47` says it "checks that the deployed agent is actually permitted
   to call the tools it declares". `DoctorTruthful` is what holds: for agents
   whose tools have distinct names, none of which the deployed agent has on
   another server than the declared one.

The following were met while modelling, each as a violated property in a run
that is not kept; the property named is what holds and is checked.

* A crash, or a lost answer, between Create and the save leaves an object that
  no state file knows; `apply.go:29` says nothing is lost.
  `ObjectsTracked` (`OrphansBoundedByFaults`): one object per fault.
* Dependencies that different applies recorded can form a cycle; `plan.go:281`
  says they cannot. The walk ends all the same, in an order that respects
  nothing; `DependenciesRespected` (`DeletesRespectDependencies`).
* Two people who follow the contention error for one stale lock at once let two
  commands in (`lock.go:70`); `MutualExclusion`, with one such person.
* Metadata of all targets is committed by the first that is in sync, although a
  later one fails; `cmd/kastor/apply.go:106` says no failed apply does.
  `WritesHaveCause` (`FailedTargetKeepsState`), for a command on one target.
* A stub of a failed build is on no record, so that the work on it is deleted
  with its tool (`write.go:270`); `RecordedWorkKept`.
* After a crash between Update and save the next plan says "remote changed
  outside kastor" (SPEC.md:620) of Kastor's own write; `DriftIsForeign`.
* With a marker that lost its records `write.go:383` says every file looks like
  the user's, which holds for stubs that are still generated and not for those
  whose tool has gone: `removeStale` removes what is not on record.
* `cmd/kastor/build.go:61` says every target's sync is "independently complete
  or untouched"; one that fails between two files is neither, and the next
  build repairs it; `OutputMatches`.
* An update that took effect and was answered with 5xx is sent again with the
  version that is now old: the 409 is reported as a "concurrent out-of-band edit" (`claude.go:262`).
  `NoBlindOverwrite`: the version read is never written over twice.
* On Windows `WriteLock` removes the lock before it renames the new one
  (`internal/plugin/lock.go:132`); a command in between, or after a crash
  there, takes what is on PATH, although `discovery.go:70` says a present lock
  is never bypassed. `LockBypassedInWindow`. After such a crash the next init
  finds no lock and resolves every requirement anew; `PinsKept` excludes it.
* What the user saves to a stub between the build's read of the file and its
  write or removal is lost, although `write.go:193` says that it is never written
  again; `InTime` in `UndisturbedWorkKept` and `RecordedWorkKept`.
* An executable damaged between its comparison with the archive and its start by
  name (`install.go:377-384`) is executed; `StartedIsLocked` excludes it.
* A plugin that hangs in a call or in `Close` keeps the state lock (see
  Fairness); `PluginAnswers` in `LockIsReleased`.
* A plugin's child that keeps the pipes open makes `Close` and the drain wait
  without end, because `WaitDelay` is not set (`rpc.go:434`). `CloseEnds` and
  `CancelledEnd`, which exclude such a child.

## Not modelled

`PROJECT.json` ("components") gives the reason for each part. Code generators,
formatter and command shell are stateless transformations of text, with nothing
for a model checker to add to their tests. The memory provider is a map. Of
loading, the directory walk is left out; of installation, `kastor new`, HTTP
and the names of assets; of the Claude provider, timing and user metadata; of
target validation, what a plugin answers. The editor extension, sites, examples
and the install script are not part of the program's logic.

## Plan

Models: a second build process in `BuildWrite`; `kastor new`; the directory
walk of loading.
