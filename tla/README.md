# Verification of the Zoraxy Cert Warden Sync plugin

TLA+ modules of the plugin in this repository (`cmd/cert-sync`, `internal/*`), TLC
configurations that model-check them on small instances, and TLAPS proofs of what
matters most for every instance. `PROJECT.json` lists the components, the runs, the
mutants, the lines of code behind each definition, the hazards and the theorems.

    tlc -workers 2 -config MCManagerActivation.cfg MCManager    # one run
    tlapm Manager_proofs.tla                                    # one set of proofs

## The system

The plugin copies certificate pairs, from local files or from a Cert Warden server,
into the directories of a Zoraxy reverse proxy, and selects Zoraxy's fallback
certificate with `fallback.json`. It has one process; goroutines are the HTTP handlers,
one watcher or poller per enabled entry with auto sync, and `main` at startup.

| Component | State | Operations | Hard behaviour |
|---|---|---|---|
| manager (`cmd/cert-sync/main.go`) | configuration, credentials, generation, per-entry status, watchers, pending restarts; `config.json`, `secrets.json`, `config.json.runtime.json` | apply (create, update, delete, post, startup), synchronize, validate, acknowledge, terminate | five kinds of locks, activation against synchronizations in flight, four files changed one after the other and undone on error, crashes |
| pair replacement (`internal/sync`) | a certificate and a key file, staging files, backups | `replacePair`, `EnsureFallback` | two files cannot be replaced at once; errors and crashes between any two calls |
| watcher (`internal/watcher`) | snapshots, debounce timer, loops, two wait groups | `Start`, `Stop`, ticks, events, timer | timers that fire while they are stopped or replaced, lost events, waiting for callbacks |
| poller (`internal/poller`) | a timer, a goroutine, a cancelled context | `Start`, `Stop` | a tick that wins over the cancellation, `Stop` called twice, a query that is cancelled |
| configuration store, secret store (`internal/config/store.go`, `internal/secretstore`) | one file each, a temporary file, a backup link | `Save`, `Load` | durability, rollback, rollback that fails |
| configuration model (`internal/config`) | none | normalization, validation, path policy | rules across entries, one directory under several names, paths that do not exist yet |
| web server (`internal/web`) | none | the HTTP API: routes, credentials of a request, classes of answers | which keys change with which entry, requests that are repeated |
| status (`internal/status`) | none of its own | evaluation, aggregation | results of overlapping jobs that are recorded in another order than they began |
| Cert Warden client (`internal/certwarden`) | none | fetch, classification, splitting of a bundle | answers that are almost right |
| certificate utilities (`internal/certutil`) | none | when a chain and a key are a pair | path lengths, order of blocks |
| plugin SDK (`mod`), web page, mock, scripts | | | |

How they interact: handlers call the manager; the manager saves the two stores under
`applyMu`, reconciles `fallback.json` under `fallbackApplyMu`, swaps configuration,
credentials, states, watchers and generation under `m.mu`, stops the former watchers
(waiting for their callbacks) and synchronizes every enabled entry, all before the
request returns. Watchers and pollers call back `syncGenerationContext` with the
generation they were started for; a synchronization takes the read side of
`fallbackApplyMu` (fallback entries only), the lock of its destination, and the read
side of `m.mu` while it publishes.

What makes each part correct: nothing of a former configuration is published or shown;
no change of configuration is lost; files and memory agree after every apply, failed or
not; `fallback.json` follows the configuration and every change of it is announced until
the operator acknowledges it; no data is lost by an error or a crash; every callback is
waited for; every change of a source is read; nothing blocks for ever.

## Modules

| Module | Models | Lines of code behind it |
|---|---|---|
| `Configurations` | configurations, API keys and requests, as the next two see them | `config.go` 28-74, 264-304, `main.go` 337-434, 988-1013, `server.go` 227-348 |
| `ActivationService` | what the manager promises (abstract) | `main.go` 114-165, 304-588, 664-694, 783-826, 1132-1139 |
| `Manager` | the manager with all its operations, crashes and failures | `main.go` 114-1145 and what it calls |
| `MCManager` | the constants of its runs | |
| `Manager_proofs` | theorems about `Manager`: what is published | |
| `ManagerState_proofs` | theorems about `Manager`: types, files and memory, watchers, queries, termination, the refinement | |
| `ManagerFallback_proofs` | theorems about `Manager`: the `fallback.json` files | |
| `PairReplace`, `MCPairReplace` | `replacePair`, file system call by call | `sync.go` 110-416 |
| `PairReplace_proofs` | theorems about `PairReplace` | |
| `ManagedWatcher` | what the manager expects of a watcher (abstract) | the interface `managedWatcher` and its uses in `main.go` |
| `Watcher` | a watcher from `Start` to `Stop` | `watcher.go` 70-327 |
| `Watcher_proofs` | theorems about `Watcher` | |
| `Poller` | the poller without its callback | `poller.go` |
| `RemoteEntry` | one entry with a Cert Warden source: `Poller` with its callback, Sync Now, Validate, the status | `main.go` 505-817, 1045-1145, `status.go` |
| `RemoteEntry_proofs` | theorems about `RemoteEntry` | |
| `AtomicFile` | what the manager expects of a saved file (abstract) | the interface of the two `Save` |
| `DurableStore` | the two `Save`, file system call by call | `store.go` 68-177, `secretstore.go` 60-242 |
| `DurableStore_proofs` | theorems about `DurableStore` | |
| `ConfigRules` | normalization, validation, path resolution, `Load` | `config.go` 77-370, `path_policy.go` 85-187 |
| `Bundle` | classification and splitting of an answer, the chain and key rules | `client.go` 108-246, `certutil.go` 28-231 |
| `Api`, `MCApi` | the HTTP API down to the two files: requests, keys, start | `server.go` 150-438 and what it calls |
| `Api_proofs` | theorems about `Api` and the rules of `ConfigRules` | |

`Manager` implements `ActivationService`, and both extend `Configurations`. `Watcher` and
`RemoteEntry` implement `ManagedWatcher`, `DurableStore` implements `AtomicFile`; `Manager`
is built on what these two abstract modules promise. `RemoteEntry` extends `Poller`, `Api`
extends `ConfigRules` and has an instance of `Bundle`.

Operators whose comment begins with `Mutation` are plausible bugs of the definition that
follows them. They are in no next-state relation; each shows that a property would
notice.

### Manager

A goroutine `p` has a step `pc[p]` and its locals `job[p]`; the locals of the one apply
that may run (it holds `applyMu`) are `staged`. A step of the model ends where the code
takes or releases a lock that is kept, does I/O, or waits: `m.mu`, `fallbackMu` and
`destinationMu` are taken and released within a step, except for the read lock that a
synchronization keeps while it publishes (`reading`). The correspondence:

* `Acquire` to `InitialSyncs` are `applyConfigAndSecretsLocked` and `applyConfigLocked`
  in the order of the code, with the three ways back (`RestoreConfig`, `Unreconcile`,
  `Abort`, `RestoreSecrets`).
* `Begin` to `Record` are `syncGenerationContext`, `fetchRemote` (two steps, the network
  in between), `SyncMaterial` (pair, then `fallback.json`) and `recordSync`.
* `ValidateNow`, `Acknowledge`, `ClearFlags`, `Terminate` are the other handlers;
  `Boot` is `main`, `Exit` is `os.Exit`, `Crash` the end of the process at any step.
* An entry is a record with its source, destination, flags; names, sources, targets and
  directories are values from small sets. A status is what `StatusOfActive` and
  `CheckingHasQuery` need of it, with the flag of the pending restart; the whole of it
  is in `RemoteEntry`.
* A watcher is named by its entry and generation. `running` are those that may call
  back (`Tick`); `StopWatchers` halts one and waits for its callbacks, as
  `ManagedWatcher` allows it to.
* Saving a file is one step with the outcomes of `AtomicFile`; `DurableStore` is shown
  to have no others. The runtime file has no rollback of its own, so an error may come
  after it was replaced (`syncRuntime`). `replacePair` is one step with the outcomes of
  `PairReplace`.
* Which requests are refused before an apply (`Accepts`, `Candidate`, `Rekey`) comes
  from `web/server.go`, with the rules that matter to concurrency only (`Api` has them
  all); any request may also be cancelled.

Ghosts: `acked` is `fallback.json` as the operator last acknowledged it (for an apply
that has not marked its changes yet: as it was before that apply), `torn` that an
apply's own rollback failed. Both occur in properties only, never in a guard.

### ActivationService

The same manager without goroutines, locks, generations, watchers and files: one active
configuration with its keys, at most one change of it under way, what the next start will
find (`stored`), whose pair is at each destination, and what the statuses are about. A
change begins with what is active (`Begin`) and replaces it, its keys, the stored form and
every status in one step (`Commit`), or leaves all of it as it was (`Fail`). `Publish` and
`Show` write the source of an active entry, never another. `Stop` is the end of the process
at any point: the next start finds the former configuration, the new one, or, if the
process ended between the two saves of a change, the former one with the new keys, which it
refuses if a remote entry has lost its keys (a deleted one, or one made local). The
promise contains `AppliesToLatest`, which is about the served configuration alone.

`Manager!Abstract` is the refinement mapping. A change is under way (`UnderWay`) from the
taking of `applyMu` with a candidate to `Activate`, and in the rollbacks; `Stored` is, while
a configuration is active, that configuration, since whether the files agree with it is for
`MemoryAndDiskAgree` to say, and without one the files with the keys pruned, as a start
prunes them. So the refinement says what a crash leaves by looking at the files at the step
at which the process ends, and at no other.

Three weaknesses are part of the promise, because the code has them: after /term anything
may be published or shown until the process exits (`ending`, see `manager_reuse`), a start
that fails may leave an empty configuration (`Wipe`, see `manager_boot_wipe`), and after a
rollback that failed the files may say anything (`damaged`). What `ending` allows takes three
goroutines (`manager_reuse`); `manager_faults` has two and makes no use of it.

### PairReplace and DurableStore

A directory is the set (or record) of its files. `unsynced` collects every state of the
directory since its last fsync; a crash leaves any one of them. This takes the file
system to keep the order of operations on one directory, as journaling file systems do,
and to promise durability only at an fsync. File contents are fsynced before they are
renamed, so a name never has half a content.

The ghost `owed` of `PairReplace` is what `NothingLost` speaks of: the bytes that were live
when a call began and that every directory a crash may leave still holds. Bytes that were
put there by a call whose fsync failed, and that a crash may take back, are not owed.

### Watcher and ManagedWatcher

Every section under `w.mu` is a step, and so is the reading of each file. A debounce
timer is free, armed, fired (its function waits for `w.mu`) or calling. The callback is
its reading of the source. `Start` runs once per watcher, as the manager uses it. It is
not interrupted by `Stop` since it holds `w.mu` throughout.

`ManagedWatcher` is the interface of the same name with the contract the manager needs:
new, running, halted (it calls back no more) and gone; callbacks in progress; the
callers `Stop` has returned to. The refinement of `Watcher` maps a stopped state to
halted, so that no timer may begin a callback from the step on in which `Stop` takes
`w.mu`; that of `RemoteEntry` maps the end of the poller's goroutine to it, since a tick
may win over the cancellation. Callbacks of a watcher may overlap (a timer is replaced
while its predecessor calls), those of a poller do not.

### RemoteEntry

One entry, one generation of the configuration, from the poller's `Start` before the
configuration is active (`Prepare`) over `Activate` to `Retire`, when the manager gives
it up, and `Stop`. Jobs are the initial synchronization, the poller's callback and the
operators' Sync Now and Validate. `Begin` to `Record` are `syncGenerationContext`,
`fetchRemote` (two sections under `m.mu`, the query in between), `SyncMaterial` with its
read-back, `recordSync`; `RecordValidation` is `recordValidation`. `st` has the fields of
`status.State` which decide about the status: query, errors, digests, whether the
destination was looked at. A bundle stands for a valid chain and key with its digest.
The callback of a poller that `Stop` has cancelled may find its query ended by that.
`trouble` is a ghost: there has been an error of the server or of the file system.

### Api, ConfigRules and Bundle

A request is one step, as `applyMu` makes it; what runs next to it is in `Manager`. The
step computes the refusal (`Refusal`), the candidate, its keys (`Rekey`, `Prune`), the
rules (`Validate` of `ConfigRules`), and the class of the answer. `CrashInApply` leaves
`secrets.json` replaced and `config.json` not; `Boot` loads what is there, or the default
configuration, and exits if it is refused. Texts are sequences of `Tokens`, of which a
blank, a line end, a character that is not allowed and a slash matter; paths are sequences
of names, and a directory tree says what each existing path resolves to. The trees of
`MCApi` (`Tree`) are made from their directories and links and are complete for paths of up
to three names, links below links included. Letter case is left out.
`enteredFor` is a ghost: the source for which the operator typed the keys.

The connection test and the validation of local files (`TestConnection`, `CheckFiles`)
change nothing and depend on nothing; they are asked of a manager that has just started.
A certificate is a record of subject, issuer, keys, CA flag, path length and whether it
is valid now and usable by a server; an answer is a sequence of PEM blocks, which may not
decode, not parse, or hold a private key of a type that is not supported.

## Runs

| Run | Bounds | Question |
|---|---|---|
| `manager_activation` | 3 goroutines, 1 entry on two servers or local, 3 generations, 1 fault | can anything of a former configuration be published, shown or left running? |
| `manager_fallback` | 2 goroutines, 2 entries in one directory, 4 generations, 2 faults | does `fallback.json` follow the configuration through every rollback, and is every change announced? |
| `manager_faults` | 2 goroutines, 2 entries, 2 generations per process, 2 faults, 1 crash; no validations, which write no file | does the state keep its shape, do files and memory agree, is the manager an `ActivationService`? |
| `manager_liveness` | 2 goroutines, 1 entry, 2 generations, no faults | does all work end; is a `fallback.json` made by Sync Now announced? |
| `pair_replace` | 2 bundles, 3 faults, 1 crash | is the former pair kept, the result true, and do later calls succeed? |
| `watcher` | 2 files, 1 write each, 3 timers, 2 stoppers | the wait group, `Stop`, no lost change, all of it in the end; is it a `ManagedWatcher`? |
| `remote_entry` | 2 bundles, 1 operator with 1 request, 1 change of the server, 1 fault, 2 stoppers | is what is shown installed, has every error a cause, does `Stop` end, does the entry get healthy; is the poller a `ManagedWatcher`? |
| `durable_store` | 3 values, 4 faults, 1 crash | does a save implement `AtomicFile`? |
| `api` | 27 entries, 6 pairs of keys, 6 posts, 4 names, 3 directory trees, 4 files found at installation, up to 2 entries at once, 1 crash; chains of up to 4 certificates, answers of up to 4 blocks | which keys go with which entry, which files may be touched, can what is saved be loaded, may a request be repeated, is material judged by the rules? |

Why the bounds are enough: a synchronization that is overtaken needs one apply, and two
for a generation that comes back; the third goroutine adds a validation or a poller.
Two entries are what a directory needs to move its fallback. The one fault of
`manager_activation` is, among others, a watcher that does not start when others have
(`WatchersOwned` is violated if the apply that is given up leaves these running). Two
faults are an error and an error of its rollback; the third of `pair_replace` fails the call after that, which
finds what the failed rollback has left, the third and fourth of `durable_store` also fail
the clean-up and the next save. Three timers are one calling, one fired and replaced, one
armed. The one operator of `remote_entry` runs beside the poller and the initial
synchronization: three jobs, of which one may hold the destination, one wait for it and
one validate without it; two bundles and one change tell a new result from an old one,
two callers of `Stop` are the first and one that finds `once` taken. The entries of
`api` are one for every rule that accepts or refuses, alone or together with another
one, and two entries are what the rules between entries need; a longer history adds
nothing that the keys, which are the only thing remembered, could tell. Chains of four
have two CA certificates between leaf and root, of which one may be self-issued.
`manager_faults`, `watcher` and `remote_entry` have `CHECK_DEADLOCK FALSE`: a process that
has exited for good, a watcher or an entry that is stopped. In every other run something
is always possible. Symmetry is used in runs without liveness properties only (the action
properties of `manager_activation` and the refinement of `manager_faults` do not tell the
goroutines apart).

Fairness. `Manager!FairSpec`: a goroutine with work goes on; strong fairness since Go's
mutexes serve every waiter in the end, readers and writers alike, and since the HTTP
client has a timeout. `PairReplace!FairSpec`: a call runs on, and calls are made again
and again, as pollers and operators do. `Watcher!FairSpec`: goroutines run, tickers
tick, timers fire, and `select` does not prefer a ticker to a finished context for ever
(strong fairness of `LeavePoll`). `RemoteEntry!FairSpec`: jobs go on, a query ends (the
client's timeout), the poller's timer fires and its tick is taken, and callers of `Stop`
are woken; strong fairness of `PollerQuits`, since `select` chooses at random between a
tick and the cancellation and the next tick is a minute away. No fairness makes requests
arrive, files or the server change, a configuration go or anybody call `Stop`.

Where the code departs from what it says (runs that expect a violation):

* `pair_lstat`: an lstat error on the live key makes the rollback remove that key.
* `manager_reuse`: the terminate handler raises the generation without `applyMu`; a
  concurrent apply activates the same number, and a synchronization of the former
  configuration publishes.
* `manager_boot_wipe`: if the pending state cannot be saved at startup, the rollback
  overwrites `config.json` with an empty configuration.

A fourth departure has no run. `splitMaterial` (`client.go` 205) calls `pem.Decode`, which
passes over a block that does not decode and goes on to the next one: an answer of a
certificate, a broken block and a key is split, installed and reported as good. The
plugin's README asks for "a valid PEM certificate chain and exactly one supported
unencrypted private key" (189-190) and promises "`invalid_response` for [...] invalid or
incomplete PEM material" (299-308). `Clean` does what the code does, so the model accepts
such an answer too, as the code does in a file of certificates; `VerdictIsRight` claims
nothing where a block among those the certificates are taken from does not decode. An
invariant that forbids such an answer to a connection test, added to the run `api`, is
violated in two steps.

Seen in the same model and kept out of the passing runs, each by a constant named in
the configuration or by the form of the property:

* A crash between changing and marking `fallback.json` loses the warning: no property
  speaks of that window.
* An acknowledgement that fails at the directory's Sync leaves the warning in memory
  only. If saving the pending state fails after a synchronization has changed
  `fallback.json` of a disabled entry, the warning is never set: a later one finds
  nothing changed. (Of an enabled entry it has nothing to change.)
* An acknowledgement while an apply is between `ReadFlags` and `Activate` leaves a warning
  in the status that nothing is pending for, and that cannot be acknowledged any more.
* Sync Now on a disabled fallback entry makes `fallback.json` again
  (`FallbackFollowsConfig` allows it, `PendingCovers` demands the warning), and an apply
  that fails afterwards removes it without a warning.
* Of two queries of one entry the first that ends hides the other's Checking state.
* A validation that is recorded after a newer synchronization puts its older digest
  back: the entry is shown as unknown, until the next synchronization (`Settles`).

Seen while translating, and modelled as the code has it:

* A remote entry with keys and an empty server URL is answered as an internal error: its
  credentials cannot be saved, which is found before the entry is validated. So is a
  connection test without a certificate name.
* Keys are bound to the server URL as it came, before it is trimmed: a URL with a blank
  at its end is refused although keys were given.
* Keys that come with a local entry are not looked at, not even refused.
* `WatcherError` of the status is never set by the manager.
* Which violation is a conflict is read off the text of the error.

## Proofs

`DurableStore_proofs`, for every set of data, faulty operations and any number of
faults and crashes:

* `Typing`, `Safekeeping`, `Retention`: the type invariant, `NothingLost`,
  `BackupRetained`.
* `Refinement`: `Spec => Implements`. Each action is `Work`, the end of a save, or a
  crash of `AtomicFile`.

The inductive invariant says, step by step, what `path` and `backup` hold in the
directory and in every directory a crash may leave: before the link nothing has changed
(`Untouched`), after the backup's fsync every such directory has the backup
(`BackedUp`), after the rename each has the former or the new data (`Renamed`), after
its fsync only the new (`Installed`). `NothingLost` alone is not inductive: it says
nothing about where a directory keeps the former data when the next step removes one of
the places. A second layer (`Undone`) adds what a finished rollback leaves.

`Manager_proofs`, for every set of goroutines, names, requests, initial files and faulty
operations and any number of generations, faults and crashes, without `"terminate"` in
`Tasks` (with it the theorem is false, see `manager_reuse`):

* `Publication`: `Spec => []PublishersCurrent`. Its strengthening says that applies
  exclude each other, also while they wait for an initial synchronization (`Mutex`),
  that an apply has prepared exactly the next generation (`Ahead`), hence that whoever
  works for the active generation works on the active entry (`Fresh`), and that who
  holds the read lock on `m.mu` publishes for it (`Publishing`). `Activate` preserves it
  since it waits for the readers and since the new generation is later than that of any
  work in flight.
* `StatusIsActive`: `Spec => []StatusOfActive`, from the same invariant.

`ManagerState_proofs`, for the same constants and with termination, but where it says
otherwise:

* `Typing`: `TypeOK`. The types of the locals are inductive only with the control: who has
  a name, a request or an entry, by where it is (`Named`); that exactly one goroutine is
  past `Acquire` and before the end of an apply, also while it waits for an initial
  synchronization (`Held`); that nothing survives the process (`Fallow`); who holds
  `fallbackApplyMu` and what it remembers of the files (`Writer`); and that generations stay
  within their bound (`Bounded`). Together they are `Core`, on which everything below is
  built, with the lemma that no other goroutine changes the locals of an apply
  (`OthersLeave`).
* `Consistency`: `MemoryAndDiskAgree`. `Agree` says of each of the two files, by where the
  apply is (`Stage`), whether it holds the active value or the candidate's: the keys from the
  first step to the last, the configuration only after its own save. Both rollbacks are
  between, and a rollback that fails sets `torn`. `Keyed` adds that neither the active
  configuration nor the candidate has a remote entry without keys.
* `NothingOverwritten`: `AppliesToLatest`, from `Latest`: the candidate is made from the
  configuration that is active until it is replaced. (`manager_faults` checks it as a
  part of `Implements`.)
* `NoneLeaked`: `WatchersOwned`, with the steps at which an apply may own what it has
  started (`Owned`) and those at which a goroutine has watchers to stop (`Stops`).
* `PublishedIsActive`, `QueryEnds`: `PublishesActive` and `CheckingHasQuery`, without
  `"terminate"`, from `Core` and the invariant of `Publication`. It is `manager_reuse` that
  makes the hypothesis necessary: a generation that is reused lets a former configuration
  publish, and one query end the Checking state of another.
* `PublicationUntilTermination`, `StatusUntilTermination`, `PublishedUntilTermination`,
  `QueryUntilTermination`: the same four properties with `"terminate"` in `Tasks`, at any
  time but between a call of /term and the exit of that process (`Terminating`).
  The invariant is `Terminating \/ IInv`: only the end of the process makes `Terminating`
  false again (`TerminatingStays`), the process that ends leaves `IInv` true
  (`ShutdownHolds`), and every other step preserves `IInv` or begins a termination.
* `Refinement`: `Spec => Implements`. `Acquire` is `Begin`, `Activate` is `Commit` or, in a
  process that starts, `Start`; the ends of the ways back are `Fail`, a rollback that fails
  is `Damage` (of a start, `Wipe` too), `Install` is `Publish`, `Record` and
  `RecordValidation` are `Show`, the end of the process is `Stop`, and all other steps
  stutter. `StepImplements` has one lemma for each. It takes `Pact` and `Sound` (the
  candidate comes from what is active, and is valid before `Activate`), `Terminating \/
  IInv` for what is published and shown, and three invariants of its own: a generation of 0
  means that this process has activated nothing (`Epoch`); active keys are those of the active
  remote entries, so that a start which prunes what it finds, finds what was active
  (`Trimmed`, with `PruneTwice`); and the apply of a start works on what the files say
  (`Starting`).

`ManagerFallback_proofs`, for the same constants without `"terminate"` (an exit may fall
into an apply that has changed some of the files, as a crash may):

* `FallbackIsFollowed`: `FallbackFollowsConfig` until the process crashes. A crash between
  the change of a `fallback.json` and that of `config.json` leaves a file which the saved
  configuration does not ask for and which the next start does not look at, unless it is
  in a directory of an entry. The strengthening: those who change a file hold
  `fallbackApplyMu`, one apply or several synchronizations (`Readers`); what is active and
  what an apply goes on with is valid, so that a directory has one fallback entry (`Sound`);
  a process that exits has activated nothing (`Booting`); and the files are the active
  configuration's, the candidate's, or either one's directory by directory while they
  are changed or changed back (`Following`).
* `ChangesAreMarked`: `PendingCovers` until the process crashes, where all fallback entries
  are enabled (`FallbacksEnabled`) and `"syncRuntime"` is not in `FaultyOps`. The
  three hypotheses are the three ways to lose a warning that are told above. Between
  them nothing is: an apply knows the changes that it has not marked yet, and what was
  covered before it is covered after it, undone or not (`Covering`); it has read the pending
  directories before it writes any of them (`Loads`).

`PairReplace_proofs`, for every set of bundles and of failing operations without `"lstat"`
and any number of calls, faults and crashes:

* `Typing`, `Safekeeping`, `TrueReport`: `TypeOK`, `NothingLost`, `ReportIsTrue`.

An lstat that fails is left out since `NothingLost` is false with it, in the way
`pair_lstat` shows. The inductive invariant says for each of the two files where the bytes
that are owed are (`Secured`: live or in a backup of an earlier call until this call moves
the file, then in a backup until the new pair is durable or the file is back), what
the directory holds by the step and by what
`prepareBackup` returned (`Kept`, `Result`), and which staging files and backups are gone
(`Tidy`). `NothingLost` ranges over the directories a crash may leave, and the other parts
over the directory as the process sees it: a step is preserved because it takes no role away
that is still `Secure`, in any of them.

`Watcher_proofs`, for every set of files, every finite set of timers, any number of
callers of `Stop` and of writes:

* `Typing`, `Counting`, `Quiet`: `TypeOK`, `WaitGroupExact`, `QuietAfterStop`.
* `Lossless`: `NoChangeLost`. The strengthening `Traced` says, file by file, where a
  difference between what was read and what is there will be noticed: in the snapshot, in
  `changed` of the running check, in the debounce timer or in a callback that has not read
  yet.
* `Managed`: `Spec => IsManaged`. A timer that enters is a `Call`, `Stop` is `Halt`, the
  end of the callbacks and of the wait for `w.done` are `StopReturns`.

The inductive invariant is the three parts `TypeOK`, `WaitGroupExact` and `Lifecycle`. The
wait group alone is inductive for the timers but not for `Stop`: `Lifecycle` says that
only a stopped watcher has callers of `Stop`, that loops have ended when the first of them
goes on to the callbacks, and that nothing is pending when `w.done` is closed. That
the count goes up and down with the set of pending timers is `FiniteSetTheorems`.

`RemoteEntry_proofs`, for every set of bundles, operators, callers of `Stop` and other
entries and any number of requests, changes and failures:

* `Typing`: `TypeOK`; with `Answered` it is inductive (who installs has an answer).
* `Installed`: `HealthyIsInstalled`. Its strengthening is `Serial`: from the destination's
  lock to the recording there is one job (`Locked`), what that job read back is what is
  there (`ReadBack`), outside of it the status tells what is there (`Truth`), and an
  entry that was given up has the state of a new one (`Inactive`).
* `Causes`: `ErrorHasCause`, from `Blameless` (no error in the status, the results or the
  answers in use without trouble) and `Ended` (a poller is cancelled only after its
  configuration was given up, so that a query it cancels is not recorded).
* `Managed`: `Spec => IsManaged`, from the part of `Ended` that ties the poller's goroutine
  to its callback and `p.done` to the end of both.

`Api_proofs`, for every set of entries, posts, keys and names, every directory tree, any
roots and any number of entries, requests and crashes:

* `KeysStayBound`, `NoKeysStay`, `FilesDistinct`, `StaysWithinRoots`, `StartsAgain`:
  `KeysBound`, `NoKeysLeft`, `DistinctFiles`, `WithinRoots`, `Restartable`.
* `RetriesAreHarmless`: `RetryHarmless`.

The invariant (`Inv`) says that what is active is normalized, valid and has its keys
(`Applied`), that both files agree with it while the process runs, and that keys carry
the source they were typed in for, on the disk after a crash too (`Matched`). Two facts
make it inductive. Normalization is idempotent (`TrimIdempotent`, `EntryNormal`,
`ConfigNormal`), so that what was validated is what a start validates again. And the keys,
which are pruned by the names of the candidate before it is normalized, are those of the
names after it (`AppliedKeys`): a name that is trimmed must have its keys under the trimmed
name, which is then the name of a second entry, and the two would clash.

For a repeated request the invariant is `CarriedOut`: what the request asked for is what is
active, in the words of its kind (an entry with that normalized name, that entry with those
keys, no entry of that name, that configuration). `CreatedAgain`, `UpdatedAgain`,
`DeletedAgain` and `PostedAgain` then compute the answer to the second one: the candidate
normalizes to what is active, and re-entering the same keys, or pruning, changes none.

Assumptions are those of the modules (`ManagerAssumption`, `RequestAssumption`,
`ConstantsAssumption` of `PairReplace`, `StoreAssumption`,
`WatcherAssumption`, `EntryAssumption`, `ApiAssumption`: what requests and
files are after decoding), which TLC evaluates in every run.

Every invariant, action property and refinement of a passing run is a theorem but one. Only
model-checked are:

* the liveness properties `EveryJobEnds`, `Recovers`, `ChangesAreRead`, `StopReturns`,
  `StopEnds` and `Settles`: liveness under fairness and `ENABLED` are outside of the prover;
* `VerdictIsRight` of `Api`, which is about answers and files of which every block
  decodes: that the splitting of an answer (a fold) and the check of the
  path lengths (a recursive function) compute what their definitions ask for is an
  induction over the length of the answer, and the induction theorems take an operator as a
  parameter, which no installed prover instantiates. The modules have no `RECURSIVE`
  operators;
* `PendingCovers` of `manager_liveness` for a disabled fallback entry, where nothing fails;
* the three expected violations.

## Not modelled

* Signatures, DER, digests and fingerprints (`certutil.go` 232-303): a certificate is what
  the chain rules ask of it.
* HTTP and JSON, routing, the CSRF check, the masking of keys in answers, headers and
  redirects of the client; the log level's effect, timestamps and counters of the status.
* The normalization of the roots of the path policy at startup, and that a path is
  resolved again when it is used: between a validation and a synchronization a link may
  have been changed.
* `EnsureFallback`'s own temporary file is one step with its three outcomes; the lock maps
  (`destinationLocks`, `replacementLocks`), which never shrink.
* Backups that are left behind: the code never removes them and the model does not bound
  them. `cleanupStaging` takes every file of a name prefix: with two targets of which one
  extends the other by `-cert-sync-`, it takes the other one's files, and one target
  is all that `PairReplace` has.
* That a local source whose synchronization fails once is not tried again until it
  changes: the manager's callbacks have no memory of it, and the model of the watcher ends
  at the reading of the source.
* The web page, the mock server and the scripts keep no state of the system.

## What is left

`EnsureFallback` call by call, as `replacePair` is; two targets of one directory in
`PairReplace`, of which one name extends the other; `Manager` with an instance of
`DurableStore` in the place of each one-step save, which the two refinements make
unnecessary for what is stated here. None of them is begun.
