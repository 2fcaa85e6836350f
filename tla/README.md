# Verification of sec-agent

sec-agent (`sec`) is a command-line secret manager for macOS.  A short-lived
client talks over a Unix socket to one long-lived daemon per profile, which
holds the profile's decrypted vault in memory for the length of a session.
This directory holds TLA+ models of that system, the TLC configurations that
check them on small instances, and proofs checked by TLAPS.

## 1. Inventory

| Component | Code | State it keeps | Module |
|---|---|---|---|
| Session of a daemon | `internal/daemon/daemon.go`, `daemon_lock.go`, `daemon_ipc.go` | `masterKey`, `secretsStore`, `sessionToken`, `sessionStart`/`sessionTTL`, `lastUsed`/`graceTTL`, `prodConfirmed`, `lastActivity`, under `d.mu` | `DaemonSession`, `SessionPromise` |
| Secret operations | `daemon.go` 567-1138, `daemon_lease.go` | the map from path to entry: value, version, at most 10 earlier versions, metadata, soft-delete mark | `SecretHistory`, `SecretVersions` |
| Hot reload | `daemon.go` 238-288, 438-520 | a pipe with the session, the lock file, the socket path | `HotReload` |
| Lifecycle of daemons | `cmd/sec-agent/main.go` 594-900, 1202-1320, `Daemon.Start`, `Stop` | lock file (`flock`), socket path, PID file, processes | `DaemonLifecycle` |
| Vault file, snapshots, deduplication, keychain item | `internal/store`, `internal/keychain`, `cmd_snapshot.go`, `cmd_import_export.go`, `cmd_skills_init.go` | the envelope on disk (payload, recovery slot, summary), snapshot files, the key in the keychain | `VaultFile` |
| Client commands, import, export, migration | `cmd_secrets.go`, `cmd_lease.go`, `cmd_import_export.go`, `cmd_safety.go`, `cmd_check.go`, `cmd_stream.go` | a token, a dotenv file, a backup file; what a command has read and still has to write | `ClientCommands` |
| Run and redaction | `cmd_profile.go` | the production guard's answer; the tail of the child's output that is held back | `ClientCommands`, `RedactStream` |
| GUI server and its page | `gui*.go` | launch token, tab lock, cookie; what a page shows | `GuiServer` |
| Workspace and profile resolution | `main.go` 149-536, `cmd_env.go` | `.secrc` files, `SEC_ENV`, `SEC_PROFILE` | `Workspace` |
| Key wrapping, mnemonics, audit scanners, diagnostics, completion, generated files | the rest | none | none |

How they interact.  A client resolves its profile (`Workspace`), finds or
starts the profile's daemon (`DaemonLifecycle`), and sends one JSON request per
connection; commands of several requests run beside one another
(`ClientCommands`).  The daemon checks the peer for remote control *before* it
takes its mutex, and handles the request under the mutex from first line to
last; a ticker goroutine and the signal handler take the same mutex
(`DaemonSession`).  A request that changes an entry (`SecretHistory`) saves the
whole store through the vault-file layer, which writes a temporary file,
snapshots the old vault and renames; other processes write the same vault file
without going through the daemon (`VaultFile`).  A hot reload hands the session
to a child process over a pipe (`HotReload`).

Which behaviours are hard: connections admitted before a wipe and handled after
it; a decision taken under the mutex and carried out after it is released; a
lock handed from one process to another; removal of a path that another process
has rebound; writers of one file that share no lock, killed at any step; shared
slices and maps behind copied Go structs; a command whose session ends between
its requests; a timer that races a write; answers that come after the user has
moved on; environment variables that outlive the workspace they were set in.

## 2. Modules

### DaemonSession, DaemonSessionProps, SessionPromise

`processRequest` holds `d.mu` from its first line to its return, so a request is
one action.  What is *not* under the mutex are steps of their own: `Admit` and
`Hijacked` are the check `handleConnection` makes before it locks, `TickerWake`
is the ticker's critical section and `TickerStop` the call of `Stop` after it.
The fields of `Daemon` keep their names; `secretsStore` is only nil or loaded;
Go's zero time is 0.  `proc`, `ticker` and `admitted` are the process, the
ticker goroutine and the connections that wait for the mutex; `socket` says
whether the path still names this daemon's socket (`LoseSocket` is another
process removing or rebinding it).  `issued`, `revoked`, `confirmedFor` and
`reply` are history variables.  The operations on secrets enter by class: those
that slide the grace window (`SlidingOps`), those that save (`WritingOps`), those
that save but ignore a failure (`BestEffortOps`).

`SessionPromise` has one deadline where the code has two timestamps and two
durations.  The mapping takes the deadline to be the later of
`sessionStart + sessionTTL` and `lastUsed + graceTTL`, which is what `isExpired`
compares with.

### HotReload

The `reexec` handler is cut where another thread or process can see the
difference: encode and answer, close the listener, unlock the lock file, start
the child, exit.  It holds `d.mu` all the while, so requests admitted before
(`waiting`) are handled by the parent *after* the payload was written, as long
as the process lives.  The main goroutine does not need the mutex: once the
listener is closed it returns from `Accept` and ends the process
(`MainReturns`, `ParentExits`).  The child restores, takes the lock (or ends),
binds.  `RivalStarts` is a daemon another client starts when nothing answers.
Session timestamps travel unchanged and are left out.

### SecretHistory, SecretVersions

`secrets[p]` is a Go struct: version, `data` (value, comment, description and
notes, always copied together), the reference `map`, and the slice
`(arr, off, len)`.  `arrays` and `maps` are the heap.  `FiledSlice` and
`FiledArrays` are `append` followed by the cut to the last `Limit`: in place
while the capacity allows, else into a new array of twice the capacity.  Every
operation ends in `Store`, which also collects what is no longer referred to, so
that a fresh reference is one nobody holds.  `SecretVersions` is what a user is
promised: each path has a list of versions, without arrays or maps.

### DaemonLifecycle

The processes of one profile and the three paths they share.  `sock`, `pid` and
`lock` name the daemon whose file the path leads to; a daemon that lost a path
keeps its file open (`fd`, `info`), and the advisory lock is on the file
(`flock`), not on the path.  A daemon has two threads, the main goroutine
(`OpenLock` to `MainReturns`: `Start`) and `Stop` (`CloseListener` to
`StopRemovesLock`), called by the ticker, the idle timeout or the handler of
SIGTERM.  A client goes through `ensureDaemonRunning` (`Ping`, `ReadPIDFile`,
`Sweep`), `evictStaleDaemon` (`List`, `KillSurvivors`, `RemovePath`), `Spawn`
and `Wait`; `restart` enters it at the eviction (`Begin`).  Every removal of a
path by name is a step of its own, which is where the races are.

### VaultFile

The vault file of each profile and everybody who writes it: the daemons
(`Set`, then a replacement), and the commands that go to the file directly.  A
replacement is three steps, as in `WriteVaultEnvelope`: `Save` writes the
temporary file, `File` files the old vault as a snapshot, `Rename`
renames.  `snapshot restore` is different: it truncates the vault and fills it
(`Truncate`, `Fill`), and in between the file is `Torn`.  `InitializeMasterKey`,
migration, recovery, enrolling a slot, summary, flattening, pruning, snapshots
and `dedupe` are sequences of such steps with `at[w]` and `job[w]` as program
counter and local variables; a process may end at any of them (a prompt answered
with no, an error, a signal, a crash).  `keychain` and `sealed` are the item
beside the vault, deleted and added in two steps, and lost when a finger is
enrolled (`Invalidate`).  A key is the pair of who made it and for what; which
key opens which envelope is all that is left of the cryptography.

### ClientCommands

The commands as users run them at the same time.  A request is one step of its
daemon; `Query` is `queryDaemon` with its opening of a locked session and the
token it then sends, `Refused` the requests that come back with an error.  A
command is one request (`Once`) or several with a step `at[c]`, the profile
`on[c]` and what it has read `seen[c]` in between: `edit-notes` waits for the
editor, `copy`, `lease`, `diff` and `stream` ask two profiles, `rotate` runs its
hook, `import`, `restore --merge` and `migrate-local` send one request after the
other, `backup` asks for a password, `run` goes through the production guard.
Sessions end and are opened between any two steps (`Lock`, `Open`), and a user
may interrupt a command at each (`Kill`).  A value is named after who wrote it,
and `acked`, `noted`, `moved` and `consented` remember what was promised.

### RedactStream

One `redactWriter`.  Texts are sequences of characters, so that secrets can
overlap themselves and one another.  A replaced secret keeps its characters with
a mark instead of turning into `[REDACTED_BY_SEC]`: what the child wrote can then
be compared with what was shown, position by position.  `Write` is the critical
section of `Write`; `Expire` is the timer, `Callback` its function once it has
the mutex, which may be after a later write; `cut` is a child whose output is no
longer copied because the terminal refused it.

### GuiServer

The server (`KillExisting`, `Listen`, `ServerExits`), the gate every request
goes through (`Pass`, `Claim`), and the page: `Answer` is the arrival of a
response, in any order, which goes on with what the script does then
(`StatusArrives`, `SecretsArrive`, `UnlockArrives`).  `Claim` gives the tab lock
to who asks if it is free, its own, or its holder's heartbeat is late.  The
daemon behind the API just answers or refuses.

### Workspace

`ResolveWorkspaceEnvironment` as the set of outcomes it allows (the iteration
over a map is any order; an error is the empty set), one operator per rule, over
`Config`, the nearest `.secrc` upward that can be parsed, after
`normalizeWorkspaceConfig`.  Around it a shell: `cd`, files that are written,
broken or removed, `profile new` binding a directory, `sec use` in its forms,
variables exported by hand, commands with and without flags.

## 3. What the runs check

| Run | Question | States |
|---|---|---|
| `session` | Is the session whole, are stale tokens refused, is a confirmation never inherited, is the vault's key never changed, is `SessionPromise` implemented; is an expired key swept with nobody calling, does a displaced daemon end? | 0.27 M |
| `reload` | Does only the lock holder listen, does the child serve a restored session, does the parent end? | 20 k |
| `reload_race` | Is the session still somewhere after a reload was answered? *violated* | |
| `history` | Do versions stay contiguous when copies share arrays? | 81 k |
| `history_versions` | Without copies, and with metadata all alike, is `SecretVersions` implemented? | 0.17 M |
| `lifecycle` | Do two daemons work at once only if a lock path was removed; are the evicted gone; is at most one daemon left in the end; does every command come to an end? | 0.15 M |
| `vault` | Is anything acknowledged ever gone; do vault, keychain item and slot keep to one key; are slot and summary taken over? | 0.9 M |
| `clients` | Is an acknowledged value or note ever undone; does a migrated file have its values in a vault; does a run use production secrets nobody agreed to? | 0.35 M |
| `redact` | Is any character lost, doubled or moved; is a secret shown whole only across a tail the timer gave out; is a held back prompt shown? | 0.37 M |
| `redact_split` | Is a secret never shown, however it is split? *violated* | |
| `gui` | Does a launch serve one browser; does a page show what it says; does one tab show secrets at a time; does a displaced tab find out? | 0.27 M |
| `workspace` | Does a switch hold until it is cleared; is what `sec env ls` marks what a command is about? | 0.21 M |

The two violated runs are disagreements between the code and a sentence of its
documentation, quoted in PROJECT.json:

* *Race.*  The handler closes the listener; `Accept` fails; the process ends
  before the handler has started the child.
* *Split.*  The child writes part of a secret and pauses for 25 ms: the timer
  gives the part out, and the rest, written later, is not recognised.

### What the properties leave open, and why

Where the code's guarantee has an exception, the property names it, and the
exception is a history variable, so that everything else is still checked.

* `OneUnlessUnnamed`: `flock` is on a file, and both `Stop` and an eviction
  remove the path of a lock file others may have open.  From then on a second
  daemon can lock a new file at that path.  `Converges` says that this does not
  last.
* `NothingGone`: `rough` records that a vault was replaced after another process
  had filed it and changed it, that filing failed (the error is ignored), or that
  `dedupe` repaired its target from a snapshot.
* `KeysAgree`: two first openings of one profile make two keys, and `dedupe`
  falls back on the source's key (`strayed`).  The slot of the default profile
  may have another key as soon as any profile strayed: the rewriting of a snapshot
  files a copy of every profile's vault under "default" too, and `restore` takes a
  snapshot of the default profile for one of its own if the keychain's key opens it.
  Four terminals are needed for that, two more than the run has; the
  proof is what showed it.
* `RunConfirmed`: the guard asks for the tag without opening the session, and goes
  by the profile's name when it gets no answer (`blind`); with auto-open the
  run then gets the secrets all the same.
* `SecretsRedacted`: across a tail the timer gave out (`cuts`).
* `PillTrue`: the profile was changed while secrets were on their way
  (`crossed`); the answer is then shown under the new name until the next one.
* `OneTab`: the first tab was silent for 6 s, or the server was started anew
  (`lapsed`).
* `MarkedIsMeant`: a variable was exported by hand (`byHand`).

### Known divergences

These formulas state what a document or comment of the repository says; TLC
refutes each within seconds when it is given to the named module in place of the
run's properties.

| Formula | Instance | What happens |
|---|---|---|
| `DaemonSessionProps!IdleStopOnlyLocked` | `session` | `daemon.go:380`: idle termination is for an "expired/locked daemon".  The ticker sees a locked, idle daemon and gives up `d.mu`; an `open` is handled; the ticker calls `Stop`, which wipes the new session. |
| `HotReload!ReloadAnswered` | `reload` with `PipeBuffer = 1` | README.md:651 promises reloads "via kernel pipe state handoffs".  The vault is encoded into a pipe nobody reads until the child exists, and the child is started after the encoding: a vault larger than the kernel's buffer blocks the handler, with `d.mu` held. |
| `HotReload!ClearSticks` | `reload` | A `clear` that waited for `d.mu` is acknowledged by the parent; the child restores the session from the pipe. |
| `HotReload!AckedWriteKept` | `reload_race` | A `set` handled after the snapshot is on disk; the child later writes the older value back. |
| `SecretHistory!FiledVersionsKept` | `history_versions` with `MayCopy = TRUE` | A is set four times and copied to B, which leaves both with one array that has a free cell; a set of each files version 4 in it, and a rollback of A restores B's data. |
| `SecretHistory!FiledVersionsKept` | `history_versions` with `Map <- Maps`, `Meta <- TwoMetas` | After a rollback the entry and the filed version hold one metadata map; a relabel changes both. |
| `DaemonLifecycle!OneServing` | `lifecycle` | CHANGELOG.md:207 says the lock prevents several daemons of a profile; see `OneUnlessUnnamed` above. |
| `ClientCommands!MergeKeeps` | `clients` | The changelog calls `restore --merge` non-destructive.  If the request for the keys that are there is refused, everything is restored; a key set after it is overwritten. |
| `GuiServer!LaunchServes` | `gui` | README.md:197: a launch clears the instance that runs.  It posts `/api/shutdown` without the launch token, is refused, and cannot bind. |

### Bounds, and why they are enough

* `session`: two connections (the most a race between admission, wipe and
  handling needs), two keys (the vault's and another), a clock of five values, TTLs
  that are zero, shorter and longer than the grace window, two sessions (the token of
  the first against the second).
* `reload`: two paths and one value, a pipe that takes the whole vault, two
  waiting connections, one reload.  `reload_race` has two values.
* `history`: `Limit` is 2 instead of 10.  Versions up to 6 take the array
  through every regime: growth from capacity 1 to 2 to 4, an append in place
  behind a cut, a second move to a new array.  A third array is the fresh one
  beside two in use.  `history_versions` has two values and no maps (without a
  shared map they behave like the value).
* `lifecycle`: two terminals with different programs (so that an upgrade evicts),
  three daemons of which one serves at the start, one look for the socket.
  Two daemons that start and one that stops are what every race of a path
  with its owner needs.
* `vault`: one terminal runs any command, the other `open` or `restore`; the
  default profile is complete, the other one is new or of version 1; one entry
  besides.  Two writers beside the two daemons give every overlap of a
  read-replace with another; which entry it is does not matter.
* `clients`: two users, two profiles of which one is production, two keys and a
  file of two variables that share a path, three commands between them, one session
  opened by somebody else, one client with auto-open.
* `redact`: three characters of which one is trimmed; secrets of three and four
  characters that overlap themselves and each other, one too short; five
  characters in writes of one or two.
* `gui`: two launches, two tabs of one browser and another browser, two
  profiles, two requests on their way.
* `workspace`: a root and two projects below it, two edits, four files that
  differ in everything the rules look at (default, legacy profile, an environment
  without profile, an alias that is also a profile).

`CHECK_DEADLOCK FALSE` stands where the system may stop: at the bound of the
clock, of the commands or of the text, and when all processes have ended.

### Fairness

`DaemonSession` assumes weak fairness of the ticker's two steps and of the exit
after `Stop`: the ticker is a goroutine that `time.NewTicker` wakes for as long
as the process runs, and `Start` returns when its listener is closed.
`HotReload` assumes it of the handler, the child, the main goroutine and the
exit; `DaemonLifecycle` of a daemon's two threads and ticker and of a command
that has begun: goroutines and processes that the schedulers run.
`RedactStream` assumes it of the timer and of its callback, `GuiServer` of the
heartbeat of a page that is there (an interval timer, throttled perhaps but not
stopped).  No fairness is assumed of users, signals, the clock, the child of a
run, or of a tab being closed; a reachable daemon may be busy for ever.

## 4. What is proved

Every theorem holds for all values of the constants that satisfy the named
assumptions of its module (which TLC evaluates on the instances).  Each rests on
an inductive invariant: the property alone does not say enough about the state
before a step to survive it.

`DaemonProofs` is about a profile's daemon, its session and its secrets.

Of `DaemonSession` it proves `IInv`: type correctness,
`SessionWhole`, `KeyMatchesVault`, `ConfirmationNotInherited`,
`StaleTokenRefused`, and that `issued` bounds `sessionToken` and `revoked`.  The
parts need each other: a request acts on the session it finds whole, and a token is
stale only against the bounds of those that were issued.  From it follow the
action property `VaultKeyStable` and the refinement `ImplementsPromise`:
every step of the daemon is a step of `SessionPromise` or none of its business,
by a lemma for each class of requests that says what it does to the deadline
(`DeadlineIsExpiry` is where the later of two times becomes one).

Of `SecretHistory`, `DaemonProofs` proves `HistoryContiguous` and type correctness
for any number of paths and any limit, copies included (its `Init`, `Next` and
`TypeOK` have the prefix History because both modules are extended there).  What
`HistoryContiguous` lacks is `InStep`: entries that share an array agree on which
version belongs in which cell, so that an append in place through one of them
writes, into a cell another one can see, a version of the number it expects there.
`FiledSound` and `StoreSound` carry it through an append and the collection of
unused arrays, and each operation on an entry is an instance of them.

`VersionsImplemented` is the refinement of `SecretVersions`, under the two conditions
its run has: nobody calls `copy`, and metadata is all alike (`Meta = {NilMeta}`; with
metadata that differs the refinement is false, see the known divergences).  It
needs one more invariant, `Apart`: no two entries lie in one array.  `FiledCells`
says where append puts things, in the array or in a fresh one, cut or not, and
`FiledView` that what is read there is the old history with the replaced state
behind it and, past the limit, without its oldest version.  `FiledOthers` and
`ViewAlike` say that no other entry shows it.  Each operation is then one of
`SecretVersions`: a filing (`FilingRefines`), an entry without a history
(`PlainRefines`), a change of fields (`FieldsRefine`), a move (`RenameRefines`) or an
erasure.

`HotReloadProofs` proves that only the holder of the lock listens and that a child
serves what it restored, from `HandoffInv`, which says who holds the lock at each
place of the handler, the child and the rival.

`DaemonLifecycleProofs` proves, for any number of terminals and daemons (with
`Build` defined on the clients and a positive `MaxPolls`), that two daemons serve at
once only after a lock path was removed, and that the evicted are gone when their
successor is started.  `IInv` adds to type correctness: daemons past `flock` have one
and the same lock file as long as nobody removed a path (`SameFile`), each of
them holds the lock on its file (`LockHeld`), and the daemons a client has listed
and killed are dead (`Swept`).

`ClientCommandsProofs` proves, for any number of users, profiles, keys and
variables, that what was acknowledged is kept, that a migration writes
placeholders only for values it has saved, and that runs with production secrets
were agreed to.  Its invariant has five parts.  `CommandsOK` says what
a command carries from one request to its next (`Fits`): a key and an entry, a
backup, a position in the file.  `EntriesOK` adds to `AckedKept` that a path
without an entry has no notes, which a set of a new entry needs.  `SessionsOK` adds
that a session is confirmed only for a profile in `consented`, because a
run that finds it confirmed asks nobody.  `Granted` is `RunConfirmed` one
step earlier, when the guard has let the run pass and it has no secrets yet.
`FileOK` says of a migration on its way that the variables before its
position are saved, and that the contents it has read differ from the
file's first ones only where a variable was saved: two migrations may each have
read what the other one left.  Requests change entries in five ways (`PutKeeps`,
`ReplaceKeeps`, `RenameKeeps` and what follows from the first one), and a command
waits, goes on or ends (`WaitStep`, `GoOnStep`, `DoneStep`); most actions
combine one of each.

`GuiServerProofs` proves, for any number of launches, browsers, tabs and profiles,
that the cookie of the process that serves is in one browser, that a page names
the profile whose secrets it shows, and that two tabs show secrets at once only
after one of them was silent or its server was replaced.  `CookiesOK` says that one
process has the port and that nobody has its cookie while its token is unused.
`PagesOK` says that a tab that shows secrets, and was neither silent nor left
behind, has the lock and was heard of (`Holder`), and that the secrets it shows or
waits for are those of the profile it names, unless an answer crossed a change
(`TabOK`).  `FlightOK` is the types of the answers on their way.

`WorkspaceProofs` proves, for any tree of directories, any written configurations
and any number of edits, that a switch holds and that the mark is what a command
is about.  All a step must remember is `Followed`: a command without flags was
about what the variables and the workspace still say (`ByShell`), as both are
untouched since; and `Tidy`: a shell without an environment has no profile but one
exported by hand.  That a command is about a profile at all (`TypeOK`) needs that
`Normalized` makes a configuration that fits of any that is written, for which its
default, the first of the sorted aliases, must exist (`LeastOf`).

`VaultFileProofs` proves, for any number of terminals, daemons, profiles and
entries, that nothing acknowledged is gone, that a profile keeps to one key, and that
replacing a vault takes slot and summary over.  What a process does with a vault
file it does from a copy made some steps before, so the invariant is about jobs
on their way more than about files.  `PlacesOK` says what a job has in hand for
its next step and for the one after a replacement (`Fit`, `Placed`), and that an
envelope made from a file takes over what it must (`Takes`).  `FiledOK` says that
the file seen when it was filed is among the snapshots until it is replaced.
`OneKey` collects every key of a profile, those in use in vault, item and daemon
and those a job will use (`InUse`, `Carries`), and says they are one, unless the
profile strayed; a fresh key does not count until it is added (`Unsettled`), and the
client that adds it finds no other (`FirstKey`).  `SlotsOK` is `KeysAgree`'s
part about slots, extended to snapshots and to envelopes on their way.
Most steps are one writer's and are instances of `GoesOn`, which asks what the
writer's new job is and leaves every other job alone; a rename and an eviction
disturb other writers (`AllGoOn`).  `KeysAgree` was first stated without its
condition on the default profile, and the proof of `restore` failed: no
invariant says which profile a snapshot under "default" is of.

`RedactStreamProofs` proves, for any alphabet, any finite set of secrets and any
writes, that no text is lost, doubled or moved, that the buffer stays shorter
than the longest secret, and that a secret is shown whole only across a tail the
timer gave out.  `SecretsRedacted` speaks of secrets that were shown to their end,
and a step completes one that an earlier step began; so `NoneOpen` speaks of those
that began in what was shown and agree with it and the buffer as far as they go
(`Begins`): the timer has cut each of them.  It holds because of two facts about
the text functions.  `Redacted` changes marks only and leaves no secret whole
(`RedactedHides`: what one secret's turn has hidden no later turn shows again), and
what `Held` keeps back reaches to the first character from which a secret may still
become whole (`HeldBack`).  `Timely` and `Buffered` bound the
callbacks and the buffer by what the child wrote.

Only model-checked: everything under fairness (`Converges`, `ClientFinishes`,
`PromptShown`, `DisplacedLearns`, `ExpiredSwept`, `DisplacedEnds`, `ParentEnds`),
because the prover has no rule for fairness.  `KeyMatchesVault` is only
proved: TLC checks `VaultKeyStable`, which is about the same hazard.

## 5. Not modelled

* Cryptography, key derivation, the word list and mnemonics: functions without
  state.
* macOS: keychain access and Touch ID prompts, process inspection.  They enter as
  nondeterministic choices (a refused prompt, a lost keychain item, a peer that is
  remote controlled).
* Operations on a prefix: rename, copy and delete of several entries range over a
  Go map that they change, so which entries they visit is any choice the language
  allows.  `SecretHistory` has them for one path.
* Profiles that extend another one: `get` and `rollback` fall back on the parent's
  entries.  Access counts and the expiry of leases.
* The migration of legacy backups (`snapshot.go` 78-150), which runs once over a
  directory that no current version writes.
* `ExtendSession`, which repeats `extend` for callers in the process.
* The list of databases and the markup of the GUI; flag aliases and ssh targets of
  a workspace; `env-file`, templates and the ephemeral ssh agent of `run`.  With
  auto-open outside a terminal, a command for `default` opens the workspace's
  profile as well and keeps that one's token; `ClientCommands` opens one profile.
* Formats (KDBX, JSON, dotenv), command-line parsing, help, completion, generated
  shell and skill files; the audit scanners and reports, which only read.
