# TLA+ models of multi-account-tool

`mat` (package `multi-account-tool`, sources under `src/src/`) moves the
credentials of AI command line tools between named profiles.  The data it moves
exists once: a token that is overwritten before it was stored somewhere is a
lost login, and a token stored under the wrong profile is a login to the wrong
account.  What protects it is file system protocols: locks made of directories,
multi-file captures with a marker, restores with a rollback, a pointer in
`config.json`, directories of sessions that outlive their owners.  Those protocols,
their crashes and their interleavings are what this directory models.

Paths such as `lockfile.ts:323` are below `src/src/core/` unless they say
otherwise.

## 1. Inventory

### 1.1 Components and their state

| component | source | state | operations | hard behaviour |
|---|---|---|---|---|
| CLI mutation lock | `lockfile.ts`, `cli-mutation-lock.ts` | `locks/<cli>.lock/info.json`: pid, token, metadata | acquire (two attempts), finalise metadata, release, reclaim a dead holder | crashes in every file operation, recycled pids, two reclaimers, the gap between `mkdir` and `info.json` |
| recapture lock | `lockfile.ts:508-557` | `locks/recapture/<cli>/<profile>.lock` | poll until a deadline, give up, go on without | a waiter that times out against a holder at work |
| profile capture | `profile-store.ts`, `switcher.ts:68-155` | stored files, `meta.json`, staging, backups, marker | create, stage, commit, recover, discard, rewrite, rename, delete | kills and failures between any two file operations, in the recovery too |
| switcher | `switcher.ts` | live credentials, stored credentials, active pointer, `startsLoggedOut` | switch, switch to a new logged-out profile, capture, restore with rollback | a fault in the middle of a restore, tokens that rotate, sequences of operations |
| mat exec | `exec.ts` | target and previous profile, in memory | swap, child, recapture, switch back | the child rotates tokens; each of the four phases may fail |
| configuration | `config.ts`, `io-atomic.ts` | `config.json`, temporary files | `mutateConfig`, cleanup at start | several processes, kills, cleanup against writers |
| TUI flows | `src/src/app.tsx`, `src/src/app/state.ts` | screen stack, the state the screen was drawn from | switch, recapture, discard, create, rename, delete, first import | dialogs acting on what was true earlier |
| sessions | `session.ts`, `session-cli.ts` | session directory, `session.json`, child pid | preflight, plan, copy, run, recapture in two phases, stop, reap | two sessions of one profile, pid reuse, timeouts that do not cancel, files replaced while they are copied |
| freshness | `freshness.ts`, `freshness-adapters/` | none | classify live against stored, aggregate, route | files read one by one while the CLI writes |
| profile identity | `profile-identity.ts` | `identity` in `meta.json` | write down the account of a capture | what a capture did not find any more |
| credential sources | `sources.ts`, `pinned-write.ts`, `pinned-remove.ts`, `path-identity.ts` | files, keychain items | read, write, remove, exists | a path swapped between check and use; delete then add |
| live resources, definitions, plugins | `live-resource-guard.ts`, `builtin-live-resources.ts`, `cli-defs.ts`, `cli-defs-plugin.ts`, `goose-provider-cache.ts` | the table read at start | load, validate, gate every access | two spellings, links or inodes of one file |
| directory sources | `directory-source.ts` | tree, stage, backup, marker | read, write, remove, exists, recover | a failure or a kill at every step, in rollback and recovery too |
| OS keyrings | `os-keyring.ts`, `windows-credential-manager.ts` | entries of the Secret Service, the Credential Manager | lookup, store, delete, put back | commands that time out after they took effect |
| environment secrets | `env-secret*.ts` | entries of the Secret Service | prepare an environment; store, update, delete | the caller changes its maps meanwhile; loads fail half-way |
| command runner | `run-command.ts`, `timeout.ts` | one child, two timers | run | timer against exit against output |
| migration | `migrate.ts` | none | one rename at start | none |
| hard stops, evidence | `amp-config-hard-stop.ts`, `copilot-*.ts` | none | predicates over documents | none |
| reports and screens | `doctor.ts`, `status.ts`, `support.ts`, `audit.ts`, `ui/`, `i18n/`, `cli.tsx` | none | format | none |

### 1.2 How they interact

* Every operation of the switcher, of exec and of the TUI runs inside
  `withCliMutationLock` of its CLI.  A nested call finds the lease in the async
  context and does not acquire again (`cli-mutation-lock.ts:57-62`).
* The switcher captures with the profile store's transaction and moves the
  pointer with `setActiveProfile`; it reads and writes live credentials through
  the sources, which ask the guard of live resources first.
* Exec is a switch, a child, a capture and a switch back, under one lease.
* A screen inspects freshness before it takes the lock, shows a dialog, and
  compares the active profile with the one it showed once it has the lock.
* A session that ends captures under the recapture lock, not under the CLI lock.
  A session that starts reaps the orphans of others first.
* All small files are written by `writeFileAtomic` (temporary file, rename).
* The managed CLI is outside all of this: it logs in and rotates tokens when it
  likes.  So are the programs that change files, links and keyring entries.

### 1.3 What makes each component correct

* Locks: one holder; the holder keeps it; a dead holder is announced, and never
  locks the others out; a waiter ends.
* Capture: what a later recovery yields is a complete old or a complete new set;
  the reported outcome is the real one.
* Switcher: the current token of every login the user did not give up is live or
  stored; a profile never gets the login of another account; restores are all or
  nothing.
* Exec: it comes back.
* Configuration: no update is lost; the cleanup removes leftovers and nothing
  else.
* TUI: a decision is carried out on the state it was made for, or refused.
* Sessions: a child starts with the credentials of its profile and no others; its
  directory holds what its definition says; what it gives back replaces the
  credentials of the profile as one set and is recorded truly; a live session is
  never reaped and an orphan always is.
* Sources: a write replaces what was reviewed and nothing else; whatever happens,
  the caller is told what became of it; a resource has one owner.
* Secrets: a command gets all of its secrets or none, and no secret is read for an
  environment that is refused.
* Freshness: no report that lets a switch go on hides another account.

The hazards behind these, with their lines and the properties that cover them, are
in `PROJECT.json`.

## 2. Modules

| module | models | composed with |
|---|---|---|
| `MkdirLock` | the steps both lock protocols share, one file system call each | |
| `CliLock` | `acquireCliLockLease`, `finalizeLease`, `handleConflict`, `runWithLease` | extends `MkdirLock`, implements `AbstractLock` |
| `AbstractLock` | a lock as its callers see it: a grant while nobody holds it | |
| `RecaptureLock` | `acquireRecaptureLock`, `waitLoop`, `classifyAndAct` and the caller's `finally` | extends `MkdirLock` |
| `ProfileCapture` | `snapshotLiveToProfileUnlocked` with `commit...` and `recoverProfileCaptureTransaction`, one file operation per step | implements `AbstractProfile` |
| `AbstractProfile` | a profile whose artifacts change as one set | |
| `Switcher` | the operations of `switcher.ts` over live and stored credentials | uses what `ProfileCapture` shows: a capture that succeeds is one step, one that fails or is killed leaves a part of its artifacts and a marker |
| `Exec` | `runExec` | extends `Switcher` |
| `ConfigStore` | `mutateConfig`, `saveConfig`, `cleanupTmpFiles` | |
| `TuiFlows` | the reducer, the dialogs and the operations behind them, in several mat processes | uses what `Switcher` shows: an operation is one step, except a rename |
| `SessionStart` | the preflight of `session start` and `session run`, the environment of the child | filling the directory is one step |
| `SessionCopy` | `planSession`, `materializeSession`, the copies of shared files and directories | |
| `SessionLifecycle` | one session directory with its owner, child, a reaper and a stop | |
| `SessionRecapture` | `recaptureSession` of several sessions of one profile | uses what `RecaptureLock` shows, implements `AbstractRecapture` |
| `AbstractRecapture` | a session replaces the credentials it still has as one set, at most once | |
| `DirectorySource` | a write of a directory source, its rollback, its recovery, reads, removals and checks | |
| `CredentialVault` | Keychain, Secret Service and Credential Manager entries and the commands that change them | |
| `ProviderFile` | the files of Goose's providers, with the helper process that pins their directory | |
| `LiveResources` | which definition of any list of plugin files may claim a live credential, and the guard before each access | |
| `EnvSecrets` | the environment of a command made from secrets; store, update, delete | |
| `CommandRunner` | `runCommand`: a child, its output and exit, and the two timers | |
| `Freshness` | the comparison of live and stored credentials per CLI, the report, the identity in `meta.json` | |
| `...Proofs` | the TLAPS proofs about the module of that name (`ForegroundProofs`: `ConfigStore`, `SessionStart`, `SessionCopy` and `MCForeground`; `TuiProofs`: `TuiFlows`; `ExecProofs`: `Switcher` and `Exec`; `StorageProofs`: `RecaptureLock`, `ProfileCapture` and `MCStorage`; `SourcesProofs`: `EnvSecrets`, `CredentialVault`, `ProviderFile`, `DirectorySource`, `LiveResources`, `CommandRunner`, `Freshness` and `MCSources`) | extends it |
| `MC...` | the instances TLC checks | |

`MCForeground`, `MCStorage` and `MCSources` put components that share no state
into one run: `part`, chosen in the initial state, tells which of them moves, and
the others stay in one fixed initial state.  Every behaviour is a behaviour of one
component, and the properties of each are checked on all of its behaviours.
`MCProfileCapture`, `MCExec`, `MCConfigStore`, `MCCliLock`, `MCDirectory` and
`MCDialogs` instantiate one component each.

Definitions whose comment begins with `Mutant:` are plausible mistakes in the code
they stand next to (a dropped comparison, a swapped order).  No specification uses
them; `PROJECT.json` names the property that notices each.

### 2.1 Locks

`dir`, `info` and `tmps` are what lies at the lock path: the directory, the token
in `info.json`, temporary files.  A token is a pid and the acquisition it was
made for.  `life` tells whether a pid is used by mat, by nobody, or by a
stranger: `isProcessAlive` cannot tell the first from the last.  `pc` is the next
file system call of a process.  `mkdir`, the two halves of `writeFileAtomic`, the
two halves of `fs.rm`, the probe and the rename are separate steps, so a crash or
another process can come between any two.  A directory that was renamed to its
unique stale name is unreachable through the lock path and is forgotten.

Nothing is assumed about time.  The 200 ms that `probeHolder` waits are meant to
outlast the gap between a live holder's `mkdir` and its `info.json`
(`lockfile.ts:301-304`) and the gap between the `unlink` and the `rmdir` of a release;
nothing makes them do so.  And nothing makes a reclaimer that judged a holder dead
rename the directory before another process has replaced it.  Two history variables
follow this: `judged` has the reclaimers whose verdict was on the directory that is
there now, and `strayed` is set when a probe takes a live holder for absent, or when a
rename takes away another directory than the one that was judged.  The properties say
that these two verdicts are the only way in which the lock can break; `CliLock_aba` is a
trace of the second.

### 2.2 Profile capture

`target`, `stage` and `backup` give the content of the three files each artifact
may have, `marker` the durable transaction record.  A content is the number of the
capture that wrote it, which is all the properties tell apart.  Every `rename`,
`unlink`, `writeFileAtomic` and directory `fsync` is a step that may succeed, fail
before its effect or fail after it.  `recoveryKilled` is a history variable: a
kill hit a process that was inside a recovery.  The state a recovery would lead
to (`Effective`) is the refinement mapping to `AbstractProfile`.

### 2.3 Switcher and exec

A token is an account and the number of its issue per source; only the last one
issued works (OAuth rotation).  The CLI may rotate a token at any step, also while mat
works.  `plan`, `todo` and `op` are the local variables of the running operation.  The
CLI lock makes the operations of one CLI sequential, so there is one operation at a
time, interleaved with the managed CLI and with kills.

A capture that succeeds is one step.  One that fails or is killed leaves what
`ProfileCapture` shows that it leaves: the artifacts before some entry are new, those
after it old, the entry itself may be moved away (`Cut`), and `marker` says what the
next capture will bring back (`CommitStops`).  A recovery that is cut short leaves the
same picture from the other end and may leave a profile that no capture accepts any more
(`RecoveryStops`, `barred`, finding 2); a rollback that is killed after the commit point leaves a
mixture without a marker (`RewriteStops`).  A restore reads the files as they are, a
capture first recovers them: `Settled` is what it finds then.

`given` collects the logins the user, or the code with a warning, gave up: a switch
that discards the live credentials, a switch while no profile is active (nothing to
save into, `switcher.ts:453-455`), and a switch back of exec after a failed capture
(`exec.ts:284-288` tells the user).  Two more history variables mark what the code does
not provide for.  `adrift` remembers that live is what does not belong to the active
profile (`Separates`): after a kill during a restore, a rollback that failed too, a
`config.json` that could not be written (finding 4), or a restore that did not find an
artifact a killed capture had moved away (finding 3).  `outrun` remembers that the CLI
rotated a token after the snapshot that was to save it and before the restore that replaces
it: mat reads a source once and cannot notice.

### 2.4 Configuration

A call of a setter is a load, the write of its own temporary file and the rename.
The value of an entry is the call that set it.  A process waits for a call before it starts
the next one, unless the entry is `Detached`: the onboarding flag is set by a call that
nobody waits for (`app.tsx:694`).  `unseen` has, for a call that holds a copy of the file,
the calls that saved after it had loaded.  The cleanup lists the directory
when a process starts and then looks at one file at a time.

### 2.5 Screens

Each process has its stack of screens, what it loaded last (`data`) and the
promise it waits for (`work`).  A dialog carries the active profile it was drawn
with; an operation takes the lock, compares it with `config.json` and is carried
out in one step, which is what `Switcher` and `ProfileCapture` justify.  Only a
rename is taken apart (directory, `meta.json`, pointer), because a kill between
its parts is what makes the pointer dangle (`dangling`).  `consented` collects
the accounts an operation gave up by the name a user agreed to: the ones stored
under that profile, or live, at the moment it is carried out under the lock.

### 2.6 Sessions

`SessionStart` decides: arguments of aider as the sequences of pieces an
abbreviation may stop at, variables by the tables that name them, files that lead
elsewhere by the place that is searched and by what they hold (nothing, clean, or
a bypass).  Other programs change files and the profile between the checks and
the start.

`SessionCopy` fills: a file has an inode, a size and a kind, and a copy is its
`lstat`, the check of where it leads, `open`, `fstat` and read, each a step
between which entries are replaced or grow.  Half of it is the plan: definitions
that overlap, escape or claim a credential twice are refused.

`SessionLifecycle` follows one directory: `session.json` and the owner's own copy
of it, pids that are `"up"`, `"dead"` or `"reused"`, start signatures that `ps`
may fail to report, a clock against the two ages of `reapOrphans`.  A reaper and a
stop go through their reads, classifications and removals step by step while the
owner, the child and the recording of its pid go on.

`SessionRecapture` ends several sessions at once.  The lock is one variable here
(held, or not to be had); backup, stage, commit, identity, compare and restore
are steps per credential, and a step that timed out may land later.  `tainted`
marks the histories the code makes no promise about: a recapture without the
lock, a kill half-way, a failed restore.  When the recapture is over the process may exit
(`ExitMat`, `cli.tsx:222`) with writes under way that had timed out: one that has landed is
then not removed any more, and `leaked` remembers the session.

### 2.7 Sources

`DirectorySource` runs the sequence of steps of a write, of its rollback or of a
recovery as a `plan`; each step may fail or be the last one before a kill.  A write may be
of any tree, also of the one that is live (the rollback of a restore is,
`switcher.ts:311-316`).  `undecided` remembers that a rollback or recovery of such a write
was interrupted when only the live tree and the marker "prepared" were left (`Twin`),
which the next recovery takes for something else (finding 6).  What the reviews of parents
and trees look at is a step that may refuse.

`CredentialVault` has one set of entries and the commands of three backends.  A
command may fail before or after its effect, `late` marks the second.
`ProviderFile` gives directories and files identities, so that a review, the
helper's working directory and the path may come to mean different things.
`LiveResources` does the same for spellings, places and inodes.
`EnvSecrets` interleaves the preparation of an environment with the caller's
changes to its maps and with other calls; `CommandRunner` delivers the events of
Node in any order the streams and timers allow; `runCommand` decodes each chunk by
itself, so a character that two chunks share arrives as two U+FFFD, which a caller can
see in the reply but not in `outputTruncated`.

`Freshness` compares documents whose fields are absent or have a value, with the
rules of each adapter in their order, reads the files of a CLI one by one while
the CLI writes, and follows the report to what the screens, `mat freshness` and
the next capture do with it.  `Signals` is what a capture fingerprints of a file, per CLI,
which is not what the comparison looks at: the names of the provider keys of Goose are
matched by one pattern here and by another there (`profile-identity.ts:71`,
`goose.ts:79-103`), so a document has a `key` that both know and a `host` that only the
fingerprint counts.

## 3. Runs

| run | instance | result |
|---|---|---|
| `CliLock_strays` | 3 processes, any timing, failures, recycled pids | `IInv`, `ExclusiveUntilStray`, `LeaseIntact`, `WarnsBeforeDrop`, `ImplementsAbstractLock`, `OrphanRecovered` hold |
| `CliLock_aba` | the same without failures | `MutualExclusion` is violated (finding 1) |
| `Storage` | 3 recaptures of 2 rounds at one lock; 2 captures of 2 credentials and `meta.json`, 2 kills and 2 failing operations | `LeaseIntact`, `ReachesCommit`, `CommitRecoverable`, `ImplementsAbstractProfile`, `OutcomeTruthful`, `NeverSplit` hold |
| `ProfileCapture_recovery_killed` | 2 captures, 2 kills | `Recoverable` is violated (finding 2) |
| `ProfileCapture_restore_reads` | 2 captures, 1 kill | `ReadersSeeWholeSet` is violated (finding 3) |
| `Exec_faults` | 2 profiles, 2 accounts, 2 sources, 2 tokens per account and source; together 2 faults, kills (at most 1) and rotations, each at any step | `LoginsSurvive`, `SnapshotKeepsAccount`, `ExecComesBack`, `LoggedOutIsEmpty`, `RestoreAllOrNothing` hold |
| `Exec_pointer` | the same with 1 fault and no kill | `LoginsSafe`, which is `LoginsSurvive` without its condition, is violated (finding 4) |
| `ConfigStore_concurrent` | 2 processes, 3 calls, one entry that nobody waits for | `NoLostUpdate` is violated (finding 5) |
| `Foreground` | screens: 2 processes, profiles and accounts, 2 operations, 1 failure or kill; configuration: 2 processes, 3 calls, one entry that nobody waits for; recapture: 2 sessions, 2 credentials, 2 troubles; lifecycle: 3 ticks, 2 mishaps; start: 2 changes outside; copy: 2 changes, 1 failure | `ProfilesWellNamed`, `LoginsKept`, `CleanupExact`, `UndoneByOverlap`, `ProfileRecords`, `ImplementsAtomicRecapture`, `WritesUnderLock`, `SessionRecords`, `LiveSessionsSpared`, `OrphansReaped`, `StartIsolated`, `SessionHolds`, `StartAllOrNothing` hold (3.5 million states) |
| `Sources` | directory: 2 trees, 3 writes, 1 failure, 2 deaths; vault: 3 backends, 2 accounts, 2 values, 2 command faults, 1 change by others; provider file: 2 swaps, 2 upsets; plugins: 2 files, 2 free spellings, 2 changes; secrets: 1 verb, 1 fault, 1 late change; command: 3 characters; freshness: 9 kinds of credentials, one stored and two live values of a field, 2 writes | `OthersKept`, `AnswersTruthful`, `OwnersSettled`, `EnvironmentExact`, `FreshnessHonest` hold (4.9 million states) |
| `Directory_repeat` | directory sources alone: 2 trees, 2 writes, 1 failure, 1 death | `TreeKept` is violated (finding 6) |
| `Dialogs_return` | screens: 2 processes, 3 operations, no failure | `DiscardsWhatWasShown` is violated (finding 7) |

Each of the passing runs also checks the type invariants of its modules.

### 3.1 What the properties say

* Locks.  `ExclusiveUntilStray`, `LeaseIntact`: one holder, and `info.json` is its own,
  until a verdict strays (2.1).
  `WarnsBeforeDrop`: the trace of a dead `mat exec`, which names the profile whose
  credentials may still be live, goes away only after its warning.
  `OrphanRecovered`, `ReachesCommit`: nobody is locked out for ever.
* Captures.  `ImplementsAbstractProfile`: what a recovery yields changes as one set,
  however often captures and recoveries are killed.  `CommitRecoverable`: the
  recovery never finds an entry without what it needs.  `OutcomeTruthful`,
  `NeverSplit`: the outcome told is the real one, and no split is silent, with failing
  operations and kills in one behaviour, but for one case that is named: a kill while the
  rollback of a commit writes the prior values back.
* Switcher, exec.  `LoginsSurvive`: the current token of each login not given up is
  live or stored, until what is live does not belong to the active profile (`adrift`) or the
  CLI has outrun a snapshot (`outrun`).  `SnapshotKeepsAccount`: no snapshot, killed or not,
  stores one account in the profile of another.  `RestoreAllOrNothing`, `LoggedOutIsEmpty`, `ExecComesBack`.
* Configuration.  `UndoneByOverlap`: an entry is undone only by a call that overlaps the one
  that set it, of another process or of one nobody waits for (`NoLostUpdate`, without that
  exception, does not hold).  `CleanupExact`: the cleanup spares files of live
  writers and, when it is done, has missed none of a dead one.
* Screens.  `LoginsKept`, `ProfilesWellNamed`: what another process did between a
  dialog and its answer costs nobody a login, and leaves no pointer to a profile
  that is gone.  A login counts as given up when the user agreed to give up what is
  live, or what is stored, under the names of the dialog: the code compares names,
  and `DiscardsWhatWasShown`, which compares logins, does not hold.
* Sessions.  `StartIsolated`: a child gets its credentials from its profile only,
  whatever its environment, arguments and files say.  `SessionHolds`,
  `StartAllOrNothing`: the directory holds what its definition says, or does not
  stay.  `ProfileRecords`: `meta.json` has the fingerprints of the values that are
  stored, and a staged credential is left behind only by a process that was killed, that exited
  before it had removed it, or whose removal failed.  `ImplementsAtomicRecapture`,
  `WritesUnderLock`: sessions do not mix.  `LiveSessionsSpared`, `OrphansReaped`,
  `SessionRecords`: a live session is spared, an orphan goes, a removed directory
  does not come back.
* Sources.  `OthersKept`: a write or removal takes nothing but what it was meant
  for, up to a tree that was written over itself (`undecided`).  `AnswersTruthful`: success, absence and failure are real.  `OwnersSettled`:
  one owner per resource, and no refusal without a reason.  `EnvironmentExact`:
  all secrets or none.  `FreshnessHonest`: no report hides another account, and
  `meta.json` tells the account of what is stored.  Two exceptions are named in it: the mode
  of Codex, which names no account, and provider names of Goose that only the fingerprint
  counts.

### 3.2 Bounds and why they are enough

* Three processes at a lock give a dead holder, a reclaimer that acquires and a
  second reclaimer or late comer: every role the code distinguishes, at once.
  One acquisition each is enough for the CLI lock because a new acquisition
  starts from the state a process that never acquired is in; tokens of earlier
  acquisitions only matter through `info.json`, and the proofs cover any number.  Once a
  verdict has strayed little is said any more, and the run goes on only with a process that
  has not begun left out (`OneLeftOut`): `OrphanRecovered` is checked after a stray verdict
  for two processes, before it for three.
* Two captures give one that creates the profile, or is interrupted, and one that recovers
  what it left; two kills and two failing operations hit the capture, its rollback and the
  recovery in one behaviour.  Two credentials and `meta.json` give an
  entry before, at and after the interrupted one; the proofs cover any number.
* Two profiles, two accounts and two sources give the source that failed, the one
  before it and the one after it, and a wrong account to confuse with the right
  one.  Two tokens make the first one stale.  `MaxFaults` and `MaxKills` bound the
  failures per behaviour; the second fault hits the rollback of the first, or the commit a
  capture had got to.
* Three setter calls on two entries by two processes give a call nobody waits for, one that
  overlaps it and one that starts late; one of the processes may be the one that
  cleans up.
* Two operations of two screens give the one whose dialog is open and the one that
  changes what the dialog showed; `MaxHitches` is one failing step or one kill.
* Two sessions of two credentials give a commit, the failure of the second commit,
  the rollback of the first, and another session that wants the lock or does
  without it.  `MaxTroubles = 2` makes the rollback fail or land late too.
* `OrphanTtl = 1`, `UnknownTtl = 2` and `MaxTime = 3` are the smallest numbers that
  have a time before, between and after the two ages; the proofs cover any.
  `MaxMishaps = 2`: a `ps` that fails and the death of the owner.
* `MaxRewrites = 2` in `SessionCopy`: an entry is replaced, and replaced back by one
  that looks the same; `MaxRefusals = 1` because the first failure ends the copy.
  `MaxShifts = 2` in `SessionStart`: one file and the profile change.
* The sources get three writes, one failure and two deaths for a directory (a death
  may hit the rollback of the failure, its recovery or the recovery of that), two command faults for a keyring (the
  store and its rollback), two swaps for a provider file (away and back), two
  changes of links (two hops).  Two values are what an old and a new credential
  need.
* Characters of one and two bytes against a limit of three bytes give an output
  that fits exactly, one that does not, and one where a later shorter one would
  fit again.
* Two writes of the CLI while it is compared put one file, or both, of a login to
  another account between the reads.

`CHECK_DEADLOCK FALSE` is set throughout: with bounded rounds, captures, tokens,
calls and failures every behaviour may stop with all operations done.  Symmetry is
used for profiles and accounts in `Exec_faults` and `Exec_pointer` only, which check
no liveness.  The `CONSTRAINT` of `Exec_faults` (`Bounded`) counts faults, kills and
rotated tokens together.

### 3.3 Fairness

* `CliLock`: weak fairness of the steps of a live process that has begun an
  acquisition.  Every step is an awaited promise of the event loop; a crash ends
  the obligation.
* `RecaptureLock`: the same, and strong fairness of `TimeOut`: `waitLoop` looks at
  a clock that advances after each round, so it cannot pass the deadline test for
  ever (`lockfile.ts:545`).  A commit owes nobody an end.
* The other specifications state no fairness.  Their operations are finite
  sequences of steps, and the user, the system or the managed CLI may end any of
  them; what has to happen in the end is stated as what holds when a pass is
  over (`OrphansReaped`, `CleanupExact`, `ExecComesBack`).

## 4. Findings

1. **A slow reclaimer breaks the lock** (`lockfile.ts:323`).  Two processes judge
   the same dead holder; the first renames, acquires and publishes; the second
   renames the *new* directory and acquires too.  The rename is atomic, as
   `lockfile.ts:13-14` says, but it names a path and not the directory that was
   judged.  It is one of the two stray verdicts up to which everything else about the lock
   is proved.
2. **A killed recovery cannot be repeated** (`profile-store.ts:353`).  It puts
   the backup of an entry back, whose staged file had been placed already, and is
   killed: the next one finds an entry that existed, without backup and without
   staging file, and refuses for ever.
3. **A restore reads an interrupted capture** (`switcher.ts:273`): only captures
   call the recovery.  What it does to logins is in `Switcher` (`MissesArtifact`).
4. **The pointer lags behind the live credentials** (`switcher.ts:469`): the
   restore is rolled back when a source fails, but not when `config.json` cannot
   be written; the next snapshot stores one account's login in the other's
   profile.
5. **An update of `config.json` is lost** (`config.ts:71`): a comment says that load,
   mutate and save are serialised in the process, and another that several processes do
   not occur.  The onboarding flag is set by a call nobody waits for (`app.tsx:694`), and
   what the user answers in the dialog meanwhile moves an active pointer in the same file:
   the trace is one process.  The README documents `mat exec` in two terminals, with one
   lock per CLI.
6. **A recovery removes a tree that was there before**
   (`directory-source.ts:361`).  A write whose tree is the live one already leaves
   a prepared marker that names that tree.  Its rollback is killed after it removed
   the stage and before it cleared the marker; the next recovery takes the live
   tree for one that the interrupted write had put into an empty place.  Nothing in
   the marker records whether a tree was there.  Two profiles with the same tree lead
   to it, the rollback of a restore that writes back the tree that is still live
   (`switcher.ts:311-316`), and a killed write that is tried again, because the recovery
   at its start makes its tree live.
7. **A dialog is checked by name** (`app.tsx:758`).  A screen that still shows the
   first profile as active asks for a switch while another process has switched to
   the second: the freshness dialog compares the second's live login with what the
   first stores.  The other process switches back, the CLI rotates its token, and
   the user discards what he was shown.  The name of the active profile is the one
   the dialog had, so the discard goes on and gives up a token that is stored
   nowhere, of an account the report was not about.  The comment at `app.tsx:718-726`
   means to stop when the context of the dialog no longer matches.  In the same way a
   profile that was deleted and made again, or renamed, is the one the user
   confirmed as long as it has the name.

Observations without a run, where a comment and the code differ in a way that
costs no credential, or where the code leaves a choice open:

* A login of Gemini to another account always shows as `inflight`
  (`aggregateInflight`: one file rotated, the other stale), and then the screens
  only say "try again" (`app.tsx:678`), while `freshness.ts:395-396` says that the
  dialog lets the user decide.
* A provider of Goose that is replaced by another one (`OPENAI_HOST` by `OLLAMA_HOST` in
  `goose-config.yaml`, `DATABRICKS_HOST` new in `secrets.yaml`) is reported as a rotation of
  medium confidence (`goose.ts:261-266`), while the provider fingerprint that a capture
  writes differs (`profile-identity.ts:312-313`).  `ReportHonest` names the exception.
* A stage that timed out and lands before `mat session` exits is not removed
  (`session.ts:873-884` never runs once `cli.tsx:222` has), and no sweep looks for its
  `.recap-*` file.  `LateStageCleaned` names the exception.
* Two documents of Codex with the same API key are fresh whatever else differs;
  an account id of OpenCode on one side only counts as a rotation.
  `FreshnessHonest` speaks of what both sides record.
* A plugin's file is compared by the fallback, which knows the names of tokens: when
  it finds one, no other key counts (`guessed` in `ReportHonest`).

## 5. Proofs

All theorems are proved for every value of the constants: any number of
processes, sessions, credentials, captures, kills and failures.  What they assume
beyond the `ASSUME`s of the modules is in the third column.

| module | theorem | under | states |
|---|---|---|---|
| `CliLockProofs` | `TypeCorrect` | | `[]TypeOK` |
| | `Invariance` | | `[]IInv` |
| | `Safety`, `Lease` | | `[]ExclusiveUntilStray`, `[]LeaseIntact` |
| | `Announced` | | `WarnsBeforeDrop` |
| | `Refinement` | | `CliLock` implements `AbstractLock` |
| `StorageProofs` | `RecaptureTypeCorrect` | | `[]TypeOK` of the lock |
| | `RecaptureLease` | | `[]LeaseIntact` |
| | `CaptureTypeCorrect` | | `[]CaptureTypeOK`, whatever fails |
| | `CapturesRecoverable` | | `[]CommitRecoverable` |
| | `CapturesWhole` | | `ImplementsAbstractProfile` |
| | `OutcomesTruthful` | | `[]OutcomeTruthful`, whatever fails and is killed |
| | `CapturesNeverSplit` | | `[]NeverSplit`, whatever fails and is killed |
| | `StorageTypeCorrect` | | `[]StorageTypeOK` |
| `ExecProofs` | `ExecTypeCorrect` | | `[]ExecTypeOK` |
| | `LoggedOutEmpty` | | `[]LoggedOutIsEmpty` |
| | `RestoresWhole` | | `RestoreAllOrNothing` |
| | `NoLoginLost`, `AccountKept`, `ComesBack` | | `[]LoginsSurvive`, `SnapshotKeepsAccount`, `ExecComesBack` |
| | `OneFailureLosesNothing` | at most one fault, none of `config.json`, no kill | `[]~adrift /\ [](~outrun => LoginsSafe)` |
| `TuiProofs` | `TuiTypeCorrect` | | `[]TuiTypeOK` |
| | `PointersKept` | | `[]ProfilesWellNamed` |
| | `NoLoginGivenAway` | | `[]LoginsKept` |
| `ForegroundProofs` | `CleanupCorrect` | | `[]CleanupExact` |
| | `UpdatesKept` | | `UndoneByOverlap` |
| | `StartsIsolated` | | `[]StartIsolated` |
| | `StartsWhole` | | `[]StartAllOrNothing` |
| | `SessionsHold` | | `[]SessionHolds` |
| | `StartTypeCorrect`, `CopyTypeCorrect` | | `[]StartTypeOK`, `[]CopyTypeOK` |
| | `ForegroundTyped` | | `[]ForegroundTypeOK` |
| `SessionRecaptureProofs` | `RecordsCorrect` | | `[]ProfileRecords` |
| | `CommitsUnderLock` | | `WritesUnderLock` |
| | `RecaptureRefines` | | `ImplementsAtomicRecapture` |
| | `RecaptureWellTyped` | | `[]RecaptureTypeOK` |
| `SessionLifecycleProofs` | `RecordsTrue` | | `[]SessionRecords` |
| | `LiveSpared` | | `LiveSessionsSpared` |
| | `OrphansGo` | | `OrphansReaped` |
| | `LifeTypeCorrect` | | `[]LifeTypeOK` |
| `SourcesProofs` | `EnvironmentsExact`, `VerbsReported` | | `[]EnvironmentExact`, `[]VerbsTruthful` |
| | `SiblingsAlwaysKept`, `VaultAnswers` | | `[]SiblingsKept`, `[]VaultTruthful` |
| | `ProviderKept` | | `[](ProviderPinned /\ ProviderTruthful)` |
| | `TreesKept`, `DirectoryAnswers` | | `[]TreeKeptUnlessUndecided`, `[]DirectoryTruthful` |
| | `RepliesTruthful` | | `[]CommandTruthful` |
| | `OwnersKept` | | `[](OneOwner /\ RefusalsJustified)` |
| | `SourcesKeepOthers` | | `[]OthersKept` |
| | `SourcesAnswer` | | `[]AnswersTruthful` |
| | `SourcesOwned` | | `[]OwnersSettled` |
| | `ReportsHonest` | | `[](ReportHonest /\ IdentityTrue)` |
| | `SourcesHonest` | | `[]FreshnessHonest` |
| | `DirTypeCorrect` to `FreshTypeCorrect` | | `[]DirTypeOK` to `[]FreshTypeOK` |
| | `SourcesTyped` | | `[]SourcesTypeOK` |

One theorem has a hypothesis, `OneFailureLosesNothing`, which is about a single failure.
No other assumes anything of timing, of overlapping calls or of what the CLI does.  What
the code does not guarantee is in the properties instead, as a history variable that
remembers the step after which they say nothing more: `strayed` (finding 1), `outrun`,
`adrift` (findings 3 and 4), `undecided` (finding 6), `leaked`, and for `UndoneByOverlap`
the calls that really overlap (finding 5).  Some properties carry a condition of
another kind: `CommitRecoverable` and
`ImplementsAbstractProfile` speak of steps without a failing file operation
(`faults = 0`, and `~recoveryKilled` in the first, because of finding 2),
`ProfileRecords` and `ImplementsAtomicRecapture` of histories that are not `tainted`,
`ProfilesWellNamed` and `LoginsKept` of those in which no rename ended half-way
(`dangling`).

### 5.1 Locks

`MutualExclusion` alone is not inductive: the steps that could break it are a
reclaim and the removal by a release, and whether they may happen depends on what
is on disk.  `IInv` (in `CliLock`, checked by `CliLock_strays`) says who owns the
directory from its `mkdir` on: there is one owner (`OneOwner`), it has the
directory (`OwnerHasDir`), `info.json` is its own from the moment it published it
(`HolderNamed`), empty in its windows (`WindowEmpty`), and about to be removed only
if its own (`RemovesOwn`).  What makes this inductive without a word about time are the
verdicts: a reclaimer in `judged` judged the directory that is there now
(`VerdictsOnDir`), nobody owns it (`ReclaimsUnowned`), and whom it still names has been
announced (`ReclaimsAnnounced`).  The step that carries the proof is the probe
(`NoOwnerAtProbe`): one that does not stray and finds no live holder finds a directory
that no live process owns.  A rename is of a judged directory or strays.
`StepDir` is the part that holds whatever strays, `StepOwner` the part that holds until
then, with one step per action of the code.  `HoldersStep` shows that an action changes
the set of holders by at most one process, which is the refinement.  `StorageProofs` has
the same argument for the protocol that polls and gives up; a session that went on
without the lock owns nothing.

### 5.2 Captures

`CommitRecoverable` speaks of the moments between captures, the refinement of single
steps; neither says what the files look like while the recovery or the commit is at
its third entry.  `CaptureInv` does, as long as no operation failed: without a
marker there are no backups, and with one each entry still has what tells its value
before the capture, or after it (`Marked`); a profile that is being created has
nothing before its `meta.json` (`Born`); nothing was changed before the marker
(`Staging`); the entries a commit has done hold the new values and those to do
their old ones and their staged files (`Replacing`); the entries a recovery has
done are as before the capture (`Recovering`); and those it will come to have a
backup or a staged file, unless a recovery was killed (`Salvageable`).  Each action
has a lemma `...Keeps`: the invariant survives, and the image that a recovery would
lead to stays as it is.  Two actions change the image: the first `meta.json` and
the seal of the marker, and these are the steps of `AbstractProfile`.

How a capture *ends* when file operations fail is another invariant (`EndingInv`),
because most of `CaptureInv` is lost with the first failure.  It dates the files
instead: `captures` numbers the captures, so a file is of this one or of an earlier
one.  `Dated` says that nothing is newer than the capture and nothing of this one is
in place before the first staged file; `Placing` what is staged and in place between
the marker and its removal; `Undoing` what the rollback of the caller has put back,
unless it met an error, which it then reports as `broken`; `Ended` what the outcome
claims.  `Thrown` says where an exception leads from each call site; the lemmas
`...Ends` follow it operation by operation.  `SplitInv` adds what keeps the entries
together when a kill follows a failure: until the rollback writes, each entry that the
capture has put in place has its backup (`Backed`), and a recovery in the handler of the
commit takes back what it has done or finishes it (`InHand`).  Only `Rewriting` lets the
entries differ: the rollback is writing, or ended as `broken` or `cut`.

### 5.3 Switcher and exec

The safety properties follow from four things (`SwitcherInv`, `Restoring`,
`Belonging`, `Saved`).  All of them speak of the files of a profile and of what its
recovery would bring back (`Held`), because a capture may be cut off anywhere.  `Touches`
is what any capture, recovery, rollback or deletion may do to a profile, finished or not:
every artifact is one it had, one its recovery brings back, or a live one; and it marks
a profile as logged out only if it stores nothing.  `CaptureTouches` and `KillTouches`
show this once for every way of stopping, and the other lemmas need nothing else.

`Restoring` says what is live at each step of a restore, up to tokens the CLI renews
meanwhile (`Renews`): the planned value of every source done, the backup of every other,
and while it is rolled back the backup of every source undone.  `RestoresWhole` is this at
the ends of the two loops.  `Belonging` ties live credentials to the active pointer: what
is live, or while it is being replaced its backup, is of the accounts of the active
profile and not older than what this profile stores or would have restored (`Fits`); and
the files of a torn profile agree with its marker (`Agreeing`).  So a snapshot may write
them over.  `Saved`: between the snapshot and the restore that replaces what is live
(`Sheltered`), every login is in some profile (`Safe`), as long as no token is rotated.

`Belonging` does not survive the four steps after which what is live and what
`config.json` names differ: a kill during the restore, a rollback that fails too,
`config.json` that cannot be written after it (finding 4), and a restore that misses an
artifact (finding 3).  `Separates` is one of these steps, and `adrift` remembers that
there was one.  `OneFailureHeld` proves that there is none with at most one failing
operation, not of `config.json`, and no kill, which gives `OneFailureLosesNothing`.

### 5.4 Screens

Every operation but a rename is one step under the CLI lock, so what matters is what
is true when the lock is taken, whatever the dialogs show.  `TuiTyped` ties the
screens of a process to what it waits for (`Desk`): only "busy" is above an operation
that has begun, only the holder of the lock works, and the question about the first
import is asked when no profile was loaded.  `NamesAgree` extends `ProfilesWellNamed`
to the two states in which a rename may be, and `ActiveIsLive` is the fact that makes the
operations safe: what the active profile stores, also under the name it is just
getting, is the live login or an older token of it.  A snapshot over it
therefore loses nothing (`ActiveSaved`).  `Starts` collects what an operation may
rely on once its checks have passed, `Leaves` what it has to leave, and there is one
lemma per kind of operation (`SwitchLeaves`, `CreateLeaves`, `FreshLeaves`,
`DeleteLeaves`).  That the proof of an earlier `LoginsKept`, in which consent was
given to accounts instead of names, failed at deletions and creations of a name that
another process used again is how finding 7 was met.

### 5.5 Configuration

`CleanupExact` needs that what a process found at its start are files of calls that
are gone and stay so (`LeftoversGone`, `LeftoversListed`).  `UpdatesKept` needs
`Current`: the copy of a call that nobody has overtaken is the file; and `Overtaken`: who
overtakes it is of another process, or one of the two is not waited for.

### 5.6 Sessions

`StartsIsolated`: `StartInv` says which checks a start has behind it (`Checked`,
`FilesLooked`, `Made`), as long as nobody put a file in place after the look.  That the
checks are enough has three parts.  `SearchedLooked`: every place the command searches is
in one of the groups of candidates, with `WalkIs` for the way up to the first `.git`.
`ChildFrom`: which setting of a variable wins.  `ArgumentsHarmless`: an abbreviation that
argparse resolves to a blocked option is refused (`OneReading`, `BlockedFound`), although
the code compares prefixes only and lets `--model` through; it holds for any sequence of
arguments, not only those the runs try.

`StartsWhole`: whose directory it is follows from how far the start has come
(`Ownership`).

`SessionsHold`: the tasks of a copy are a list made once from the definition
(`SharingTasks`, `TwoRootsTasks`, which unroll the folds), and `SumsAre` gives the sum
of the sizes of what is copied.  `HoldsInv` says by the number of the task how far the
copy has come: each credential of a task that is done is there once and none of another
(`CredsHeld`); the files copied from the shared directory are its own, none of them
twice, within the limits of number and bytes (`FilesHeld`); the directories that are open are
nested, and what is copied already is not among what is still pending (`WalkHeld`); a file
that is read has been verified to be one of the directory (`FileHeld`); and as long as
nobody has changed the tree every file of it is copied or pending (`NoneForgotten`).
A copy that has come to the end with
nothing pending therefore holds all of it.

`SessionRecaptureProofs`: `RecordsInv` ties the control state of each session to
what it has done: which credentials are staged, committed, restored, and which of
its operations may still land (`Typed`, `Entered`, `Progress`, `StagedOwned`), and,
as long as nothing is tainted, what the profile stores and records in each phase of
the session that has the lock (`Sound`).  The refinement maps a recapture in
progress to what it would go back to (`Undone`), so the abstract step is the last
rename, after which nothing is undone.

`SessionLifecycleProofs`: what a reaper or a stop knows was true when it read it;
`LifeInv` says which part of it can have changed since.  `Signed` and `Written`
relate `session.json` to the owner and the child, `Reaping` and `Stopping` what a
pass has read and classified to what is the case now (dead pids stay dead, a
recorded child is not replaced, the clock goes forward), `Prompted` which stages
imply that the owner or the child was gone.

`ForegroundTyped`: a step of `MCForeground` is a step of one component and a stutter of
the others (`ForegroundProject`).  What the components need beyond their invariants is
little: the groups of files a start has looked at are those of its CLI (`InGroup`); each
version of a credential and each byte of a file takes another program one of its writes
(`CredsCounted`, `SizesCounted`); a file is counted only after it was found within the
limit of its directory (`FilesCounted`); and the loops of a recapture run inside the part
the lock is for (`LockedLoops`).

### 5.7 Sources

`EnvironmentsExact`: the names of a preparation are distinct and in conflict with
neither map (`Planned`) as they were when it was asked for, and what it has made so far
is the caller's map and the secrets read (`Filled`).  `NoLateConflict` is the step that
needs thought: names may differ in case only, and what earlier secrets put into the map
that is being filled must not stand in the way of the next one.

`CredentialVault`: `Spared` says that without other programs only the entries of two
accounts change, that of the write and that of the backup; `Backed` what the backup is
of and that it can be put back at every stage of a write, from which an answer
that claims a rollback follows: what is stored again is what was there.

`ProviderFile`: the helper lives while mat waits for it or after mat was killed
(`PinInv`), so the review it compares itself with is that of its own call; and while nobody else
acts the entry is the reviewed one until the rename or the unlink (`TruthInv`).

`TreesKept`: `TreeSafe` is what a disk must be for no recovery to lose the tree that a write
replaces, and `RecoveryAt`, `WriteAt` and `RollbackAt` tell for each rest of a plan what
the disk holds.  A write may be of the tree it replaces: its marker then names that tree,
which is harmless while there is a stage or a backup, or while the actor that knows better
is at work.  `Twin` is the disk on which the next recovery cannot know better, and the
invariant is that no operation starts on one (`Certain` up to an existence check of
another process, or the interruption that `undecided` remembers).  An attempt to exclude only writes of the
*live* tree failed in the proof: a write of a tree is killed after the marker, the
caller tries again, the recovery first makes that tree live, and the second write is
then one of the live tree.

`DirectoryAnswers`: `RecoveryDone`, `WriteDone` and `RollbackDone` say what a plan has
done already when a given rest of it is left, so its end has the answer.  It stays true
afterwards because an existence check finds no marker that it would act upon, or one
whose recovery changes nothing (`Answered`).

`RepliesTruthful`: as long as nothing was cut off and no character torn, what has been
collected is what has arrived (`Exact`); a success is settled by the end of the streams,
so what has arrived is then all (`Settled`).  `AppendSize` counts bytes.

`OwnersKept`, for any number of plugin files with any definitions in them: what the loop
over the files has accepted so far claims nothing twice, and is what the report holds
(`Fair`, `AcceptedFair`, by the least file that breaks it); `Unowned` says that a source
without an owner overlaps none.  So a plugin declares no path of a built-in CLI
(`PluginPaths`), the gate exempts it from nothing (`PluginAccess`), and a built-in CLI
that is refused has its path shared or broken (`BuiltinAccess`).  It needs `World`: where
paths lead, a path that leads somewhere leads to a place that leads to itself.

`ReportsHonest`, for any number of values that a field can have: an adapter is a list of
rules of which the first that applies decides (`FirstRule`, spelt out for each list in
`CodexRules` to `FallbackRules`).  What a file can hold is closed under what the CLI
writes (`Held`, `DocsHeld`, `WrittenHeld`), and on any two such documents the verdict of
every adapter keeps what `Honest` promises: a lonely side or another account is stale,
fresh means equal in all that is known, and what cannot be read is stale or of low
confidence (`CodexHonest` to `FallbackHonest`, `CompareHonest`).  `InspectionFits`, the
inductive invariant, says that the verdicts so far are those on the pairs that were read,
whatever has been written since, so the aggregate speaks of what was read (`ReportInv`).
`IdentityBuilt` gives the identity of a capture.

`SourcesTyped`: the types of most sources are inductive with little more.  Two are not.  A plan of
a directory source only ever shrinks to one of the rests listed in `Recovers`, `WritesOn` and `RollsBack`
(`RecoveringLeft`, `WritingLeft`, `RollingLeft`), and a write that gets as far as its marker has a
transaction number within the bound, also when it first had to recover that of another (`Under`, in
`DirHeld`).  What the helper of a provider file renames is what was written into its own temporary file
(`HelperHeld`).

`SourcesKeepOthers`, `SourcesAnswer`, `SourcesOwned`, `SourcesHonest` and `SourcesTyped` follow because a step of
`MCSources` is a step of one component and a stutter of the others (`SourcesProject`).

### 5.8 Only model-checked

Liveness (`OrphanRecovered`, `ReachesCommit`), which needs fairness and ENABLED and is
out of the prover's reach.  Every invariant and action property of a passing run is also
a theorem, under the hypotheses in the table.

## 6. Not modelled, and why

* Contents of credentials beyond what comparisons look at, wording, log lines,
  permissions.
* A directory renamed to a stale name: nobody reads it again.
* What two reads of one live source by the same operation may show (the freshness report
  of a switch and its snapshot, `switcher.ts:456-461`): the report changes nothing.
* The 24 hour limit and recycled pids in the cleanup of temporary files.
* Sessions: the parsers of option texts and of configuration files are predicates;
  the command-only files of OpenCode and aider (`materializeCommandOnlyFiles`) are
  part of the step that fills the directory; `mat session list` and the forwarding
  of signals change nothing that is modelled.
* Plugins: the checks of single fields are one predicate, the table of built-in
  definitions is two of them.
* Migration (one rename at start), diagnostics and reports (read-only), the
  predicates of the Amp hard stop and the evidence packages (no state), the command
  line, layout and wording.

Three hazards have no property:

* `session.ts:861`: a session recapture holds the recapture lock while a switch,
  capture, rename or delete of the same profile holds the CLI lock.  The two locks do
  not exclude each other, and the code promises nothing of what becomes of the
  profile; the components are modelled, not over one profile.
* `session.ts:1697`: a directory that its owner could not remove and whose
  `session.json` cannot be read stays.  `reapOrphans` skips it by design.
* `directory-source.ts:393`: an existence check recovers the transaction of a write
  that is under way, without a lock.  It is modelled; the properties speak of
  histories in which none ran in between (`overlap`).

## 7. Plan

A model in which a session recapture and a switch share one profile
(`session.ts:861`).
