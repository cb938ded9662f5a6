# zfswatch: specification and proofs

zfswatch is a daemon (`zfswatchd`) and a command line client (`zfswatch`) that
import, create, mount, rekey and export ZFS pools on removable disks.  This
directory holds TLA+ modules translated from the Rust sources, TLC
configurations that check them on small instances, and theorems that TLAPS
checks.  `PROJECT.json` lists, for every definition, the source lines it
stands for; paths below are relative to `crates/`.

## Inventory

| component | state it keeps | operations | who calls it |
|---|---|---|---|
| daemon, request handling (`zfswatchd/src/main.rs`) | one task per connection; `Mutex<DaemonState>` with config, key vault, imported pools | accept, `handle_client`, `process_request` (12 requests and an unparsable line), `send_response` | clients, over a Unix socket |
| daemon, start-up | socket file | check ZFS, resolve config, remove old socket, bind | service manager |
| protocol (`zfswatch-core/src/protocol.rs`) | none | requests, responses, event notifications (never sent) | daemon, CLI |
| pool, dataset, encryption managers (`zfswatch-zfs`) | none: a new manager per request | one or more child processes each, awaited in order | daemon |
| command runner (`zfswatch-zfs/src/command.rs`) | a child process and its pipes | `run` | managers |
| ZFS tools and kernel (external) | the pools | `zpool`, `zfs` | child processes |
| configuration (`zfswatch-core/src/config.rs`) | the file | `resolve`, `from_file`, `to_file` | daemon, CLI |
| CLI (`zfswatch/src/main.rs`) | none | prompts, one request (two for `import`), exit code | user |
| USB monitor (`zfswatch-platform`) | known devices, event channel | `start_monitoring`, `stop_monitoring`, `scan_devices` | daemon calls `scan_devices` only |
| secure memory (`zfswatch-keys/src/memory.rs`) | a string and a lock flag; the locks of its pages, in the kernel | `new`, `from_str`, `clone`, `unlock`, `into_string`, drop | key storage |
| key storage (`zfswatch-keys`) | kernel keyring, or nothing | `store`, `retrieve`, `remove`, `list_pools` | created by the daemon, never called |
| doctor (`zfswatch-core/src/prereqs.rs`) | a report | five checks, accumulated | CLI |
| `parse_zfs_size`, `parse_health` | none | parsing of `zpool list` output | pool manager |

How they interact: the CLI writes one JSON line and reads one.  The daemon
spawns a task per connection, so requests of different clients interleave at
every await, and nothing but the kernel serialises their commands: handlers
share the mutex only in `Status` and `ReloadConfig`, and run their child
processes without it.  A request may be several commands (Mount: load-key,
mount, a mountpoint query; ChangeKey: load-key, change-key; ListPools: `zpool
list`, then three queries per pool).

What is hard here: the interleaving of multi-command requests on one pool;
commands that fail half way, never exit, or outlive the daemon; answers that
must still tell the client what happened; a listing assembled from queries made
at different moments; a configuration file that changes under a reload.
`PROJECT.json` lists these hazards at their lines, with the properties that
cover them.

What makes each component correct:

- request handling: an answer tells the effects (`SuccessMeansDone`,
  `ErrorMeansUndone`), a refusal has a cause (`RefusedForCause`), no passphrase is
  replaced by somebody who knew none (`ChangeKeyKnewPassphrase`), listings are true of some moment
  (`ListingWithinWindow`), everybody is answered (`RequestsAnswered`), and all of
  it together is a service a client can understand (`ImplementsPoolService`);
- configuration: reloads never go back to an older file (`ConfigMonotone`);
- command runner: the status and output returned are those of the child; a line
  that could not be written was acted upon by nobody who waits for it; the caller
  always gets an answer if the child ends;
- socket file: a daemon that serves is reached, in the right mode on Linux, until
  another takes its path, and a supervised one gets to serve;
- USB monitor: events, taken together, tell which devices are present;
- secure memory: only a string that holds a lock unlocks pages (its neighbours on
  them lose theirs with it, `UnlockedByHolder`), and no lock is left behind but by
  `into_string` (`LocksReleased`);
- key storage: each call is one atomic change or a failure without effect, as long
  as lookups find what is there, and no pool is ever given the passphrase of another;
- CLI: the exit status tells a script what happened, and no pool is encrypted
  with a passphrase mistyped once;
- doctor: the verdict is true of the moments it looked at, and explains why a
  daemon does not start.

## Plan

Done:

1. `Zfs`, `Protocol`, `Zfswatchd`, abstract `PoolService`; `ZfswatchdProofs`.
2. `CommandRunner`: `run` with its pipes and its child; `CommandRunnerProofs`.
3. `SocketLifecycle`: start-up, several daemons, the supervisor, CLI paths;
   `SocketProofs`.
4. `DeviceFeed`, used by `UsbMonitorMac` and `UsbMonitorLinux`;
   `UsbMonitorMacProofs`, `UsbMonitorLinuxProofs`.
5. `SecureString`, within `Keyring`, which implements the abstract `KeyStorage`;
   `KeyringProofs`.
6. `Cli`, over `Protocol` and `Zfs`; `CliProofs`.
7. `Doctor`, beside a starting daemon; `DoctorProofs`.

Every safety property of the passing runs is a theorem.  Left:

1. `RemovedWasDetached` and `InsertedOnce` say what the consumer of each monitor may
   rely on in terms of its own events; an abstract feed that both monitors implement
   would say it once.
2. What the other liveness properties rest on and can be said without ENABLED, as
   `CommandRunner`'s is: for the handlers in the mutex queue and for the connections
   of a daemon, that somebody can move and that what is left to do dwindles.

## Modules

- **`Zfs`** (external): what a pool can be and what each `zpool`/`zfs` command
  does to it.  A command that ends as it should is refused or takes its effect
  atomically; one that is killed or gives up may leave less (`Halfway`: a pool
  imported or created but not mounted, unmounted but not exported).  A pool
  stands for its root dataset, since every dataset name the daemon gets is used
  that way by the CLI examples.  The argument lists of the commands are taken to
  be accepted by the installed tools.
- **`Protocol`**: requests as records, the effects each asks for, and the
  command that has each effect.
- **`Zfswatchd`**: the daemon.  `pc[c]` names the await point of the handler of
  connection `c`: `read_line` (`"idle"`), the mutex (`"lock"`), the child
  process of an operation (named by it), the file access of a reload (`"read"`,
  `"parse"`), and `"reply"`, where `resp[c]` holds the response.  An action is
  what happens between two awaits, together with the effect of the child whose
  exit ends the first; its name is the function it comes from.  `Outcomes` says
  how a command may end: normally (refused exactly when `Zfs` does not allow it), or
  abnormally: it does not start or is refused for reasons outside the model; it is
  killed or gives up with a bad exit, having acted fully, halfway or not at all; or
  `run` returns Err, after any of these or while the command still runs.  `mishap`
  records the abnormal ends of a request's commands.  `Crash` frees every connection
  but leaves the running commands in `orphans`, where `OrphanEnds` ends them at any
  later moment; commands that hang, or that run on after an Err, are there as well.
- **`PoolService`**: what a client may rely on, in six actions.  `Zfswatchd`
  implements it under the mapping at the end of that module.
- **`CommandRunner`**: one call of `RealCommandRunner::run`, in units of which a
  pipe holds `PipeCapacity`.  Runner: `spawn`, `write_all` (a unit at a time,
  waiting for room), `shutdown`, `drain` and `wait_with_output`.  Spawn, write and
  wait may return Err; that of the wait (`wait_fails`) says nothing of the child.  The child
  reads nothing, a line, or all of its stdin before it has its effect, prints, ends
  on its own, is killed, and may leave a descendant that holds its output open.
  Given stdin, stdout and stderr are not pipes, so nothing is captured.
- **`SocketLifecycle`**: `main` from the choice of the socket path to the accept
  loop, one action per step that touches the file system; `Exit` for every `?`;
  the supervisor; and the CLI that connects.  `set_permissions` exists on Linux only
  (`platform`): until it is taken, and for good on macOS, the file has the mode the
  umask gives it.  A listener keeps its connections when its file is removed, and a
  connection made before `accept` is queued.  A history variable, `remover`, tells
  who removed the file of a daemon.
- **`DeviceFeed`**: the bounded channel of USB events and a consumer that keeps
  the set of disks the events tell it of.  **`UsbMonitorMac`**: the polling task,
  `diskutil` that shows what is attached, does not start, or exits with an error
  and prints nothing.  **`UsbMonitorLinux`**: the udev thread, the events queued
  in its socket, the stop channel whose sender goes when `start_monitoring`
  returns, and the ids of insertion and removal.
- **`SecureString`**: strings and the pages they lie on, which they share as the
  allocator pleases; `mlock` and `munlock` on whole pages, without nesting; the
  limit of locked memory, which `new` and `clone` meet without telling; `unlock`,
  drop and `into_string`.  Two history variables remember which strings hold a
  lock of theirs, and the pages of locked strings turned into a plain String.
- **`KeyStorage`**: the trait's promise: each call takes effect at one moment or
  fails.  **`Keyring`**: both backends; `LinuxKeyring` makes two system calls for
  `retrieve` and `remove`, with the kernel's rules for revoked keys, the quota, and
  calls that fail.  The code takes every error of `request_key` for "not found":
  `finds_all` says whether live keys are always found, or may be missed (an error, a
  session keyring that does not link the user keyring).  `store` borrows a
  string until it returns, `retrieve` returns a new one, and owners use theirs in
  between (`Owner`).  `stored` is the refinement mapping.
- **`Cli`**: what each command prompts for and checks, the request it sends, the
  import that falls back to a mount when the error looks like one about
  encryption, and the exit status.  The daemon is seen through `Protocol` and
  `Zfs`: effects one after the other, up to the first that is refused (`Refuse`),
  an accident (`Fail`: an Error that may come after an effect, after the last one
  too) or the daemon's death (`Lose`, which has what its last command still does take
  place at the same moment); requests of several users interleave between effects.
- **`Doctor`**: the five checks of `zfswatch doctor` as what each finds, one
  moment each, in a system that changes in between; `add`, the line and the exit
  status drawn from the report; and the two calls of `zpool` a starting daemon
  makes: when the first fails it refuses and sends its user to doctor, when the
  second does it ends with a bare error.
- **`MCZfswatchd`**, **`MCSocketLifecycle`**, **`MCUsbMonitorLinux`**, **`MCCli`**,
  **`MCKeyring`**: instances for TLC.  `CommandRunner`, `UsbMonitorMac` and `Doctor`
  need none.
- **`ZfswatchdProofs`**: theorems about the daemon, in five parts: types, mutex and
  configuration; what Success and Error tell; what PoolList tells; why a request
  is refused; the refinement of `PoolService`.
- **`CommandRunnerProofs`**, **`SocketProofs`**, **`UsbMonitorMacProofs`**,
  **`UsbMonitorLinuxProofs`**, **`KeyringProofs`**, **`CliProofs`**, **`DoctorProofs`**: theorems
  about the module each is named after.

Operators called "Faulty variant" are what a definition could have been by a
plausible mistake.  No specification uses them: `PROJECT.json` ("mutants") says
which property fails when one takes the place of the definition after it.

## Runs

| run | shows | instance | distinct states |
|---|---|---|---|
| Keys | TypeOK, SuccessMeansDone, ErrorMeansUndone, ChangeKeyKnewPassphrase, RefusedForCause, ImplementsPoolService | 2 connections, 1 pool (locked, exported encrypted, exported plain), 2 passphrases, 3 requests or unparsable lines, 1 fault | 1 096 000 |
| Listing | ListingWithinWindow | 2 connections, 2 pools (open or exported), 1 passphrase, 3 requests, 1 fault | 1 372 000 |
| Requests | ImplementsPoolService, MutexOK, ConfigMonotone, RequestsAnswered | 2 connections, 1 imported pool (locked or plain), 2 requests (Mount, Status, ReloadConfig), 1 fault, 1 hang, 1 edit of the file, 1 crash | 307 000 |
| ChangeTwice | ChangeKeyReplacesPresented fails | 2 connections, 1 pool, 2 passphrases, 4 requests | |
| RunnerCall | TypeOK, SuccessMeansEffect, ErrMeansNoEffect, OutputComplete, RunReturns | a line of 3 units, up to 3 printed to each stream, pipes of 2 | 20 500 |
| SocketTwo | TypeOK, HiddenIffRemoved, ReachableIsPermitted, ConnectionsAccepted, SupervisedServes | Linux and macOS; 2 daemons (one supervised), 2 users, 2 paths, 2 faults | 53 700 |
| SocketSystemd | SystemdServes fails | 1 daemon under the unit file, no faults | |
| MacEvents | TypeOK, EventsAreNews, RemovedWasDetached, ViewConverges | 2 disks, 2 device nodes, channel of 1, 3 moves, 1 failure of each kind | 26 100 |
| LinuxEvents | TypeOK, InsertedOnce, DroppedEndsThread | 4 disks (serial, WWN, neither, built-in), 2 kernel names, channel of 1, 4 moves | 162 000 |
| KeyringCalls | TypeOK, ImplementsKeyStorage, RetrieveTrue, UnlockedByHolder, LocksReleased | 2 callers, 2 pools, 2 passphrases, quota of 2 keys, both backends, live keys all found or some missed; 2 strings on 2 pages, 1 of which may be locked | 1 452 000 |
| DoctorReport | TypeOK, VerdictTrue, RefusalExplained | 2 changes of the system while doctor and a starting daemon look at it | 10 816 000 |
| CliExit | TypeOK, ExitZeroMeansDone, ExitOneMeansUndone, PassphraseConfirmed | 2 users, 2 pools (one with "key" in its name), 2 passphrases and an empty line, 2 commands, 1 accident | 3 080 000 |

Why the bounds are enough.  Two connections, users or callers give every pairwise
interleaving, and all properties but the mutex queue are about one of them
against the rest; three requests suffice for a long request, one that disturbs
it and one that prepares the pool, two a pair of reloads.  One pool is enough where requests name a
pool, two where a listing walks through pools, where a key could be mixed up
between pools, and where names matter.  Two passphrases distinguish right, wrong
and new.  One fault reaches each error path at each await.  A line and an output
longer than a pipe, by one unit, make both sides of it wait; a channel of one
event is full as soon as two events are due.  Three or four moves take a disk
away and bring another back under its name.  Two strings share a page or do not,
and a limit below the number of pages makes `mlock` fail; strings over several
pages are left to the proof.  Every bound is a constant whose
name starts with `Max` (or is a capacity or length), and is enforced in a guard.
Two connections, pools or users are symmetric where no liveness is checked.

`RequestsAnswered` is checked with `CHECK_DEADLOCK FALSE`: two handlers whose
commands hang, with their clients gone, stop for good.  Elsewhere a system that
has used up its bounds stutters by an action of its own (`Over`), and TLC looks
for deadlocks.

Fairness, and why the code justifies it:

- `Zfswatchd`: weak fairness of `Handle(c)`, all steps the daemon takes for a
  connection without its client, because tokio polls every task that can proceed
  and a command that does not hang ends; and of `Restart`, because the systemd
  unit and the launchd plist restart the daemon.  Clients, edits, hangs, faults
  and crashes need not happen.  `RequestsAnswered` does not promise that a
  request whose own command hangs is answered: `run` has no timeout.
- `CommandRunner`: the runtime polls the call; a child reads, prints and ends as
  long as nothing keeps it from it, and only ends once it has read what it wants.  No
  spawn, write or wait has to fail, and nobody has to be killed.
- `SocketLifecycle`: a process that runs gets on, its accept loop takes what is
  queued, and the supervisor starts its daemons (and no others) again.  Handlers need
  never answer, for their commands may hang: what is promised of a connection is that
  it is accepted or closed, and what becomes of its requests is `Zfswatchd`'s matter.
- `UsbMonitorMac`: the task and a consumer that has not dropped the receiver go
  on.  `UsbMonitorLinux`: the thread goes on and `start_monitoring` returns; the
  consumer need not receive.

Conditions in properties, and what they leave out:

- `ErrorMeansUndone` excepts the key that ChangeKey and Mount load first, a command
  that acted and then ended abnormally (killed, a bad exit after acting, Err from
  `run`), and a Mount whose last query `run` returned Err for: the code answers Error
  in all of them.  `RefusedForCause` is about requests none of whose commands ended
  abnormally, and `ExitOneMeansUndone` about commands that met no accident.
- `ErrMeansNoEffect` is about children that read their stdin, and an Err of the spawn
  or of the write; after an Err of the wait nothing is known of the effect.
- `VerdictTrue` holds in a system that changes: a failed doctor saw something missing,
  a passed one saw each thing there at some moment, though perhaps never all at once.
  `RefusalExplained` is about a system that did not change between the looks.
- `ReachableIsPermitted` is about Linux, after the window between a daemon's `bind`
  and its own `set_permissions`.
- `RemovedWasDetached` holds as long as no `diskutil` that started has failed, and
  `InsertedOnce` is about disks whose id is the same at insertion and removal, and
  nobody else's (`IdsAssumption`); for the others see the findings below.
- `ImplementsKeyStorage` is about the Linux backend whose lookups find every live key;
  `RetrieveTrue` about all.  `LocksReleased` excepts the pages `into_string` leaves.

## Findings

Two runs show behaviour that contradicts what the repository says of it:

- `ChangeKeyReplacesPresented`: the CLI asks for the "Current passphrase", but
  the daemon checks it with a `load-key` of its own before `change-key`, which
  asks for none.  If another client exports and imports the pool in between, which
  unloads the key, and rekeys it, both clients, having presented the same current
  passphrase, are told Success, and the first replaces one it did not know.
- `SystemdServes`: the shipped unit sets no `ZFSWATCH_SOCKET` and makes
  everything but `/run/zfswatch` and `/var/log` read-only, so the daemon
  ends at every start: at `create_dir_all` of `/etc/zfswatch` (main.rs:95) where that
  is absent, as in the counterexample, and at `bind` where it exists.

Further disagreements between the code and its documentation, met while
translating it and stated here without a run:

- Mount and ChangeKey always run `load-key` first, which fails when the key is
  loaded: after an unmount that kept the key the right passphrase is refused, and
  a pool in use cannot be rekeyed.
- Nothing maintains `imported_pools`, so Status never lists a pool; a failed
  `zfs get` lists an encrypted pool as not encrypted (`is_encrypted`).
- An Error answer may follow the effect asked for: when `run` returns Err for the
  query that `mount` ends with (dataset.rs:96), when a command that has acted is killed
  or exits badly, or when `run` fails to write or to wait after the command acted.
- The socket file gets mode 0660 on Linux only, and there in a second step: until then,
  and on macOS for good, it has the mode the umask leaves.
- Every error of `request_key` is taken for "not found": `retrieve` then returns None
  and `remove` succeeds, though the key is there.
- When the daemon's `zfs_version` fails it ends with a bare error, without the hints
  that `check_zfs_installed` gives for the same trouble.
- With stdin given, `run` does not capture stdout and stderr, so the error texts
  of `load-key` and `create` are empty.
- The Linux monitor takes the closed stop channel for a stop signal and ends when
  `start_monitoring` returns; removals are not filtered as insertions are, and a
  disk inserted under its WWN is removed under its kernel name.
- The macOS monitor ignores the exit status of `diskutil`: a failure reports
  every disk as removed.  Its `stable_id` is the device node, and its
  `stop_monitoring` does nothing.
- `daemon.socket_path` and `encryption.min_passphrase_length` are read by no part
  of the daemon; `init` compares with 8.  `import` takes a pool whose name contains
  "key" for an encrypted one when its import fails.
- `SecureString` does not overwrite its bytes when dropped.  A string may say it is
  locked while it is not: `munlock` is for whole pages, so unlocking or dropping
  one string unlocks the others on its pages.  `into_string` of a locked string
  leaves its pages locked for good.  `MemoryKeyVault` keeps nothing.
  `doctor` never prints "Usable with warnings".

## What is proved

For all values of the constants that satisfy the named assumptions
(`NoPassAssumption`, `NoPoolAssumption` and `ConstantsAssumption` for the daemon;
`RunnerAssumption`, `KeyringAssumption`, `SocketAssumption`, `MacAssumption`,
`LinuxAssumption`, `IdsAssumption`, `CapacityAssumption`, `CliAssumption` and
`DoctorAssumption` for the others), checked by TLAPS.  All but one give the constants
their types and keep special values apart; `IdsAssumption`, that no two disks share a
serial number or a WWN, is what `stable_id` takes for granted.

The daemon:

- `TypeCorrect`: TypeOK is inductive.  The part that is not about types,
  `HasPool` (a handler that awaits a command on a pool knows which pool), is what
  makes the functional updates of `zfs` well typed.
- `MutexCorrect`: MutexOK, from TypeOK.  One step per group of actions: those that
  join the queue, those that leave it at its head, those that leave it alone.
- `ConfigIsMonotone`: ConfigMonotone.  `ConfigOK` says that what a handler has read
  of the file is no older than the configuration; it is preserved because
  MutexOK keeps every other reload away between the read and the assignment.
- `ProgressCorrect`, `SuccessIsTrue`, `ErrorIsTrue`: what answers tell.
  SuccessMeansDone is not inductive, since it says nothing of a handler on its
  way; `ProgressOK` says, for each await point of a handler, exactly which effects its
  request has had, so that an effect is left behind an Error only by a command that acted
  and ended abnormally, or by a mount whose last query failed to run.  One lemma per group of
  handlers, each about the handler that moves; a lemma on frames covers the others.
- `CausesCorrect`, `RefusalIsCaused`, `ChangeKeyIsKnowing`: why requests are refused,
  and that a ChangeKey that loaded the key presented a passphrase the pool had
  during the request.  `CausesOK` adds to ProgressOK that the window of a request
  (`seen`) holds the present state of its pool, so that the state in which a command
  is refused is a witness of the cause.
- `ListingIsTrue`: ListingWithinWindow.  `ListOK` puts each pool in one place: listed,
  in hand, still to be queried, or left out, and gives the moment that justifies it.
- `DaemonImplements`: `Spec => ImplementsPoolService`.  Under ProgressOK and `ReplyOK` (a
  handler about to reply has a response) every step of the daemon is one of the six
  actions of `PoolService` or a stutter; the effect of a command is the effect the
  service has next to give, and a crash gives the running commands to the
  service's orphans.

The other modules:

- `RunnerCorrect`, `RunnerTypeCorrect`, `SuccessIsEffect`, `ErrIsNoEffect`,
  `OutputIsComplete`: what `run` returns is true of its child, for lines, outputs
  and pipes of any size.  `RunnerOK` adds to TypeOK that bytes are conserved (`got +
  stdin = written` for the line, `said = kept + pipe` for each captured stream), that
  an effect of a child that reads its stdin implies it has read the whole line,
  and that an Err of the write means the line was not written out.
- `NobodyWaitsForEver`, `StepsAreFinite`: what `RunReturns` rests on, for lines,
  outputs and pipes of any size.  As long as `run` has not returned, the guard of its
  own next step holds, or that of one its child or a descendant takes without being
  killed (the guards are written out, since the prover has no ENABLED); this needs
  `PhaseOK`, that the line and its end are written before `run` waits.  And every step
  makes `Remaining` smaller, a number that adds up what is still to be written, read,
  printed, drained and ended.
- `KeyringCorrect`, `KeyringTypeCorrect`, `LocksAccountedFor`, `UnlocksOwnPages`,
  `KeyringImplements`, `RetrieveIsTrue`: for any number of callers, keys, strings and
  pages.  `FoundOK` is what carries a call from its first system call to its second: the
  key it found is the pool's, or has been revoked, and then the second call fails.
  For the strings the invariant is that `holds = locked` and LocksReleased.
- `SocketCorrect`, `SocketTypeCorrect`, `OnlyRemovalHides`, `ReachableHasMode`: for any
  number of daemons, users and paths, on both platforms.  `FileOK`: a socket file is at
  the path of the daemon that made it.  `BoundOK`: a daemon past its bind has its file if
  and only if nobody has removed it since, and it never did itself.
- `MacCorrect`, `MacTypeCorrect`, `EventsNews`, `RemovedDetached`: for any disks, names
  and capacity.  `ChainOK` says that the events in the channel, taken in order, lead
  from what the consumer believes to what the task has told so far, each of them
  news when it is received; `PollOK` and `SeenOK` tie what is still to be reported
  to the poll, and what was seen to what was detached.  `ConsumerCatchesUp` draws
  the conclusion for a consumer that has received all there is: it knows what the
  task knows.

- `LinuxCorrect`, `LinuxTypeCorrect`, `InsertedIsNews`: for any disks, names and
  capacity.  InsertedOnce speaks of the head of the channel; what makes it true is a
  chain: the events in the channel, then the one in `blocking_send`, then those udev
  has queued, lead from what the consumer believes to what is attached (`Linked`),
  and no link inserts what is already there.  It is preserved because a disk that udev
  reports added was attached nowhere, and ids tell disks apart (`IdsAssumption`).
  Once the receiver is gone there is nobody to tell, and the chain ends.  Another
  consequence is `RemovalsArrive`: a consumer that has caught up believes no such
  disk present that is gone.
- `CliCorrect`, `CliTypeCorrect`, `ExitZeroIsDone`, `ExitOneIsUndone`,
  `PassphraseIsConfirmed`: for any users, pools and commands.  `CliOK` says of each
  command what was typed for it (`Typed`), that its request is about its pool and
  sets only confirmed passphrases (`Sent`), that the effects so far are the first
  ones of the request (`Begun`), what the answer and the exit status say of them
  (`Told`), and that without an accident the command did nothing else (`Had`).  An import whose fallback mounts the pool needs the request replaced and
  the effects begun again, which is why `Told` speaks of the last request.
- `DoctorCorrect`, `DoctorTypeCorrect`, `VerdictIsTrue`, `RefusalIsExplained`: for any
  number of changes of the system.  `DoctorOK` says that each status in the report is that
  of a system that was looked at (`SeenOK`), that a report during which nothing
  changed is still true (`ReportTrue`), that the verdict says whether a check
  failed, and that a daemon that refused did so because `zpool` did not run, which
  a report on the same system found as well (`RefusalOK`).

Only model-checked: the liveness properties (`RequestsAnswered`, `RunReturns`,
`ConnectionsAccepted`, `SupervisedServes`, `ViewConverges`, `DroppedEndsThread`) and
everything about fairness, since the prover has no ENABLED (of `RunReturns` what is
proved above leaves nothing but that); and the two properties
that fail (see "Findings"), whose counterexamples TLC finds.  No module needs a
recursive operator.

## Not modelled

- The JSON encoding (serde), logging, the wording of messages and the listings the
  CLI prints.
- Installation: scripts that install packages and copy files, run once.  Of the
  service files the settings that decide where the daemon can bind are in
  `SocketLifecycle`, and that they restart the daemon is in its fairness.
- The individual settings of the configuration, which almost no code reads.
- The parsers of `zpool list` output and of sizes: their results are printed and
  decide nothing, and `parse_zfs_size` computes in f64, which TLC has not.
- `mount_with_keyload`, `unload_key`, `key_status`, `get_encryption_props`,
  `find_importable_pools` and the two `secure_zero` functions, which nothing but tests calls;
  `list_pools` of the key storage, which returns an empty list; the one-shot
  `scan_devices` of the monitors and their `stop_monitoring`, which change no state.
- Keys longer than the 4096 bytes the Linux backend reads: ZFS takes passphrases of
  at most 512.
