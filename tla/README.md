# A TLA+ model of SovKit DevTools

SovKit DevTools is a desktop workbench and a console that load a closed SDK
library, start an isolated test identity in a profile directory and call the
SDK's operations. This directory holds TLA+ modules of the program's own logic
(`src/`), the TLC runs that check them on small instances, and proofs that TLAPS
checks for every value of the constants. Paths below are relative to the
repository; `profile.cpp:103` means `src/sdk/profile.cpp` line 103.

## 1. Inventory

| component | code | state | operations |
| --- | --- | --- | --- |
| host session | `sdk/lifecycle.cpp`, `sdk.cpp`, `sdk.hpp` (class `Sdk`) | `handle_`, `started_`, `registered_`, `store_open_`, `profile_`, `key_`, `records_`, `lock_` | `load`, `start` (`PrepareProfile`, `KeystoreRegister`, `OpenStore`, `Init`, identity), `stop` (`Shutdown`, `StoreClose`, `KeystoreDetach`, `unlock_profile`), `~Sdk` |
| profile directory | `sdk/profile.cpp` | `.devtools.lock`, `devtools-profile.json`, `vault.enc`, `keystore.enc`, `sovkit.db`, the `.pending` files | `lock_profile`, `unlock_profile`, `PrepareProfile`, `persist`, `atomic_write`, callbacks `read`, `write`, `remove` |
| SDK loader | `sdk/library.cpp`, `Sdk::load` | `module_`, `retained_`, `handle_` | `Open`, `Close`, `Retain`, log callback |
| log feed | `sdk/logs.cpp` | `logs_` under `log_mutex_` | `log` (SDK threads), `logs` (worker) |
| worker | `worker.cpp` | `jobs_`, `quit_` under `mutex_`, the thread | `submit`, `TakeJob`, `ProcessJob`, `run`, `~Worker` |
| workbench window | `app.cpp` (class `Frame`) | `closing_`, `loaded_`, `pending_`, the enabled buttons, `smoke_` | clicks, `execute`, `enqueue`, `result`, `OnClose` |
| dispatcher | `3rdparty/libwxui/src/desktop.cc` | posted callbacks, `closing` | `Poster`, `Cancel`, `Close`, `FinishClose`, modal boxes |
| console | `cli.cpp` | one `Sdk`, the line being worked on | `load`, then a loop of `getline`, `start`/`execute`, reply; `stop` at the end of the input; exit codes 0, 1, 2, 64 |
| router, named operations | `sdk/operations*.cpp` | none | forward JSON to one SDK entry; `events` polls up to 64 events; `SelfTest` makes two calls |
| SDK buffers | `sdk/buffer.hpp` (class `SdkBuffer`) | the buffers the SDK has handed out | scope-bound release, on exceptions too |
| catalogue, utilities | `catalogue.cpp`, `sdk/utilities.cpp` | none | tables, conversions |
| SDK | `3rdparty/sovkit_sdk` | closed | modelled as environment, from `sovkit.h` and how `src/` uses it |

**Interaction.** The UI thread owns the `Frame`. It submits jobs to the `Worker`,
whose one thread owns the one `Sdk`; results return through the dispatcher's
queue. The SDK calls back into `Sdk` from threads of its own: the keystore
callbacks change `records_` and write the profile, the log callback fills
`logs_`. Other processes compete for the profile directory through a file lock.

**What is hard.** Which of lock, key, callbacks and store may be released, and in
which order, when any of a dozen calls fails; retries of a half-done `stop`; a
store that opens asynchronously and perhaps too late; crashes and power losses
inside `atomic_write`; two processes on a profile; closing the window while
requests, answers and failures are under way; a queue that refuses; the thread
that must end before the window; events that arrive while jobs wait, or in the same
round as one that cannot be read; a script that writes ahead and closes its pipe
while a call runs. `PROJECT.json` lists every such place as a
hazard with its line and the properties that cover it.

**What makes each correct.** Session: SDK calls in the documented order, lock
and key held for exactly as long as the SDK may call back, no mixing of two
profiles, `start` and quitting end. Directory: what was reported as written can
be opened after anything; no update is lost; no identity is replaced; foreign
data is untouched; a directory that is refused for good holds no identity. Loader: code behind a handle stays mapped. Log feed: order,
no duplicates, only the oldest lost. Window and worker: every accepted request
answered once and in order, exact counting, exclusive business work, a close
that is answered and never outruns the worker. SDK calls: every buffer freed, no
event lost without a word, jobs not starved by events nor events by an idle user.
Console: every line answered, an exit code that does not lie, a process that ends.

## 2. Modules

| module | models | abstract specification |
| --- | --- | --- |
| `SessionCalls` | abstract: an `Sdk` as its callers see it, which calls it takes and how each may end | |
| `HostSession` | the session, call by call, with other processes, failing calls and restarts | `CallbackLoan`, `SessionCalls` |
| `ProfileStore` | one profile directory, system call by system call, and the processes on it | |
| `SdkLoader` | loading and unloading binaries | |
| `LogFeed` | the bounded log queue between three threads | |
| `SdkCalls` | the worker thread between two waits: jobs, polling rounds, operations and their buffers, the way of an event to the view | |
| `Workbench` | `Frame`, `Worker` and dispatcher together, built on `SessionCalls` | `RequestReply` |
| `Console` | the loop of `sovkit-console`, built on `SessionCalls` | `RequestReply` |
| `HostSession_proofs`, `ProfileStore_proofs`, `SdkLoader_proofs`, `LogFeed_proofs`, `SdkCalls_proofs`, `Workbench_proofs`, `Console_proofs` | the theorems of each module, with its inductive invariant | |
| `QueueLemmas` | facts about sequences used as queues, for the proofs of `Workbench` and `Console` | |
| `MC*` | instances for TLC, with the symmetries used | |

Operators named `Definition_Something` and commented *Mutant* are not part of a
specification: each is the definition before it with one plausible bug, and each
property has one such bug that breaks it (`PROJECT.json`, "mutants").

### HostSession

One action per call that `start`, `stop` and `~Sdk` make, with its outcomes:
`StartCall`, `LockDirectory`, `TakeLock`/`LockRefused`, `PrepareMemoryOnly`,
`UnlockVault`/`CreateVault`, `Register`, `OpenStore`, `AwaitStore`, `InitSdk`,
`Identity`; `Throw` is the `catch` of `start`, which runs `stop`; `StopCall`,
`ShutdownDone`/`Fails`, `StoreCloseDone`/`Fails`, `DetachDone`/`Fails`, `Unlock`;
`Quit`, `Release`. Between them other processes open and close profiles, the
keystore callbacks change the records while they are registered, the SDK
finishes opening its store, business calls load its services again, and the
process may be restarted.

What the SDK may do is taken from `sovkit.h`: `Shutdown` can fail only while
services run, `StoreClose` only while the store is not closed, `Register` and
`Detach` are refused unless services are stopped and the store is closed, and
unregistering the log callback succeeds. `README.md:177` tells the user to retry
Stop after a failed one; the constant `Obedient` says whether the user does.

`CallbackLoan` says what the session is about: the context handed to the SDK
(lock, key, records) is lent on registration and returned by detaching, and is
complete and unchanged in ownership all the while. `HostSession` implements it
(`LoanKept`).

`SessionCalls` is the other side of the object: what `Worker`, `Frame` and `main`
of the console can see. Between two calls the session is unloaded, stopped,
started or `unclean` (the last stop failed); `load`, `start`, `stop` and the
destructor take it to one of these states, and `start`, `stop` and the destructor
take time. `HostSession` implements it with its fairness (`CallsReturn`): the
refinement mapping `Summary` hides which SDK call failed. `Workbench`, `Console` and
`SdkCalls` use the actions of `SessionCalls` for the session, so what they assume
of a call is what `HostSession` was shown to do, and not more.

### ProfileStore

A directory has three images: `disk`, what processes see; `platter`, the entries
a power loss cannot undo; `dirty`, the entries whose bytes are not flushed.
`atomic_write` is five steps (create exclusively, write, `fsync`, `rename`,
`fsync` of the directory), each of which may fail and leaves what it had done.
A process dies between any two of them; a power loss keeps, of every entry that
is not synced, the old or the new file, and may tear one that is not flushed.
A start goes `out`, `accepted` (directory checked), `locked`, `marked`,
`vaulted` (a new envelope is written), `in`; any exception leads back to `out`
with the lock released. The POSIX branch is modelled; Windows replaces the last
two steps by one write-through move. What a failed `stop` leaves behind is the
subject of `HostSession`, not of this module.

History variables (`acked`, `attempted`, ...) record what was reported and decide
nothing. `BuildsOn` says when a keystore is one change of another, known, one; the
write of a new identity changes none.

### SdkLoader, LogFeed

`SdkLoader` splits `Sdk::load` at every point that can throw; `refs` counts
`dlopen` per binary, so that opening the same file again is seen for what it is.
`LogFeed` numbers the lines. `logs` takes the mutex (`BeginDrain`), parses line by
line (`Parse`; a line that is no JSON is passed over), empties the queue and lets
the mutex go (`EndDrain`); callbacks wait meanwhile. `Post` hands what it returned
to the dispatcher, and `Log` may run again before it.

### SdkCalls

The worker thread takes a job or, when the queue is empty and the session
started, begins a polling round (`BeginRound`). A round polls one event at a time
into a buffer (`PollEvent`), parses it and frees the buffer (`ReadEvent`), and ends
when the SDK has none left (`NoEvent`), after `Limit` events (`FullRound`), with an
error code (`PollFails`), or with the exception of an event that is no JSON
(`BadEvent`), which discards the rows gathered so far and is reported instead. Its
record travels to the event view (`Show`). A job is refused before any SDK call, or
makes one (`CallSdk`, with a buffer or for a code alone, as the operations of each
file do), or is `selftest` (`Protect`, `Unprotect`), which holds two buffers. A
load answers with a buffer too, that of its `info`; a start takes one after another
and holds that of `StoreOpenV1` or `Init` over further ones (`TakeBuffer`,
`LeaveInner`, `LeaveOuter`). `held` is the set of buffers the host must still free.

Events are numbered modulo `Window` as the SDK queues them; `next` is the number
the view expects, where a reported loss counts as told, and `emitted` the number of
the next event. A record with an error row alone has no place in this line and is
left out.

### Workbench

The UI thread's state is what `Frame` keeps, plus where the thread is: its event
loop, a modal box (which runs the event loop too, so answers arrive there and a
close may finish there), or inside `worker_.reset()`.
The worker's is the queue, the job in hand and the session, which changes only by
actions of `SessionCalls`: a start or stop takes two steps (`BeginCall`, `EndCall`),
between which the user clicks, closes and is answered. `byClose` marks the stop
that `OnClose` submits, so that properties can name it. Records of events and logs
travel in the same queue and answer no request; they are counted at the answer they
precede (`feeds`), since nothing but their place among the answers matters.

`RequestReply` is the promise to the user: a first-in-first-out service that
answers each accepted request once, until the window is gone. The mapping takes
as outstanding what is posted, in hand and queued.

### Console

A script writes lines and closes the pipe at any moment (`Write`, `CloseInput`);
`main` reads a line, answers it and reads on. Lines differ by what happens to
them: `bad` is refused with a reply, `raw` is no JSON and makes the parser quote
bytes that are no UTF-8, so that `reply.dump()` throws outside the inner `try`
(cli.cpp:46) and `main` is left through the outer `catch`; `start` and `stop` are
calls of the session, `api` any other operation. Every way out destroys the `Sdk`.
The same promise `RequestReply` holds for the lines until `main` leaves its loop.

## 3. Runs

| run | bounds | checks |
| --- | --- | --- |
| `any_user` | 2 profiles and memory only, any user, fairness | type, `CallOrder`, `KeyMatchesProfile`, `LockedWhileAttached`, `SessionAsRequested`, refinements `LoanKept` and `CallsReturn` |
| `obedient_user` | the same, user retries Stop | `IsolatedProfiles`, `NoLockLeak` |
| `foreign_identity` | any user | violation, see 5 |
| `profile_durable` | 2 processes, 2 records, 2 keys, 3 faults | type, `AcknowledgedOpens`, `UpdatesBuildOn`, `NeverReplaced`, `RefusedHoldsNothing`, `ProductUntouched` |
| `late_failure` | 1 process, 1 fault | violation, see 5 |
| `loader_safety` | 3 binaries, 5 loads | type, `HandleCodeMapped`, `RefusedUnloaded`, `ListensToLoaded` |
| `two_binaries` | 2 binaries, 2 loads | violation, see 5 |
| `log_feed` | capacity 3, 7 lines | type, `ShownInOrder`, `NewestKept` |
| `sdk_calls` | limit 2, fewer than 5 events under way, 2 jobs, fairness | type, `NoSilentLoss`, `BuffersReturned`, `JobsServed`, `EventsReach` |
| `workbench` | capacity 2, 4 unanswered requests, 1 feed record at a place among the answers, fairness | type, `PendingAccounting`, `ExclusiveBusiness`, `ClosingHasStop`, `SafeClose`, `LoadedHonest`, refinement `RepliesComing`, `CloseAnswered`, `ResetEnds` |
| `close_lost` | as `workbench`, without fairness | violation, see 5 |
| `console` | 3 lines in the pipe, fairness | type, `ZeroMeansDone`, refinement `LinesAnswered`, `ConsoleEnds` |

**Bounds.** Two profiles are enough to confuse one with another, since a session
has one and leaves at most one behind. Two processes are enough to contend for a
lock. Three faults allow a failed call, a crash and a power loss in one
behaviour. Queue capacity 2 instead of 16 lets a queue fill behind a job in hand
while a close is pending; four unanswered requests are more than queue and hand
hold. A log capacity of 3 with 7 lines overflows twice. A limit of
2 events with up to 4 under way gives full rounds, partial rounds and events left
over; the numbers of events wrap, which cannot hide a gap since fewer than
`Window` are under way. A pipe of 3 lines lets a script be ahead of a call by two. Profiles, processes,
records, keys and files are interchangeable where symmetry is declared; no
liveness run uses symmetry.

`CHECK_DEADLOCK FALSE` is set where the program may really stop: the window is
gone, the library object destroyed, all lines shown, the directory refused for
good.

**Fairness.** `HostSession`: the thread goes on with the call it is in (weak
fairness of its next call), and a `Shutdown`, `StoreClose` or `Detach` that is
retried forever succeeds in the end (strong fairness); the documentation of
forced closing (`docs/MANUAL_TESTING.md:31`) demands just that of the disk.
`Workbench`: the worker thread runs, the event loop delivers posted callbacks,
the window is destroyed after the join, each weakly fair. `Console`: the process
runs. That calls of the session come back in both is not an assumption of theirs:
`HostSession` implements `SessionCalls` with `FairSpec` (`CallsReturn`), under its own
fairness. `SdkCalls`: the worker thread and the event loop run, weakly fair; a poll
that is repeated for ever with an event queued returns it in the end (strong
fairness of `PollEvent`), since a poll may also fail; a start, which takes and frees
buffers, comes to its end (strong fairness of `LeaveOuter` and `EndCall`): it makes
finitely many calls and waits at most 30 s for the store, which is what
`HostSession` implements. Nothing is assumed of the
user, who may never click again, of a script, or of when the SDK has events;
`EventsReach` speaks of a user who leaves the queue empty from some point on.

## 4. Theorems

Every invariant and every action property of a passing run is a theorem, and so are
the refinements of the three abstract specifications, without their fairness. TLC
also found each inductive invariant to hold on the instance of its run (a module that
extends the MC module and the proof module, with the run's constants; no run of the
project repeats this, for what the proofs show is more). The assumptions are
the `ASSUME`s of the modules: bounds are natural numbers, capacities and limits at
least 1, and the distinguished values (`None`, `MemoryOnly`, `Torn`) are no member of
the sets they stand beside. Nothing is assumed of how many profiles, processes,
records, binaries, jobs, lines or events there are.

| module | theorems: property proved |
| --- | --- |
| `HostSession_proofs` | `TypeCorrect`: `TypeOK`; `CallsKeepOrder`: `CallOrder`; `SessionExclusive`: `LockedWhileAttached` with `KeyMatchesProfile` and `SessionAsRequested`, which `KeyIsTheProfiles` and `SessionIsTheOneAsked` state alone; `ProfilesIsolated`: `IsolatedProfiles` and `LocksAreReleasable`: `NoLockLeak`, both assuming `Obedient`; `LoanIsKept`: implements `CallbackLoan`; `CallsAreKept`: implements `SessionCalls` |
| `ProfileStore_proofs` | `TypeCorrect`; `AcknowledgedIsDurable`: `AcknowledgedOpens`; `ProductStaysUntouched`: `ProductUntouched`; `RefusedIsEmpty`: `RefusedHoldsNothing`; `UpdatesAreKept`: `UpdatesBuildOn`; `IdentityIsKept`: `NeverReplaced` |
| `SdkLoader_proofs` | `TypeCorrect`; `HandleStaysMapped`: `HandleCodeMapped`; `RefusedIsUnloaded`: `RefusedUnloaded`; `ListensOnlyToLoaded`: `ListensToLoaded` |
| `LogFeed_proofs` | `TypeCorrect`; `OrderIsKept`: `ShownInOrder`; `NewestAreKept`: `NewestKept` |
| `SdkCalls_proofs` | `TypeCorrect`; `EventsAreAccountedFor`: `NoSilentLoss`; `BuffersAreReturned`: `BuffersReturned` |
| `Workbench_proofs` | `TypeCorrect`; `ClosesSafely`: `SafeClose`; `LoadedIsHonest`: `LoadedHonest`; `PendingIsAccounted`: `PendingAccounting`; `BusinessIsExclusive`: `ExclusiveBusiness`; `ClosingWaitsForStop`: `ClosingHasStop`; `RepliesAreKept`: implements `RequestReply` |
| `Console_proofs` | `TypeCorrect`; `ZeroMeansAnswered`: `ZeroMeansDone`; `RepliesAreKept`: implements `RequestReply` |

**Why the invariants have to be stronger.** None of the properties is inductive.

- `SessionInv` adds what the code keeps true without saying so: `FlagsAgree`,
  `registered_`, `store_open_` and `started_` follow the SDK's own state, also halfway
  through `stop`; `CallsInOrder`, where in `start` or `stop` each flag may be set;
  `NoHiddenLeftovers`, a profile is held only by a session that has registered or a
  start that is under way; `LockHeld`, the lock table agrees with `profile_` and
  `lock_`. `ObedientInv` carries the part that holds only for a user who retries
  Stop, and `CallerInv` what the refinement of `SessionCalls` needs: who runs a call.
- `StoreInv` relates the three images of a directory to the only writer: the lock
  makes it the only one (`WriterInv`); a `.pending` is whole and flushed before it is
  renamed (`FilesInv`); the marker reaches the platter before any identity
  (`MarkerInv`); envelope, keystore and memory have one key at every step
  (`KeysInv`); and what is on disk, on the platter and in memory is what was last
  reported as written or was tried since (`ReportInv`), so that whichever image
  survives a power loss, it opens.
- `LoaderInv` counts mappings: a file given as a handle keeps one for it, whatever
  load opens and closes the file again.
- `FeedInv` (`LogFeed`) names the first line that waits to be parsed: the queue is the
  last lines without a gap, and everything else is older.
- `CallsInv` (`SdkCalls`) adds what each state of the thread holds; the line of events
  is cut into stretches (`Runs`), and each step lengthens one by what it takes from
  the next.
- `ThreadsInv` (`Workbench`) says what the worker holds where it is and that the two
  threads agree on the end; `FrameInv` adds that a confirmation is open only while
  nothing is outstanding. In both refinements of `RequestReply` what is
  outstanding is spread over several queues: a job that moves from the queue to the
  hand to the posted answers leaves the sequence of the three unchanged, and what is
  answered is its head (`QueueLemmas`).
- `ConsoleInv` adds that inside the loop nothing is lost and no exit code chosen.

A proof has a lemma per action or group of actions, with a step per conjunct that
the action can disturb; the final theorem combines them.

**Only model-checked:** liveness (`CallsReturn`, `RepliesComing`, `CloseAnswered`,
`ResetEnds`, `JobsServed`, `EventsReach`, `LinesAnswered`, `ConsoleEnds`), which is
about fairness and `ENABLED` and beyond this prover; of `CallsReturn`,
`RepliesComing` and `LinesAnswered` the part that is safety is proved (`CallsAreKept`
and the two `RepliesAreKept`). The four violations of section 5 are TLC's.

## 5. Where code and text differ

- **A foreign identity and a leaked lock** (`foreign_identity`): `start` (lifecycle.cpp:16) refuses while `started_`, `registered_`
  or `store_open_` is set. A start that fails before registration, whose cleanup
  fails too, leaves `profile_`, `lock_`, `key_` and `records_` set with all three
  flags clear. A start of another profile is then accepted: it drops the first
  lock's descriptor and writes the first profile's records into the second.
- **A late failure** (`late_failure`): atomic_write can throw after the rename
  (profile.cpp:135-141); memory is rolled back, the file is not.
- **Two binaries** (`two_binaries`): a failed registration of the log callback
  (sdk.cpp:24-31) forgets the retained module and admits another binary.
- **A lost close** (`close_lost`): `enqueue` (app.cpp:249) clears `closing_` when any
  job is refused. Close, then Stop clicked until the queue refuses: the stop of
  the close succeeds and the window stays, with nothing said about it.

## 6. Not modelled

Texts, layout, translation and the report export; the names and the JSON of the
58 operations, which keep no state in the host; the catalogue and the whitelist of
`diagnostic`, which are stateless tables; Windows ACLs and the wiping of passwords;
the SDK's inside; vendored code, build scripts and tests; other software that fills
the chosen directory during the check (profile.cpp:158). A forced close inside a
confirmation or a chooser (app.cpp:264, app.cpp:93) depends on what the platform
delivers there; what the rest of a chooser's handler does with a window that was
finished inside its box is a matter of the window library. Error boxes
that open one inside another or inside a chooser are one box in `Workbench`.

`ProfileStore` starts with a profile directory that is durably there.
`create_directories` (profile.cpp:154) may create it, and nothing syncs its entry in
the parent: what the module and its theorems say of a power loss is about what is
inside the directory, and a file system that forgets the new directory itself loses
all of it. `ShutdownFails` and `StoreCloseFails` of `HostSession` have the guards the
SDK documents (section 2); lifecycle.cpp:111-119 would handle a failure at any time.

## 7. Plan

1. *Composition*: `HostSession` over `ProfileStore` for the files of its profiles.
2. *Proofs*: that without the failure each finding of section 5 starts from, what it
   violates holds; that `Unlock` and `Release` of `HostSession` leave nothing of a
   session to the next, stated as an action property.
3. *Pure parts*: the length protocol of `read`.
