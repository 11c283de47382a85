# A verification project for FCB (Flutter CodePush Box)

FCB ships patches for the Dart code of Flutter apps: a developer publishes a
patch to a self-hosted server, devices check for it, download it, verify it and
run it at the next start; a patch that does not start is rolled back. The parts
that decide whether a device ends up running the right code are small, stateful
and exposed to crashes, concurrent calls and unreliable networks. This directory
models those parts in TLA+, checks them with TLC and proves their safety with
TLAPS.

`PROJECT.json` maps every definition that models code to the lines it models,
and lists the runs, the mutants, the findings, the hazards and the theorems.

## 1. The system and its parts

| Part | Source | State | Modelled by |
|------|--------|-------|-------------|
| On-device patch state machine | `crates/fcb_core/src/state.rs` | `state.json`, `patches/<n>/`, `events.log` | `LaunchPromise` (what is promised), `PatchState`, `PatchStateClaims`, `CrashLoop`, `PatchStateProofs` |
| Updater C ABI | `updater/src/lib.rs` | `RUNTIME` mutex and `Runtime` (configuration, `last_check`), `CHECK_FLIGHTS`, `CANCEL_PENDING` | `UpdaterRuntime`, `UpdaterRuntimeProofs` |
| Download and HTTP client | `updater/src/lib.rs`, `crates/fcb_core/src/server_api.rs` | `payload.bin`, `payload.bin.part`, `.progress`, locals of the retry loop | `ResumableDownload`, `ResumableDownloadProofs` |
| Rollback event delivery | `updater/src/lib.rs`, `state.rs`, `server_api.rs` | `events.log`, `runtime_config.json`, table `patch_events` | `EventLog` (what is promised), `EventDelivery`, `EventDeliveryProofs` |
| Server: patches and checks | `server/handlers.go`, `server/store.go`, `server/util.go` | tables `apps` and `patches`, object store | `ServerPatches`, `ServerPatchesProofs` |
| Server: organisations and members | `server/auth.go`, `server/handlers.go`, `server/store.go` | table `org_memberships` | `OrgMembership`, `OrgMembershipProofs` |
| Bytecode format | `crates/fcb_core/src/bytecode.rs` | a module file, the loops of reader and validator | `BytecodeValidator`, `BytecodeModule`, `BytecodeModuleProofs` |
| Linker, build info | `crates/fcb_core/src/linker.rs`, `build_info.rs` | none (pure functions) | `BytecodeLink`, `CliPublishProofs` |
| CLI | `cli/src/main.rs`, `auto.rs`, `aot_entry_points.rs` | `fcb.yaml`, keys, `.fcb/apps/<id>/releases`, `.fcb/patches`, the cache of a test device | `CliPublish`, `CliPublishProofs` |
| Manifests, signatures, diffs | `manifest.rs`, `crypto.rs`, `diff.rs` | none | guards and equalities of the others |
| Server: setup, sessions, tokens; schema migrations | `server/auth.go`, `server/store.go` | tables `users`, `sessions`, `cli_tokens`; the schema version | not modelled |
| Kernel compiler, Flutter package, web UI, vendored engine, scripts | `tool/`, `packages/`, `server/webui.go`, `vendor/`, `scripts/` | none of their own, or build time only | not modelled |

### Operations and interaction

* The engine calls `fcb_get_launch_patch` before it creates the root isolate;
  `launch_patch` settles the unconfirmed launch before it, selects pending,
  current, last known good or the baseline, counts the attempt and saves. The
  app calls `fcb_mark_launch_success` after its first frame, or the engine
  reports a failure. In between the app checks, downloads and installs.
* Every C ABI function except `fcb_cancel_pending_operations` takes the global
  runtime mutex. `fcb_check_for_update_blocking` gives it up while it talks to
  the server; `fcb_download_and_install_blocking` keeps it. Identical checks
  share one request through a table of flights with a condition variable each.
* A download resumes from a part file whose length is kept in a second file;
  only a payload with the hash of the check response becomes `payload.bin`.
  `install_payload_with_baseline` unpacks it to `patches/<n>` and saves the
  state that makes it pending.
* Rollbacks and resets append to `events.log`, which keeps the newest 50 entries.
  `fcb_get_launch_patch` posts them one by one and clears the file after the
  last; `fcb_drain_rollback_events` hands them to the app instead.
* On the server, `createPatch` writes the object and then the row; `promotePatch`
  and `rollbackPatch` read the row, change three fields and write it back;
  `checkPatch` picks the highest active patch for a channel and rollout. Every
  handler makes several statements without a transaction.
* Membership requests read the issuer's role, the member's role and the number
  of owners and then write, again in separate statements.
* `fcb release` builds the app, keeps the artifact, the kernel inventory, the AOT
  entry points and the build info under `.fcb`, and creates the release. `fcb
  patch` compares, builds, compares again, makes a binary diff (Android) or links
  and compiles the changed functions to a bytecode module (iOS), signs, uploads
  and writes a report. `init` and `app add` make the key and register the app.
* A bytecode module is validated before it is signed: the reader, the envelope,
  two passes over each function, and the gate that every AOT function it calls
  has an entry point in the release.

### What is hard

Crashes between the durable writes of one operation; a boot counter shared by
whichever patch is selected; two limits (boot attempts, installed patches) that
meet the unconfirmed patch; two threads, one mutex, one flag and a condition
variable; a cached response that outlives what it was computed from; files left
by a death in the middle of a write; a retry loop whose branches consume
attempts differently; answers that are lost after the server has acted; read-
modify-write handlers that overlap; jumps into the middle of an instruction; a
project that changes while a command looks at it several times; work directories
shared by several apps. Each of these is a hazard in `PROJECT.json`, at its line,
with the properties that watch it.

### What correct means

* *Patch state*: the confirmed patch is never a blocked one; attempts are
  charged to the patch that made them; only a repeatedly unconfirmed patch is
  blocked; a block is logged before it is saved; a blocked patch is not launched;
  the number of installed patches stays bounded; an operation takes effect as a
  whole or not at all; crash loops end and the good patch comes back.
* *Runtime*: one request on the wire per question, answers to the question that
  was asked, no waiter without a leader, no abandoned flight, a cancellation that
  nothing has cleared stops the download, every call returns.
* *Download*: the part file is a prefix of the payload, the final file a whole
  payload, and no leftover stops the download for good (a payload over the limit
  of a body, 64 MiB, never arrives).
* *Events*: no event is lost or overtaken by a later one, except by the cap or
  because the app took it over; once failures stop the log drains.
* *Server*: every listed patch has its payload, the payload its manifest was
  signed for; a device sees only what some promote asked for; a live patch stays
  live until it is rolled back; devices converge.
* *Members*: only the three roles exist, late updates bring nobody back, and the
  last owner is lost in no other way than the two of section 4.
* *Bytecode*: a validated function never leaves the instructions that were
  checked; what is accepted is what was written; a module that went through the
  gate calls only functions the release has; the reader always comes to a verdict.
* *Linker and CLI*: a module reproduces the source it was built from on the inventory
  it was linked against, and after a finished release command that is the release's,
  with the same list of assets; a report that says "created" tells the truth; the key of every app is
  on disk; a device installs only what is signed with the key it pinned.

## 2. The modules

### LaunchPromise and PatchState

`LaunchPromise` is what the updater promises about the patch a device runs,
without files, operations in progress or crashes inside of them: a confirmed
patch, a candidate, a block list, the patch on trial with the number of its
launches in a row, and what the process was told to run. A launch is of the
candidate unless it is blocked, then of the confirmed patch (or the baseline, when
the confirmed patch is not listed any more: section 4, `claim_lkg_files`); only
the patch on trial is confirmed; a rollback is due exactly when the launches are
used up.

`PatchState` is the code. `disk` is `state.json` (missing, corrupt or a `State`), `dirs` the patch
directories, `events` the capped log, `phase` and `launched` the app process.
All operations of `Updater` run under the runtime mutex, so they do not
interleave with each other; what interleaves is death and I/O errors. An
operation is therefore one action up to its last write (the state to be saved
waits in `op`), and `Commit` is the atomic rename of `save_state`. `install` has
one split more, `InstallUnpack`, because the patch directory is written before
the state is loaded. `Crash`, `CrashInReset` and `Abort` may happen at each of
these points and leave what was written. `installed` and `bad_patches` are sets,
because the code keeps them sorted or free of duplicates. Patch number 0 is
`None`, as in the code. `streak` is a history variable no action reads.

| Action | Code |
|--------|------|
| `LaunchPatch`, `Commit` | `launch_patch`, `select_launch_patch_number`, `mark_patch_bad`, `save_state` |
| `InstallUnpack`, `InstallStage`, `Commit` | `install_payload_with_baseline` with its pruning loop |
| `MarkSuccess`, `MarkFailure` | `mark_success`, `mark_failure` |
| `ReadState` | `ready_patch` and the other readers, which load and may reset the file |
| `ClearRollbackEvents` | `clear_rollback_events` |
| `Start`, `Crash`, `CrashInReset`, `Abort`, `CorruptFile` | the process and the disk |

`Init` is an empty cache directory or one left by a version 1 updater, so that
`migrate_state` is exercised: with or without a current and a pending patch, the
current one listed in `installed` or not, the last launch confirmed, unconfirmed
or not recorded (`LegacyStates`; the files of `state_tests.rs:27` and `:276` are
among them).

`Promise == INSTANCE LaunchPromise WITH ...` reads the promise's variables off
`LoadState(disk)`, the state the next operation will load: `trial` is the patch of
an unconfirmed `last_launch`, `tries` is `boot_attempts`, `running` is `launched`.
Under this mapping `Commit` is the step of each operation, everything before it a
stutter, and a file that becomes unreadable a reset.

`CrashLoop` restricts `PatchState` to an app in which some patches always die
early, and adds fairness. `PatchStateClaims` states a sentence of `PLAN.md`
that the code does not keep (section 4).

### UpdaterRuntime

One program counter per thread. `Configure`, `MarkLaunchSuccess` and `Cancel`
are whole calls (the second with the event it posts under the mutex);
`fcb_check_for_update_blocking` is `CheckBegin`, `CheckRequest`, `Join`, then
`Answer`, `Publish`, `Remove` for a leader or `Wake` for a follower, then
`CheckStore`; `fcb_download_and_install_blocking` is `DownloadBegin`,
`DownloadLock`, `DownloadResolve`, possibly a check of its own under the mutex,
`DownloadOffer`, five `DownloadCheckpoint`s, `Install` and `PostDone`. A flight
is identified by the call that made it and is freed with its last holder, as its
`Arc` is. The configuration is one value, because every setter has the same
effect on the rest. The patch state is reduced to `current` and `pending`; the
full effect of `install` and `mark_success` is in `PatchState`. The public key is
not kept: a download may end with its absence under any configuration. `cancelled`
is a history variable: the downloads that were told to stop, at any point from
their beginning to their last checkpoint (`Stoppable`), and whose flag nothing has
cleared since. Three things clear it: a check or a download that begins, and the
check that a download without a cached response makes itself, which also clears
what was meant for that very download (section 4).

### ResumableDownload

Files are sequences of blocks tagged with the payload they come from. The
actions are `resume_offset` (`Begin`), one action per arm of the match in
`download_bytes_from_with_cancel`, `read_body_with_cancel`, the writes of part
and progress file (each of which may be torn), the hash check with the rename,
and the cleanup. The server in `server/` ignores `Range` and answers 200; an S3
bucket honours it and answers 206 or 416: both are possible at every request.
`SwitchSource` is a new server URL or app id; the download directory does not
depend on either. The truncation in `resume_offset` changes nothing as long as
the source stays the same and no progress file is torn: a torn one is unreadable
or holds a smaller number, and the part file is cut to it. `MaxBody` is the limit
of 64 MiB on a body: `BodyTooLong` is not a fault that may be repeated or not, but
what happens at every attempt to read a payload over the limit in one piece.

### EventLog and EventDelivery

`EventLog` is what the log promises, in four actions: an event is logged, stored
by the server after everything logged before it, handed to the app, and the log
is emptied when the server or the app has all of it. The cap is part of the
promise.

`EventDelivery` is the code. `log` is `events.log`, `file` is
`runtime_config.json` (missing, torn or with what was persisted), `cfg` what the
process has in memory, `rows` the server's table, `taken` what the callback of a
drain has received, `at` and `attempt` the position in `flush_rollback_events`
and in the retry loop of `post_json`. Events are numbered in the order they are
logged. A flush is `Launch`, then for each event `Stored`, `StoredUnheard` (the
row is there, the answer is not), `Lost` or `Refused`, then `Clear`. `Report` and
`Confirm` are the posts that do not go through the log, which differ in whether
they hydrate the configuration. `FcbInit` and `SetServerUrl` persist the
configuration, possibly torn. `Crash` may happen anywhere. `calm` is a prophecy
of the environment: after `Settle` nothing fails any more.

`Promise == INSTANCE EventLog WITH received <- rows, handed <- taken` is the
refinement mapping. Storing an event twice, which every lost answer causes, is a
stuttering step of the promise.

### ServerPatches

One release of one app. A worker is a handler between its first and its last
statement, and `work[w].row` is what it will write. `HandlerFails` is an error
of the object store or the database, or the death of the server, which is the
same for all handlers one after the other: what they have not written is never
written. `granted` and `raced` are history variables. A device keeps the
check response it works with and reports the patch it installed; its own
failures are the subject of the other modules.

### OrgMembership

One organisation, with the stages auth, current, count and write for the three
membership handlers. `adminCreateOrg` on an existing id renames the organisation
and adds the caller as an owner, and is an action here. Accounts are a constant:
they come from the first-time setup or are provisioned in the database. `stale`
is a history variable.

### BytecodeValidator and BytecodeModule

`BytecodeValidator` is `validate_bytecode`: `Pass1` walks the instructions, checks
operands against the function's locals and constants and collects where they
start; `Pass2` checks every jump and handler offset against these starts. `Call`
and `Exec` are the interpreter, which is part of the engine and not of the
repository: it may do whatever the instruction set suggests, go on, jump, return
or unwind to a handler, so what holds of it holds of every real one.

`BytecodeModule` puts the container around it: what a build of some format
version writes (`Written`), perhaps cut between two tokens or inside one (`torn`),
or extended by a token or by bytes that make none; `ReadToken`,
`Truncated`, `ReadEnds` read it with a list of what is expected next;
`CheckEnvelope`, `ValidationStep`, `FunctionRejected`, `NextFunction` validate
it; `Gate` is the comparison with the AOT entry points; `Execute` runs it. A token
stands for an encoded integer or string, or for a function's code with its length;
a list too long for its count makes the writer fail, so that there is no file, and
is not modelled. The module is of a release whose entry points were captured: the
CLI has no gate for another one (`main.rs:830`; `GatePasses` in `CliPublish`), and
`AotCallsPresent` promises nothing there.
The scan for AOT targets (`TargetsFor`) walks the code on its own, as it does in
the source, and is compared with what the interpreter really calls.

### BytecodeLink

The linker as set operators over two inventories: which functions are missing,
changed their signature, changed their body, cannot be linked. The reference
definition is `Reproduces`: every function of the patched program exists in the
release, is called as declared and runs the body it was given. That the external
compiler puts exactly the new bodies into the module (`Compiled`) is assumed. `IsOk`
is `compare_for_patch`, with the fields in three groups: what is read from the
project and compared before and after the build (`pin`: the revisions, the
`pubspec.lock`, the defines), the plugins, compared after it, and what is hashed of
the output of the build (`hashed`).

### CliPublish

The commands `init`, `app add`, `release`, `patch` (with and without a payload),
`promote`, `rollback` and `check --install` (the actions `Start...`), one at a
time, on a project that may be edited at any moment. A command goes through steps,
one for each file, request or look at the project:

| Steps | Code |
|-------|------|
| `MakeKey`, `WriteYaml` | `init`, `app add` |
| `Build`, `SaveArtifact`, `CaptureAot`, `CollectInfo`, `SaveMeta` | `release` and its cache |
| `ReadCache`, `Compare`, `SnapshotPayload`, `BytecodePayload`, `ManualPayload`, `PayloadFails`, `SavePayload`, `Sign`, `WriteReport` | `patch` |
| `Answered`, `Unanswered`, `Refused` | the requests of all commands, with their retries |
| `Download`, `PinKey`, `Apply` | `check --install` |

`Killed` ends a command at any step and may tear the file it is writing. The
module uses `BytecodeLink` for what is linked and rejected. A build is its source,
but its hashes are not: `Hashed` is the list of assets (`hash_build_assets` reads
`AssetManifest.*` and none of the assets) and, on Android, the native libraries,
which are "missing" for bytecode. Two sources may therefore compare as equal and
have different pictures or, on iOS, different native code. What the server does
with a request is one step here, since its own steps are in `ServerPatches`;
`Offered` leaves channel and rollout to that module. `auto`, `rel`, `whole` and the
`id` of a report are history variables; the report "started", which a rejected
patch writes just before, is not told apart from the one that replaces it.

## 3. Runs that pass

| Run | Configuration | Shows |
|-----|---------------|-------|
| `state_machine` | 3 patches, 3 attempts, 2 installed, 1 event | all safety properties of the state machine under every crash, error, reset and migration; `PatchState` implements `LaunchPromise` |
| `crash_loop` | the same, patches 2 and 3 broken | crash loops end; the good patch comes back |
| `runtime` | 3 threads, 2 configurations, 2 patches, 3 calls | single flight, right answers, cancellations, every call returns |
| `download` | 3 sources of 2, 3 and 4 blocks, a limit of 3 on a body, 4 retries, 5 faults | part file is a prefix, final file is whole, the download heals unless the payload is over the limit |
| `events` | log of 2, 4 retries, 3 events | `EventDelivery` implements `EventLog`; the log drains |
| `server_patches` | 2 workers, 2 numbers, 2 payloads, 2 channels, 2 rollouts, 2 devices, 3 requests | objects before rows, right payloads, requested exposure, devices converge |
| `org_members` | 3 users, 2 workers, 4 requests | roles, removed members, no third way to lose the last owner |
| `bytecode` | codes of up to 3 of 27 instructions; modules of several shapes in 4 format versions, cut between or inside any tokens, or extended | execution stays where the validator was, accepted is as written, AOT calls exist, a verdict is reached |
| `publish` | 3 sources, 2 apps, 2 key files, 1 number, 3 commands, 1 retry | reports, published patches, keys and pins |

Every property has a mutant, a plausible slip in the code (a counter that is not
reset, a guard that is dropped, an offset that is kept), under which TLC finds it
violated. The mutants stand next to the definitions they change, marked "Fault".

### Bounds

* Three patches fill both places of `installed` and leave one to install. The
  thresholds are the code's; only the cap of the log is 1 instead of 50,
  so that it is hit, and the theorems hold for every cap.
* Three threads are a leader, a follower and one that configures, cancels,
  confirms or downloads, with a call each. A download is one call however long
  it is. The run starts under the first of two interchangeable configurations or
  under none. (With four calls the same invariants hold in 589 412 states up to
  symmetry.)
* Five faults exhaust the four retries of one download and leave one to tear a
  file or change the source; the payloads have different sizes, so a part file
  can be shorter than, equal to or longer than the payload it is resumed for; the
  largest is over the limit of a body and can only arrive in two pieces.
* Three events overflow a log of two, and a flush of two has one event before and
  one behind the one that fails.
* Two handlers and three requests suffice for create, promote and one more of
  any kind, with any two overlapping; the cohorts 999 and 1000 sit on the two
  sides of the 10% boundary of `eligible`. (With four requests the same safety
  properties hold in 2 599 131 states up to symmetry.)
* Three users, two handlers: two owners who remove each other, and a bystander.
* The 27 instructions have every operand length and, for each kind of operand,
  values inside and outside of its range; offsets point at instructions, into
  them and behind the end.
* The run starts with nothing set up or with one app registered, on a device with
  or without a pinned key. Three commands then are patch, promote and install;
  release and two patches; or the registration of an app between two others. One
  source changes a function of another and has lost an entry point; the third adds
  a function and has other assets and another configuration: every verdict of the
  comparison, the linker and the gate occurs.
* `publish` uses app ids and key files as symmetry sets; it checks invariants
  only. No other run uses symmetry, because most of them check liveness.
* Runs whose requests, calls or commands are bounded end when the bound is used
  up, and a bytecode module that was refused has nothing left to do, so these
  runs do not check deadlock; in `UpdaterRuntime` `CallsReturn` takes its place,
  in `BytecodeModule` `Decides`. `PatchState`, `ResumableDownload` and
  `EventDelivery` never stop and are checked for deadlock.

### Fairness

* `CrashLoop`: the user opens the app again (weak fairness of `Start`), an
  install that has begun goes on, every process ends some day, and the process
  does not die every single time before `launch_patch` has saved (strong
  fairness). A process that always died there would not run the patch at all.
* `UpdaterRuntime`: weak fairness of each thread's steps. For `Answer` and
  `PostDone` it assumes that a request ends: connecting and the bodies have
  time-outs and retries are bounded, but the wait for the response head has no
  limit (`server_api.rs:94-106`), so a server that accepts and never answers is
  outside of `CallsReturn`. Calls are bounded, so no fairness of the mutex is
  needed.
* `ResumableDownload`: weak fairness of progress; failures are bounded and the
  app tries again at its next start.
* `EventDelivery`: calls that have begun go on, the user opens the app again, the
  app configures itself (strong fairness, since a restart forgets the
  configuration), and, in `FairSpec` only, a configured app asks for the launch
  patch again and again, as `launchBytecodePatchPath` of the Flutter package
  does. Without that last assumption the log does not drain: section 4.
* `ServerPatches`: handlers that were started are executed; devices go on
  checking.
* `BytecodeModule`: the loops of the reader and the validator go on.

## 4. Where the documents and the code differ

These runs each check one sentence of a document and end in a counterexample;
`PROJECT.json` quotes the sentence.

| Run | The code |
|-----|----------|
| `claim_lkg_files` | pruning deletes the files of the running, unconfirmed patch, which is then confirmed (two installs during its run on a fresh device; one is enough when a confirmed patch has the other place) |
| `claim_last_owner` | adding the only owner again with a lower role demotes them (`store.go:594`), against `docs/operations.md:79`; so do two requests that count two owners and each take one away (`store.go:620`) |
| `claim_reported` | the log is flushed only in the launch call, which the engine makes before Dart has set the server; with that call only, an event is never reported although nothing fails |

The models show further behaviours that a reader should know of, for which there
is no run of their own:

* `mark_success` clears `pending` whatever it is, also a newer patch installed
  while the older one ran (`state.rs:294`); the server offers it again.
* Reinstalling the pending patch resets its boot attempts (`state.rs:177`);
  `CrashLoopEnds` holds as long as a process that crashes early does not do so, and
  says nothing of one that does.
* `PLAN.md:474` says that a patch whose `last_launch` is still `pending_success` at a
  start is added to `bad_patches`. The code launches it again and blocks it when its
  third launch in a row is due (`state.rs:222`), as `PLAN.md:475` says and
  `BlamedWasRepeatedlyUnconfirmed` and the promise require; line 474 describes the
  state before that change (`plans/phase_g_client_resilience.md:22`).
* A check or download that starts on another thread clears a requested
  cancellation (`lib.rs:461`, `498`). So does a download that finds no cached
  response (`lib.rs:832`), after its first look at the flag (`lib.rs:926`): a
  cancellation that arrives between the two is erased by the download it was meant
  for, which installs although nobody else called anything. The test of
  `updater/src/tests.rs:745` cancels later than that. `CancelStops` is of a
  cancellation that stands.
* A cached check response installs an older patch over a newer one confirmed since
  (`lib.rs:930`).
* Two overlapping uploads of one number both pass the existence check and one
  overwrites the other's object (`handlers.go:108`); `PayloadMatchesManifest` and
  `LiveUntilRolledBack` exempt such numbers.
* `install` deletes the directories it prunes before it saves the state that no
  longer lists them (`state.rs:202`); a crash in between leaves the previous
  pending patch listed without files, and the next launch selects it.
* The directory of an install that dies before its state is saved is in no state
  and never pruned (`state.rs:148`), so more than the two directories of
  `PLAN.md:477` can remain.
* Four answers of 500 or more and a 416 on the last attempt leave the retry loop
  without an error, and its `expect` panics (`server_api.rs:317`); `ffi_guard`
  turns that into an error, and `DownloadHeals` covers what follows.
* The body of a payload is read into memory before anything is written
  (`lib.rs:1171`), so a broken connection keeps nothing; a part file remains only
  when the process dies, or the disk fails, during the write.
* `fcb_init` persists the configuration with an empty server URL when none is set
  yet in the process, over a file that had one; a drain with a null callback
  discards the events.
* `LastOwnerGuarded` says that the two ways of `claim_last_owner` are the only ones to
  lose the last owner, and no more.
* The diff of Android patch n starts from the artifact of patch n - 1 whenever the
  project directory has one, published or not (`main.rs:1188`), and not, as
  `PLAN.md:526` says, from the baseline; `main.rs:1121` and
  `docs/architecture_decisions.md:107` mean it so. A device that has only the
  baseline cannot apply it, and the server offers nothing else.
* A release command that is killed behind `kernel_inventory.json` and before
  `release_cache.json` (`auto.rs:351`, `466`) leaves the inventory of one build beside
  the revisions of another; the next patch is compared with one, linked against the
  other and published, although `PLAN.md:215` says that it fails hard when revisions
  differ.
* A create that dies between the upload and the row leaves a number that cannot be
  used again (`handlers.go:123`): the next upload is answered with 409.
* When a create's answer is lost its retry is answered with 409: the patch is
  published and the command fails without a report (`main.rs:580`).
  `CreatedMeansPublished` is of the other direction only, and it knows the app of a
  report from history, since the file does not name it.
* `init` that dies after creating the app and before `fcb.yaml` leaves an app on the
  server that the project does not know; `AppKeyOnDisk` says that its key exists.
* Contents of assets, and native code on iOS, are not part of any comparison
  (`auto.rs:820`, `879`), and an edit that lasts only as long as the build is not
  seen; `PatchReproducesSource` is stated without them.
* A payload of more than 64 MiB is never delivered by a server that ignores `Range`
  (`server_api.rs:446`).
* When the AOT entry points cannot be captured, the file of an earlier release
  command stays and the gate trusts it (`auto.rs:355`).
* `android_app_so_path` looks only into the release build's directory
  (`auto.rs:376`), and the kernel file is the newest `app.dill` anywhere below the
  build directory (`auto.rs:518`), which an edit and a second build may replace.
* The linker ignores classes and fields that only one side has (`linker.rs:121`);
  `Reproduces` is stated accordingly.

## 5. Proofs

The theorems hold for every value of the constants, under the named assumptions of
the modules that declare them (for example: patch numbers are positive, the model
value for "none" is none of the others, bounds are natural numbers). Eight modules
hold them. In each the safety properties follow from one inductive invariant.

**PatchStateProofs**, for every set of patch numbers and all values of
`MaxBootAttempts` and `MaxInstalled` above 1 and of `MaxEvents` above 0:
`TypeCorrect`, `ConfirmedSound`, `BootAttemptsSound`, `BlameSound`,
`RollbackLogged`, `InstalledSound`, `UpdaterKeepsPromise`, that is, all seven
properties of the run `state_machine`, and `LaunchSound`, that no process is handed
a blocked patch, which `ConfirmedIsSound` and the promise imply. None of these is
inductive as it stands.

* `GoodInv` says `Good` of the state the next operation loads and of the one
  waiting in `op`: typed, migrated, current equal to last known good and not
  blocked, and a nonzero counter belonging to a patch that would be selected
  again. The parts need each other: that the counter stays in its type after
  `launch_patch` adds one needs that it is below the threshold, which needs that
  the patch selected now is the one that was charged, which needs that blocking
  a patch falls back to a current patch that is not blocked. Everything is said
  of `LoadState(disk)`, so that a corrupt or a version 1 file needs no case of
  its own; `LegacyGood` shows that a migrated file is good.
* `StreakInv` ties the saved counter to the history of launches: the streak is of
  the same patch and at least as long. With it a rollback, which happens when the
  counter reaches the threshold, is a rollback of a patch launched that often.
* `LogInv` says that the blocks an operation is about to save are logged already;
  its step rests on `AppendEventKeepsNewest`, that the cap never drops the event
  it was called for.
* `BoundInv` bounds the installed patches. Its core is `PruneBounded`: at most
  one patch over the limit comes in, and with `MaxInstalled` at least 2 and
  current equal to last known good (from `GoodInv`) there is always a lowest
  patch that is not protected.
* `PromiseInv` is what the refinement needs besides `GoodInv`. `Prepared` says that
  the state waiting in `op` is what the operation makes of the state still on disk
  (`Launching`, `Installing`, `Confirming`, `Failing`), since nothing but a death or
  an error comes between. `Traced` says that the pending patch is listed, so that a
  launch never passes it over; that only a real patch is on trial; and that a
  launch confirmed before is of the current patch, so that a second confirmation
  confirms nothing new. That the promise counts launches of one patch only
  (`tries` starts at 1 for another) is where `GoodInv` comes in.

**UpdaterRuntimeProofs**, for any number of threads, calls, configurations and
patches: `RuntimeTyped`, `ChecksAreSingleFlight`, `AnswersMatch`,
`CancelledNeverInstalls`. The invariant says that calls in progress have different
numbers (`Ids`), so that nobody knows of the flight a call may still create
(`Fresh`, `Unflown`); that a leader's flight is in the table under its own request
and holds the answer to it or nothing (`Leaders`); that followers of a leader
asked the same, and that a waiter without a leader has its answer (`Followers`);
who holds the mutex (`Owner`); and that a cancelled download still has its flag
and its last checkpoint before it (`Cancels`). Single flight needs all of it up to
`Followers`: two leaders of one request would be two entries under one key.
`CancelledNeverInstalls` is of a flag that stands, not of one that was cleared
(section 4).

**ResumableDownloadProofs**, for payloads of any length, any number of sources,
retries and faults: `DownloadTyped`, `PartStaysPrefix`, `FinalStaysWhole`. The
invariant says that the offset a request was made with is still the length of the
part file when the body is appended, and that an answer is appended only at this
offset (`Resumed`), and that as long as no switch of the source came in between the
part file is a part of the payload (`Clean`). The lemmas about `IsPart` (cutting, extending and
recognising a prefix) replace reasoning about sequences in the steps.

**EventDeliveryProofs**, for every cap and any number of retries and events:
`DeliveryTypes`, `DeliveryCovered`, `DeliveryKeepsPromise`. The last one is the
refinement: with `ClearIsCovered` as the invariant, each step of `EventDelivery`
is a step of `EventLog` or a stutter. A flush may store only because everything
before its position is stored, and may clear only because nothing is left.

**ServerPatchesProofs**, for any number of handlers, patches, payloads, channels,
devices and requests: `PatchesTyped`, `NoRowWithoutObject`, `PublishedPayload`,
`OffersWereRequested`, `LiveStaysLive`. `Uploaded` and `Matching` extend the
properties of rows to the rows that handlers are going to write; `Asked` says that
these were requested in full, which is what the read-modify-write needs; `Sole`
says that a create past the existence check is alone with its number unless that
number is raced, so that nobody else's write can be undone by it.

**OrgMembershipProofs**, for any finite set of users and any number of handlers
and requests: `MembersTyped`, `NobodyComesBack`, `LastOwnerStays` (there is no third
way to lose the last owner besides the two of `claim_last_owner`). `Guarded` says
what a handler about to write still knows of the table if no other write came in
between: the member is no owner, stays one, or is one of at least two.

**BytecodeModuleProofs**, for every constant pool, and for modules of any number of
functions, constants and entries in any format version, whole, cut or extended:
`ValidatedIsSafe`, `ModulesAreSafe`, `CallsHaveEntryPoints`, `FilesReadBack`, that
is, all safety properties of the run `bytecode`.

* *The validator.* `Decoded` says that the collected starts cut the code into
  instructions without gap or overlap; that the offsets of all instructions are
  among them is what pass 2 adds; the interpreter then stays in the set by whatever
  step it takes. `ModuleInv` carries this through the functions of a module.
* *The gate.* `ScanMeetsStarts` shows that the scan of `targets_for`, which walks
  the code on its own, passes every start that the validator has collected, so
  that it finds the target of every call an execution can make.
* *Induction.* Both the scan and what the writer produces (a fold over sequences)
  are defined by recursion. An induction principle with an operator parameter
  cannot be instantiated by the installed provers; `NumberInduction` is stated for
  a set instead, and follows from `LeastNumber`, which follows from the
  well-foundedness of the natural numbers. `FlatExists` and `FlattenCons` derive
  from it what `FlattenSeq` is, and `ScanExists` what the scan is.
* *The reader.* `Spot` says where a reader in the middle of an undamaged body is:
  at a field (`AtField`), in a list (`InList`), between the two tokens of an entry
  (`InEntry`) or at the end. At each place it fixes three things together: what the
  reader expects next, which tokens are left, and what it has put together so far.
  `PlainTaken`, `CountTaken`, `EntryTaken` and `HalfTaken` show that taking one
  token leads from place to place, for every field of every version. `Header` says
  the same of the first three tokens. A file that was cut or extended has another
  length than `Written` or bytes that make no token, and is refused at its end; a file of a later version is
  read as far as it can be and refused by the envelope, because its version got
  there.

**CliPublishProofs**, for any projects, apps, key files, patch numbers, commands and
retries, and for every pair of inventories: `LinkReproduces`, `CliTyped`,
`ReportsTellTruth`, `PatchesReproduce`, `KeysOnDisk`, `InstallsArePinned`, that is,
all properties of the run `publish`.

* `LinkReproduces`: a plan without rejects reproduces the patched program.
* `StateInv` is what holds of the files, the server and the device between two
  steps: rows have their objects and are therefore never written again
  (`RowsLast`), a report that says created is of such a row (`Reported`), a cache
  that was completed belongs to the release the server has (`WholeCache`).
* `JobInv` is what a command knows at each of its steps: that the key it registers
  is written (`JobKeys`); that what it has built is still in the cache, which is not
  whole while a release command writes it (`JobBuild`); that the payload it carries
  is faithful, from the comparison to the upload (`JobPayload`). With the last one
  an edit of the project between the two comparisons is harmless for the program:
  what is hashed, linked and uploaded is the same output. `PatchesReproduce` ties it
  to the server's release only where the last release command had come to its end,
  and not for later Android patches, whose base is another patch.
* A kill is the hard step, since it may tear any file of the command: it loses
  nothing of `StateInv`, because a torn cache is not whole, a torn report says
  nothing, and a torn key is of no app yet.

Assumptions, besides the bounds (the limit of a body among them, which is any
natural number): the names of sources and key files differ from the
markers for "none" and "torn"; the functions of a module to be written have the
types of the code (a Boolean constant has one of two values, a null has none);
every source lists calls for exactly the functions of its inventory. TLC evaluates
all of them on the constants of the runs.

Checked by TLC only: liveness (`CrashLoopEnds`, `GoodPatchComesBack`,
`CallsReturn`, `DownloadHeals`, `LogDrains`, `DevicesConverge`, `Decides`), since
fairness and `ENABLED` are outside of the prover. Every invariant, every action
property and both refinements that a passing run checks are proved.

## 6. Not modelled

* Bytes: hashes, signatures, canonical JSON, zstd and bsdiff are equality of
  payloads or the guard of an install. The encoding of single integers, floats
  and strings in a bytecode module is a token, and its JSON form is left out.
* Time: backoff, jitter, time-outs and the expiry of signed URLs and sessions.
* The release dimension: `release_version` is stored at install and not compared
  at launch, and the block list is not scoped by release; one release is modelled.
* Server: first-time setup, sessions, CLI tokens, schema migrations, statistics,
  event retention and the S3 driver.
* CLI: listing commands, `doctor`, `inspect`, flavors, option parsing, and `install`
  from local files, whose pinning and apply steps are those of `check --install`.
* The Dart package, the web UI and the kernel compiler: sequential programs whose
  effect on the modelled parts is their calls, or a function from files to files.
* The forked engine and VM, which are not part of the repository; what they ask of
  the updater and do with a module is modelled from the other side.

## 7. Order of the work, and what is left

The modules were written in this order: `PatchState` with its crash loop and
proofs, since it decides what code a device runs; `UpdaterRuntime`, since it
decides which of its operations may overlap; `ResumableDownload`;
`ServerPatches`; `OrgMembership`; `EventLog` with `EventDelivery`;
`BytecodeValidator`, `BytecodeModule` and `BytecodeLink`; `CliPublish`; then the
proofs of each; last, `LaunchPromise`.

Left, in the order of what it would add:

1. A composition of device and server with a release dimension on both sides: what
   a late or cached response may do, and what an app store update leaves behind.
2. `ServerAccess`: setup, sessions, CLI tokens and their revocation; schema
   migrations with a crash between two of them.
3. Abstract specifications of the server's patches (a row that is published,
   exposed and rolled back in single steps) and of the runtime's checks (one
   question, one answer), with `ServerPatches` and `UpdaterRuntime` shown to
   implement them.
4. The safety part of the liveness arguments: that `CrashLoopEnds` and `Decides`
   rest on a quantity that every fair step decreases can be stated as action
   properties and proved.
