----------------------------- MODULE CliPublish -----------------------------
(***************************************************************************)
(* The fcb command line tool (cli/src/main.rs, auto.rs) between a project,  *)
(* the files it keeps under .fcb and the server: apps are registered,       *)
(* releases and patches are built, compared, linked, signed and uploaded,   *)
(* patches are promoted, rolled back and installed.                         *)
(*                                                                          *)
(* One command runs at a time, in steps: one for each file it writes, each  *)
(* request it sends and each look at the project.  The developer may edit   *)
(* the project at any moment, so that each look may find another source,    *)
(* and the command may be killed at any moment.  There is one release       *)
(* version and one arch per platform, and builds are in release mode.       *)
(***************************************************************************)
EXTENDS BytecodeLink, Naturals, FiniteSets

CONSTANTS Sources,       \* states of the project
          Pin, Plugins,  \* of each source: SDK revisions and pubspec.lock, plugins
          Manifest,      \* of each source: the names of its assets, not their bytes
          Native,        \* of each source: its native libraries
          Inventory,     \* of each source: its kernel inventory
          Entry,         \* of each source: functions with an AOT entry point
          Calls,         \* of each source and function: AOT functions it calls
          Ids, Names,    \* of apps
          KeyFiles,      \* paths of private keys
          MaxNumber,     \* bound: patch numbers
          MaxCommands,   \* bound: commands
          Retries        \* RETRY_DELAYS.len()

ASSUME SourcesAssumption ==
    /\ Sources \cap {"none", "torn"} = {}
    /\ \A s \in Sources : DOMAIN Calls[s] = DOMAIN Inventory[s].fns
ASSUME KeyFilesAssumption == "none" \notin KeyFiles
ASSUME BoundsAssumption ==
    MaxNumber \in Nat \ {0} /\ MaxCommands \in Nat /\ Retries \in Nat

VARIABLES
    keys,       \* whether each key file exists, or holds half a key
    yaml,       \* fcb.yaml
    cache,      \* .fcb/apps/<id>/releases: what each release left behind
    work,       \* .fcb/patches: what each patch command left behind
    apps,       \* server: table apps
    rel,        \* server: the artifact of each release
    objs, rows, \* server: payload objects and patches
    live,       \* server: the patches that are active
    dev,        \* the cache directory of a device: pinned keys, patches
    job,        \* the command that is being executed
    commands    \* how many there were
files == <<keys, yaml, cache, work>>
server == <<apps, rel, objs, rows, live>>
vars == <<files, server, dev, job, commands>>

-----------------------------------------------------------------------------

None == "none"
Torn == "torn"  \* fs::write was interrupted
Platforms == {"android", "ios"}     \* snapshot_replace, bytecode
Numbers == 1..MaxNumber
Artifact == Sources \cup {None, Torn}
KeyState == {None, Torn, "whole"}
Targets == Ids \X Platforms

\* Build infos; a file with None in it does not exist, with Torn is no JSON.
NoHash == [manifest |-> None, native |-> None]

\* What is hashed of the output of a build: hash_build_assets reads the list of
\* assets and none of the assets, hash_build_native reads nothing for bytecode.
Hashed(platform, s) ==
    [manifest |-> Manifest[s], native |-> IF platform = "android" THEN Native[s] ELSE "missing"]

Info == [pin : { Pin[s] : s \in Sources } \cup {None, Torn},
         plugins : { Plugins[s] : s \in Sources } \cup {None},
         hashed : { Hashed(p, s) : p \in Platforms, s \in Sources } \cup {NoHash}]
NoInfo == [pin |-> None, plugins |-> None, hashed |-> NoHash]

\* app.so or kernel_inventory.json, aot_entry_points.json, release_cache.json;
\* whole is history: no release command stopped half-way since it was written.
CacheDir == [art : Artifact, aot : Artifact, meta : Info, whole : BOOLEAN]

\* A payload with its manifest: a diff from base to out, or the module that
\* was linked against base and compiled from out.  auto and rel are history:
\* it was built by the command itself, and what the server had as the release
\* if the cache was whole.
Payload == [base : Artifact, out : Artifact, key : KeyFiles \cup {None},
            auto : BOOLEAN, rel : Artifact]
NoPayload == [base |-> None, out |-> None, key |-> None,
              auto |-> FALSE, rel |-> None]

\* patch_report.json; id is history, the file does not name the app.  A report
\* "started", which a failed comparison writes just before, is not told apart
\* from the report "rejected" that replaces it.
Report == [status : {None, Torn, "rejected", "no_op", "created"},
           id : Ids \cup {None}, payload : Payload]
NoReport == [status |-> None, id |-> None, payload |-> NoPayload]

\* The steps of the commands.
Pcs == {"key", "app", "yaml", "build", "artifact", "aot", "info", "meta",
        "release", "cache", "compare", "payload", "manual", "save", "sign",
        "patch", "report", "promote", "rollback", "check", "pin", "apply"}
Job == [cmd : {"register", "release", "patch", "promote", "rollback", "install"},
        pc : Pcs, t : Targets, n : Numbers, name : Names, file : KeyFiles,
        src : Sources \cup {None}, info : Info, status : {None, "rejected", "no_op", "created"},
        payload : Payload, tries : 0..Retries]
\* src is the source that the command has built.
Idle == [cmd |-> None, pc |-> "idle"]

App == [name : Names, key : KeyFiles]
NoApp == [name |-> None, key |-> None]

\* Nothing has been set up, or init has registered an app; the device may have
\* pinned a key that the app had before.
Init ==
    /\ \/ /\ keys = [f \in KeyFiles |-> None]
          /\ yaml = NoApp
          /\ apps = [i \in Ids |-> NoApp]
       \/ \E f \in KeyFiles, i \in Ids, n \in Names :
             /\ keys = [k \in KeyFiles |-> IF k = f THEN "whole" ELSE None]
             /\ yaml = [name |-> n, key |-> f]
             /\ apps = [k \in Ids |-> IF k = i THEN [name |-> n, key |-> f] ELSE NoApp]
    /\ cache = [t \in Targets |->
                  [art |-> None, aot |-> None, meta |-> NoInfo, whole |-> FALSE]]
    /\ work = [w \in Platforms \X Numbers |-> [art |-> None, report |-> NoReport]]
    /\ rel = [t \in Targets |-> None]
    /\ objs = [q \in Targets \X Numbers |-> NoPayload]
    /\ rows = objs
    /\ live = {}
    /\ \E k \in KeyFiles \cup {None} : dev = [pin |-> [i \in Ids |-> k], installed |-> rows]
    /\ job = Idle
    /\ commands = 0

-----------------------------------------------------------------------------
(* Commands                                                                 *)

At(pc) == job.pc = pc
Goto(pc) == job' = [job EXCEPT !.pc = pc, !.tries = 0]
Stop == job' = Idle

\* The directory of a patch does not depend on the app.
Dir == <<job.t[2], job.n>>
Slot == <<job.t, job.n>>

\* resolve_app by --app-id; by the name in fcb.yaml it may fail, when two
\* apps have that name.
Resolves(i) == apps[i] # NoApp

Begin(cmd, pc, t, n, name, file) ==
    /\ job = Idle /\ commands < MaxCommands
    /\ yaml.name # Torn                 \* load_local_context fails
    /\ commands' = commands + 1
    /\ job' = [cmd |-> cmd, pc |-> pc, t |-> t, n |-> n, name |-> name,
               file |-> file, src |-> None, info |-> NoInfo, status |-> None,
               payload |-> NoPayload, tries |-> 0]
    /\ UNCHANGED <<files, server, dev>>

Register(i) == \E n \in Names, f \in KeyFiles : Begin("register", "key", <<i, "ios">>, 1, n, f)

\* init wants no fcb.yaml and draws a new id.
StartInit == yaml = NoApp /\ \E i \in Ids : apps[i] = NoApp /\ Register(i)

\* app add needs no fcb.yaml and may be given any id.
StartAppAdd == \E i \in Ids : Register(i)

Start(cmd, pc) ==
    \E t \in Targets, n \in Numbers, f \in KeyFiles, name \in Names :
        /\ Resolves(t[1])
        /\ cmd = "patch" \/ f = apps[t[1]].key     \* only patch reads the key
        /\ cmd \in {"patch", "promote", "rollback"} \/ n = 1
        /\ name = apps[t[1]].name
        /\ Begin(cmd, pc, t, n, name, f)
StartRelease == Start("release", "build")
StartPatch == Start("patch", "cache")
StartPatchWithPayload == Start("patch", "manual")
StartPromote == Start("promote", "promote")
StartRollback == Start("rollback", "rollback")
StartCheckInstall == Start("install", "check")

-----------------------------------------------------------------------------
(* init and app add                                                         *)

\* Fault: the key is not on disk when the app is registered.
MakeKeyLater ==
    /\ At("key") /\ keys[job.file] # Torn
    /\ Goto("app")
    /\ UNCHANGED <<files, server, dev, commands>>

\* The key file is read, or a new key is generated and written.
MakeKey ==
    /\ At("key") /\ keys[job.file] # Torn
    /\ keys' = [keys EXCEPT ![job.file] = "whole"]
    /\ Goto("app")
    /\ UNCHANGED <<yaml, cache, work, server, dev, commands>>

WriteYaml ==
    /\ At("yaml")
    /\ yaml' = [name |-> job.name, key |-> job.file]
    /\ Stop
    /\ UNCHANGED <<keys, cache, work, server, dev, commands>>

-----------------------------------------------------------------------------
(* release                                                                  *)

\* run_flutter_build, also of a patch.
Build ==
    /\ At("build")
    /\ \E s \in Sources :
         job' = [job EXCEPT !.src = s,
                            !.pc = IF job.cmd = "release" THEN "artifact" ELSE "compare"]
    /\ UNCHANGED <<files, server, dev, commands>>

\* collect_release_artifact writes app.so or kernel_inventory.json ...
SaveArtifact ==
    /\ At("artifact")
    /\ cache' = [cache EXCEPT ![job.t].art = job.src, ![job.t].whole = FALSE]
    /\ Goto(IF job.t[2] = "ios" THEN "aot" ELSE "info")
    /\ UNCHANGED <<keys, yaml, work, server, dev, commands>>

\* ... and the AOT entry points if it can find them out; if not, a file of an
\* earlier release command stays.
CaptureAot ==
    /\ At("aot")
    /\ \/ cache' = [cache EXCEPT ![job.t].aot = job.src]
       \/ UNCHANGED cache
    /\ Goto("info")
    /\ UNCHANGED <<keys, yaml, work, server, dev, commands>>

\* collect_build_info: the project as it is now, the outputs of the build.
BuildInfo(s) ==
    [pin |-> Pin[s], plugins |-> Plugins[s], hashed |-> Hashed(job.t[2], job.src)]

CollectInfo ==
    /\ At("info")
    /\ \E s \in Sources : job' = [job EXCEPT !.pc = "meta", !.info = BuildInfo(s)]
    /\ UNCHANGED <<files, server, dev, commands>>

\* write_release_cache; of its files only release_cache.json is read again.
SaveMeta ==
    /\ At("meta")
    /\ cache' = [cache EXCEPT ![job.t].meta = job.info]
    /\ Goto("release")
    /\ UNCHANGED <<keys, yaml, work, server, dev, commands>>

-----------------------------------------------------------------------------
(* patch                                                                    *)

Reject == job' = [job EXCEPT !.pc = "report", !.status = "rejected"]

\* Whatever fails before there is a payload ends in a report.
PayloadFails ==
    /\ job.cmd = "patch"
    /\ job.pc \in {"cache", "build", "compare", "payload", "manual"}
    /\ Reject
    /\ UNCHANGED <<files, server, dev, commands>>

CacheReadable(meta) == meta.pin \notin {None, Torn}

\* collect_prebuild_build_info: the release stands in for what only the build tells.
PrebuildInfo(meta, s) == [meta EXCEPT !.pin = Pin[s]]

\* read_release_cache and the comparison before the build.
ReadCache ==
    /\ At("cache")
    /\ LET meta == cache[job.t].meta IN
       \E s \in Sources :
         IF CacheReadable(meta) /\ IsOk(meta, PrebuildInfo(meta, s))
         THEN Goto("build")
         ELSE Reject
    /\ UNCHANGED <<files, server, dev, commands>>

\* Fault: what was compared before the build is not compared after it.
CompareNot ==
    /\ At("compare")
    /\ Goto("payload")
    /\ UNCHANGED <<files, server, dev, commands>>

\* The comparison after the build.
Compare ==
    /\ At("compare")
    /\ \E s \in Sources :
         IF IsOk(cache[job.t].meta, BuildInfo(s)) THEN Goto("payload") ELSE Reject
    /\ UNCHANGED <<files, server, dev, commands>>

\* snapshot_replace_diff_base: the artifact of the patch before, if this
\* project directory has one, or else of the release.
DiffBase ==
    IF job.n > 1 /\ work[<<job.t[2], job.n - 1>>].art # None
    THEN work[<<job.t[2], job.n - 1>>].art
    ELSE cache[job.t].art

\* The payload of the command goes on to be saved.
Take(base, out, auto) ==
    job' = [job EXCEPT !.pc = "save",
                !.payload = [base |-> base, out |-> out, key |-> None, auto |-> auto,
                             rel |-> IF cache[job.t].whole THEN rel[job.t] ELSE None]]

\* automatic_snapshot_payload; any bytes can be the base of a diff.
SnapshotPayload ==
    /\ At("payload") /\ job.t[2] = "android"
    /\ IF DiffBase # None THEN Take(DiffBase, job.src, TRUE) ELSE Reject
    /\ UNCHANGED <<files, server, dev, commands>>

\* What the module that is compiled from out refers to.
AotReferenced(base, out) ==
    UNION { Calls[out][f] : f \in Interpret(Inventory[base], Inventory[out]) }

\* gate_call_original_aot_presence: it is skipped when there is no file.
GatePasses(base, out) ==
    LET aot == cache[job.t].aot
    IN  aot # None => aot # Torn /\ AotReferenced(base, out) \subseteq Entry[aot]

\* automatic_bytecode_payload.
BytecodePayload ==
    /\ At("payload") /\ job.t[2] = "ios"
    /\ LET base == cache[job.t].art
           out == job.src
       IN  IF base \in {None, Torn} \/ HasRejects(Inventory[base], Inventory[out])
           THEN Reject
           ELSE IF Interpret(Inventory[base], Inventory[out]) = {}
           THEN job' = [job EXCEPT !.pc = "report", !.status = "no_op"]
           ELSE IF GatePasses(base, out)
           THEN Take(base, out, TRUE)
           ELSE Reject
    /\ UNCHANGED <<files, server, dev, commands>>

\* manual_patch_payload: an artifact, or a module that was compiled elsewhere.
ManualPayload ==
    /\ At("manual")
    /\ \E out \in Sources :
         IF job.t[2] = "ios"
         THEN Take(None, out, FALSE)
         ELSE IF DiffBase # None THEN Take(DiffBase, out, FALSE) ELSE Reject
    /\ UNCHANGED <<files, server, dev, commands>>

\* payload.bin, and artifact.bin for the next diff.
SavePayload ==
    /\ At("save")
    /\ work' = IF job.t[2] = "android"
               THEN [work EXCEPT ![Dir].art = job.payload.out] ELSE work
    /\ Goto("sign")
    /\ UNCHANGED <<keys, yaml, cache, server, dev, commands>>

\* load_private_key and sign_patch_manifest: any key will do.
Sign ==
    /\ At("sign") /\ keys[job.file] = "whole"
    /\ job' = [job EXCEPT !.pc = "patch", !.payload.key = job.file]
    /\ UNCHANGED <<files, server, dev, commands>>

WriteReport ==
    /\ At("report")
    /\ work' = [work EXCEPT ![Dir].report =
                  [status |-> job.status, id |-> job.t[1], payload |-> job.payload]]
    /\ Stop
    /\ UNCHANGED <<keys, yaml, cache, server, dev, commands>>

-----------------------------------------------------------------------------
(* Requests: post_json against the handlers of the server                   *)

\* The handlers; createApp and createRelease replace what is there.
Handled ==
    \/ /\ At("app")
       /\ apps' = [apps EXCEPT ![job.t[1]] = [name |-> job.name, key |-> job.file]]
       /\ UNCHANGED <<rel, objs, rows, live>>
    \/ /\ At("release")
       /\ rel' = [rel EXCEPT ![job.t] = job.src]
       /\ UNCHANGED <<apps, objs, rows, live>>
    \/ /\ At("patch") /\ objs[Slot] = NoPayload
       /\ objs' = [objs EXCEPT ![Slot] = job.payload]
       /\ rows' = [rows EXCEPT ![Slot] = job.payload]
       /\ UNCHANGED <<apps, rel, live>>
    \/ /\ job.pc \in {"promote", "rollback"} /\ rows[Slot] # NoPayload
       /\ live' = IF At("promote") THEN live \cup {Slot} ELSE live \ {Slot}
       /\ UNCHANGED <<apps, rel, objs, rows>>

\* The object is stored and the row is not: the server answers 500.
HandledHalf ==
    /\ At("patch") /\ objs[Slot] = NoPayload
    /\ objs' = [objs EXCEPT ![Slot] = job.payload]
    /\ UNCHANGED <<apps, rel, rows, live>>

\* 409 for a payload object that exists, 404 for a patch that does not.
Refusal ==
    \/ At("patch") /\ objs[Slot] # NoPayload
    \/ job.pc \in {"promote", "rollback"} /\ rows[Slot] = NoPayload

Requesting == job.pc \in {"app", "release", "patch", "promote", "rollback"}

Answered ==
    /\ Handled
    /\ cache' = IF At("release") THEN [cache EXCEPT ![job.t].whole = TRUE] ELSE cache
    /\ job' = CASE At("app") -> [job EXCEPT !.pc = "yaml"]
                [] At("patch") -> [job EXCEPT !.pc = "report", !.status = "created"]
                [] OTHER -> Idle
    /\ UNCHANGED <<keys, yaml, work, dev, commands>>

\* Fault: the attempts are counted and not limited.
RetryForever == job' = [job EXCEPT !.tries = @ + 1]

Retry == IF job.tries < Retries THEN job' = [job EXCEPT !.tries = @ + 1] ELSE Stop

\* The answer is lost, the handler failed in the middle, or the request is
\* lost or answered with 5xx: the same request is sent again.
Unanswered ==
    /\ Requesting
    /\ Handled \/ HandledHalf \/ UNCHANGED server
    /\ Retry
    /\ UNCHANGED <<files, dev, commands>>

\* Fault: that the patch exists already is taken for an earlier attempt's
\* success.
ConflictIsDone == job' = [job EXCEPT !.pc = "report", !.status = "created"]

\* An error of create_patch leaves patch() without a report.
Conflict == Stop

Refused ==
    /\ Refusal
    /\ IF At("patch") THEN Conflict ELSE Stop
    /\ UNCHANGED <<files, server, dev, commands>>

-----------------------------------------------------------------------------
(* check --install                                                          *)

\* checkPatch; channels, rollouts and the patch a device has are the subject of
\* ServerPatches: here every device is eligible for every active patch.
Offered == { n \in Numbers : <<job.t, n>> \in live }

\* The newest active patch is downloaded; ensure_hash compares the payload
\* with what the check response said.
Download ==
    /\ At("check")
    /\ IF Offered = {}
       THEN Stop
       ELSE \E n \in Offered :
              /\ \A k \in Offered : k <= n
              /\ objs[<<job.t, n>>] = rows[<<job.t, n>>]
              /\ job' = [job EXCEPT !.pc = "pin", !.n = n]
    /\ UNCHANGED <<files, server, dev, commands>>

PublicKey == apps[job.t[1]].key

\* Fault: a key that differs from the pinned one is used all the same.
PinKeyAnyway ==
    /\ At("pin")
    /\ dev' = IF dev.pin[job.t[1]] = None
              THEN [dev EXCEPT !.pin[job.t[1]] = PublicKey] ELSE dev
    /\ Goto("apply")
    /\ UNCHANGED <<files, server, commands>>

\* ensure_pinned_public_key: trust on first use.
PinKey ==
    /\ At("pin")
    /\ \/ /\ dev.pin[job.t[1]] = None
          /\ dev' = [dev EXCEPT !.pin[job.t[1]] = PublicKey]
          /\ Goto("apply")
       \/ dev.pin[job.t[1]] = PublicKey /\ Goto("apply") /\ UNCHANGED dev
       \/ dev.pin[job.t[1]] \notin {None, PublicKey} /\ Stop /\ UNCHANGED dev
    /\ UNCHANGED <<files, server, commands>>

\* find_diff_base: an installed artifact or the baseline, by its hash.
HasBase(payload) ==
    \/ \E n \in Numbers : dev.installed[<<job.t, n>>].out = payload.base
    \/ cache[job.t].art = payload.base

\* install_payload_with_baseline: signature, then the diff.
Apply ==
    /\ At("apply")
    /\ dev' = IF /\ rows[Slot].key = PublicKey
                 /\ job.t[2] = "ios" \/ HasBase(rows[Slot])
              THEN [dev EXCEPT !.installed[Slot] = rows[Slot]] ELSE dev
    /\ Stop
    /\ UNCHANGED <<files, server, commands>>

-----------------------------------------------------------------------------
(* Crashes                                                                  *)

\* The command is killed or an error ends it; the file that is being written
\* may be left with half of its bytes.
Killed ==
    /\ job # Idle
    /\ Stop
    /\ \/ UNCHANGED <<files, dev>>
       \/ /\ At("key") /\ keys[job.file] = None
          /\ keys' = [keys EXCEPT ![job.file] = Torn]
          /\ UNCHANGED <<yaml, cache, work, dev>>
       \/ /\ At("yaml")
          /\ yaml' = [NoApp EXCEPT !.name = Torn]
          /\ UNCHANGED <<keys, cache, work, dev>>
       \/ /\ \/ At("artifact") /\ cache' = [cache EXCEPT ![job.t].art = Torn,
                                                       ![job.t].whole = FALSE]
             \/ At("aot") /\ cache' = [cache EXCEPT ![job.t].aot = Torn]
             \/ At("meta") /\ cache' = [cache EXCEPT ![job.t].meta.pin = Torn]
          /\ UNCHANGED <<keys, yaml, work, dev>>
       \/ /\ \/ At("save") /\ job.t[2] = "android" /\ work' = [work EXCEPT ![Dir].art = Torn]
             \/ At("report") /\ work' = [work EXCEPT ![Dir].report.status = Torn]
          /\ UNCHANGED <<keys, yaml, cache, dev>>
       \/ /\ At("pin") /\ dev.pin[job.t[1]] = None
          /\ dev' = [dev EXCEPT !.pin[job.t[1]] = Torn]
          /\ UNCHANGED files
    /\ UNCHANGED <<server, commands>>

Command ==
    \/ StartInit \/ StartAppAdd \/ StartRelease \/ StartPatch \/ StartPatchWithPayload
    \/ StartPromote \/ StartRollback \/ StartCheckInstall
Step ==
    \/ MakeKey \/ WriteYaml
    \/ Build \/ SaveArtifact \/ CaptureAot \/ CollectInfo \/ SaveMeta
    \/ ReadCache \/ Compare \/ SnapshotPayload \/ BytecodePayload \/ ManualPayload
    \/ PayloadFails \/ SavePayload \/ Sign \/ WriteReport
    \/ Answered \/ Unanswered \/ Refused
    \/ Download \/ PinKey \/ Apply
Next == Command \/ Step \/ Killed
Spec == Init /\ [][Next]_vars

-----------------------------------------------------------------------------
(* Properties                                                               *)

TypeOK ==
    /\ keys \in [KeyFiles -> KeyState]
    /\ yaml \in [name : Names \cup {None, Torn}, key : KeyFiles \cup {None}]
    /\ cache \in [Targets -> CacheDir]
    /\ work \in [Platforms \X Numbers -> [art : Artifact, report : Report]]
    /\ apps \in [Ids -> App \cup {NoApp}]
    /\ rel \in [Targets -> Sources \cup {None}]
    /\ objs \in [Targets \X Numbers -> Payload] /\ rows \in [Targets \X Numbers -> Payload]
    /\ live \subseteq Targets \X Numbers
    /\ dev \in [pin : [Ids -> KeyFiles \cup {None, Torn}],
               installed : [Targets \X Numbers -> Payload]]
    /\ job \in Job \cup {Idle}
    /\ commands \in 0..MaxCommands

\* A report that says "created" tells the truth for ever: the server has the
\* patch of that app and number, with the payload the report was written for,
\* whatever answers were lost, whatever was retried, however often the number
\* was used again and by whichever app.  patch() writes the report last.  The
\* converse does not hold: a patch may be published without a report.
CreatedMeansPublished ==
    \A p \in Platforms, n \in Numbers :
        LET report == work[<<p, n>>].report
        IN  report.status = "created" => rows[<<<<report.id, p>>, n>>] = report.payload

\* What holds of the payload r of patch n of t.
Faithful(t, n, r) ==
    r.auto =>
        /\ t[2] = "ios" =>
              Reproduces(Inventory[r.base], Compiled(Inventory[r.base], Inventory[r.out]),
                         Inventory[r.out])
        /\ r.rel # None =>
              /\ t[2] = "ios" \/ n = 1 => r.base = r.rel
              /\ Hashed(t[2], r.out) = Hashed(t[2], r.rel)

\* What the automatic checks of patch() guarantee of what it publishes, however
\* the project is edited between the looks at it: an iOS module reproduces the
\* program that was built on the inventory it was linked against, always; and
\* if the last release command on this cache had run to its end, that is the
\* inventory (for the first Android patch, the artifact) of the release the
\* server had, and patch and release list the same assets and, on Android,
\* have the same native libraries.  It says nothing of the contents of assets
\* or of native code on iOS, which are not compared, nor of the revisions:
\* those are read from the project and not from the build, and after a release
\* command that was killed they may be another build's than the inventory.  Nor
\* of the base of a later Android diff, which is the output of the patch before
\* if the project directory has one.
PatchReproducesSource ==
    \A t \in Targets, n \in Numbers : Faithful(t, n, rows[<<t, n>>])

\* The private key of every app on the server is on disk, whole, wherever the
\* command that registered it was killed: init and app add write the key
\* before they create the app.
AppKeyOnDisk == \A i \in Ids : apps[i] # NoApp => keys[apps[i].key] = "whole"

\* All patches that a device installs are signed with the key that it pinned
\* when it first met the app, although app add may give the app another key
\* and patch signs with whatever key file it is given.
InstalledUnderPin ==
    \A t \in Targets, n \in Numbers :
        dev.installed[<<t, n>>] # NoPayload => dev.installed[<<t, n>>].key = dev.pin[t[1]]
=============================================================================
