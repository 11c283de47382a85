-------------------------- MODULE CliPublishProofs --------------------------
(***************************************************************************)
(* What the linker and the command line tool guarantee, for any projects,   *)
(* apps, keys, patch numbers, commands and retries.                         *)
(***************************************************************************)
EXTENDS CliPublish, TLAPS

-----------------------------------------------------------------------------
(* The linker: a plan without rejects loses nothing                         *)

\* A function that is not interpreted has the same body on both sides.
LEMMA UnplannedIsUnchanged ==
    ASSUME NEW release, NEW patch, ~HasRejects(release, patch),
           NEW f \in DOMAIN patch.fns, f \notin Interpret(release, patch)
    PROVE  f \in DOMAIN release.fns /\ release.fns[f].body = patch.fns[f].body
<1>1. f \in DOMAIN release.fns
  BY DEF HasRejects, MissingBaselineFunction
<1>2. release.fns[f].sig = patch.fns[f].sig
  BY <1>1 DEF HasRejects, SignatureChanged
<1>3. f \notin NotLinkable(release, patch)
  BY DEF HasRejects
<1>4. f \notin BodyChanged(release, patch)
  BY <1>3 DEF Interpret
<1>5. QED
  BY <1>1, <1>2, <1>4 DEF BodyChanged

\* plan_bytecode_link is sound for every pair of inventories: when it rejects
\* nothing, the release with the compiled interpret set runs exactly the
\* patched program.  The no-op (nothing to interpret) is the case of an
\* empty module.
THEOREM LinkReproduces ==
    ASSUME NEW release, NEW patch, ~HasRejects(release, patch)
    PROVE  Reproduces(release, Compiled(release, patch), patch)
<1> DEFINE module == Compiled(release, patch)
<1>1. ASSUME NEW f \in DOMAIN patch.fns
      PROVE  /\ f \in DOMAIN release.fns
             /\ release.fns[f].sig = patch.fns[f].sig
             /\ Patched(release, module)[f] = patch.fns[f].body
  <2>1. f \in DOMAIN release.fns
    BY DEF HasRejects, MissingBaselineFunction
  <2>2. release.fns[f].sig = patch.fns[f].sig
    BY <2>1 DEF HasRejects, SignatureChanged
  <2>3. DOMAIN module = Interpret(release, patch)
    BY DEF Compiled
  <2>4. CASE f \in Interpret(release, patch)
    BY <2>1, <2>2, <2>3, <2>4 DEF Compiled, Patched
  <2>5. CASE f \notin Interpret(release, patch)
    BY <2>1, <2>2, <2>3, <2>5, UnplannedIsUnchanged DEF Patched
  <2>6. QED
    BY <2>4, <2>5
<1>2. /\ Changed(release.classes, patch.classes) = {}
      /\ Changed(release.fields, patch.fields) = {}
  BY DEF HasRejects
<1>3. QED
  BY <1>1, <1>2 DEF Reproduces

-----------------------------------------------------------------------------
(* The inductive invariant                                                  *)

\* What is installed was signed with the key that was compared with the pin.
Installed ==
    /\ InstalledUnderPin
    /\ \A q \in Targets \X Numbers :
          dev.installed[q] # NoPayload => dev.installed[q].key \in KeyFiles

\* A row has its object, so that it is never written again; what a report
\* says was created is such a row, and signed.
Published(t, n, payload) == payload.key \in KeyFiles /\ rows[<<t, n>>] = payload
RowsLast == \A q \in Targets \X Numbers : rows[q] # NoPayload => objs[q] = rows[q]
Reported ==
    \A p \in Platforms, n \in Numbers :
        LET report == work[<<p, n>>].report
        IN  report.status = "created" =>
                report.id \in Ids /\ Published(<<report.id, p>>, n, report.payload)

\* A whole cache holds the artifact and the hashes of the server's release.
WholeCache ==
    \A t \in Targets : cache[t].whole =>
        /\ rel[t] \in Sources
        /\ cache[t].art = rel[t]
        /\ cache[t].meta.hashed = Hashed(t[2], rel[t])

StateInv == AppKeyOnDisk /\ Installed /\ RowsLast /\ Reported /\ WholeCache
            /\ PatchReproducesSource

\* What a command knows at each of its steps: of the key and the app,
JobKeys ==
    /\ At("app") => keys[job.file] = "whole"
    /\ job.pc \in {"check", "pin", "apply"} => apps[job.t[1]] # NoApp
    /\ At("apply") => dev.pin[job.t[1]] = PublicKey

\* of what it has built and of the cache, which is not whole while a release
\* command writes it,
JobBuild ==
    /\ job.pc \in {"artifact", "aot", "info", "meta", "release", "compare", "payload"} =>
          job.src \in Sources
    /\ job.pc \in {"aot", "info", "meta", "release"} =>
          cache[job.t].art = job.src /\ ~cache[job.t].whole
    /\ At("meta") => job.info.hashed = Hashed(job.t[2], job.src)
    /\ job.pc \in {"release", "payload"} => cache[job.t].meta.hashed = Hashed(job.t[2], job.src)

\* and of its payload.
JobPayload ==
    /\ job.pc \in {"save", "sign", "patch"} => Faithful(job.t, job.n, job.payload)
    /\ At("patch") => job.payload.key \in KeyFiles
    /\ At("report") /\ job.status = "created" => Published(job.t, job.n, job.payload)

JobInv == JobKeys /\ JobBuild /\ JobPayload
Inv == TypeOK /\ StateInv /\ JobInv

-----------------------------------------------------------------------------
(* The command and its fields                                               *)

\* A command in progress has all its fields.
LEMMA JobFields ==
    ASSUME TypeOK, job # Idle
    PROVE  /\ job \in Job
           /\ job.t \in Targets /\ job.t[1] \in Ids /\ job.t[2] \in Platforms
           /\ job.t = <<job.t[1], job.t[2]>>
           /\ job.n \in Numbers /\ job.name \in Names /\ job.file \in KeyFiles
           /\ job.src \in Sources \cup {None} /\ job.info \in Info
           /\ job.status \in {None, "rejected", "no_op", "created"}
           /\ job.payload \in Payload /\ job.tries \in 0..Retries
           /\ Slot \in Targets \X Numbers /\ Dir \in Platforms \X Numbers
<1>1. job \in Job
    BY DEF TypeOK
<1>2. /\ job.t \in Targets
      /\ job.n \in Numbers /\ job.name \in Names /\ job.file \in KeyFiles
      /\ job.src \in Sources \cup {None} /\ job.info \in Info
      /\ job.status \in {None, "rejected", "no_op", "created"}
      /\ job.payload \in Payload /\ job.tries \in 0..Retries
    BY <1>1 DEF Job
<1>3. job.t[1] \in Ids /\ job.t[2] \in Platforms /\ job.t = <<job.t[1], job.t[2]>>
    BY <1>2 DEF Targets
<1>4. Slot \in Targets \X Numbers /\ Dir \in Platforms \X Numbers
    BY <1>2, <1>3 DEF Slot, Dir
<1> QED BY <1>1, <1>2, <1>3, <1>4

\* A step is taken by a command.
LEMMA NotIdle == job.pc \in Pcs => job # Idle
BY DEF Pcs, Idle

\* The fields that most steps leave alone.
SameJob ==
    /\ job'.t = job.t /\ job'.n = job.n /\ job'.name = job.name /\ job'.file = job.file
    /\ job'.src = job.src /\ job'.info = job.info /\ job'.status = job.status
    /\ job'.payload = job.payload

\* Going on to the next step.
LEMMA GotoJob ==
    ASSUME job \in Job, NEW pc \in Pcs, Goto(pc)
    PROVE  job' \in Job /\ job'.pc = pc /\ SameJob
<1> DEFINE j == [job EXCEPT !.pc = pc]
<1>1. /\ j \in Job /\ j.pc = pc
      /\ j.t = job.t /\ j.n = job.n /\ j.name = job.name /\ j.file = job.file
      /\ j.src = job.src /\ j.info = job.info /\ j.status = job.status
      /\ j.payload = job.payload
    BY DEF Job
<1>2. job' = [j EXCEPT !.tries = 0] /\ 0 \in 0..Retries
    BY BoundsAssumption DEF Goto
<1> HIDE DEF j
<1> QED BY <1>1, <1>2 DEF Job, SameJob

\* Ending in a report that says why there is no patch.
LEMMA RejectJob ==
    ASSUME job \in Job, Reject
    PROVE  job' \in Job /\ job'.pc = "report" /\ job'.status = "rejected"
BY DEF Reject, Job, Pcs

\* A command that has ended knows nothing, and one that rejects claims nothing.
LEMMA DoneInv ==
    ASSUME job' = Idle \/ (job'.pc = "report" /\ job'.status = "rejected")
    PROVE  JobInv'
BY DEF JobInv, JobKeys, JobBuild, JobPayload, At, Idle

\* A step that changes nothing but the command.
LEMMA OnlyJob ==
    ASSUME Inv, UNCHANGED <<files, server, dev>>, job' \in Job \cup {Idle},
           commands' \in 0..MaxCommands
    PROVE  TypeOK' /\ StateInv'
<1>1. TypeOK'
    BY DEF Inv, TypeOK, files, server
<1>2. StateInv'
    BY DEF Inv, StateInv, AppKeyOnDisk, Installed, InstalledUnderPin, RowsLast, Reported,
           Published, WholeCache, PatchReproducesSource, Faithful, files, server
<1> QED BY <1>1, <1>2

-----------------------------------------------------------------------------
(* The steps                                                                *)

\* Nothing is published, installed or cached, and no command runs.
LEMMA InitInv == Init => Inv
<1> SUFFICES ASSUME Init PROVE Inv
    OBVIOUS
<1>1. /\ NoPayload \in Payload /\ NoReport \in Report /\ NoInfo \in Info
      /\ [art |-> None, aot |-> None, meta |-> NoInfo, whole |-> FALSE] \in CacheDir
    BY DEF NoPayload, Payload, NoReport, Report, NoInfo, Info, CacheDir, Artifact
<1>2. /\ keys \in [KeyFiles -> KeyState]
      /\ yaml \in [name : Names \cup {None, Torn}, key : KeyFiles \cup {None}]
      /\ apps \in [Ids -> App \cup {NoApp}]
      /\ AppKeyOnDisk
    BY DEF Init, KeyState, App, NoApp, AppKeyOnDisk
<1>3. TypeOK
    <2>1. /\ cache \in [Targets -> CacheDir]
          /\ work \in [Platforms \X Numbers -> [art : Artifact, report : Report]]
        BY <1>1 DEF Init, Artifact
    <2>2. rel \in [Targets -> Sources \cup {None}] /\ objs \in [Targets \X Numbers -> Payload]
        BY <1>1 DEF Init
    <2>3. dev \in [pin : [Ids -> KeyFiles \cup {None, Torn}],
                   installed : [Targets \X Numbers -> Payload]]
        BY <2>2 DEF Init
    <2>4. rows = objs /\ live = {} /\ job = Idle /\ commands = 0
        BY DEF Init
    <2> QED BY <1>2, <2>1, <2>2, <2>3, <2>4, BoundsAssumption DEF TypeOK
<1>4. /\ \A q \in Targets \X Numbers : rows[q] = NoPayload /\ dev.installed[q] = NoPayload
      /\ \A t \in Targets : ~cache[t].whole
      /\ \A w \in Platforms \X Numbers : work[w].report = NoReport
    BY DEF Init
<1>5. Installed /\ RowsLast /\ WholeCache
    BY <1>4 DEF Installed, InstalledUnderPin, RowsLast, WholeCache
<1>6. Reported
    BY <1>4 DEF Reported, NoReport, None
<1>7. PatchReproducesSource
    BY <1>4 DEF PatchReproducesSource, Faithful, NoPayload
<1>8. JobInv
    BY DEF Init, JobInv, JobKeys, JobBuild, JobPayload, At, Idle
<1> QED BY <1>2, <1>3, <1>5, <1>6, <1>7, <1>8 DEF Inv, StateInv

\* A command begins.
LEMMA BeginInv ==
    ASSUME Inv,
           NEW cmd \in {"register", "release", "patch", "promote", "rollback", "install"},
           NEW pc \in {"key", "build", "cache", "manual", "promote", "rollback", "check"},
           NEW t \in Targets, NEW n \in Numbers, NEW name \in Names, NEW file \in KeyFiles,
           Begin(cmd, pc, t, n, name, file),
           pc = "check" => apps[t[1]] # NoApp
    PROVE  Inv'
<1>1. NoPayload \in Payload /\ NoInfo \in Info /\ 0 \in 0..Retries
    BY BoundsAssumption DEF NoPayload, Payload, NoInfo, Info, Artifact
<1>2. job' \in Job
    BY <1>1 DEF Begin, Job, Pcs
<1>3. /\ UNCHANGED <<files, server, dev>> /\ commands' \in 0..MaxCommands
      /\ job'.pc = pc /\ job'.t = t
    BY BoundsAssumption DEF Begin, Inv, TypeOK
<1>4. TypeOK' /\ StateInv'
    BY <1>2, <1>3, OnlyJob
<1>5. JobInv'
    BY <1>3 DEF JobInv, JobKeys, JobBuild, JobPayload, At, server
<1> QED BY <1>4, <1>5 DEF Inv

\* Every command.
LEMMA CommandInv == ASSUME Inv, Command PROVE Inv'
<1>1. 1 \in Numbers /\ "ios" \in Platforms
    BY BoundsAssumption DEF Numbers, Platforms
<1>2. ASSUME NEW i \in Ids, Register(i) PROVE Inv'
    <2>1. PICK n \in Names, f \in KeyFiles : Begin("register", "key", <<i, "ios">>, 1, n, f)
        BY <1>2 DEF Register
    <2>2. <<i, "ios">> \in Targets
        BY <1>1 DEF Targets
    <2> QED BY <1>1, <2>1, <2>2, BeginInv
<1>3. ASSUME NEW cmd \in {"register", "release", "patch", "promote", "rollback", "install"},
             NEW pc \in {"key", "build", "cache", "manual", "promote", "rollback", "check"},
             Start(cmd, pc)
      PROVE  Inv'
    <2>1. PICK t \in Targets, n \in Numbers, f \in KeyFiles, name \in Names :
             Resolves(t[1]) /\ Begin(cmd, pc, t, n, name, f)
        BY <1>3 DEF Start
    <2> QED BY <2>1, BeginInv DEF Resolves
<1> QED
    BY <1>2, <1>3 DEF Command, StartInit, StartAppAdd, StartRelease, StartPatch,
       StartPatchWithPayload, StartPromote, StartRollback, StartCheckInstall

-----------------------------------------------------------------------------
(* Steps that change nothing but the command                                *)

\* Nothing is left to say of a command that has ended or will say that it made
\* no patch.
LEMMA EndsInv ==
    ASSUME Inv, UNCHANGED <<files, server, dev, commands>>,
           Stop \/ (job \in Job /\ Reject)
    PROVE  Inv'
<1>1. job' \in Job \cup {Idle} /\ commands' \in 0..MaxCommands
    BY RejectJob DEF Stop, Inv, TypeOK
<1>2. TypeOK' /\ StateInv'
    BY <1>1, OnlyJob
<1>3. JobInv'
    BY DoneInv, RejectJob DEF Stop
<1> QED BY <1>2, <1>3 DEF Inv

\* A step that only takes the command to its next step.
LEMMA GoesOnInv ==
    ASSUME Inv, job \in Job, UNCHANGED <<files, server, dev, commands>>,
           NEW pc \in Pcs, Goto(pc), JobInv'
    PROVE  Inv'
<1>1. job' \in Job /\ commands' \in 0..MaxCommands
    BY GotoJob DEF Inv, TypeOK
<1> QED BY <1>1, OnlyJob DEF Inv

\* The build gives the command a source.
LEMMA BuildInv == ASSUME Inv, Build PROVE Inv'
<1>1. job \in Job
    BY NotIdle, JobFields DEF Inv, Build, At, Pcs
<1>2. PICK s \in Sources, pc \in {"artifact", "compare"} :
         job' = [job EXCEPT !.src = s, !.pc = pc]
    BY DEF Build
<1>3. job' \in Job /\ job'.pc = pc /\ job'.src = s
    BY <1>1, <1>2 DEF Job, Pcs
<1>4. TypeOK' /\ StateInv'
    BY <1>3, OnlyJob DEF Build, Inv, TypeOK
<1>5. JobInv'
    BY <1>3 DEF JobInv, JobKeys, JobBuild, JobPayload, At
<1> QED BY <1>4, <1>5 DEF Inv

\* The info has the hashes of the build, whatever the project is by now.
LEMMA CollectInfoInv == ASSUME Inv, CollectInfo PROVE Inv'
<1>1. job \in Job /\ job.src \in Sources /\ job.pc = "info" /\ job.t[2] \in Platforms
    BY NotIdle, JobFields DEF Inv, CollectInfo, At, Pcs, JobInv, JobBuild
<1>2. PICK s \in Sources : job' = [job EXCEPT !.pc = "meta", !.info = BuildInfo(s)]
    BY DEF CollectInfo
<1>3. BuildInfo(s) \in Info /\ BuildInfo(s).hashed = Hashed(job.t[2], job.src)
    BY <1>1 DEF BuildInfo, Info
<1>4. /\ job' \in Job /\ job'.pc = "meta" /\ job'.info = BuildInfo(s)
      /\ job'.src = job.src /\ job'.t = job.t
    <2> HIDE DEF BuildInfo
    <2> QED BY <1>1, <1>2, <1>3 DEF Job, Pcs
<1>5. TypeOK' /\ StateInv'
    BY <1>4, OnlyJob DEF CollectInfo, Inv, TypeOK
<1>6. JobInv'
    <2>1. cache[job.t].art = job.src /\ ~cache[job.t].whole /\ cache' = cache
        BY <1>1 DEF Inv, JobInv, JobBuild, CollectInfo, files
    <2> QED BY <1>1, <1>3, <1>4, <2>1 DEF JobInv, JobKeys, JobBuild, JobPayload, At
<1> QED BY <1>5, <1>6 DEF Inv

\* Whatever fails before there is a payload is rejected.
LEMMA PayloadFailsInv == ASSUME Inv, PayloadFails PROVE Inv'
<1>1. job \in Job
    BY NotIdle, JobFields DEF Inv, PayloadFails, Pcs
<1> QED BY <1>1, EndsInv DEF PayloadFails

\* The comparison before the build promises nothing.
LEMMA ReadCacheInv == ASSUME Inv, ReadCache PROVE Inv'
<1>1. job \in Job /\ UNCHANGED <<files, server, dev, commands>>
    BY NotIdle, JobFields DEF Inv, ReadCache, At, Pcs
<1>2. Goto("build") \/ Reject
    BY DEF ReadCache
<1>3. ASSUME Goto("build") PROVE Inv'
    <2>1. job'.pc = "build" /\ "build" \in Pcs
        BY <1>1, <1>3, GotoJob DEF Pcs
    <2>2. JobInv'
        BY <2>1 DEF JobInv, JobKeys, JobBuild, JobPayload, At
    <2> QED BY <1>1, <1>3, <2>1, <2>2, GoesOnInv
<1> QED BY <1>1, <1>2, <1>3, EndsInv

\* The comparison after the build ties the output of the build to the cache.
LEMMA CompareInv == ASSUME Inv, Compare PROVE Inv'
<1>1. /\ job \in Job /\ UNCHANGED <<files, server, dev, commands>>
      /\ job.src \in Sources
    BY NotIdle, JobFields DEF Inv, Compare, At, Pcs, JobInv, JobBuild
<1>2. (Goto("payload") /\ cache[job.t].meta.hashed = Hashed(job.t[2], job.src)) \/ Reject
    BY DEF Compare, IsOk, BuildInfo
<1>3. ASSUME Goto("payload"), cache[job.t].meta.hashed = Hashed(job.t[2], job.src) PROVE Inv'
    <2>1. job'.pc = "payload" /\ "payload" \in Pcs /\ job'.src = job.src /\ job'.t = job.t
        BY <1>1, <1>3, GotoJob DEF Pcs, SameJob
    <2>2. JobInv'
        BY <1>1, <1>3, <2>1 DEF JobInv, JobKeys, JobBuild, JobPayload, At, files
    <2> QED BY <1>1, <1>3, <2>1, <2>2, GoesOnInv
<1> QED BY <1>1, <1>2, <1>3, EndsInv

\* A payload is faithful when it is made: a module because the linker rejected
\* nothing, and both kinds because a whole cache is the server's release.
LEMMA TakeInv ==
    ASSUME Inv, job \in Job, UNCHANGED <<files, server, dev, commands>>,
           NEW base \in Artifact, NEW out \in Sources, NEW auto \in BOOLEAN,
           Take(base, out, auto),
           auto => /\ job.pc = "payload" /\ out = job.src
                   /\ job.t[2] = "ios" => ~HasRejects(Inventory[base], Inventory[out])
                   /\ job.t[2] = "ios" \/ job.n = 1 => base = cache[job.t].art
    PROVE  Inv'
<1> DEFINE r == IF cache[job.t].whole THEN rel[job.t] ELSE None
           p == [base |-> base, out |-> out, key |-> None, auto |-> auto, rel |-> r]
<1>1. job.t \in Targets
    BY DEF Job
<1>2. r \in Artifact
    BY <1>1 DEF Inv, TypeOK, Artifact
<1>3. p \in Payload
    <2> HIDE DEF r
    <2> QED BY <1>2 DEF Payload, Artifact
<1>4. job' \in Job /\ job'.pc = "save" /\ job'.payload = p /\ job'.t = job.t /\ job'.n = job.n
    <2>1. job' = [job EXCEPT !.pc = "save", !.payload = p]
        BY DEF Take
    <2> HIDE DEF p
    <2> QED BY <1>3, <2>1 DEF Job, Pcs
<1>5. TypeOK' /\ StateInv'
    BY <1>4, OnlyJob DEF Inv, TypeOK
<1>6. Faithful(job.t, job.n, p)
    <2>1. SUFFICES ASSUME auto PROVE Faithful(job.t, job.n, p)
        BY DEF Faithful
    <2>2. job.t[2] = "ios" =>
             Reproduces(Inventory[base], Compiled(Inventory[base], Inventory[out]), Inventory[out])
        BY <2>1, LinkReproduces
    <2>3. cache[job.t].meta.hashed = Hashed(job.t[2], out)
        BY <2>1 DEF Inv, JobInv, JobBuild
    <2>4. ASSUME r # None
          PROVE  /\ job.t[2] = "ios" \/ job.n = 1 => base = r
                 /\ Hashed(job.t[2], out) = Hashed(job.t[2], r)
        BY <1>1, <2>1, <2>3, <2>4 DEF Inv, StateInv, WholeCache
    <2>5. p.auto = auto /\ p.base = base /\ p.out = out /\ p.rel = r
        OBVIOUS
    <2> HIDE DEF p, r
    <2> QED BY <2>2, <2>4, <2>5 DEF Faithful
<1>7. JobInv'
    <2> HIDE DEF p
    <2>1. Faithful(job'.t, job'.n, job'.payload)
        BY <1>4, <1>6
    <2>2. Faithful(job.t, job.n, job.payload)'
        BY <2>1 DEF Faithful
    <2> QED BY <1>4, <2>2 DEF JobInv, JobKeys, JobBuild, JobPayload, At
<1> QED BY <1>5, <1>7 DEF Inv

\* The base of a diff is an artifact, of the release for the first patch.
LEMMA DiffBaseType ==
    ASSUME TypeOK, job \in Job
    PROVE  DiffBase \in Artifact /\ (job.n = 1 => DiffBase = cache[job.t].art)
<1>1. job.t \in Targets /\ job.t[2] \in Platforms /\ job.n \in 1..MaxNumber
    BY DEF Job, Targets, Numbers
<1>2. cache[job.t].art \in Artifact
    BY <1>1 DEF TypeOK, CacheDir
<1>3. ASSUME job.n > 1 PROVE work[<<job.t[2], job.n - 1>>].art \in Artifact
    <2>1. <<job.t[2], job.n - 1>> \in Platforms \X Numbers
        BY <1>1, <1>3, BoundsAssumption DEF Numbers
    <2> QED BY <2>1 DEF TypeOK
<1> QED BY <1>1, <1>2, <1>3, BoundsAssumption DEF DiffBase

\* The diff of an Android patch.
LEMMA SnapshotPayloadInv == ASSUME Inv, SnapshotPayload PROVE Inv'
<1>1. /\ job \in Job /\ UNCHANGED <<files, server, dev, commands>>
      /\ job.src \in Sources /\ job.pc = "payload" /\ job.t[2] = "android"
    BY NotIdle, JobFields DEF Inv, SnapshotPayload, At, Pcs, JobInv, JobBuild
<1>2. Take(DiffBase, job.src, TRUE) \/ Reject
    BY DEF SnapshotPayload
<1>3. ASSUME Take(DiffBase, job.src, TRUE) PROVE Inv'
    <2>1. DiffBase \in Artifact /\ (job.n = 1 => DiffBase = cache[job.t].art)
        BY <1>1, DiffBaseType DEF Inv
    <2> QED BY <1>1, <1>3, <2>1, TakeInv
<1> QED BY <1>1, <1>2, <1>3, EndsInv

\* The module of an iOS patch.
LEMMA BytecodePayloadInv == ASSUME Inv, BytecodePayload PROVE Inv'
<1>1. /\ job \in Job /\ UNCHANGED <<files, server, dev, commands>>
      /\ job.src \in Sources /\ job.pc = "payload" /\ job.t[2] = "ios"
    BY NotIdle, JobFields DEF Inv, BytecodePayload, At, Pcs, JobInv, JobBuild
<1> DEFINE base == cache[job.t].art
<1>2. \/ Reject
      \/ job' = [job EXCEPT !.pc = "report", !.status = "no_op"]
      \/ Take(base, job.src, TRUE) /\ ~HasRejects(Inventory[base], Inventory[job.src])
    BY DEF BytecodePayload
<1>3. ASSUME job' = [job EXCEPT !.pc = "report", !.status = "no_op"] PROVE Inv'
    <2>1. job' \in Job /\ job'.pc = "report" /\ job'.status = "no_op"
        BY <1>1, <1>3 DEF Job, Pcs
    <2>2. TypeOK' /\ StateInv'
        BY <1>1, <2>1, OnlyJob DEF Inv, TypeOK
    <2>3. JobInv'
        BY <2>1 DEF JobInv, JobKeys, JobBuild, JobPayload, At
    <2> QED BY <2>2, <2>3 DEF Inv
<1>4. ASSUME Take(base, job.src, TRUE), ~HasRejects(Inventory[base], Inventory[job.src])
      PROVE  Inv'
    <2>1. base \in Artifact
        BY <1>1, JobFields DEF Inv, TypeOK, CacheDir, Job
    <2> QED BY <1>1, <1>4, <2>1, TakeInv
<1> QED BY <1>1, <1>2, <1>3, <1>4, EndsInv

\* A payload that was made elsewhere.
LEMMA ManualPayloadInv == ASSUME Inv, ManualPayload PROVE Inv'
<1>1. job \in Job /\ UNCHANGED <<files, server, dev, commands>>
    BY NotIdle, JobFields DEF Inv, ManualPayload, At, Pcs
<1>2. PICK out \in Sources : Take(None, out, FALSE) \/ Take(DiffBase, out, FALSE) \/ Reject
    BY DEF ManualPayload
<1>3. None \in Artifact /\ DiffBase \in Artifact
    BY <1>1, DiffBaseType DEF Inv, Artifact
<1> QED BY <1>1, <1>2, <1>3, TakeInv, EndsInv

\* The manifest is signed, by whichever key.
LEMMA SignInv == ASSUME Inv, Sign PROVE Inv'
<1>1. /\ job \in Job /\ job.payload \in Payload /\ job.file \in KeyFiles
      /\ Faithful(job.t, job.n, job.payload)
    BY NotIdle, JobFields DEF Inv, Sign, At, Pcs, JobInv, JobPayload
<1> DEFINE p == [job.payload EXCEPT !.key = job.file]
<1>2. /\ p \in Payload /\ p.key = job.file /\ p.base = job.payload.base
      /\ p.out = job.payload.out /\ p.auto = job.payload.auto /\ p.rel = job.payload.rel
    BY <1>1 DEF Payload
<1>3. job' = [job EXCEPT !.pc = "patch", !.payload = p]
    BY DEF Sign
<1> HIDE DEF p
<1>4. job' \in Job /\ job'.pc = "patch" /\ job'.payload = p /\ job'.t = job.t /\ job'.n = job.n
    BY <1>1, <1>2, <1>3 DEF Job, Pcs
<1>5. TypeOK' /\ StateInv'
    BY <1>4, OnlyJob DEF Sign, Inv, TypeOK
<1>6. Faithful(job.t, job.n, job.payload)'
    BY <1>1, <1>2, <1>4 DEF Faithful
<1>7. JobInv'
    BY <1>1, <1>2, <1>4, <1>6 DEF JobInv, JobKeys, JobBuild, JobPayload, At
<1> QED BY <1>5, <1>7 DEF Inv

\* The patch that a device is offered.
LEMMA DownloadInv == ASSUME Inv, Download PROVE Inv'
<1>1. /\ job \in Job /\ UNCHANGED <<files, server, dev, commands>>
      /\ apps[job.t[1]] # NoApp
    BY NotIdle, JobFields DEF Inv, Download, At, Pcs, JobInv, JobKeys
<1>2. Stop \/ \E n \in Numbers : job' = [job EXCEPT !.pc = "pin", !.n = n]
    BY DEF Download, Offered
<1>3. ASSUME NEW n \in Numbers, job' = [job EXCEPT !.pc = "pin", !.n = n] PROVE Inv'
    <2>1. job' \in Job /\ job'.pc = "pin" /\ job'.t = job.t
        BY <1>1, <1>3 DEF Job, Pcs
    <2>2. TypeOK' /\ StateInv'
        BY <1>1, <2>1, OnlyJob DEF Inv, TypeOK
    <2>3. JobInv'
        BY <1>1, <2>1 DEF JobInv, JobKeys, JobBuild, JobPayload, At, server
    <2> QED BY <2>2, <2>3 DEF Inv
<1> QED BY <1>1, <1>2, <1>3, EndsInv

-----------------------------------------------------------------------------
(* Steps that write a file                                                  *)

\* A key that is on disk stays there.
LEMMA KeysKept ==
    ASSUME TypeOK, AppKeyOnDisk, NEW f \in KeyFiles, NEW s \in KeyState,
           keys[f] # "whole" \/ s = "whole",
           keys' = [keys EXCEPT ![f] = s], apps' = apps
    PROVE  keys' \in [KeyFiles -> KeyState] /\ AppKeyOnDisk'
<1>1. \A g \in KeyFiles : keys[g] = "whole" => keys'[g] = "whole"
    BY DEF TypeOK
<1>2. \A i \in Ids : apps[i] # NoApp => apps[i].key \in KeyFiles
    BY DEF TypeOK, App
<1> QED BY <1>1, <1>2 DEF TypeOK, AppKeyOnDisk

\* init and app add have a key.
LEMMA MakeKeyInv == ASSUME Inv, MakeKey PROVE Inv'
<1>1. job \in Job /\ job.file \in KeyFiles
    BY NotIdle, JobFields DEF Inv, MakeKey, At, Pcs
<1>2. job' \in Job /\ job'.pc = "app" /\ job'.file = job.file
    BY <1>1, GotoJob DEF MakeKey, SameJob, Pcs
<1>3. keys' \in [KeyFiles -> KeyState] /\ AppKeyOnDisk' /\ keys'[job.file] = "whole"
    BY <1>1, KeysKept DEF MakeKey, Inv, StateInv, KeyState, server, TypeOK
<1>4. TypeOK'
    BY <1>2, <1>3 DEF MakeKey, Inv, TypeOK, server
<1>5. StateInv'
    BY <1>3 DEF Inv, StateInv, Installed, InstalledUnderPin, RowsLast, Reported, Published,
           WholeCache, PatchReproducesSource, Faithful, MakeKey, server
<1>6. JobInv'
    BY <1>2, <1>3 DEF JobInv, JobKeys, JobBuild, JobPayload, At
<1> QED BY <1>4, <1>5, <1>6 DEF Inv

\* fcb.yaml is not what anything rests on.
LEMMA WriteYamlInv == ASSUME Inv, WriteYaml PROVE Inv'
<1>1. job.name \in Names /\ job.file \in KeyFiles
    BY NotIdle, JobFields DEF Inv, WriteYaml, At, Pcs
<1>2. TypeOK'
    BY <1>1 DEF WriteYaml, Stop, Inv, TypeOK, server
<1>3. StateInv'
    BY DEF Inv, StateInv, AppKeyOnDisk, Installed, InstalledUnderPin, RowsLast, Reported,
           Published, WholeCache, PatchReproducesSource, Faithful, WriteYaml, server
<1> QED BY <1>2, <1>3, DoneInv DEF Inv, WriteYaml, Stop

\* A write to one cache directory that leaves it not whole.
LEMMA CacheWritten ==
    ASSUME Inv, NEW t \in Targets, NEW d \in CacheDir, ~d.whole,
           cache' = [cache EXCEPT ![t] = d], job' \in Job \cup {Idle},
           UNCHANGED <<keys, yaml, work, server, dev, commands>>
    PROVE  TypeOK' /\ StateInv' /\ cache'[t] = d
<1>1. cache' \in [Targets -> CacheDir] /\ cache'[t] = d
    BY DEF Inv, TypeOK
<1>2. TypeOK'
    BY <1>1 DEF Inv, TypeOK, server
<1>3. WholeCache'
    BY DEF Inv, StateInv, WholeCache, TypeOK, server
<1>4. StateInv'
    BY <1>3 DEF Inv, StateInv, AppKeyOnDisk, Installed, InstalledUnderPin, RowsLast, Reported,
           Published, PatchReproducesSource, Faithful, server
<1> QED BY <1>1, <1>2, <1>4

\* The release cache of the command's target.
LEMMA CacheDirOf ==
    ASSUME TypeOK, NEW t \in Targets
    PROVE  cache[t] \in CacheDir
BY DEF TypeOK

\* The artifact of a release; from here on the cache is not whole.
LEMMA SaveArtifactInv == ASSUME Inv, SaveArtifact PROVE Inv'
<1>1. job \in Job /\ job.t \in Targets /\ job.src \in Sources
    BY NotIdle, JobFields DEF Inv, SaveArtifact, At, Pcs, JobInv, JobBuild
<1>2. PICK pc \in {"aot", "info"} : Goto(pc)
    BY DEF SaveArtifact
<1>3. job' \in Job /\ job'.pc = pc /\ job'.t = job.t /\ job'.src = job.src
    BY <1>1, <1>2, GotoJob DEF SameJob, Pcs
<1> DEFINE d == [cache[job.t] EXCEPT !.art = job.src, !.whole = FALSE]
<1>4. d \in CacheDir /\ ~d.whole /\ d.art = job.src
    BY <1>1, CacheDirOf DEF Inv, CacheDir, Artifact
<1>5. cache' = [cache EXCEPT ![job.t] = d]
    BY <1>1 DEF SaveArtifact, Inv, TypeOK
<1> HIDE DEF d
<1>6. TypeOK' /\ StateInv' /\ cache'[job.t] = d
    BY <1>1, <1>3, <1>4, <1>5, CacheWritten DEF SaveArtifact
<1>7. JobInv'
    BY <1>1, <1>3, <1>4, <1>6 DEF JobInv, JobKeys, JobBuild, JobPayload, At
<1> QED BY <1>6, <1>7 DEF Inv

\* The AOT entry points, or those of an earlier release.
LEMMA CaptureAotInv == ASSUME Inv, CaptureAot PROVE Inv'
<1>1. /\ job \in Job /\ job.t \in Targets /\ job.src \in Sources
      /\ cache[job.t].art = job.src /\ ~cache[job.t].whole
    BY NotIdle, JobFields DEF Inv, CaptureAot, At, Pcs, JobInv, JobBuild
<1>2. job' \in Job /\ job'.pc = "info" /\ job'.t = job.t /\ job'.src = job.src
    BY <1>1, GotoJob DEF CaptureAot, SameJob, Pcs
<1>3. PICK d \in CacheDir : /\ ~d.whole /\ d.art = job.src
                            /\ cache' = [cache EXCEPT ![job.t] = d]
    <2> DEFINE e == [cache[job.t] EXCEPT !.aot = job.src]
    <2>1. e \in CacheDir /\ ~e.whole /\ e.art = job.src
        BY <1>1, CacheDirOf DEF Inv, CacheDir, Artifact
    <2>2. cache' = [cache EXCEPT ![job.t] = e] \/ cache' = [cache EXCEPT ![job.t] = cache[job.t]]
        BY <1>1 DEF CaptureAot, Inv, TypeOK
    <2> HIDE DEF e
    <2> QED BY <1>1, <2>1, <2>2, CacheDirOf DEF Inv
<1>4. TypeOK' /\ StateInv' /\ cache'[job.t] = d
    BY <1>1, <1>2, <1>3, CacheWritten DEF CaptureAot
<1>5. JobInv'
    BY <1>1, <1>2, <1>3, <1>4 DEF JobInv, JobKeys, JobBuild, JobPayload, At
<1> QED BY <1>4, <1>5 DEF Inv

\* The build info of a release.
LEMMA SaveMetaInv == ASSUME Inv, SaveMeta PROVE Inv'
<1>1. /\ job \in Job /\ job.t \in Targets /\ job.src \in Sources /\ job.info \in Info
      /\ cache[job.t].art = job.src /\ ~cache[job.t].whole
      /\ job.info.hashed = Hashed(job.t[2], job.src)
    BY NotIdle, JobFields DEF Inv, SaveMeta, At, Pcs, JobInv, JobBuild
<1>2. job' \in Job /\ job'.pc = "release" /\ job'.t = job.t /\ job'.src = job.src
    BY <1>1, GotoJob DEF SaveMeta, SameJob, Pcs
<1> DEFINE d == [cache[job.t] EXCEPT !.meta = job.info]
<1>3. d \in CacheDir /\ ~d.whole /\ d.art = job.src /\ d.meta = job.info
    BY <1>1, CacheDirOf DEF Inv, CacheDir
<1>4. cache' = [cache EXCEPT ![job.t] = d]
    BY <1>1 DEF SaveMeta, Inv, TypeOK
<1> HIDE DEF d
<1>5. TypeOK' /\ StateInv' /\ cache'[job.t] = d
    BY <1>1, <1>2, <1>3, <1>4, CacheWritten DEF SaveMeta
<1>6. JobInv'
    BY <1>1, <1>2, <1>3, <1>5 DEF JobInv, JobKeys, JobBuild, JobPayload, At
<1> QED BY <1>5, <1>6 DEF Inv


\* A write to the directory of a patch; a report must be true when it is
\* written.
LEMMA WorkWritten ==
    ASSUME Inv, NEW w \in Platforms \X Numbers, NEW d \in [art : Artifact, report : Report],
           d.report.status = "created" =>
               d.report.id \in Ids /\ Published(<<d.report.id, w[1]>>, w[2], d.report.payload),
           work' = [work EXCEPT ![w] = d], job' \in Job \cup {Idle},
           UNCHANGED <<keys, yaml, cache, server, dev, commands>>
    PROVE  TypeOK' /\ StateInv'
<1>1. work' \in [Platforms \X Numbers -> [art : Artifact, report : Report]]
    BY DEF Inv, TypeOK
<1>2. TypeOK'
    BY <1>1 DEF Inv, TypeOK, server
<1>3. Reported'
    <2> SUFFICES ASSUME NEW p \in Platforms, NEW n \in Numbers,
                        work'[<<p, n>>].report.status = "created"
                 PROVE  LET report == work'[<<p, n>>].report
                        IN  /\ report.id \in Ids
                            /\ Published(<<report.id, p>>, n, report.payload)
        BY DEF Reported, Published, server
    <2>1. CASE w = <<p, n>>
        <3>1. work'[<<p, n>>] = d /\ w[1] = p /\ w[2] = n
            BY <2>1 DEF Inv, TypeOK
        <3> QED BY <3>1
    <2>2. CASE w # <<p, n>>
        <3>1. work'[<<p, n>>] = work[<<p, n>>]
            BY <2>2 DEF Inv, TypeOK
        <3> QED BY <3>1 DEF Inv, StateInv, Reported
    <2> QED BY <2>1, <2>2
<1>4. StateInv'
    BY <1>3 DEF Inv, StateInv, AppKeyOnDisk, Installed, InstalledUnderPin, RowsLast,
           WholeCache, PatchReproducesSource, Faithful, server
<1> QED BY <1>2, <1>4

\* The report that is in a directory is true.
LEMMA WorkDirOf ==
    ASSUME Inv, NEW w \in Platforms \X Numbers
    PROVE  /\ work[w] \in [art : Artifact, report : Report]
           /\ work[w].report.status = "created" =>
                 /\ work[w].report.id \in Ids
                 /\ Published(<<work[w].report.id, w[1]>>, w[2], work[w].report.payload)
<1>1. w[1] \in Platforms /\ w[2] \in Numbers /\ w = <<w[1], w[2]>>
    OBVIOUS
<1>2. work[w] \in [art : Artifact, report : Report]
    BY DEF Inv, TypeOK
<1> QED BY <1>1, <1>2 DEF Inv, StateInv, Reported

\* The payload is saved, and the artifact for the next diff.
LEMMA SavePayloadInv == ASSUME Inv, SavePayload PROVE Inv'
<1>1. /\ job \in Job /\ Dir \in Platforms \X Numbers /\ job.payload \in Payload
      /\ Faithful(job.t, job.n, job.payload)
    BY NotIdle, JobFields DEF Inv, SavePayload, At, Pcs, JobInv, JobPayload
<1>2. job' \in Job /\ job'.pc = "sign" /\ SameJob
    BY <1>1, GotoJob DEF SavePayload, Pcs
<1> DEFINE e == [work[Dir] EXCEPT !.art = job.payload.out]
<1>3. e \in [art : Artifact, report : Report] /\ e.report = work[Dir].report
    BY <1>1, WorkDirOf DEF Payload
<1>4. work' = [work EXCEPT ![Dir] = e] \/ work' = [work EXCEPT ![Dir] = work[Dir]]
    BY <1>1 DEF SavePayload, Inv, TypeOK
<1> HIDE DEF e
<1>5. TypeOK' /\ StateInv'
    <2>1. UNCHANGED <<keys, yaml, cache, server, dev, commands>>
        BY DEF SavePayload
    <2>2. CASE work' = [work EXCEPT ![Dir] = e]
        BY <1>1, <1>2, <1>3, <2>1, <2>2, WorkDirOf, WorkWritten
    <2>3. CASE work' = [work EXCEPT ![Dir] = work[Dir]]
        BY <1>1, <1>2, <2>1, <2>3, WorkDirOf, WorkWritten
    <2> QED BY <1>4, <2>2, <2>3
<1>6. Faithful(job.t, job.n, job.payload)'
    BY <1>1, <1>2 DEF Faithful, SameJob
<1>7. JobInv'
    BY <1>2, <1>6 DEF JobInv, JobKeys, JobBuild, JobPayload, At
<1> QED BY <1>5, <1>7 DEF Inv

\* A report is written for what has just been published.
LEMMA WriteReportInv == ASSUME Inv, WriteReport PROVE Inv'
<1>1. /\ job \in Job /\ Dir \in Platforms \X Numbers /\ job.t[1] \in Ids
      /\ job.t = <<job.t[1], job.t[2]>> /\ job.payload \in Payload
      /\ job.status \in {None, "rejected", "no_op", "created"}
      /\ job.status = "created" => Published(job.t, job.n, job.payload)
    BY NotIdle, JobFields DEF Inv, WriteReport, At, Pcs, JobInv, JobPayload
<1> DEFINE r == [status |-> job.status, id |-> job.t[1], payload |-> job.payload]
           d == [work[Dir] EXCEPT !.report = r]
<1>2. r \in Report /\ r.status = job.status /\ r.id = job.t[1] /\ r.payload = job.payload
    BY <1>1 DEF Report
<1>3. d \in [art : Artifact, report : Report] /\ d.report = r
    <2> HIDE DEF r
    <2> QED BY <1>1, <1>2, WorkDirOf
<1>4. work' = [work EXCEPT ![Dir] = d]
    BY <1>1 DEF WriteReport, Inv, TypeOK
<1>5. Dir[1] = job.t[2] /\ Dir[2] = job.n
    BY DEF Dir
<1> HIDE DEF d, r
<1>6. TypeOK' /\ StateInv'
    <2>1. UNCHANGED <<keys, yaml, cache, server, dev, commands>> /\ job' = Idle
        BY DEF WriteReport, Stop
    <2>2. d.report.status = "created" =>
             d.report.id \in Ids /\ Published(<<d.report.id, Dir[1]>>, Dir[2], d.report.payload)
        BY <1>1, <1>2, <1>3, <1>5
    <2> QED BY <1>1, <1>3, <1>4, <2>1, <2>2, WorkWritten
<1> QED BY <1>6, DoneInv DEF Inv, WriteReport, Stop


-----------------------------------------------------------------------------
(* Requests                                                                 *)

\* Whatever a handler does or leaves undone: a signed row stays, and only the
\* release of the command's target becomes what the command has built.
LEMMA HandledServer ==
    ASSUME Inv, Requesting, Handled \/ HandledHalf \/ UNCHANGED server, keys' = keys
    PROVE  /\ apps' \in [Ids -> App \cup {NoApp}]
           /\ rel' \in [Targets -> Sources \cup {None}]
           /\ objs' \in [Targets \X Numbers -> Payload]
           /\ rows' \in [Targets \X Numbers -> Payload]
           /\ live' \subseteq Targets \X Numbers
           /\ AppKeyOnDisk' /\ RowsLast' /\ PatchReproducesSource'
           /\ \A q \in Targets \X Numbers : rows[q].key \in KeyFiles => rows'[q] = rows[q]
           /\ \A t \in Targets : rel'[t] = rel[t]
                                 \/ (At("release") /\ t = job.t /\ rel'[t] = job.src)
<1>1. /\ job \in Job /\ job.t \in Targets /\ job.t[1] \in Ids /\ job.n \in Numbers
      /\ job.file \in KeyFiles /\ job.name \in Names /\ job.payload \in Payload
      /\ Slot \in Targets \X Numbers
    BY NotIdle, JobFields DEF Inv, Requesting, Pcs
<1>2. /\ apps \in [Ids -> App \cup {NoApp}] /\ AppKeyOnDisk
      /\ rel \in [Targets -> Sources \cup {None}]
      /\ objs \in [Targets \X Numbers -> Payload] /\ RowsLast
      /\ rows \in [Targets \X Numbers -> Payload] /\ PatchReproducesSource
      /\ live \subseteq Targets \X Numbers
    BY DEF Inv, TypeOK, StateInv
<1>3. CASE UNCHANGED server
    BY <1>2, <1>3 DEF server, AppKeyOnDisk, RowsLast, PatchReproducesSource, Faithful
<1>4. ASSUME At("app"), UNCHANGED <<rel, objs, rows, live>>,
             apps' = [apps EXCEPT ![job.t[1]] = [name |-> job.name, key |-> job.file]]
      PROVE  apps' \in [Ids -> App \cup {NoApp}] /\ AppKeyOnDisk'
    <2>1. keys[job.file] = "whole"
        BY <1>4 DEF Inv, JobInv, JobKeys
    <2> DEFINE a == [name |-> job.name, key |-> job.file]
    <2>2. a \in App /\ a.key = job.file
        BY <1>1 DEF App
    <2> HIDE DEF a
    <2> QED BY <1>1, <1>2, <1>4, <2>1, <2>2 DEF AppKeyOnDisk, a
<1>5. CASE At("app") /\ Handled
    <2>1. /\ UNCHANGED <<rel, objs, rows, live>>
          /\ apps' = [apps EXCEPT ![job.t[1]] = [name |-> job.name, key |-> job.file]]
        BY <1>5 DEF Handled, At
    <2>2. RowsLast' /\ PatchReproducesSource'
        BY <1>2, <2>1 DEF RowsLast, PatchReproducesSource, Faithful
    <2> QED BY <1>2, <1>4, <1>5, <2>1, <2>2
<1>6. CASE At("release") /\ Handled
    <2>1. UNCHANGED <<apps, objs, rows, live>> /\ rel' = [rel EXCEPT ![job.t] = job.src]
        BY <1>6 DEF Handled, At
    <2>2. job.src \in Sources
        BY <1>6 DEF Inv, JobInv, JobBuild, At
    <2>3. AppKeyOnDisk' /\ RowsLast' /\ PatchReproducesSource'
        BY <1>2, <2>1 DEF AppKeyOnDisk, RowsLast, PatchReproducesSource, Faithful
    <2> QED BY <1>1, <1>2, <1>6, <2>1, <2>2, <2>3
<1>7. CASE At("patch") /\ (Handled \/ HandledHalf)
    <2>1. /\ UNCHANGED <<apps, rel, live>> /\ objs[Slot] = NoPayload
          /\ objs' = [objs EXCEPT ![Slot] = job.payload]
          /\ rows' = [rows EXCEPT ![Slot] = job.payload] \/ rows' = rows
        BY <1>7 DEF Handled, HandledHalf, At
    <2>2. rows[Slot] = NoPayload /\ ~(NoPayload.key \in KeyFiles)
        BY <1>1, <1>2, <2>1, KeyFilesAssumption DEF RowsLast, NoPayload, None
    <2>3. Faithful(job.t, job.n, job.payload)
        BY <1>7 DEF Inv, JobInv, JobPayload, At
    <2>4. /\ objs' \in [Targets \X Numbers -> Payload]
          /\ rows' \in [Targets \X Numbers -> Payload]
        BY <1>1, <1>2, <2>1
    <2>5. AppKeyOnDisk'
        BY <1>2, <2>1 DEF AppKeyOnDisk
    <2>6. RowsLast'
        BY <1>1, <1>2, <2>1, <2>2 DEF RowsLast
    <2>7. PatchReproducesSource'
        <3> SUFFICES ASSUME NEW t \in Targets, NEW n \in Numbers
                     PROVE  Faithful(t, n, rows'[<<t, n>>])
            BY DEF PatchReproducesSource, Faithful
        <3>1. rows'[<<t, n>>] = rows[<<t, n>>]
              \/ (<<t, n>> = Slot /\ rows'[<<t, n>>] = job.payload)
            BY <1>1, <1>2, <2>1
        <3>2. CASE rows'[<<t, n>>] = rows[<<t, n>>]
            BY <1>2, <3>2 DEF PatchReproducesSource
        <3>3. CASE <<t, n>> = Slot /\ rows'[<<t, n>>] = job.payload
            <4>1. t = job.t /\ n = job.n
                BY <3>3 DEF Slot
            <4> QED BY <2>3, <3>3, <4>1
        <3> QED BY <3>1, <3>2, <3>3
    <2>8. \A q \in Targets \X Numbers : rows[q].key \in KeyFiles => rows'[q] = rows[q]
        BY <1>1, <1>2, <2>1, <2>2
    <2> QED BY <1>2, <2>1, <2>4, <2>5, <2>6, <2>7, <2>8
<1>8. CASE job.pc \in {"promote", "rollback"} /\ Handled
    <2>1. UNCHANGED <<apps, rel, objs, rows>> /\ live' \subseteq live \cup {Slot}
        BY <1>8 DEF Handled, At
    <2>2. AppKeyOnDisk' /\ RowsLast' /\ PatchReproducesSource'
        BY <1>2, <2>1 DEF AppKeyOnDisk, RowsLast, PatchReproducesSource, Faithful
    <2> QED BY <1>1, <1>2, <2>1, <2>2
<1> QED BY <1>3, <1>5, <1>6, <1>7, <1>8 DEF Requesting, At, HandledHalf

\* What a request leaves of the invariant, whatever the command does next.
LEMMA RequestState ==
    ASSUME Inv, Requesting, Handled \/ HandledHalf \/ UNCHANGED server,
           UNCHANGED <<keys, yaml, work, dev, commands>>, cache' \in [Targets -> CacheDir],
           WholeCache', job' \in Job \cup {Idle}
    PROVE  TypeOK' /\ StateInv'
<1>1. /\ apps' \in [Ids -> App \cup {NoApp}]
      /\ rel' \in [Targets -> Sources \cup {None}]
      /\ objs' \in [Targets \X Numbers -> Payload]
      /\ rows' \in [Targets \X Numbers -> Payload]
      /\ live' \subseteq Targets \X Numbers
      /\ AppKeyOnDisk' /\ RowsLast' /\ PatchReproducesSource'
      /\ \A q \in Targets \X Numbers : rows[q].key \in KeyFiles => rows'[q] = rows[q]
    BY HandledServer
<1>2. TypeOK'
    BY <1>1 DEF Inv, TypeOK
<1>3. Installed'
    BY DEF Inv, StateInv, Installed, InstalledUnderPin
<1>4. Reported'
    <2> SUFFICES ASSUME NEW p \in Platforms, NEW n \in Numbers,
                        work[<<p, n>>].report.status = "created"
                 PROVE  LET report == work[<<p, n>>].report
                        IN  /\ report.id \in Ids /\ report.payload.key \in KeyFiles
                            /\ rows'[<<<<report.id, p>>, n>>] = report.payload
        BY DEF Reported, Published
    <2>1. LET report == work[<<p, n>>].report
          IN  /\ report.id \in Ids /\ report.payload.key \in KeyFiles
              /\ rows[<<<<report.id, p>>, n>>] = report.payload
        BY DEF Inv, StateInv, Reported, Published
    <2>2. <<<<work[<<p, n>>].report.id, p>>, n>> \in Targets \X Numbers
        BY <2>1 DEF Targets
    <2> QED BY <1>1, <2>1, <2>2
<1> QED BY <1>1, <1>2, <1>3, <1>4 DEF StateInv

\* The request is sent again, or given up.
LEMMA UnansweredInv == ASSUME Inv, Unanswered PROVE Inv'
<1>1. /\ job \in Job /\ job.t \in Targets /\ job.tries \in 0..Retries
      /\ Requesting /\ (Handled \/ HandledHalf \/ UNCHANGED server)
      /\ UNCHANGED <<keys, yaml, cache, work, dev, commands>>
    BY NotIdle, JobFields DEF Inv, Unanswered, Requesting, Pcs, files
<1>2. \/ job' = Idle
      \/ job' \in Job /\ job'.pc = job.pc /\ SameJob
    BY <1>1, BoundsAssumption DEF Unanswered, Retry, Stop, Job, SameJob
<1>3. WholeCache'
    <2>1. At("release") => ~cache[job.t].whole
        BY DEF Inv, JobInv, JobBuild, At
    <2>2. \A t \in Targets : rel'[t] = rel[t] \/ (At("release") /\ t = job.t)
        BY <1>1, HandledServer
    <2> QED BY <1>1, <2>1, <2>2 DEF Inv, StateInv, WholeCache
<1>4. TypeOK' /\ StateInv'
    BY <1>1, <1>2, <1>3, RequestState DEF Inv, TypeOK
<1>5. JobInv'
    <2>1. CASE job' = Idle
        BY <2>1, DoneInv
    <2>2. CASE job' \in Job /\ job'.pc = job.pc /\ SameJob
        <3>1. JobKeys' /\ JobBuild'
            BY <1>1, <2>2 DEF Inv, JobInv, JobKeys, JobBuild, At, SameJob, Requesting
        <3>2. At("patch") => Faithful(job.t, job.n, job.payload)'
            BY <2>2 DEF Inv, JobInv, JobPayload, At, SameJob, Faithful
        <3>3. JobPayload'
            BY <1>1, <2>2, <3>2 DEF Inv, JobInv, JobPayload, At, SameJob, Requesting
        <3> QED BY <3>1, <3>3 DEF JobInv
    <2> QED BY <1>2, <2>1, <2>2
<1> QED BY <1>4, <1>5 DEF Inv

\* The answer arrives: a release makes its cache whole, a patch is published.
LEMMA AnsweredInv == ASSUME Inv, Answered PROVE Inv'
<1>1. job.pc \in {"app", "release", "patch", "promote", "rollback"} /\ Handled
    BY DEF Answered, Handled, At
<1>2. /\ job \in Job /\ job.t \in Targets /\ Slot \in Targets \X Numbers /\ Requesting
      /\ UNCHANGED <<keys, yaml, work, dev, commands>>
    BY <1>1, NotIdle, JobFields DEF Inv, Answered, Requesting, Pcs
<1>3. CASE At("release")
    <2> DEFINE d == [cache[job.t] EXCEPT !.whole = TRUE]
    <2>1. /\ rel' = [rel EXCEPT ![job.t] = job.src] /\ job' = Idle
          /\ cache' = [cache EXCEPT ![job.t] = d]
        BY <1>2, <1>3 DEF Answered, Handled, At, Inv, TypeOK
    <2>2. /\ job.src \in Sources /\ cache[job.t].art = job.src
          /\ cache[job.t].meta.hashed = Hashed(job.t[2], job.src)
        BY <1>3 DEF Inv, JobInv, JobBuild, At
    <2>3. d \in CacheDir /\ d.art = job.src /\ d.meta.hashed = Hashed(job.t[2], job.src)
        BY <1>2, <2>2, CacheDirOf DEF Inv, CacheDir
    <2> HIDE DEF d
    <2>4. cache' \in [Targets -> CacheDir]
        BY <1>2, <2>1, <2>3 DEF Inv, TypeOK
    <2>5. WholeCache'
        BY <1>2, <2>1, <2>2, <2>3 DEF Inv, TypeOK, StateInv, WholeCache
    <2>6. TypeOK' /\ StateInv'
        BY <1>1, <1>2, <2>1, <2>4, <2>5, RequestState
    <2> QED BY <2>1, <2>6, DoneInv DEF Inv
<1>4. CASE ~At("release")
    <2>1. cache' = cache /\ cache' \in [Targets -> CacheDir]
        BY <1>4 DEF Answered, Inv, TypeOK
    <2>2. WholeCache'
        <3>1. \A t \in Targets : rel'[t] = rel[t]
            BY <1>1, <1>2, <1>4, HandledServer
        <3> QED BY <2>1, <3>1 DEF Inv, StateInv, WholeCache
    <2>3. CASE At("app")
        <3>1. job' = [job EXCEPT !.pc = "yaml"]
            BY <2>3 DEF Answered, At
        <3>2. job' \in Job /\ job'.pc = "yaml"
            BY <1>2, <3>1 DEF Job, Pcs
        <3>3. JobInv'
            BY <3>2 DEF JobInv, JobKeys, JobBuild, JobPayload, At
        <3> QED BY <1>1, <1>2, <2>1, <2>2, <3>2, <3>3, RequestState DEF Inv
    <2>4. CASE At("patch")
        <3>1. job' = [job EXCEPT !.pc = "report", !.status = "created"]
            BY <2>4 DEF Answered, At
        <3>2. /\ job' \in Job /\ job'.pc = "report" /\ job'.t = job.t /\ job'.n = job.n
              /\ job'.payload = job.payload
            BY <1>2, <3>1 DEF Job, Pcs
        <3>3. rows' = [rows EXCEPT ![Slot] = job.payload] /\ job.payload.key \in KeyFiles
            BY <1>1, <2>4 DEF Handled, At, Inv, JobInv, JobPayload
        <3>4. Published(job.t, job.n, job.payload)'
            BY <1>2, <3>2, <3>3 DEF Published, Slot, Inv, TypeOK
        <3>5. JobInv'
            BY <3>2, <3>4 DEF JobInv, JobKeys, JobBuild, JobPayload, At
        <3> QED BY <1>1, <1>2, <2>1, <2>2, <3>2, <3>5, RequestState DEF Inv
    <2>5. CASE job.pc \in {"promote", "rollback"}
        <3>1. job' = Idle
            BY <2>5 DEF Answered, At
        <3> QED BY <1>1, <1>2, <2>1, <2>2, <3>1, DoneInv, RequestState DEF Inv
    <2> QED BY <1>1, <1>4, <2>3, <2>4, <2>5 DEF At
<1> QED BY <1>3, <1>4

\* A refusal ends the command without a report.
LEMMA RefusedInv == ASSUME Inv, Refused PROVE Inv'
BY EndsInv DEF Refused, Conflict, Stop


-----------------------------------------------------------------------------
(* The device                                                               *)

\* A step that changes nothing but the device and the command.
LEMMA OnlyDevice ==
    ASSUME Inv, UNCHANGED <<files, server, commands>>, job' \in Job \cup {Idle},
           dev' \in [pin : [Ids -> KeyFiles \cup {None, Torn}],
                     installed : [Targets \X Numbers -> Payload]],
           Installed'
    PROVE  TypeOK' /\ StateInv'
<1>1. TypeOK'
    BY DEF Inv, TypeOK, files, server
<1>2. StateInv'
    BY DEF Inv, StateInv, AppKeyOnDisk, RowsLast, Reported, Published, WholeCache,
           PatchReproducesSource, Faithful, files, server
<1> QED BY <1>1, <1>2

\* Nothing is installed of an app without a pinned key, so that the first pin
\* contradicts nothing.
LEMMA FirstPin ==
    ASSUME Inv, NEW i \in Ids, dev.pin[i] = None, NEW k \in KeyFiles \cup {Torn},
           dev' = [dev EXCEPT !.pin[i] = k], UNCHANGED <<files, server, commands>>,
           job' \in Job \cup {Idle}
    PROVE  TypeOK' /\ StateInv' /\ dev'.pin[i] = k
<1>1. /\ dev.pin \in [Ids -> KeyFiles \cup {None, Torn}]
      /\ dev.installed \in [Targets \X Numbers -> Payload]
      /\ dev \in [pin : [Ids -> KeyFiles \cup {None, Torn}],
                  installed : [Targets \X Numbers -> Payload]]
    BY DEF Inv, TypeOK
<1> DEFINE pin == [dev.pin EXCEPT ![i] = k]
<1>2. pin \in [Ids -> KeyFiles \cup {None, Torn}] /\ pin[i] = k
      /\ \A j \in Ids : j # i => pin[j] = dev.pin[j]
    BY <1>1
<1>3. dev' = [dev EXCEPT !.pin = pin]
    BY <1>1
<1> HIDE DEF pin
<1>4. /\ dev'.pin = pin /\ dev'.installed = dev.installed
      /\ dev' \in [pin : [Ids -> KeyFiles \cup {None, Torn}],
                   installed : [Targets \X Numbers -> Payload]]
    BY <1>1, <1>2, <1>3
<1>5. Installed'
    <2>1. ASSUME NEW t \in Targets, NEW n \in Numbers, dev.installed[<<t, n>>] # NoPayload
          PROVE  dev.installed[<<t, n>>].key = pin[t[1]]
        <3>1. dev.installed[<<t, n>>].key = dev.pin[t[1]] /\ dev.installed[<<t, n>>].key # None
            BY <2>1, KeyFilesAssumption DEF Inv, StateInv, Installed, InstalledUnderPin, None
        <3>2. t[1] # i /\ t[1] \in Ids
            BY <3>1 DEF Targets
        <3> QED BY <1>2, <3>1, <3>2
    <2>2. InstalledUnderPin'
        BY <1>4, <2>1 DEF InstalledUnderPin
    <2>3. \A q \in Targets \X Numbers :
             dev'.installed[q] # NoPayload => dev'.installed[q].key \in KeyFiles
        BY <1>4 DEF Inv, StateInv, Installed
    <2> QED BY <2>2, <2>3 DEF Installed
<1> QED BY <1>2, <1>4, <1>5, OnlyDevice

\* The key that the server gives for an app.
LEMMA PublicKeyType ==
    ASSUME TypeOK, job.t[1] \in Ids, apps[job.t[1]] # NoApp
    PROVE  PublicKey \in KeyFiles
BY DEF TypeOK, PublicKey, App

\* Trust on first use.
LEMMA PinKeyInv == ASSUME Inv, PinKey PROVE Inv'
<1>1. job \in Job /\ job.t[1] \in Ids /\ apps[job.t[1]] # NoApp /\ PublicKey \in KeyFiles
    BY NotIdle, JobFields, PublicKeyType DEF Inv, PinKey, At, Pcs, JobInv, JobKeys
<1>2. ASSUME Goto("apply"), TypeOK', StateInv', dev'.pin[job.t[1]] = PublicKey, apps' = apps
      PROVE  Inv'
    <2>1. job'.pc = "apply" /\ job'.t = job.t
        BY <1>1, <1>2, GotoJob DEF SameJob, Pcs
    <2>2. JobInv'
        BY <1>1, <1>2, <2>1 DEF JobInv, JobKeys, JobBuild, JobPayload, At, PublicKey
    <2> QED BY <1>2, <2>2 DEF Inv
<1>3. ASSUME Goto("apply") PROVE job' \in Job
    BY <1>1, <1>3, GotoJob DEF Pcs
<1>4. UNCHANGED <<files, server, commands>> /\ apps' = apps
    BY DEF PinKey, server
<1>5. CASE /\ dev.pin[job.t[1]] = None /\ Goto("apply")
           /\ dev' = [dev EXCEPT !.pin[job.t[1]] = PublicKey]
    BY <1>1, <1>2, <1>3, <1>4, <1>5, FirstPin
<1>6. CASE dev.pin[job.t[1]] = PublicKey /\ Goto("apply") /\ UNCHANGED dev
    <2>1. TypeOK' /\ StateInv'
        BY <1>3, <1>4, <1>6, OnlyJob DEF Inv, TypeOK
    <2> QED BY <1>2, <1>4, <1>6, <2>1
<1>7. CASE Stop /\ UNCHANGED dev
    BY <1>4, <1>7, EndsInv
<1> QED BY <1>5, <1>6, <1>7 DEF PinKey

\* What is installed was verified with the key that was compared with the pin.
LEMMA ApplyInv == ASSUME Inv, Apply PROVE Inv'
<1>1. /\ job \in Job /\ job.t \in Targets /\ job.t[1] \in Ids /\ Slot \in Targets \X Numbers
      /\ PublicKey \in KeyFiles /\ dev.pin[job.t[1]] = PublicKey
    BY NotIdle, JobFields, PublicKeyType DEF Inv, Apply, At, Pcs, JobInv, JobKeys
<1>2. CASE UNCHANGED dev
    BY <1>2, EndsInv DEF Apply
<1>3. CASE rows[Slot].key = PublicKey /\ dev' = [dev EXCEPT !.installed[Slot] = rows[Slot]]
    <2>1. /\ dev.installed \in [Targets \X Numbers -> Payload]
          /\ rows[Slot] \in Payload
          /\ dev \in [pin : [Ids -> KeyFiles \cup {None, Torn}],
                      installed : [Targets \X Numbers -> Payload]]
        BY <1>1 DEF Inv, TypeOK
    <2> DEFINE in == [dev.installed EXCEPT ![Slot] = rows[Slot]]
    <2>2. /\ in \in [Targets \X Numbers -> Payload] /\ in[Slot] = rows[Slot]
          /\ \A q \in Targets \X Numbers : q # Slot => in[q] = dev.installed[q]
        BY <1>1, <2>1
    <2>3. dev' = [dev EXCEPT !.installed = in]
        BY <1>3, <2>1
    <2> HIDE DEF in
    <2>4. /\ dev'.pin = dev.pin /\ dev'.installed = in
          /\ dev' \in [pin : [Ids -> KeyFiles \cup {None, Torn}],
                       installed : [Targets \X Numbers -> Payload]]
        BY <2>1, <2>2, <2>3
    <2>5. Installed'
        <3>1. ASSUME NEW t \in Targets, NEW n \in Numbers, in[<<t, n>>] # NoPayload
              PROVE  in[<<t, n>>].key = dev.pin[t[1]]
            <4>1. CASE <<t, n>> = Slot
                <5>1. t = job.t
                    BY <4>1 DEF Slot
                <5> QED BY <1>1, <1>3, <2>2, <4>1, <5>1
            <4>2. CASE <<t, n>> # Slot
                BY <2>2, <3>1, <4>2 DEF Inv, StateInv, Installed, InstalledUnderPin
            <4> QED BY <4>1, <4>2
        <3>2. InstalledUnderPin'
            BY <2>4, <3>1 DEF InstalledUnderPin
        <3>3. ASSUME NEW q \in Targets \X Numbers, in[q] # NoPayload
              PROVE  in[q].key \in KeyFiles
            BY <1>1, <1>3, <2>2, <3>3 DEF Inv, StateInv, Installed
        <3> QED BY <2>4, <3>2, <3>3 DEF Installed
    <2>6. TypeOK' /\ StateInv'
        BY <2>4, <2>5, OnlyDevice DEF Apply, Stop
    <2> QED BY <2>6, DoneInv DEF Inv, Apply, Stop
<1> QED BY <1>2, <1>3 DEF Apply

-----------------------------------------------------------------------------
(* Crashes                                                                  *)

\* A command is killed between its steps or in the middle of a write.
LEMMA KilledInv == ASSUME Inv, Killed PROVE Inv'
<1>1. /\ job \in Job /\ job.t \in Targets /\ job.t[1] \in Ids /\ job.file \in KeyFiles
      /\ Dir \in Platforms \X Numbers
    BY JobFields DEF Inv, Killed
<1>2. job' = Idle /\ UNCHANGED <<server, commands>> /\ JobInv'
    BY DoneInv DEF Killed, Stop
<1>3. CASE UNCHANGED <<files, dev>>
    BY <1>2, <1>3, OnlyJob DEF Inv, TypeOK
<1>4. CASE /\ keys[job.file] = None /\ keys' = [keys EXCEPT ![job.file] = Torn]
           /\ UNCHANGED <<yaml, cache, work, dev>>
    <2>1. keys' \in [KeyFiles -> KeyState] /\ AppKeyOnDisk'
        BY <1>1, <1>2, <1>4, KeysKept DEF Inv, StateInv, KeyState, None, server
    <2>2. TypeOK'
        BY <1>2, <1>4, <2>1 DEF Inv, TypeOK, server
    <2>3. StateInv'
        BY <1>2, <1>4, <2>1 DEF Inv, StateInv, Installed, InstalledUnderPin, RowsLast,
           Reported, Published, WholeCache, PatchReproducesSource, Faithful, server
    <2> QED BY <1>2, <2>2, <2>3 DEF Inv
<1>5. CASE yaml' = [NoApp EXCEPT !.name = Torn] /\ UNCHANGED <<keys, cache, work, dev>>
    <2>1. TypeOK'
        BY <1>2, <1>5 DEF Inv, TypeOK, NoApp, server
    <2>2. StateInv'
        BY <1>2, <1>5 DEF Inv, StateInv, AppKeyOnDisk, Installed, InstalledUnderPin, RowsLast,
           Reported, Published, WholeCache, PatchReproducesSource, Faithful, server
    <2> QED BY <1>2, <2>1, <2>2 DEF Inv
<1>6. ASSUME NEW d \in CacheDir, ~d.whole, cache' = [cache EXCEPT ![job.t] = d],
             UNCHANGED <<keys, yaml, work, dev>>
      PROVE  Inv'
    <2>1. TypeOK' /\ StateInv'
        BY <1>1, <1>2, <1>6, CacheWritten
    <2> QED BY <1>2, <2>1 DEF Inv
<1>7. CASE /\ \/ At("artifact") /\ cache' = [cache EXCEPT ![job.t].art = Torn,
                                                         ![job.t].whole = FALSE]
              \/ At("aot") /\ cache' = [cache EXCEPT ![job.t].aot = Torn]
              \/ At("meta") /\ cache' = [cache EXCEPT ![job.t].meta.pin = Torn]
           /\ UNCHANGED <<keys, yaml, work, dev>>
    <2>1. cache[job.t] \in CacheDir /\ Torn \in Artifact
        BY <1>1, CacheDirOf DEF Inv, Artifact
    <2>2. job.pc \in {"aot", "meta"} => ~cache[job.t].whole
        BY DEF Inv, JobInv, JobBuild
    <2> DEFINE a == [cache[job.t] EXCEPT !.art = Torn, !.whole = FALSE]
               b == [cache[job.t] EXCEPT !.aot = Torn]
               m == [cache[job.t].meta EXCEPT !.pin = Torn]
               c == [cache[job.t] EXCEPT !.meta = m]
    <2>3. a \in CacheDir /\ ~a.whole
        BY <2>1 DEF CacheDir
    <2>4. b \in CacheDir /\ b.whole = cache[job.t].whole
        BY <2>1 DEF CacheDir
    <2>5. m \in Info
        BY <2>1 DEF CacheDir, Info
    <2>6. c \in CacheDir /\ c.whole = cache[job.t].whole
        <3> HIDE DEF m
        <3> QED BY <2>1, <2>5 DEF CacheDir
    <2>7. \/ cache' = [cache EXCEPT ![job.t] = a]
          \/ At("aot") /\ cache' = [cache EXCEPT ![job.t] = b]
          \/ At("meta") /\ cache' = [cache EXCEPT ![job.t] = c]
        BY <1>1, <1>7 DEF Inv, TypeOK
    <2> HIDE DEF a, b, c
    <2> QED BY <1>6, <1>7, <2>2, <2>3, <2>4, <2>6, <2>7 DEF At
<1>8. CASE /\ \/ At("save") /\ work' = [work EXCEPT ![Dir].art = Torn]
              \/ At("report") /\ work' = [work EXCEPT ![Dir].report.status = Torn]
           /\ UNCHANGED <<keys, yaml, cache, dev>>
    <2>1. work[Dir] \in [art : Artifact, report : Report] /\ Torn \in Artifact
        BY <1>1, WorkDirOf DEF Artifact
    <2> DEFINE a == [work[Dir] EXCEPT !.art = Torn]
               r == [work[Dir].report EXCEPT !.status = Torn]
               b == [work[Dir] EXCEPT !.report = r]
    <2>2. a \in [art : Artifact, report : Report] /\ a.report = work[Dir].report
        BY <2>1
    <2>3. r \in Report /\ r.status = Torn
        BY <2>1 DEF Report
    <2>4. b \in [art : Artifact, report : Report] /\ b.report = r
        <3> HIDE DEF r
        <3> QED BY <2>1, <2>3
    <2>5. work' = [work EXCEPT ![Dir] = a] \/ work' = [work EXCEPT ![Dir] = b]
        BY <1>1, <1>8 DEF Inv, TypeOK
    <2> HIDE DEF a, b, r
    <2>6. UNCHANGED <<keys, yaml, cache, server, dev, commands>> /\ job' \in Job \cup {Idle}
        BY <1>2, <1>8
    <2>7. CASE work' = [work EXCEPT ![Dir] = a]
        <3>1. TypeOK' /\ StateInv'
            BY <1>1, <2>2, <2>6, <2>7, WorkDirOf, WorkWritten
        <3> QED BY <1>2, <3>1 DEF Inv
    <2>8. CASE work' = [work EXCEPT ![Dir] = b]
        <3>1. b.report.status # "created"
            BY <2>3, <2>4 DEF Torn
        <3>2. TypeOK' /\ StateInv'
            BY <1>1, <2>4, <2>6, <2>8, <3>1, WorkWritten
        <3> QED BY <1>2, <3>2 DEF Inv
    <2> QED BY <2>5, <2>7, <2>8
<1>9. CASE /\ dev.pin[job.t[1]] = None /\ dev' = [dev EXCEPT !.pin[job.t[1]] = Torn]
           /\ UNCHANGED files
    <2>1. TypeOK' /\ StateInv'
        BY <1>1, <1>2, <1>9, FirstPin
    <2> QED BY <1>2, <2>1 DEF Inv
<1> QED BY <1>2, <1>3, <1>4, <1>5, <1>7, <1>8, <1>9 DEF Inv, Killed

-----------------------------------------------------------------------------
(* The theorems                                                             *)

\* Nothing changes in a step that the tool does not take part in.
LEMMA StutterInv == ASSUME Inv, UNCHANGED vars PROVE Inv'
<1>1. /\ UNCHANGED <<files, server, dev>> /\ job' = job
      /\ job' \in Job \cup {Idle} /\ commands' \in 0..MaxCommands
    BY DEF vars, Inv, TypeOK
<1>2. TypeOK' /\ StateInv'
    BY <1>1, OnlyJob
<1>3. JobInv'
    BY <1>1 DEF Inv, JobInv, JobKeys, JobBuild, JobPayload, At, PublicKey, Published,
           Faithful, files, server
<1> QED BY <1>2, <1>3 DEF Inv

\* Every command, every step and every crash preserves the invariant.
LEMMA NextInv == Inv /\ [Next]_vars => Inv'
<1> SUFFICES ASSUME Inv, [Next]_vars PROVE Inv'
    OBVIOUS
<1>1. CASE Command
    BY <1>1, CommandInv
<1>2. CASE Step
    BY <1>2, MakeKeyInv, WriteYamlInv, BuildInv, SaveArtifactInv, CaptureAotInv,
       CollectInfoInv, SaveMetaInv, ReadCacheInv, CompareInv, SnapshotPayloadInv,
       BytecodePayloadInv, ManualPayloadInv, PayloadFailsInv, SavePayloadInv, SignInv,
       WriteReportInv, AnsweredInv, UnansweredInv, RefusedInv, DownloadInv, PinKeyInv,
       ApplyInv DEF Step
<1>3. CASE Killed
    BY <1>3, KilledInv
<1>4. CASE UNCHANGED vars
    BY <1>4, StutterInv
<1> QED BY <1>1, <1>2, <1>3, <1>4 DEF Next

\* The invariant holds in every state that the tool can bring about.
THEOREM CliInvariant == Spec => []Inv
BY InitInv, NextInv, PTL DEF Spec

\* The state always has the types that the model declares.
THEOREM CliTyped == Spec => []TypeOK
<1>1. Inv => TypeOK
    BY DEF Inv
<1> QED BY <1>1, CliInvariant, PTL

\* A report that says "created" tells the truth for ever, for any number of
\* apps, patches, commands, lost answers and retries.
THEOREM ReportsTellTruth == Spec => []CreatedMeansPublished
<1>1. Inv => CreatedMeansPublished
    BY DEF Inv, StateInv, Reported, Published, CreatedMeansPublished
<1> QED BY <1>1, CliInvariant, PTL

\* Every module that the command built reproduces its program on the inventory
\* it was linked against, and after a finished release command that is the
\* server's release, with the same list of assets and the same Android
\* libraries; for any edits of the project, kills and publications in between.
THEOREM PatchesReproduce == Spec => []PatchReproducesSource
<1>1. Inv => PatchReproducesSource
    BY DEF Inv, StateInv
<1> QED BY <1>1, CliInvariant, PTL

\* No app is on the server without its private key on disk.
THEOREM KeysOnDisk == Spec => []AppKeyOnDisk
<1>1. Inv => AppKeyOnDisk
    BY DEF Inv, StateInv
<1> QED BY <1>1, CliInvariant, PTL

\* Everything a device has installed was signed with the key that it pinned.
THEOREM InstallsArePinned == Spec => []InstalledUnderPin
<1>1. Inv => InstalledUnderPin
    BY DEF Inv, StateInv, Installed
<1> QED BY <1>1, CliInvariant, PTL
=============================================================================
