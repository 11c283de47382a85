-------------------------- MODULE ResumableDownload --------------------------
(***************************************************************************)
(* The resumable payload download: payload.bin.part and .progress on disk,  *)
(* resume_offset, the retry loop of download_bytes_from_with_cancel, the    *)
(* hash check and the rename (updater/src/lib.rs and server_api.rs).        *)
(*                                                                          *)
(* A file is a sequence of blocks, a block being what one read of the body  *)
(* returns.  Calls run one at a time, because the runtime mutex is held     *)
(* over a download, but any of them can fail or die halfway.                *)
(***************************************************************************)
EXTENDS Integers, Sequences

CONSTANTS
    Sources,    \* servers and apps that publish a patch under this number
    Size,       \* number of blocks in the payload of each source
    Retries,    \* the length of RETRY_DELAYS
    MaxBody,    \* MAX_BODY_BYTES, in blocks
    MaxFaults   \* bound: failures, crashes and changes of source

ASSUME SizeAssumption == Size \in [Sources -> Nat \ {0}]
ASSUME RetriesAssumption == Retries \in Nat
ASSUME MaxBodyAssumption == MaxBody \in Nat
ASSUME MaxFaultsAssumption == MaxFaults \in Nat

VARIABLES
    part,       \* payload.bin.part; a missing file reads as an empty one
    progress,   \* the number in .progress, or NoProgress
    final,      \* payload.bin
    source,     \* where the last check response points to
    pc,         \* where the download is
    offset,     \* the offset resume_offset returned
    effective,  \* effective_offset of the retry loop
    attempt,    \* the attempt the retry loop is at
    retained,   \* whether last_error is Some
    append,     \* whether the response was a 206
    got,        \* blocks of the body read into memory
    faults,     \* how many faults have happened
    switched    \* history: whether the source ever changed

locals == <<offset, effective, attempt, retained, append, got>>
files == <<part, progress, final>>
vars == <<part, progress, final, source, pc, offset, effective, attempt,
          retained, append, got, faults, switched>>

-----------------------------------------------------------------------------

NoProgress == -1
Payload(s) == [i \in 1..Size[s] |-> [of |-> s, at |-> i]]
Prefix(s, n) == SubSeq(s, 1, n)

\* What the server sends: the whole payload, or what follows the offset.
Body == IF append THEN SubSeq(Payload(source), effective + 1, Size[source])
                  ELSE Payload(source)

Init ==
    /\ part = <<>> /\ progress = NoProgress /\ final = <<>>
    /\ source \in Sources
    /\ pc = "idle"
    /\ offset = 0 /\ effective = 0 /\ attempt = 0 /\ got = 0
    /\ retained = FALSE /\ append = FALSE
    /\ faults = 0 /\ switched = FALSE

\* download_patch_files returns, with Ok or Err.
Return ==
    /\ pc' = "idle"
    /\ offset' = 0 /\ effective' = 0 /\ attempt' = 0 /\ got' = 0
    /\ retained' = FALSE /\ append' = FALSE

Fault == faults < MaxFaults /\ faults' = faults + 1

-----------------------------------------------------------------------------
(* Starting or resuming                                                     *)

\* The smaller of the recorded progress and what is really there.
ResumeOffset ==
    IF progress = NoProgress \/ progress > Len(part) THEN Len(part) ELSE progress

\* The part file is cut back to the offset from which the download resumes.
Begin ==
    /\ pc = "idle"
    /\ pc' = "request"
    /\ offset' = ResumeOffset /\ effective' = ResumeOffset
    /\ part' = Prefix(part, ResumeOffset)
    /\ UNCHANGED <<progress, final, source, attempt, retained, append, got,
                   faults, switched>>

-----------------------------------------------------------------------------
(* The retry loop                                                           *)

\* Fault: one retry too many.
CanRetryOnceMore == attempt <= Retries

\* can_retry
CanRetry == attempt < Retries

\* Fault: the offset is kept.
RangeNotSatisfiableKeepsOffset ==
    /\ pc = "request" /\ effective >= Size[source]
    /\ IF CanRetry
       THEN /\ attempt' = attempt + 1
            /\ UNCHANGED <<pc, offset, effective, retained, append, got>>
       ELSE Return
    /\ UNCHANGED <<files, source, faults, switched>>

\* 416: the loop goes on from offset 0.  After the last attempt there is
\* nothing left to go on to, and last_error is unwrapped.
RangeNotSatisfiable ==
    /\ pc = "request" /\ effective >= Size[source]
    /\ IF CanRetry
       THEN /\ attempt' = attempt + 1
            /\ effective' = 0
            /\ UNCHANGED <<pc, offset, retained, append, got>>
       ELSE IF retained
       THEN Return
       ELSE /\ pc' = "panicked"
            /\ UNCHANGED locals
    /\ UNCHANGED <<files, source, faults, switched>>

\* The panic is caught by ffi_guard, which returns an error.
PanicCaught ==
    /\ pc = "panicked"
    /\ Return
    /\ UNCHANGED <<files, source, faults, switched>>

\* 206, from a server that honours the range.
PartialContent ==
    /\ pc = "request" /\ effective \in 1..(Size[source] - 1)
    /\ append' = TRUE
    /\ pc' = "body"
    /\ UNCHANGED <<files, source, offset, effective, attempt, retained, got, faults,
                   switched>>

\* 200, because no range was asked for or because the server ignores it, as
\* patchPayload of the server does.
WholeContent ==
    /\ pc = "request"
    /\ append' = FALSE
    /\ pc' = "body"
    /\ UNCHANGED <<files, source, offset, effective, attempt, retained, got, faults,
                   switched>>

\* A status of 500 or more: the same request again, or an error.
ServerError ==
    /\ pc = "request" /\ Fault
    /\ IF CanRetry
       THEN /\ attempt' = attempt + 1
            /\ UNCHANGED <<pc, offset, effective, retained, append, got>>
       ELSE Return
    /\ UNCHANGED <<files, source, switched>>

\* The connection fails: the error is retained.
TransportError ==
    /\ pc = "request" /\ Fault
    /\ IF CanRetry
       THEN /\ attempt' = attempt + 1
            /\ retained' = TRUE
            /\ UNCHANGED <<pc, offset, effective, append, got>>
       ELSE Return
    /\ UNCHANGED <<files, source, switched>>

\* Another status, or the download is cancelled: no retry.
Refused ==
    /\ pc = "request" /\ Fault
    /\ Return
    /\ UNCHANGED <<files, source, switched>>

-----------------------------------------------------------------------------
(* The body                                                                 *)

\* read_body_with_cancel reads one block into memory.
ReadBody ==
    /\ pc = "body" /\ got < Len(Body) /\ got < MaxBody
    /\ got' = got + 1
    /\ UNCHANGED <<files, source, pc, offset, effective, attempt, retained, append,
                   faults, switched>>

\* There is more than the limit allows: an error, without a retry.
BodyTooLong ==
    /\ pc = "body" /\ got < Len(Body) /\ got = MaxBody
    /\ Return
    /\ UNCHANGED <<files, source, faults, switched>>

BodyRead ==
    /\ pc = "body" /\ got = Len(Body)
    /\ pc' = "write"
    /\ UNCHANGED <<files, source, locals, faults, switched>>

\* A read fails or the download is cancelled; there is no retry here.
BodyBreaks ==
    /\ pc = "body" /\ Fault
    /\ Return
    /\ UNCHANGED <<files, source, switched>>

-----------------------------------------------------------------------------
(* The files                                                                *)

\* Fault: whatever arrives after a resume is appended.
WrittenOnResume(n) ==
    IF offset > 0 THEN part \o Prefix(Body, n) ELSE Prefix(Body, n)

\* The part file after the first n blocks of the body went into it.
Written(n) ==
    IF append /\ offset > 0 THEN part \o Prefix(Body, n) ELSE Prefix(Body, n)

WritePart ==
    /\ pc = "write"
    /\ part' = Written(Len(Body))
    /\ pc' = "progress"
    /\ UNCHANGED <<progress, final, source, locals, faults, switched>>

\* The write ends early: the disk is full, or the process dies.
TornWrite ==
    /\ pc = "write" /\ Fault
    /\ \E n \in 0..(Len(Body) - 1) : part' = Written(n)
    /\ Return
    /\ UNCHANGED <<progress, final, source, switched>>

SaveProgress ==
    /\ pc = "progress"
    /\ progress' = Len(part)
    /\ pc' = "verify"
    /\ UNCHANGED <<part, final, source, locals, faults, switched>>

\* The file was created and nothing or only the first digits came into it: it
\* does not parse, or it is a smaller number.
TornProgress ==
    /\ pc = "progress" /\ Fault
    /\ progress' \in {NoProgress} \cup 0..(Len(part) - 1)
    /\ Return
    /\ UNCHANGED <<part, final, source, switched>>

\* Fault: the length is compared, not the hash.
VerifyLength ==
    /\ pc = "verify"
    /\ IF Len(part) = Size[source]
       THEN /\ final' = part /\ part' = <<>>
            /\ pc' = "cleanup"
            /\ UNCHANGED <<progress, locals>>
       ELSE Return /\ UNCHANGED files
    /\ UNCHANGED <<source, faults, switched>>

\* The hash of the part file decides whether it becomes payload.bin; a wrong
\* one is left where it is.
Verify ==
    /\ pc = "verify"
    /\ IF part = Payload(source)
       THEN /\ final' = part /\ part' = <<>>
            /\ pc' = "cleanup"
            /\ UNCHANGED <<progress, locals>>
       ELSE Return /\ UNCHANGED files
    /\ UNCHANGED <<source, faults, switched>>

Cleanup ==
    /\ pc = "cleanup"
    /\ progress' = NoProgress
    /\ Return
    /\ UNCHANGED <<part, final, source, faults, switched>>

\* The process dies between two of the above, or a checkpoint finds the call
\* cancelled.
Crash ==
    /\ pc # "idle" /\ Fault
    /\ Return
    /\ UNCHANGED <<files, source, switched>>

\* The app is configured for another server or app id.  The download
\* directory is named after release, patch number, platform and arch only.
SwitchSource ==
    /\ pc = "idle" /\ Fault
    /\ \E s \in Sources \ {source} : source' = s
    /\ switched' = TRUE
    /\ UNCHANGED <<files, pc, locals>>

-----------------------------------------------------------------------------

Progress ==
    \/ Begin
    \/ RangeNotSatisfiable
    \/ PanicCaught
    \/ PartialContent
    \/ WholeContent
    \/ ReadBody
    \/ BodyTooLong
    \/ BodyRead
    \/ WritePart
    \/ SaveProgress
    \/ Verify
    \/ Cleanup

Failure ==
    \/ ServerError
    \/ TransportError
    \/ Refused
    \/ BodyBreaks
    \/ TornWrite
    \/ TornProgress
    \/ Crash
    \/ SwitchSource

Next == Progress \/ Failure

Spec == Init /\ [][Next]_vars

\* A download goes on unless something fails, and the app tries again after
\* it failed: the next start checks for an update once more.
FairSpec == Spec /\ WF_vars(Progress)

-----------------------------------------------------------------------------
(* What the download promises                                               *)

\* Type invariant; the retry loop makes at most Retries + 1 attempts.
TypeOK ==
    /\ part \in Seq([of : Sources, at : Nat])
    /\ progress \in Nat \cup {NoProgress}
    /\ final \in Seq([of : Sources, at : Nat])
    /\ source \in Sources
    /\ pc \in {"idle", "request", "panicked", "body", "write", "progress",
               "verify", "cleanup"}
    /\ offset \in Nat /\ effective \in {0, offset}
    /\ attempt \in 0..Retries
    /\ retained \in BOOLEAN /\ append \in BOOLEAN
    /\ got \in Nat
    /\ faults \in 0..MaxFaults
    /\ switched \in BOOLEAN

\* As long as the payload behind the patch number stays the same, the part
\* file holds a prefix of it whatever failed or died before, so a resumed
\* download never fails its hash check.
PartIsPrefix ==
    ~switched => \E n \in 0..Size[source] : part = Prefix(Payload(source), n)

\* payload.bin is never a mixture of two payloads or a piece of one: it is
\* replaced by a rename, after the hash check, by a whole payload.
FinalIsWhole == final = <<>> \/ \E s \in Sources : final = Payload(s)

\* No state of the part file and its progress blocks the download for good:
\* once failures stop, a payload is delivered again and again, a part file
\* that is full-length and wrong included.  The one exception is for good: a
\* payload over the limit of read_body_with_cancel is never delivered.
DownloadHeals == []<>(pc = "cleanup") \/ <>[](Size[source] > MaxBody)

=============================================================================
