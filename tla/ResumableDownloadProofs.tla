----------------------- MODULE ResumableDownloadProofs -----------------------
(***************************************************************************)
(* The safety of the resumable download for payloads of any length, any     *)
(* number of sources, retries, failures and crashes.                        *)
(***************************************************************************)
EXTENDS ResumableDownload, SequenceTheorems, TLAPS

-----------------------------------------------------------------------------
(* Prefixes of a payload                                                    *)

Block == [of : Sources, at : Nat]
BlockAt(s, i) == [of |-> s, at |-> i]

\* The file p holds the first blocks of the payload of s, in order.
IsPart(p, s) ==
    /\ p \in Seq(Block)
    /\ Len(p) <= Size[s]
    /\ \A i \in 1..Len(p) : p[i] = BlockAt(s, i)

\* A payload is a sequence of its blocks.
LEMMA PayloadSeq ==
    ASSUME NEW s \in Sources
    PROVE  /\ Size[s] \in Nat
           /\ Payload(s) \in Seq(Block)
           /\ Len(Payload(s)) = Size[s]
           /\ \A i \in 1..Size[s] : Payload(s)[i] = BlockAt(s, i)
<1>1. Size[s] \in Nat
    BY SizeAssumption
<1>2. \A i \in 1..Size[s] : BlockAt(s, i) \in Block
    BY <1>1 DEF Block, BlockAt
<1>3. Payload(s) = [i \in 1..Size[s] |-> BlockAt(s, i)]
    BY DEF Payload, BlockAt
<1> QED BY <1>1, <1>2, <1>3

\* The first n elements of a sequence, or of a function, of blocks.
LEMMA FirstBlocks ==
    ASSUME NEW q, NEW n \in Nat, \A i \in 1..n : q[i] \in Block
    PROVE  /\ Prefix(q, n) \in Seq(Block)
           /\ Len(Prefix(q, n)) = n
           /\ \A i \in 1..n : Prefix(q, n)[i] = q[i]
<1>1. /\ SubSeq(q, 1, n) \in Seq(Block)
      /\ Len(SubSeq(q, 1, n)) = IF 1 <= n THEN n - 1 + 1 ELSE 0
      /\ \A i \in 1..(n - 1 + 1) : SubSeq(q, 1, n)[i] = q[1 + i - 1]
    BY SubSeqProperties
<1>2. \A i \in 1..n : i \in 1..(n - 1 + 1) /\ 1 + i - 1 = i
    OBVIOUS
<1> QED BY <1>1, <1>2 DEF Prefix

\* Cutting a payload off anywhere leaves a part of it.
LEMMA PrefixIsPart ==
    ASSUME NEW s \in Sources, NEW n \in 0..Size[s]
    PROVE  IsPart(Prefix(Payload(s), n), s) /\ Len(Prefix(Payload(s), n)) = n
<1>1. /\ Size[s] \in Nat /\ n \in Nat
      /\ \A i \in 1..n : Payload(s)[i] \in Block /\ Payload(s)[i] = BlockAt(s, i)
    BY PayloadSeq DEF Block, BlockAt
<1>2. PICK q : q = Payload(s)
    OBVIOUS
<1>3. /\ Prefix(q, n) \in Seq(Block)
      /\ Len(Prefix(q, n)) = n
      /\ \A i \in 1..n : Prefix(q, n)[i] = q[i]
    BY <1>1, <1>2, FirstBlocks
<1> QED BY <1>1, <1>2, <1>3 DEF IsPart

\* Every part of a payload is one of its prefixes.
LEMMA PartIsAPrefix ==
    ASSUME NEW s \in Sources, NEW p, IsPart(p, s)
    PROVE  Len(p) \in 0..Size[s] /\ p = Prefix(Payload(s), Len(p))
<1>1. Len(p) \in 0..Size[s] /\ p \in Seq(Block)
    BY PayloadSeq, LenProperties DEF IsPart
<1>2. PICK q : q = Prefix(Payload(s), Len(p))
    OBVIOUS
<1>3. IsPart(q, s) /\ Len(q) = Len(p)
    BY <1>1, <1>2, PrefixIsPart
<1>4. p = q
    BY <1>1, <1>3, SeqEqual DEF IsPart
<1> QED BY <1>1, <1>2, <1>4

\* Cutting off a part leaves a part.
LEMMA CutPart ==
    ASSUME NEW s \in Sources, NEW p, IsPart(p, s), NEW n \in 0..Len(p)
    PROVE  IsPart(Prefix(p, n), s)
<1>1. p \in Seq(Block) /\ Len(p) \in Nat /\ Size[s] \in Nat /\ n \in Nat
    BY PayloadSeq, LenProperties DEF IsPart
<1>2. \A i \in 1..n : p[i] \in Block
    BY <1>1, ElementOfSeq
<1>3. /\ Prefix(p, n) \in Seq(Block)
      /\ Len(Prefix(p, n)) = n
      /\ \A i \in 1..n : Prefix(p, n)[i] = p[i]
    BY <1>1, <1>2, FirstBlocks
<1> QED BY <1>1, <1>3 DEF IsPart

\* Cutting off any file leaves a file of the length it was cut to.
LEMMA CutFile ==
    ASSUME NEW p \in Seq(Block), NEW n \in 0..Len(p)
    PROVE  Prefix(p, n) \in Seq(Block) /\ Len(Prefix(p, n)) = n
<1>1. Len(p) \in Nat
    BY LenProperties
<1>2. \A i \in 1..n : p[i] \in Block
    BY <1>1, ElementOfSeq
<1> QED BY <1>1, <1>2, FirstBlocks

\* The rest of a payload after its first m blocks, cut off after n of them.
LEMMA RestOfPayload ==
    ASSUME NEW s \in Sources, NEW m \in 0..Size[s],
           NEW n \in 0..(Size[s] - m)
    PROVE  LET rest == SubSeq(Payload(s), m + 1, Size[s]) IN
           /\ Len(rest) = Size[s] - m
           /\ Prefix(rest, n) \in Seq(Block)
           /\ Len(Prefix(rest, n)) = n
           /\ \A i \in 1..n : Prefix(rest, n)[i] = BlockAt(s, m + i)
<1>1. /\ Size[s] \in Nat
      /\ \A i \in 1..Size[s] : Payload(s)[i] = BlockAt(s, i) /\ Payload(s)[i] \in Block
    BY PayloadSeq DEF Block, BlockAt
<1>2. PICK q : q = Payload(s)
    OBVIOUS
<1>3. PICK rest : rest = SubSeq(q, m + 1, Size[s])
    OBVIOUS
<1>4. /\ rest \in Seq(Block)
      /\ Len(rest) = Size[s] - m
      /\ \A i \in 1..(Size[s] - m) : rest[i] = q[m + i]
    <2>1. PICK k \in Nat, z \in Nat : k = m + 1 /\ z = Size[s]
        BY <1>1
    <2>2. \A i \in k..z : q[i] \in Block
        BY <1>1, <1>2, <2>1
    <2>3. /\ SubSeq(q, k, z) \in Seq(Block)
          /\ Len(SubSeq(q, k, z)) = IF k <= z THEN z - k + 1 ELSE 0
          /\ \A i \in 1..(z - k + 1) : SubSeq(q, k, z)[i] = q[k + i - 1]
        BY <2>2, SubSeqProperties
    <2>4. \A i \in 1..(Size[s] - m) : i \in 1..(z - k + 1) /\ k + i - 1 = m + i
        BY <1>1, <2>1
    <2> QED BY <1>1, <1>3, <2>1, <2>3, <2>4
<1>5. \A i \in 1..n : rest[i] \in Block
    BY <1>1, <1>4, ElementOfSeq
<1>6. /\ n \in Nat
      /\ Prefix(rest, n) \in Seq(Block)
      /\ Len(Prefix(rest, n)) = n
      /\ \A i \in 1..n : Prefix(rest, n)[i] = rest[i]
    BY <1>1, <1>5, FirstBlocks
<1>7. \A i \in 1..n : Prefix(rest, n)[i] = BlockAt(s, m + i)
    BY <1>1, <1>2, <1>4, <1>6
<1> QED BY <1>2, <1>3, <1>4, <1>6, <1>7

\* A part, and what follows it in the payload, make a longer part.
LEMMA ExtendPart ==
    ASSUME NEW s \in Sources, NEW p, IsPart(p, s), NEW n \in 0..(Size[s] - Len(p))
    PROVE  IsPart(p \o Prefix(SubSeq(Payload(s), Len(p) + 1, Size[s]), n), s)
<1>1. p \in Seq(Block) /\ Len(p) \in 0..Size[s] /\ Size[s] \in Nat
    BY PayloadSeq, LenProperties DEF IsPart
<1>2. PICK more : more = Prefix(SubSeq(Payload(s), Len(p) + 1, Size[s]), n)
    OBVIOUS
<1>3. /\ more \in Seq(Block) /\ Len(more) = n
      /\ \A i \in 1..n : more[i] = BlockAt(s, Len(p) + i)
    BY <1>1, <1>2, RestOfPayload
<1>4. /\ p \o more \in Seq(Block)
      /\ Len(p \o more) = Len(p) + n
      /\ \A i \in 1..(Len(p) + n) :
            (p \o more)[i] = IF i <= Len(p) THEN p[i] ELSE more[i - Len(p)]
    BY <1>1, <1>3, ConcatProperties
<1>5. \A i \in 1..(Len(p) + n) : (p \o more)[i] = BlockAt(s, i)
    BY <1>1, <1>3, <1>4 DEF IsPart
<1> QED BY <1>1, <1>2, <1>4, <1>5 DEF IsPart

-----------------------------------------------------------------------------
(* The inductive invariant                                                  *)

Types == /\ part \in Seq(Block) /\ final \in Seq(Block)
         /\ progress \in Nat \cup {NoProgress}
         /\ source \in Sources
         /\ pc \in {"idle", "request", "panicked", "body", "write", "progress",
                    "verify", "cleanup"}
         /\ offset \in Nat /\ effective \in {0, offset}
         /\ attempt \in 0..Retries
         /\ retained \in BOOLEAN /\ append \in BOOLEAN
         /\ got \in Nat
         /\ faults \in 0..MaxFaults
         /\ switched \in BOOLEAN

\* Until the body is written the part file ends where the download resumes,
\* and a 206 is the answer to a request for what comes after that point.
Resumed ==
    /\ pc \in {"request", "body", "write"} => Len(part) = offset
    /\ pc \in {"body", "write"} /\ append =>
          effective = offset /\ effective \in 1..(Size[source] - 1)

Clean == ~switched => IsPart(part, source)

Inv == Types /\ Resumed /\ Clean /\ FinalIsWhole

\* Nothing has been downloaded.
LEMMA InitInv == Init => Inv
<1> SUFFICES ASSUME Init PROVE Inv
    OBVIOUS
<1>1. <<>> \in Seq(Block) /\ Len(<<>>) = 0
    BY EmptySeq
<1>2. Types
    <2>1. 0 \in Nat /\ 0 \in 0..Retries /\ 0 \in 0..MaxFaults
        BY RetriesAssumption, MaxFaultsAssumption
    <2>2. retained \in BOOLEAN /\ append \in BOOLEAN /\ switched \in BOOLEAN
        BY DEF Init
    <2> QED BY <1>1, <2>1, <2>2 DEF Init, Types
<1>3. Resumed /\ FinalIsWhole
    BY DEF Init, Resumed, FinalIsWhole
<1>4. Clean
    BY <1>1, PayloadSeq DEF Init, Clean, IsPart
<1> QED BY <1>2, <1>3, <1>4 DEF Inv

\* download_patch_files returns and the files stay as they are.
LEMMA ReturnInv ==
    ASSUME Inv, Return, UNCHANGED <<part, final, source, switched>>,
           progress' \in Nat \cup {NoProgress}, faults' \in 0..MaxFaults
    PROVE  Inv'
<1>1. Types'
    <2>1. 0 \in Nat /\ 0 \in 0..Retries
        BY RetriesAssumption
    <2>2. retained' \in BOOLEAN /\ append' \in BOOLEAN
        BY DEF Return
    <2> QED BY <2>1, <2>2 DEF Inv, Types, Return
<1> QED BY <1>1 DEF Inv, Resumed, Clean, FinalIsWhole, Return

\* A failure is one more of at most MaxFaults.
LEMMA FaultTyped == ASSUME Inv, Fault PROVE faults' \in 0..MaxFaults
BY MaxFaultsAssumption DEF Inv, Types, Fault

\* resume_offset, and the cut of the part file.
LEMMA BeginInv == ASSUME Inv, Begin PROVE Inv'
<1>1. part \in Seq(Block) /\ Len(part) \in Nat /\ source \in Sources
    BY LenProperties DEF Inv, Types
<1>2. ResumeOffset \in 0..Len(part)
    BY <1>1 DEF ResumeOffset, NoProgress, Inv, Types
<1>3. PICK n \in 0..Len(part) : n = ResumeOffset
    BY <1>2
<1>4. part' \in Seq(Block) /\ Len(part') = n
    BY <1>1, <1>3, CutFile DEF Begin
<1>5. ~switched => IsPart(part', source)
    BY <1>1, <1>3, CutPart DEF Begin, Inv, Clean
<1>6. offset' = n /\ effective' = n /\ pc' = "request"
    BY <1>3 DEF Begin
<1>7. Types'
    BY <1>1, <1>4, <1>6 DEF Begin, Inv, Types
<1> QED BY <1>4, <1>5, <1>6, <1>7 DEF Begin, Inv, Resumed, Clean, FinalIsWhole

\* The answer to a request, or another attempt at it.
LEMMA RequestInv ==
    ASSUME Inv,
           RangeNotSatisfiable \/ PartialContent \/ WholeContent \/ ServerError \/ TransportError
    PROVE  Inv'
<1>0. Len(part) \in Nat /\ Size[source] \in Nat
    BY LenProperties, PayloadSeq DEF Inv, Types
<1>1. CASE RangeNotSatisfiable
    <2>1. CASE CanRetry
        <3>1. Types'
            BY <1>1, <2>1, RetriesAssumption DEF RangeNotSatisfiable, files, CanRetry, Inv, Types
        <3> QED BY <1>1, <2>1, <3>1 DEF RangeNotSatisfiable, files, Inv, Resumed, Clean,
                FinalIsWhole
    <2>2. CASE ~CanRetry /\ retained
        BY <1>1, <2>2, ReturnInv DEF RangeNotSatisfiable, files, Inv, Types
    <2>3. CASE ~CanRetry /\ ~retained
        BY <1>1, <2>3 DEF RangeNotSatisfiable, files, locals, Inv, Types, Resumed, Clean,
           FinalIsWhole
    <2> QED BY <2>1, <2>2, <2>3
<1>2. CASE PartialContent
    <2>1. effective = offset /\ effective \in 1..(Size[source] - 1)
        BY <1>0, <1>2 DEF PartialContent, Inv, Types
    <2> QED BY <1>2, <2>1 DEF PartialContent, files, Inv, Types, Resumed, Clean, FinalIsWhole
<1>3. CASE WholeContent
    BY <1>3 DEF WholeContent, files, Inv, Types, Resumed, Clean, FinalIsWhole
<1>4. CASE ServerError
    <2>0. faults' \in 0..MaxFaults
        BY <1>4, FaultTyped DEF ServerError
    <2>1. CASE CanRetry
        <3>1. Types'
            BY <1>4, <2>0, <2>1, RetriesAssumption DEF ServerError, files, CanRetry, Inv, Types
        <3> QED BY <1>4, <2>1, <3>1 DEF ServerError, files, Inv, Resumed, Clean, FinalIsWhole
    <2>2. CASE ~CanRetry
        BY <1>4, <2>0, <2>2, ReturnInv DEF ServerError, files, Inv, Types
    <2> QED BY <2>1, <2>2
<1>5. CASE TransportError
    <2>0. faults' \in 0..MaxFaults
        BY <1>5, FaultTyped DEF TransportError
    <2>1. CASE CanRetry
        <3>1. Types'
            BY <1>5, <2>0, <2>1, RetriesAssumption DEF TransportError, files, CanRetry, Inv, Types
        <3> QED BY <1>5, <2>1, <3>1 DEF TransportError, files, Inv, Resumed, Clean, FinalIsWhole
    <2>2. CASE ~CanRetry
        BY <1>5, <2>0, <2>2, ReturnInv DEF TransportError, files, Inv, Types
    <2> QED BY <2>1, <2>2
<1> QED BY <1>1, <1>2, <1>3, <1>4, <1>5

\* The body is read into memory.
LEMMA BodyInv == ASSUME Inv, ReadBody \/ BodyRead \/ BodyTooLong PROVE Inv'
<1>1. CASE ReadBody
    BY <1>1 DEF ReadBody, files, Inv, Types, Resumed, Clean, FinalIsWhole
<1>2. CASE BodyRead
    BY <1>2 DEF BodyRead, files, locals, Inv, Types, Resumed, Clean, FinalIsWhole
<1>3. CASE BodyTooLong
    BY <1>3, ReturnInv DEF BodyTooLong, files, Inv, Types
<1> QED BY <1>1, <1>2, <1>3

\* However much of the body reaches the part file, it is a part of the payload
\* afterwards, if it was one before: a 206 continues where the file ends, and
\* a 200 replaces it.
LEMMA WrittenPart ==
    ASSUME Inv, pc = "write", NEW n \in 0..Len(Body)
    PROVE  Written(n) \in Seq(Block) /\ (~switched => IsPart(Written(n), source))
<1>0. PICK s \in Sources : s = source
    BY DEF Inv, Types
<1>1. part \in Seq(Block) /\ Len(part) \in Nat /\ Size[s] \in Nat
    BY LenProperties, PayloadSeq DEF Inv, Types
<1>2. CASE append
    <2>1. PICK m \in 1..(Size[s] - 1) : m = effective /\ m = offset /\ Len(part) = m
        BY <1>0, <1>2 DEF Inv, Resumed
    <2>2. Body = SubSeq(Payload(s), m + 1, Size[s])
        BY <1>0, <1>2, <2>1 DEF Body
    <2>3. m \in 0..Size[s] /\ m \in Nat
        BY <1>1
    <2>4. Len(Body) = Size[s] - m
        <3>1. 0 \in 0..(Size[s] - m)
            BY <1>1, <2>3
        <3> QED BY <2>2, <2>3, <3>1, RestOfPayload
    <2>5. n \in 0..(Size[s] - m)
        BY <2>4
    <2>6. Prefix(Body, n) \in Seq(Block)
        BY <2>2, <2>3, <2>5, RestOfPayload
    <2>7. Written(n) = part \o Prefix(Body, n)
        BY <1>2, <2>1, <2>3 DEF Written
    <2>8. Written(n) \in Seq(Block)
        BY <1>1, <2>6, <2>7, ConcatProperties
    <2>9. ASSUME ~switched PROVE IsPart(Written(n), s)
        <3>1. IsPart(part, s)
            BY <1>0, <2>9 DEF Inv, Clean
        <3>2. n \in 0..(Size[s] - Len(part))
            BY <2>1, <2>5
        <3>3. IsPart(part \o Prefix(SubSeq(Payload(s), Len(part) + 1, Size[s]), n), s)
            BY <3>1, <3>2, ExtendPart
        <3> QED BY <2>1, <2>2, <2>7, <3>3
    <2> QED BY <1>0, <2>8, <2>9
<1>3. CASE ~append
    <2>1. Body = Payload(s) /\ Written(n) = Prefix(Body, n)
        BY <1>0, <1>3 DEF Body, Written
    <2>2. n \in 0..Size[s]
        BY <2>1, PayloadSeq
    <2>3. IsPart(Written(n), s)
        BY <2>1, <2>2, PrefixIsPart
    <2> QED BY <1>0, <2>3 DEF IsPart
<1> QED BY <1>2, <1>3

\* The part file is written, whole or torn.
LEMMA WriteInv == ASSUME Inv, WritePart \/ TornWrite PROVE Inv'
<1>0. Len(Body) \in Nat
    <2>1. PICK s \in Sources : s = source
        BY DEF Inv, Types
    <2>2. Size[s] \in Nat
        BY PayloadSeq
    <2>3. CASE append
        <3>1. PICK m \in 1..(Size[s] - 1) : m = effective
            BY <2>1, <2>3 DEF Inv, Resumed, WritePart, TornWrite
        <3>2. m \in 0..Size[s] /\ 0 \in 0..(Size[s] - m)
            BY <2>2
        <3>3. Len(SubSeq(Payload(s), m + 1, Size[s])) = Size[s] - m
            BY <3>2, RestOfPayload
        <3> QED BY <2>1, <2>2, <2>3, <3>1, <3>2, <3>3 DEF Body
    <2>4. CASE ~append
        BY <2>1, <2>2, <2>4, PayloadSeq DEF Body
    <2> QED BY <2>3, <2>4
<1>1. CASE WritePart
    <2>1. PICK n \in 0..Len(Body) : n = Len(Body)
        BY <1>0
    <2>2. part' \in Seq(Block) /\ (~switched => IsPart(part', source))
        BY <1>1, <2>1, WrittenPart DEF WritePart
    <2>3. Types'
        BY <1>1, <2>2 DEF WritePart, locals, Inv, Types
    <2> QED BY <1>1, <2>2, <2>3 DEF WritePart, locals, Inv, Resumed, Clean, FinalIsWhole
<1>2. CASE TornWrite
    <2>1. PICK n \in 0..(Len(Body) - 1) : part' = Written(n)
        BY <1>2 DEF TornWrite
    <2>2. n \in 0..Len(Body)
        BY <1>0
    <2>3. part' \in Seq(Block) /\ (~switched => IsPart(part', source))
        BY <1>2, <2>1, <2>2, WrittenPart DEF TornWrite
    <2>4. faults' \in 0..MaxFaults
        BY <1>2, FaultTyped DEF TornWrite
    <2>5. Types'
        <3>1. 0 \in Nat /\ 0 \in 0..Retries
            BY RetriesAssumption
        <3>2. retained' \in BOOLEAN /\ append' \in BOOLEAN
            BY <1>2 DEF TornWrite, Return
        <3> QED BY <1>2, <2>3, <2>4, <3>1, <3>2 DEF TornWrite, Return, Inv, Types
    <2> QED BY <1>2, <2>3, <2>5 DEF TornWrite, Return, Inv, Resumed, Clean, FinalIsWhole
<1> QED BY <1>1, <1>2

\* .progress is written, whole or torn.
LEMMA ProgressInv == ASSUME Inv, SaveProgress \/ TornProgress PROVE Inv'
<1>1. CASE SaveProgress
    <2>1. progress' \in Nat
        BY <1>1, LenProperties DEF SaveProgress, Inv, Types
    <2> QED BY <1>1, <2>1 DEF SaveProgress, locals, Inv, Types, Resumed, Clean, FinalIsWhole
<1>2. CASE TornProgress
    <2>1. progress' \in Nat \cup {NoProgress}
        BY <1>2, LenProperties DEF TornProgress, Inv, Types
    <2> QED BY <1>2, <2>1, FaultTyped, ReturnInv DEF TornProgress
<1> QED BY <1>1, <1>2

\* The hash check and the rename.
LEMMA VerifyInv == ASSUME Inv, Verify PROVE Inv'
<1>1. CASE part = Payload(source)
    <2>1. <<>> \in Seq(Block) /\ Len(<<>>) = 0
        BY EmptySeq
    <2>2. final' = part /\ part' = <<>> /\ pc' = "cleanup"
          /\ UNCHANGED <<progress, source, locals, faults, switched>>
        BY <1>1 DEF Verify
    <2>3. Types'
        BY <2>1, <2>2 DEF locals, Inv, Types
    <2>4. IsPart(part', source)
        BY <2>1, <2>2, PayloadSeq DEF IsPart, Inv, Types
    <2>5. FinalIsWhole'
        BY <1>1, <2>2 DEF FinalIsWhole, Inv, Types
    <2> QED BY <2>2, <2>3, <2>4, <2>5 DEF Inv, Resumed, Clean
<1>2. CASE part # Payload(source)
    BY <1>2, ReturnInv DEF Verify, files, Inv, Types
<1> QED BY <1>1, <1>2

\* A download is abandoned or ends, and the app is pointed at another source.
LEMMA OtherInv ==
    ASSUME Inv,
           PanicCaught \/ Refused \/ BodyBreaks \/ Cleanup \/ Crash \/ SwitchSource
    PROVE  Inv'
<1>1. CASE PanicCaught
    BY <1>1, ReturnInv DEF PanicCaught, files, Inv, Types
<1>2. CASE Refused \/ BodyBreaks \/ Crash
    BY <1>2, FaultTyped, ReturnInv DEF Refused, BodyBreaks, Crash, files, Inv, Types
<1>3. CASE Cleanup
    BY <1>3, ReturnInv DEF Cleanup, Inv, Types
<1>4. CASE SwitchSource
    BY <1>4, FaultTyped DEF SwitchSource, files, locals, Inv, Types, Resumed, Clean,
       FinalIsWhole
<1> QED BY <1>1, <1>2, <1>3, <1>4

\* Every step keeps the invariant.
LEMMA NextInv == Inv /\ [Next]_vars => Inv'
<1> SUFFICES ASSUME Inv, [Next]_vars PROVE Inv'
    OBVIOUS
<1>1. CASE UNCHANGED vars
    BY <1>1 DEF vars, Inv, Types, Resumed, Clean, FinalIsWhole
<1>2. CASE Next
    BY <1>2, BeginInv, RequestInv, BodyInv, WriteInv, ProgressInv, VerifyInv, OtherInv
       DEF Next, Progress, Failure
<1> QED BY <1>1, <1>2

\* The invariant holds in every state of a download.
LEMMA Invariance == Spec => []Inv
BY InitInv, NextInv, PTL DEF Spec

-----------------------------------------------------------------------------
(* The theorems                                                             *)

\* The download's variables keep their types; it makes at most Retries + 1
\* attempts and asks for no other offset than the one it resumed from or 0.
THEOREM DownloadTyped == Spec => []TypeOK
<1>1. Inv => TypeOK
    BY DEF Inv, Types, TypeOK, Block
<1> QED BY <1>1, Invariance, PTL

\* The part file is a prefix of the payload, after any number of torn writes,
\* lost or torn .progress files, crashes, 416s and servers that ignore the
\* range, as long as the patch number stands for the same payload.
THEOREM PartStaysPrefix == Spec => []PartIsPrefix
<1>1. Inv => PartIsPrefix
    <2> SUFFICES ASSUME Inv, ~switched
                 PROVE  \E n \in 0..Size[source] : part = Prefix(Payload(source), n)
        BY DEF PartIsPrefix
    <2>1. PICK s \in Sources : s = source
        BY DEF Inv, Types
    <2>2. IsPart(part, s)
        BY <2>1 DEF Inv, Clean
    <2>3. Len(part) \in 0..Size[s] /\ part = Prefix(Payload(s), Len(part))
        BY <2>2, PartIsAPrefix
    <2> QED BY <2>1, <2>3
<1> QED BY <1>1, Invariance, PTL

\* payload.bin is missing or a whole payload, even after a change of source.
THEOREM FinalStaysWhole == Spec => []FinalIsWhole
<1>1. Inv => FinalIsWhole
    BY DEF Inv
<1> QED BY <1>1, Invariance, PTL
=============================================================================
