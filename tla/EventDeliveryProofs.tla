------------------------- MODULE EventDeliveryProofs -------------------------
(***************************************************************************)
(* EventDelivery implements EventLog, for every cap, every number of        *)
(* retries and every number of events.                                      *)
(***************************************************************************)
EXTENDS EventDelivery, TLAPS

USE DeliveryAssumption

\* Appending keeps the newest MaxLog entries and only knows numbers up to the
\* new one (append_rollback_event).
LEMMA AppendedType ==
    ASSUME last \in Nat, log \in Seq(1..last), Len(log) <= MaxLog
    PROVE  Promise!Appended \in Seq(1..(last + 1)) /\ Len(Promise!Appended) <= MaxLog
           /\ Len(Promise!Appended) >= 1
  <1> DEFINE s == Append(log, last + 1)
  <1>1. s \in Seq(1..(last + 1)) /\ Len(s) = Len(log) + 1
    OBVIOUS
  <1>2. CASE Len(s) > MaxLog
    <2>1. Promise!Appended = SubSeq(s, Len(s) - MaxLog + 1, Len(s))
      BY <1>2 DEF Promise!Appended, Promise!Newest
    <2> QED
      BY <1>1, <1>2, <2>1
  <1>3. CASE ~(Len(s) > MaxLog)
    <2>1. Promise!Appended = s
      BY <1>3 DEF Promise!Appended, Promise!Newest
    <2> QED
      BY <1>1, <1>3, <2>1
  <1> QED
    BY <1>2, <1>3

\* What persist_runtime_config leaves behind is a file of the model.
LEMMA PersistType ==
    ASSUME NEW c \in Config, file \in File, Persist(c)
    PROVE  file' \in File
  <1>1. CASE file' = [state |-> "ok", cfg |-> c]
    BY <1>1 DEF File
  <1>2. CASE file' \in {file, Torn}
    <2>1. Unset \in Config
      BY DEF Unset, Config
    <2>2. Torn \in File
      BY <2>1 DEF Torn, File
    <2> QED
      BY <1>2, <2>2
  <1> QED
    BY <1>1, <1>2 DEF Persist

\* The inductive invariant: types, and that what a flush has behind it is
\* stored.
DeliveryInv == TypeOK /\ ClearIsCovered

\* The log is empty and no call runs.
LEMMA InitInv == Init => DeliveryInv
  BY DEF Init, DeliveryInv, TypeOK, ClearIsCovered, Unset, NoFile, Config, File

\* One step per action; only the ones that move pc into or along a flush, or
\* change the log, say more than that the parts they leave alone stay.
LEMMA StepInv == DeliveryInv /\ [Next]_vars => DeliveryInv'
  <1> SUFFICES ASSUME TypeOK, ClearIsCovered, [Next]_vars
               PROVE  TypeOK' /\ ClearIsCovered'
    BY DEF DeliveryInv
  <1> USE DEF TypeOK
  <1>1. CASE Start
    BY <1>1 DEF Start, ClearIsCovered
  <1>2. CASE Crash \/ Exit
    <2>1. Ends
      BY <1>2 DEF Crash, Exit
    <2> QED
      BY <2>1 DEF Ends, ClearIsCovered, Unset, Config
  <1>3. CASE FcbInit
    <2>1. cfg' \in Config
      BY <1>3 DEF FcbInit, Config
    <2>2. file' \in File
      BY <1>3, <2>1, PersistType DEF FcbInit
    <2> QED
      BY <1>3, <2>1, <2>2 DEF FcbInit, ClearIsCovered
  <1>4. CASE SetServerUrl
    <2>1. cfg' \in Config
      BY <1>4 DEF SetServerUrl, Config
    <2>2. file' \in File
      BY <1>4, <2>1, PersistType DEF SetServerUrl
    <2> QED
      BY <1>4, <2>1, <2>2 DEF SetServerUrl, ClearIsCovered
  <1>5. CASE LogReset
    <2>1. log' \in Seq(1..last') /\ Len(log') <= MaxLog /\ last' \in 0..MaxEvents
      BY <1>5, AppendedType DEF LogReset, LogEvent
    <2> QED
      BY <1>5, <2>1 DEF LogReset, LogEvent, ClearIsCovered
  <1>6. CASE Launch
    <2>1. log' \in Seq(1..last') /\ Len(log') <= MaxLog /\ last' \in 0..MaxEvents
          /\ last' >= last
      BY <1>6, AppendedType DEF Launch, LogEvent
    <2>2. log' # <<>> => 1 \in 1..Len(log')
      BY <2>1
    <2> QED
      BY <1>6, <2>1, <2>2 DEF Launch, ClearIsCovered
  <1>7. CASE LaunchFails
    BY <1>7 DEF LaunchFails, ClearIsCovered
  <1>8. CASE Drain
    <2>1. \A i \in 1..Len(log) : log[i] \in 1..last
      OBVIOUS
    <2> QED
      BY <1>8, <2>1 DEF Drain, ClearIsCovered
  <1>9. CASE Clear
    <2>1. log' \in Seq(1..last) /\ Len(log') <= MaxLog
      <3>1. CASE log' = <<>>
        <4>1. Len(<<>>) = 0 /\ <<>> \in Seq(1..last)
          OBVIOUS
        <4> QED
          BY <3>1, <4>1
      <3>2. CASE log' = log
        BY <3>2
      <3> QED
        BY <1>9, <3>1, <3>2 DEF Clear
    <2>2. pc' = "idle" /\ UNCHANGED <<cfg, file, last, rows, taken, at, attempt, calm>>
      BY <1>9 DEF Clear
    <2> QED
      BY <2>1, <2>2 DEF ClearIsCovered
  <1>10. CASE Report
    <2>1. Hydrated \in Config
      BY Zenon DEF Hydrated, Config, File
    <2> QED
      BY <1>10, <2>1 DEF Report, ClearIsCovered
  <1>11. CASE Confirm
    BY <1>11 DEF Confirm, ClearIsCovered
  <1>12. CASE Stored
    <2>1. InFlight \subseteq 1..last
      BY DEF InFlight, ClearIsCovered
    <2>2. TypeOK'
      BY <1>12, <2>1 DEF Stored, Posted, Posting, ClearIsCovered
    <2>3. ClearIsCovered'
      BY <1>12 DEF Stored, Posted, Posting, InFlight, ClearIsCovered
    <2> QED
      BY <2>2, <2>3
  <1>13. CASE StoredUnheard
    <2>1. InFlight \subseteq 1..last
      BY DEF InFlight, ClearIsCovered
    <2> QED
      BY <1>13, <2>1 DEF StoredUnheard, TryAgain, Posting, ClearIsCovered
  <1>14. CASE Lost
    BY <1>14 DEF Lost, TryAgain, Posting, ClearIsCovered
  <1>15. CASE Refused
    BY <1>15 DEF Refused, ClearIsCovered
  <1>16. CASE Settle
    BY <1>16 DEF Settle, ClearIsCovered
  <1>17. CASE UNCHANGED vars
    BY <1>17 DEF vars, ClearIsCovered
  <1> QED
    BY <1>1, <1>2, <1>3, <1>4, <1>5, <1>6, <1>7, <1>8, <1>9, <1>10, <1>11,
       <1>12, <1>13, <1>14, <1>15, <1>16, <1>17 DEF Next

\* The state stays within its types: in particular the log within its cap.
THEOREM DeliveryTypes == Spec => []TypeOK
  <1>1. Spec => []DeliveryInv
    BY InitInv, StepInv, PTL DEF Spec
  <1>2. DeliveryInv => TypeOK
    BY DEF DeliveryInv
  <1> QED
    BY <1>1, <1>2, PTL

\* events.log is only cleared when the server or the app has all of it.
THEOREM DeliveryCovered == Spec => []ClearIsCovered
  <1>1. Spec => []DeliveryInv
    BY InitInv, StepInv, PTL DEF Spec
  <1>2. DeliveryInv => ClearIsCovered
    BY DEF DeliveryInv
  <1> QED
    BY <1>1, <1>2, PTL

\* Every step of the device, the network and the server is a step of the
\* promise or leaves log, rows and taken as they were.
LEMMA StepPromise ==
    DeliveryInv /\ [Next]_vars => [Promise!Next]_(Promise!logVars)
  <1> SUFFICES ASSUME TypeOK, ClearIsCovered, [Next]_vars
               PROVE  [Promise!Next]_(Promise!logVars)
    BY DEF DeliveryInv
  <1> USE DEF Promise!logVars
  <1>1. CASE Start \/ Crash \/ Exit \/ FcbInit \/ SetServerUrl \/ LaunchFails
             \/ Report \/ Confirm \/ Lost \/ Refused \/ Settle
    BY <1>1 DEF Start, Crash, Exit, Ends, FcbInit, SetServerUrl, LaunchFails,
       Report, Confirm, Lost, Refused, Settle
  <1>2. CASE LogReset
    BY <1>2 DEF LogReset, LogEvent, Promise!Next, Promise!Log
  <1>3. CASE Launch
    BY <1>3 DEF Launch, LogEvent, Promise!Next, Promise!Log
  <1>4. CASE Drain
    BY <1>4 DEF Drain, Promise!Next, Promise!HandOver
  <1>5. CASE Clear
    BY <1>5 DEF Clear, ClearIsCovered, Promise!Next, Promise!Empty
  <1>6. ASSUME rows' = rows \cup InFlight, UNCHANGED <<log, last, taken>>
        PROVE  Promise!Store \/ UNCHANGED Promise!logVars
    <2>1. CASE pc = "flush"
      BY <1>6, <2>1 DEF InFlight, ClearIsCovered, Promise!Store
    <2>2. CASE pc # "flush"
      BY <1>6, <2>2 DEF InFlight
    <2> QED
      BY <2>1, <2>2
  <1>7. CASE Stored \/ StoredUnheard
    BY <1>6, <1>7 DEF Stored, StoredUnheard, Promise!Next
  <1>8. CASE UNCHANGED vars
    BY <1>8 DEF vars
  <1> QED
    BY <1>1, <1>2, <1>3, <1>4, <1>5, <1>7, <1>8 DEF Next

\* The delivery of rollback events implements EventLog: no event is lost
\* between the device's log and the server, and none overtakes another.
THEOREM DeliveryKeepsPromise == Spec => KeepsPromise
  <1>1. Init => Promise!Init
    BY DEF Init, Promise!Init
  <1>2. Spec => []DeliveryInv
    BY InitInv, StepInv, PTL DEF Spec
  <1> QED
    BY <1>1, <1>2, StepPromise, PTL DEF Spec, KeepsPromise, Promise!Spec
=============================================================================
