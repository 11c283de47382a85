------------------------------ MODULE EventLog ------------------------------
(***************************************************************************)
(* What events.log promises: an event stays in the log until the server has *)
(* stored it, the app has taken it over, or MaxLog newer ones have pushed   *)
(* it out, and the server gets to know the events in the order in which     *)
(* they were logged.  EventDelivery implements this.                        *)
(***************************************************************************)
EXTENDS Naturals, Sequences

CONSTANT MaxLog          \* MAX_ROLLBACK_EVENTS

VARIABLES log,           \* events.log, oldest first
          last,          \* events are numbered; the number of the newest one
          received,      \* the events the server has stored at least once
          handed         \* the events the app has taken over

logVars == <<log, last, received, handed>>

\* The MaxLog newest entries of s.
Newest(s) == IF Len(s) > MaxLog
             THEN SubSeq(s, Len(s) - MaxLog + 1, Len(s)) ELSE s

Appended == Newest(Append(log, last + 1))

Init == log = <<>> /\ last = 0 /\ received = {} /\ handed = {}

Log ==
    /\ log' = Appended
    /\ last' = last + 1
    /\ UNCHANGED <<received, handed>>

\* Everything logged before the event is stored already.
Store ==
    /\ \E i \in 1..Len(log) :
          /\ \A j \in 1..(i - 1) : log[j] \in received
          /\ received' = received \cup {log[i]}
    /\ UNCHANGED <<log, last, handed>>

HandOver ==
    /\ handed' = handed \cup {log[i] : i \in 1..Len(log)}
    /\ UNCHANGED <<log, last, received>>

\* The log is emptied when nobody needs it any more.
Empty ==
    /\ \/ \A i \in 1..Len(log) : log[i] \in received
       \/ \A i \in 1..Len(log) : log[i] \in handed
    /\ log' = <<>>
    /\ UNCHANGED <<last, received, handed>>

Next == Log \/ Store \/ HandOver \/ Empty
Spec == Init /\ [][Next]_logVars
=============================================================================
