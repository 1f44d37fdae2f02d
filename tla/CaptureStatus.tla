----------------------------- MODULE CaptureStatus -----------------------------
(***************************************************************************)
(* The capture status observer (src/ueye_handle.cpp, _SPAWN_capture_-      *)
(* status_observer) and the error statistics it keeps (captureErrors in    *)
(* include/wrapper_types.h).                                               *)
(*                                                                         *)
(* The driver counts errors by code and signals an auto-reset event; the   *)
(* observer queries all counters, and for every code whose counter is not  *)
(* zero adds a time stamp to the statistics and calls the application's    *)
(* callback. Nothing ever resets the counters.                             *)
(***************************************************************************)
EXTENDS Naturals

CONSTANTS
  N,          \* number of entries of errorMapper, in the order of their codes
  StatOf,     \* the captureError object each entry refers to; some are aliases
  Throws,     \* the codes for which the application's callback may throw
  MayFail,    \* the other calls that may fail
  MaxErrors   \* bound on the errors of the driver

Codes == 1 .. N

ASSUME StatusAssumption ==
  /\ N \in Nat \ {0}
  /\ StatOf \in [Codes -> Codes]
  /\ Throws \subseteq Codes
  /\ MaxErrors \in Nat

VARIABLES
  \* the driver
  cnt,            \* adwCapStatusCnt_Detail: number of errors of each code so far
  errors,         \* number of errors of all codes
  statusEvent,    \* IS_SET_EVENT_CAPTURE_STATUS: reset by the wait that reports it
  terminateEvent, \* IS_SET_EVENT_TERMINATE_HANDLE_THREADS: reset by hand
  \* the observer
  obs,            \* its next step
  info,           \* CaptureStatusInfo, the counters it has queried
  next,           \* the entry of errorMapper that update() looks at next
  stamps,         \* number of time stamps of each captureError
  \* history
  told,           \* the counter of each code when it was last reported
  reach           \* the last code looked at for the latest event

driverVars == <<cnt, errors, statusEvent, terminateEvent>>
vars == <<driverVars, obs, info, next, stamps, told, reach>>

TypeOK ==
  /\ cnt \in [Codes -> Nat] /\ errors \in 0 .. MaxErrors
  /\ statusEvent \in BOOLEAN /\ terminateEvent \in BOOLEAN
  /\ obs \in {"wait", "query", "update", "callback", "done", "terminated"}
  /\ info \in [Codes -> Nat]
  /\ next \in 1 .. N + 1
  /\ stamps \in [Codes -> Nat]
  /\ told \in [Codes -> Nat]
  /\ reach \in 0 .. N

\* The status event is initialised as signalled.
Init ==
  /\ cnt = [c \in Codes |-> 0] /\ errors = 0
  /\ statusEvent = TRUE /\ terminateEvent = FALSE
  /\ obs = "wait"
  /\ info = [c \in Codes |-> 0] /\ next = 1
  /\ stamps = [c \in Codes |-> 0]
  /\ told = [c \in Codes |-> 0] /\ reach = N

-------------------------------------------------------------------------------
(* Mutated forms of definitions below. *)

MutAfterWait == "update"                              \* counters queried one event ago
MutAfterThrow == "done"                               \* an exception ends the observer

-------------------------------------------------------------------------------
(* The driver and the application. *)

RaiseError(c) ==
  /\ errors < MaxErrors
  /\ errors' = errors + 1
  /\ cnt' = [cnt EXCEPT ![c] = @ + 1]
  /\ statusEvent' = TRUE
  /\ UNCHANGED <<terminateEvent, obs, info, next, stamps, told, reach>>

\* The destructor of the camera handle: _stop_threads.
SignalTerminate ==
  /\ ~terminateEvent
  /\ terminateEvent' = TRUE
  /\ UNCHANGED <<cnt, errors, statusEvent, obs, info, next, stamps, told, reach>>

-------------------------------------------------------------------------------
(* The observer. *)

AfterWait == "query"

WaitStatus ==
  /\ obs = "wait"
  /\ statusEvent
  /\ statusEvent' = FALSE
  /\ obs' = AfterWait
  /\ next' = 1
  /\ UNCHANGED <<cnt, errors, terminateEvent, info, stamps, told, reach>>

WaitTerminate ==
  /\ obs = "wait"
  /\ terminateEvent
  /\ obs' = "done"
  /\ UNCHANGED <<driverVars, info, next, stamps, told, reach>>

\* The wait itself fails: nSignaled keeps its value and the observer waits again.
WaitFails ==
  /\ obs = "wait"
  /\ "IS_EVENT_CMD_WAIT" \in MayFail
  /\ UNCHANGED vars

QueryStatus ==
  /\ obs = "query"
  /\ info' = cnt
  /\ obs' = "update"
  /\ UNCHANGED <<driverVars, next, stamps, told, reach>>

\* is_CaptureStatus fails: logged, nothing is reported for this event.
QueryFails ==
  /\ obs = "query"
  /\ "is_CaptureStatus" \in MayFail
  /\ obs' = "wait"
  /\ reach' = 0
  /\ UNCHANGED <<driverVars, info, next, stamps, told>>

\* update(): the first entry from next on with a counter that is not zero.
First(c) ==
  /\ c >= next /\ info[c] # 0
  /\ \A d \in next .. c - 1 : info[d] = 0

\* What the report of code c tells the application of the counter.
Seen(c) == info[c]

Following(c) == c + 1

\* add() and the call of the callback.
Report(c) ==
  /\ obs = "update"
  /\ First(c)
  /\ stamps' = [stamps EXCEPT ![StatOf[c]] = @ + 1]
  /\ told' = [told EXCEPT ![c] = Seen(c)]
  /\ next' = Following(c)
  /\ obs' = "callback"
  /\ UNCHANGED <<driverVars, info, reach>>

CallbackReturns ==
  /\ obs = "callback"
  /\ obs' = "update"
  /\ UNCHANGED <<driverVars, info, next, stamps, told, reach>>

\* A std::exception of the callback ends the loop of update() and is logged.
AfterThrow == "wait"

CallbackThrows ==
  /\ obs = "callback"
  /\ next - 1 \in Throws
  /\ obs' = AfterThrow
  /\ reach' = next - 1
  /\ UNCHANGED <<driverVars, info, next, stamps, told>>

\* Anything else thrown by the callback leaves the thread: std::terminate.
CallbackThrowsOther ==
  /\ obs = "callback"
  /\ "captureErrorCallback" \in MayFail
  /\ obs' = "terminated"
  /\ UNCHANGED <<driverVars, info, next, stamps, told, reach>>

UpdateDone ==
  /\ obs = "update"
  /\ \A c \in next .. N : info[c] = 0
  /\ obs' = "wait"
  /\ reach' = N
  /\ UNCHANGED <<driverVars, info, next, stamps, told>>

\* No event comes any more, or the thread has ended.
Quiet ==
  /\ obs \in {"done", "terminated"} \/ (obs = "wait" /\ ~statusEvent /\ ~terminateEvent)
  /\ UNCHANGED vars

Observer ==
  \/ WaitStatus \/ WaitTerminate \/ WaitFails \/ QueryStatus \/ QueryFails \/ UpdateDone
  \/ \E c \in Codes : Report(c)
  \/ CallbackReturns \/ CallbackThrows \/ CallbackThrowsOther

Next == (\E c \in Codes : RaiseError(c)) \/ SignalTerminate \/ Observer \/ Quiet

Spec == Init /\ [][Next]_vars

\* The observer's thread is scheduled and the callback returns or throws.
FairSpec == Spec /\ WF_vars(Observer)

-------------------------------------------------------------------------------
(* Properties. *)

\* When the observer waits and no event is pending, every error so far has been
\* reported, although errors may come between the event, the query and the
\* callbacks, and one event may stand for many. What a failed query or a throwing
\* callback has cut off for the latest event is not claimed; what earlier ones
\* cut off is made up for.
NoErrorMissed ==
  obs = "wait" /\ ~statusEvent => \A c \in 1 .. reach : told[c] = cnt[c]

\* Each error is reported in the end, unless the observer is told to end or has been
\* terminated, or the latest event was cut off before its code, by a failed query or
\* by a callback that threw for a smaller one: then it waits for the next event.
EveryErrorReported ==
  \A c \in Codes :
    told[c] < cnt[c] ~>
      \/ told[c] = cnt[c]
      \/ terminateEvent \/ obs = "terminated"
      \/ obs = "wait" /\ reach < c

-------------------------------------------------------------------------------
(* The inductive invariant: why NoErrorMissed holds. *)

\* No report is ahead of the driver; the queried counters are between the two.
CountersOrdered ==
  /\ \A c \in Codes : told[c] <= cnt[c]
  /\ obs \in {"update", "callback"} =>
       \A c \in Codes : told[c] <= info[c] /\ info[c] <= cnt[c]

\* An error since the query has left the event signalled.
QueriedFresh ==
  obs \in {"update", "callback"} /\ ~statusEvent => info = cnt

\* The entries passed have been reported as queried.
PassedTold ==
  obs \in {"update", "callback"} =>
    \A c \in Codes : c < next => told[c] = info[c]

StatusInv == TypeOK /\ CountersOrdered /\ QueriedFresh /\ PassedTold /\ NoErrorMissed
================================================================================
