------------------------------ MODULE ThreadProofs -----------------------------
(***************************************************************************)
(* Proofs about what runs on threads beside the camera handle: the         *)
(* observer of CaptureStatus, which misses no error whatever the driver    *)
(* counts, the handler of UploadProgress, which shows an upload as it is,  *)
(* and the calls of ApiCall, whose exceptions are about their own error.   *)
(* The three specifications share no variable and no constant; each        *)
(* theorem is about one of them.                                           *)
(***************************************************************************)
EXTENDS CaptureStatus, UploadProgress, ApiCall, TLAPS

\* update() starts with the first entry.
StartsAtFirst == obs = "query" => next = 1

SInv == StatusInv /\ StartsAtFirst

-------------------------------------------------------------------------------

LEMMA InitSInv == Init => SInv
<1> SUFFICES ASSUME Init PROVE SInv  OBVIOUS
<1> USE StatusAssumption DEF Init
<1>1. TypeOK
  <2>1. errors \in 0 .. MaxErrors /\ next \in 1 .. N + 1 /\ reach \in 0 .. N  OBVIOUS
  <2> QED  BY <2>1 DEF TypeOK
<1>2. CountersOrdered /\ QueriedFresh /\ PassedTold /\ StartsAtFirst
  BY DEF CountersOrdered, QueriedFresh, PassedTold, StartsAtFirst
<1>3. NoErrorMissed  BY DEF NoErrorMissed, Codes
<1> QED  BY <1>1, <1>2, <1>3 DEF SInv, StatusInv

\* An error leaves the event signalled: nothing is claimed to be fresh or complete.
LEMMA RaiseErrorStep == ASSUME SInv, NEW c \in Codes, RaiseError(c) PROVE SInv'
<1> USE DEF SInv, StatusInv, RaiseError
<1>1. cnt' \in [Codes -> Nat] /\ \A d \in Codes : cnt[d] <= cnt'[d]
  BY DEF TypeOK
<1>2. TypeOK'
  <2>1. errors' \in 0 .. MaxErrors  BY StatusAssumption DEF TypeOK
  <2> QED  BY <1>1, <2>1 DEF TypeOK
<1>3. CountersOrdered'
  BY <1>1 DEF TypeOK, CountersOrdered
<1>4. (QueriedFresh /\ PassedTold /\ NoErrorMissed /\ StartsAtFirst)'
  BY DEF QueriedFresh, PassedTold, NoErrorMissed, StartsAtFirst
<1> QED  BY <1>2, <1>3, <1>4

LEMMA WaitStep == ASSUME SInv, SignalTerminate \/ WaitStatus \/ WaitTerminate PROVE SInv'
<1> USE DEF SignalTerminate, WaitStatus, WaitTerminate, AfterWait, driverVars, SInv, StatusInv
<1>1. TypeOK'
  <2>1. next' \in 1 .. N + 1  BY StatusAssumption DEF TypeOK
  <2> QED  BY <2>1 DEF TypeOK
<1>2. CountersOrdered'             BY DEF CountersOrdered
<1>3. QueriedFresh' /\ PassedTold' BY DEF QueriedFresh, PassedTold
<1>4. NoErrorMissed'               BY DEF NoErrorMissed
<1>5. StartsAtFirst'               BY DEF StartsAtFirst
<1> QED  BY <1>1, <1>2, <1>3, <1>4, <1>5

LEMMA QueryStep == ASSUME SInv, QueryStatus \/ QueryFails PROVE SInv'
<1> USE DEF QueryStatus, QueryFails, driverVars, SInv, StatusInv
<1>1. TypeOK'
  <2>1. reach' \in 0 .. N  BY StatusAssumption DEF TypeOK
  <2> QED  BY <2>1 DEF TypeOK
<1>2. CountersOrdered'  BY DEF CountersOrdered, TypeOK
<1>3. QueriedFresh'     BY DEF QueriedFresh
<1>4. PassedTold'       BY DEF PassedTold, StartsAtFirst, Codes
<1>5. NoErrorMissed'    BY DEF NoErrorMissed
<1>6. StartsAtFirst'    BY DEF StartsAtFirst
<1> QED  BY <1>1, <1>2, <1>3, <1>4, <1>5, <1>6

\* The entries skipped have a counter of zero, of which nothing is to be told.
LEMMA ReportStep == ASSUME SInv, NEW c \in Codes, Report(c) PROVE SInv'
<1> USE StatusAssumption DEF SInv, StatusInv, Report, driverVars
<1>1. /\ told' = [told EXCEPT ![c] = info[c]]
      /\ next' = c + 1 /\ next \in 1 .. N + 1 /\ c \in 1 .. N
      /\ info' = info /\ cnt' = cnt /\ statusEvent' = statusEvent
      /\ obs = "update" /\ obs' = "callback"
  BY DEF Seen, Following, TypeOK, Codes
<1>2. TypeOK'
  <2>1. stamps' \in [Codes -> Nat]
    <3>1. StatOf[c] \in Codes /\ stamps \in [Codes -> Nat]  BY DEF TypeOK
    <3>2. stamps[StatOf[c]] + 1 \in Nat  BY <3>1
    <3> QED  BY <3>1, <3>2
  <2>2. told' \in [Codes -> Nat]    BY <1>1 DEF TypeOK
  <2> QED  BY <1>1, <2>1, <2>2 DEF TypeOK
<1>3. \A d \in Codes : told'[d] = IF d = c THEN info[d] ELSE told[d]
  BY <1>1 DEF TypeOK
<1>4. CountersOrdered'
  BY <1>1, <1>3 DEF TypeOK, CountersOrdered
<1>5. PassedTold'
  <2> SUFFICES ASSUME NEW d \in Codes, d < c + 1  PROVE told'[d] = info[d]
    BY <1>1 DEF PassedTold
  <2>1. CASE d = c     BY <2>1, <1>3
  <2>2. CASE d < next /\ d # c  BY <2>2, <1>1, <1>3 DEF PassedTold
  <2>3. CASE ~(d < next) /\ d # c
    <3>1. d \in next .. c - 1  BY <2>3, <1>1 DEF Codes, TypeOK
    <3>2. info[d] = 0          BY <3>1 DEF First
    <3>3. told[d] <= info[d] /\ told[d] \in Nat
      BY <1>1 DEF CountersOrdered, TypeOK
    <3> QED  BY <3>2, <3>3, <2>3, <1>3
  <2> QED  BY <2>1, <2>2, <2>3
<1>6. (QueriedFresh /\ NoErrorMissed /\ StartsAtFirst)'
  BY <1>1 DEF QueriedFresh, NoErrorMissed, StartsAtFirst
<1> QED  BY <1>2, <1>4, <1>5, <1>6

LEMMA CallbackStep ==
  ASSUME SInv, CallbackReturns \/ CallbackThrows \/ CallbackThrowsOther
  PROVE  SInv'
<1> USE DEF CallbackReturns, CallbackThrows, CallbackThrowsOther, AfterThrow, driverVars, SInv,
            StatusInv
<1>1. TypeOK'
  <2>1. reach' \in 0 .. N
    <3>1. N \in Nat /\ next \in 1 .. N + 1 /\ reach \in 0 .. N  BY StatusAssumption DEF TypeOK
    <3>2. reach' = reach \/ reach' = next - 1  OBVIOUS
    <3> QED  BY <3>1, <3>2
  <2> QED  BY <2>1 DEF TypeOK
<1>2. CountersOrdered'             BY DEF CountersOrdered
<1>3. QueriedFresh' /\ PassedTold' BY DEF QueriedFresh, PassedTold
<1>4. NoErrorMissed'
  BY StatusAssumption DEF NoErrorMissed, QueriedFresh, PassedTold, Codes, TypeOK
<1>5. StartsAtFirst'               BY DEF StartsAtFirst
<1> QED  BY <1>1, <1>2, <1>3, <1>4, <1>5

LEMMA UpdateDoneStep == ASSUME SInv, UpdateDone PROVE SInv'
<1> USE StatusAssumption DEF SInv, StatusInv, UpdateDone, driverVars
<1>1. \A c \in Codes : told[c] = info[c]
  <2> SUFFICES ASSUME NEW c \in Codes  PROVE told[c] = info[c]  OBVIOUS
  <2>1. CASE c < next  BY <2>1 DEF PassedTold
  <2>2. CASE ~(c < next)
    <3>1. c \in next .. N                          BY <2>2 DEF Codes, TypeOK
    <3>2. told[c] <= info[c] /\ told[c] \in Nat    BY DEF CountersOrdered, TypeOK
    <3> QED  BY <3>1, <3>2
  <2> QED  BY <2>1, <2>2
<1>2. NoErrorMissed'
  BY <1>1 DEF NoErrorMissed, QueriedFresh, Codes
<1>3. TypeOK'  BY DEF TypeOK
<1>4. (CountersOrdered /\ QueriedFresh /\ PassedTold /\ StartsAtFirst)'
  BY DEF CountersOrdered, QueriedFresh, PassedTold, StartsAtFirst
<1> QED  BY <1>2, <1>3, <1>4

LEMMA NextSInv == SInv /\ [Next]_vars => SInv'
<1> SUFFICES ASSUME SInv, [Next]_vars PROVE SInv'  OBVIOUS
<1>1. CASE \E c \in Codes : RaiseError(c)                BY <1>1, RaiseErrorStep
<1>2. CASE SignalTerminate \/ WaitStatus \/ WaitTerminate  BY <1>2, WaitStep
<1>3. CASE QueryStatus \/ QueryFails                     BY <1>3, QueryStep
<1>4. CASE \E c \in Codes : Report(c)                    BY <1>4, ReportStep
<1>5. CASE CallbackReturns \/ CallbackThrows \/ CallbackThrowsOther
  BY <1>5, CallbackStep
<1>6. CASE UpdateDone                                    BY <1>6, UpdateDoneStep
<1>7. CASE UNCHANGED vars \/ WaitFails \/ Quiet
  BY <1>7 DEF WaitFails, Quiet, vars, driverVars, SInv, StatusInv, TypeOK, CountersOrdered, QueriedFresh,
              PassedTold, NoErrorMissed, StartsAtFirst
<1> QED  BY <1>1, <1>2, <1>3, <1>4, <1>5, <1>6, <1>7 DEF Next, Observer

-------------------------------------------------------------------------------

\* The counters queried, those told and the driver's are related as StatusInv says,
\* whatever the errors, failed queries and exceptions of the callback.
THEOREM StatusInvariant == Spec => []StatusInv
<1>1. SInv => StatusInv  BY DEF SInv
<1> QED  BY <1>1, InitSInv, NextSInv, PTL DEF Spec

\* When the observer waits with no event pending, every error up to where the
\* latest event was handled has been reported.
THEOREM NothingMissed == Spec => []NoErrorMissed
<1>1. StatusInv => NoErrorMissed  BY DEF StatusInv
<1> QED  BY <1>1, StatusInvariant, PTL

\* The variables have their types.
THEOREM StatusTypeOK == Spec => []TypeOK
<1>1. StatusInv => TypeOK  BY DEF StatusInv
<1> QED  BY <1>1, StatusInvariant, PTL

-------------------------------------------------------------------------------

\* Whatever the application is told of a code only grows: a report never takes back
\* an earlier one.
THEOREM ReportsNeverShrink == Spec => [][\A c \in Codes : told[c] <= told'[c]]_vars
<1>1. ASSUME SInv, [Next]_vars, NEW c \in Codes  PROVE told[c] <= told'[c]
  <2>1. told[c] \in Nat /\ (obs = "update" => told[c] <= info[c])
    BY <1>1 DEF SInv, StatusInv, TypeOK, CountersOrdered
  <2>2. CASE \E d \in Codes : Report(d)
    BY <1>1, <2>1, <2>2 DEF Report, Seen, SInv, StatusInv, TypeOK
  <2>3. CASE UNCHANGED told  BY <2>1, <2>3
  <2>4. (\E d \in Codes : Report(d)) \/ UNCHANGED told
    BY <1>1 DEF Next, Observer, RaiseError, SignalTerminate, WaitStatus, WaitTerminate, WaitFails,
                QueryStatus, QueryFails, CallbackReturns, CallbackThrows, CallbackThrowsOther,
                UpdateDone, Quiet, vars
  <2> QED  BY <2>2, <2>3, <2>4
<1>2. SInv /\ [Next]_vars => [\A c \in Codes : told[c] <= told'[c]]_vars
  BY <1>1
<1> QED  BY <1>2, InitSInv, NextSInv, PTL DEF Spec

-------------------------------------------------------------------------------
(* UploadProgress: the handler of a firmware upload.                             *)

\* The ends of the intervals, as the provers need them: a product grows with the
\* counter, which is at most the time that has passed.
LEMMA Ticks ==
  ASSUME NEW n \in Nat
  PROVE  /\ Interval \in Nat /\ Interval > 0
         /\ n * Interval \in Nat /\ n <= n * Interval
         /\ (n + 1) * Interval = n * Interval + Interval
BY UploadProgressAssumption

LEMMA UploadTypes ==
  ASSUME UploadInv
  PROVE  /\ now \in Nat /\ now <= MaxTime /\ MaxTime \in Nat
         /\ doneAt \in Nat /\ duration \in Nat \ {0}
         /\ progress \in Nat /\ progress * Interval \in Nat /\ progress <= progress * Interval
         /\ NextTick = progress * Interval + Interval
         /\ Interval \in Nat /\ Interval > 0 /\ Latency \in Nat
         /\ Full = MaxTime + Interval + 1
<1>1. progress \in Nat /\ duration \in Durations /\ now \in Nat /\ doneAt \in Nat /\ now <= MaxTime
  BY UploadProgressAssumption DEF UploadInv, ProgressInv, UploadTypeOK
<1> QED  BY <1>1, Ticks, UploadProgressAssumption DEF NextTick, Full

LEMMA UploadInvInit == ASSUME UploadInit PROVE UploadInv
<1>1. /\ duration \in Nat \ {0} /\ Interval \in Nat \ {0} /\ Latency \in Nat
      /\ MaxTime \in Nat /\ 0 * Interval = 0
  BY UploadProgressAssumption DEF UploadInit
<1>2. UploadTypeOK
  BY <1>1 DEF UploadInit, UploadTypeOK
<1>3. /\ BarHonest /\ JoinPrompt
      /\ OnTime /\ StateTold /\ Noticed
  BY <1>1 DEF UploadInit, BarHonest, JoinPrompt, OnTime, StateTold, Noticed, Full
<1> QED  BY <1>2, <1>3 DEF UploadInv, ProgressInv

\* The end of the upload, whenever it comes, is noticed by the end of the interval.
LEMMA UploadedStep ==
  ASSUME UploadInv, Uploaded
  PROVE  UploadInv'
<1> USE DEF UploadInv, ProgressInv
<1>1. /\ UNCHANGED <<now, h, duration, tty, progress, bar>>
      /\ UNCHANGED <<NextTick, TimeLeft, Full>>
      /\ doneAt' = now /\ state' \in {"complete", "failure"} /\ pc' = "join"
  BY DEF Uploaded, NextTick, TimeLeft, Full
<1>2. pc = "upload" /\ state = "running"
  BY DEF Uploaded, StateTold
<1>3. UploadTypeOK' /\ StateTold'
  BY <1>1, <1>2 DEF UploadTypeOK, StateTold
<1>4. BarHonest' /\ JoinPrompt'
  BY <1>1, <1>2, UploadTypes DEF BarHonest, JoinPrompt, OnTime
<1>5. OnTime' /\ Noticed'
  BY <1>1, <1>2, UploadTypes DEF OnTime, Noticed
<1> QED  BY <1>3, <1>4, <1>5

LEMMA UploadStep ==
  ASSUME UploadInv, Spawn \/ Join \/ Tick
  PROVE  UploadInv'
<1> USE UploadTypes DEF UploadInv, ProgressInv, UploadTypeOK, BarHonest, JoinPrompt, OnTime,
                        StateTold, Noticed, TimeLeft, NextTick, Full
<1>1. CASE Spawn
  BY <1>1 DEF Spawn
<1>2. CASE Join
  BY <1>2 DEF Join
<1>3. CASE Tick
  BY <1>3 DEF Tick
<1> QED  BY <1>1, <1>2, <1>3

LEMMA ProgressHandlerStep ==
  ASSUME UploadInv, uploadProgressHandlerBar
  PROVE  UploadInv'
<1> USE UploadTypes DEF UploadInv, ProgressInv, UploadTypeOK, BarHonest, JoinPrompt, OnTime,
                        StateTold, Noticed, TimeLeft, NextTick, Full
<1>1. CASE Loop
  BY <1>1 DEF Loop
<1>2. CASE CheckFailure
  BY <1>2 DEF CheckFailure, AfterFailure
<1>3. CASE CheckComplete
  BY <1>3 DEF CheckComplete
<1>4. CASE SetProgress
  BY <1>4 DEF SetProgress, Shown
<1>5. CASE SleepUntil
  BY <1>5 DEF SleepUntil
<1>6. CASE SetFull
  BY <1>6 DEF SetFull
<1> QED  BY <1>1, <1>2, <1>3, <1>4, <1>5, <1>6 DEF uploadProgressHandlerBar

\* The bar of an upload is honest, and the constructor waits for the handler an
\* interval and one latency at most once the upload has ended, for any interval, any
\* estimate and any latency, one of several intervals included.
THEOREM UploadIsShown == UploadSpec => []ProgressInv
<1>1. UploadInv /\ [UploadNext]_uploadVars => UploadInv'
  <2> SUFFICES ASSUME UploadInv, [UploadNext]_uploadVars PROVE UploadInv'  OBVIOUS
  <2>1. CASE UNCHANGED uploadVars
    BY <2>1 DEF uploadVars, UploadInv, ProgressInv, UploadTypeOK,
                BarHonest, JoinPrompt, OnTime, StateTold,
                Noticed, TimeLeft, NextTick, Full
  <2> QED
    BY <2>1, UploadedStep, UploadStep, ProgressHandlerStep DEF UploadNext, Finished
<1>2. UploadInv => ProgressInv  BY DEF UploadInv
<1> QED  BY <1>1, <1>2, UploadInvInit, PTL DEF UploadSpec

-------------------------------------------------------------------------------
(* ApiCall: the calls of the driver that all of the threads make.                *)

LEMMA TextTypes ==
  /\ NoText \in Texts /\ NoText.from # "driver"
  /\ Supplied \in Texts /\ Supplied.from # "driver"
  /\ \A n \in 0 .. MaxFailed : TextOf(n) \in Texts
  /\ \A n : TextOf(n).from = "driver" /\ TextOf(n).error = n
BY DEF Texts, NoText, Supplied, TextOf

LEMMA CallInvInit == ASSUME CallInit PROVE CallInv
<1>1. CallTypeOK
  BY TextTypes, ApiCallAssumption DEF CallInit, CallTypeOK
<1>2. TextIsOwnOrNewer /\ HandledErrors
  BY DEF CallInit, TextIsOwnOrNewer, HandledErrors
<1> QED  BY <1>1, <1>2 DEF CallInv, ApiInv

\* A call that fails is newer than the errors that other threads handle.
LEMMA FailsStep ==
  ASSUME CallInv,
         NEW t \in Threads, NEW m \in Messages, NEW code \in ErrorCodes, NEW handler \in BOOLEAN,
         Fails(t, m, code, handler)
  PROVE  CallInv'
<1> USE DEF CallInv, ApiInv, Fails
<1>1. CallTypeOK'
  BY TextTypes, ApiCallAssumption DEF CallTypeOK, AfterError
<1>2. msg'[t].from # "driver" /\ own'[t] = failed' /\ stage'[t] # "copy"
  BY TextTypes DEF CallTypeOK, AfterError
<1>3. stage'[t] = "ask" => msg'[t] = NoText
  BY DEF CallTypeOK, AfterError, Messages
<1>4. \A u \in Threads \ {t} : /\ overtaken'[u] /\ own'[u] = own[u] /\ stage'[u] = stage[u]
                               /\ msg'[u] = msg[u] /\ asked'[u] = asked[u]
  BY DEF CallTypeOK
<1>5. failed \in Nat /\ failed' = failed + 1 /\ \A u \in Threads : own[u] \in Nat
  BY DEF CallTypeOK
<1>6. TextIsOwnOrNewer'
  BY <1>2, <1>4, <1>5 DEF TextIsOwnOrNewer, OwnOrNewer
<1>7. HandledErrors'
  BY <1>2, <1>3, <1>4, <1>5 DEF HandledErrors, OwnOrNewer, CallTypeOK
<1> QED  BY <1>1, <1>6, <1>7

LEMMA HandlingStep ==
  ASSUME CallInv, NEW t \in Threads,
         GetError(t) \/ CopyText(t) \/ CleanupAndThrow(t) \/ GoesOn(t)
  PROVE  CallInv'
<1> USE DEF CallInv, ApiInv
<1>1. CASE GetError(t)
  <2>1. CallTypeOK'
    BY <1>1 DEF GetError, LastError, WithoutText, CallTypeOK
  <2>2. TextIsOwnOrNewer' /\ HandledErrors'
    BY <1>1, TextTypes
       DEF GetError, LastError, WithoutText, CallTypeOK, TextIsOwnOrNewer, HandledErrors, OwnOrNewer
  <2> QED  BY <2>1, <2>2
<1>2. CASE CopyText(t)
  <2>1. PICK n \in {asked[t], failed} : msg' = [msg EXCEPT ![t] = TextOf(n)]
    BY <1>2 DEF CopyText
  <2>2. n \in 0 .. MaxFailed /\ OwnOrNewer(t, n)
    BY <1>2, <2>1 DEF CopyText, CallTypeOK, HandledErrors
  <2>3. CallTypeOK'
    BY <1>2, <2>1, <2>2, TextTypes DEF CopyText, CallTypeOK
  <2>4. msg'[t].error = n /\ \A u \in Threads \ {t} : msg'[u] = msg[u]
    BY <2>1, TextTypes DEF CallTypeOK
  <2>5. TextIsOwnOrNewer' /\ HandledErrors'
    BY <1>2, <2>2, <2>4 DEF CopyText, CallTypeOK, TextIsOwnOrNewer,
                            HandledErrors, OwnOrNewer
  <2> QED  BY <2>3, <2>5
<1>3. CASE CleanupAndThrow(t)
  <2>1. CallTypeOK'
    BY <1>3 DEF CleanupAndThrow, Released, CallTypeOK
  <2>2. TextIsOwnOrNewer' /\ HandledErrors'
    BY <1>3 DEF CleanupAndThrow, CallTypeOK, TextIsOwnOrNewer, HandledErrors,
                OwnOrNewer
  <2> QED  BY <2>1, <2>2
<1>4. CASE GoesOn(t)
  BY <1>4 DEF GoesOn, CallTypeOK, TextIsOwnOrNewer, HandledErrors, OwnOrNewer
<1> QED  BY <1>1, <1>2, <1>3, <1>4

\* No exception of any thread carries the text of an error that is older than its
\* call, however many threads call the driver of the camera.
THEOREM ErrorTexts == CallSpec => []ApiInv
<1>1. CallInv /\ [CallNext]_callVars => CallInv'
  <2> SUFFICES ASSUME CallInv, [CallNext]_callVars PROVE CallInv'  OBVIOUS
  <2>1. CASE UNCHANGED callVars
    BY <2>1 DEF callVars, CallInv, ApiInv, CallTypeOK, TextIsOwnOrNewer,
                HandledErrors, OwnOrNewer
  <2> QED  BY <2>1, FailsStep, HandlingStep DEF CallNext, Succeeds
<1>2. CallInv => ApiInv  BY DEF CallInv
<1> QED  BY <1>1, <1>2, CallInvInit, PTL DEF CallSpec
================================================================================
