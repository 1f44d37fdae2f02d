-------------------------------- MODULE ApiCall --------------------------------
(***************************************************************************)
(* UEYE_API_CALL: the wrapper around the calls of the driver, which turns  *)
(* an error code into an exception (include/wrapper_helpers.h, and the     *)
(* same in uEyeHandle, imageMemoryManager and uEyeCaptureHandle). The      *)
(* threads of one camera - application, dispatcher, observer, pool - make  *)
(* their calls at the same time, and the driver keeps one last error for   *)
(* the camera. The names of the specification begin with Call, because     *)
(* ThreadProofs is about three modules at once.                            *)
(***************************************************************************)
EXTENDS Naturals

CONSTANTS
  Threads,        \* the threads that call the driver of one camera
  MaxFailed       \* bound on the number of calls that fail

ASSUME ApiCallAssumption == MaxFailed \in Nat

\* What a call was given: a message for the caller's log, and a cleanup handler,
\* which releases what the caller acquired for the call.
Messages == {"supplied", "none"}
ErrorCodes == {"IS_NO_SUCCESS", "other"}

\* The text of a message: none, the caller's, or that of the n-th error of the camera.
Empty == 0
NoText == [from |-> "none", error |-> Empty]
Supplied == [from |-> "caller", error |-> Empty]
TextOf(n) == [from |-> "driver", error |-> n]

VARIABLES
  failed,      \* the number of the driver's last error
  stage,       \* the next step of each thread
  own,         \* the error of the thread's call
  msg,         \* _msg
  asked,       \* the error that is_GetError was asked about
  resource,    \* what the handler releases: "none", "held", "released", "released_twice"
  overtaken    \* history: another call failed since the thread's did

callVars == <<failed, stage, own, msg, asked, resource, overtaken>>

Texts == {NoText, Supplied} \cup {TextOf(n) : n \in 0 .. MaxFailed}

CallTypeOK ==
  /\ failed \in 0 .. MaxFailed
  /\ stage \in [Threads -> {"running", "ask", "copy", "cleanup", "caught"}]
  /\ own \in [Threads -> 0 .. MaxFailed] /\ asked \in [Threads -> 0 .. MaxFailed]
  /\ msg \in [Threads -> Texts]
  /\ resource \in [Threads -> {"none", "held", "released"}]
  /\ overtaken \in [Threads -> BOOLEAN]

CallInit ==
  /\ failed = 0
  /\ stage = [t \in Threads |-> "running"]
  /\ own = [t \in Threads |-> 0] /\ asked = [t \in Threads |-> 0]
  /\ msg = [t \in Threads |-> NoText]
  /\ resource = [t \in Threads |-> "none"]
  /\ overtaken = [t \in Threads |-> FALSE]

-------------------------------------------------------------------------------
(* Mutated forms of definitions below. *)

MutWithoutText == "copy"                           \* is_GetError's result is ignored

-------------------------------------------------------------------------------

\* The API is asked for a message only if there is none and the code says nothing.
AfterError(m, code) ==
  IF m = "none" /\ code = "IS_NO_SUCCESS" THEN "ask" ELSE "cleanup"

\* std::apply(f, f_args) returns IS_SUCCESS, and so does the wrapper.
Succeeds(t) == stage[t] = "running" /\ UNCHANGED callVars

\* std::apply(f, f_args) returns an error, which becomes the camera's last one.
Fails(t, m, code, handler) ==
  /\ stage[t] = "running" /\ failed < MaxFailed
  /\ failed' = failed + 1
  /\ own' = [own EXCEPT ![t] = failed + 1]
  /\ msg' = [msg EXCEPT ![t] = IF m = "supplied" THEN Supplied ELSE NoText]
  /\ resource' = [resource EXCEPT ![t] = IF handler THEN "held" ELSE "none"]
  /\ overtaken' = [u \in Threads |-> u # t]
  /\ stage' = [stage EXCEPT ![t] = AfterError(m, code)]
  /\ UNCHANGED asked

\* The driver keeps one last error for the camera, whichever thread's call it was.
LastError == failed

\* There is no text if is_GetError fails: the pointer is not looked at.
WithoutText == "cleanup"

\* is_GetError, which may fail in its turn.
GetError(t) ==
  /\ stage[t] = "ask"
  /\ \/ /\ asked' = [asked EXCEPT ![t] = LastError]
        /\ stage' = [stage EXCEPT ![t] = "copy"]
     \/ /\ UNCHANGED asked
        /\ stage' = [stage EXCEPT ![t] = WithoutText]
  /\ UNCHANGED <<failed, own, msg, resource, overtaken>>

\* The string is made from a pointer of the driver's: to the text of the error, or to
\* a buffer that has the text of the last error by now.
CopyText(t) ==
  /\ stage[t] = "copy"
  /\ \E n \in {asked[t], failed} : msg' = [msg EXCEPT ![t] = TextOf(n)]
  /\ stage' = [stage EXCEPT ![t] = "cleanup"]
  /\ UNCHANGED <<failed, own, asked, resource, overtaken>>

Released(r) == IF r = "held" THEN "released" ELSE r

\* The handler, if there is one, and the exception, which the caller catches.
CleanupAndThrow(t) ==
  /\ stage[t] = "cleanup"
  /\ resource' = [resource EXCEPT ![t] = Released(@)]
  /\ stage' = [stage EXCEPT ![t] = "caught"]
  /\ UNCHANGED <<failed, own, msg, asked, overtaken>>

\* The caller has logged the exception and goes on.
GoesOn(t) ==
  /\ stage[t] = "caught"
  /\ stage' = [stage EXCEPT ![t] = "running"]
  /\ UNCHANGED <<failed, own, msg, asked, resource, overtaken>>

CallNext ==
  \E t \in Threads :
    \/ Succeeds(t)
    \/ \E m \in Messages, code \in ErrorCodes, handler \in BOOLEAN : Fails(t, m, code, handler)
    \/ GetError(t) \/ CopyText(t) \/ CleanupAndThrow(t) \/ GoesOn(t)

CallSpec == CallInit /\ [][CallNext]_callVars

-------------------------------------------------------------------------------
(* Properties. *)

\* Error n is the one of the thread's call or, if a call of another thread has failed
\* in between, one that is newer.
OwnOrNewer(t, n) ==
  /\ own[t] <= n
  /\ own[t] # n => overtaken[t]

\* An exception never carries the text of an error that is older than its call: it
\* is the call's own, unless a call of another thread has failed in between, whose
\* text it may carry instead.
TextIsOwnOrNewer ==
  \A t \in Threads :
    stage[t] = "caught" /\ msg[t].from = "driver" => OwnOrNewer(t, msg[t].error)

\* The types, and the text.
ApiInv == CallTypeOK /\ TextIsOwnOrNewer

\* The inductive invariant: so it is with the driver's last error while a call that
\* failed is being handled, with the error that is asked about and with the text;
\* the driver is asked only for want of one.
HandledErrors ==
  \A t \in Threads :
    /\ stage[t] # "running" => OwnOrNewer(t, failed)
    /\ stage[t] = "ask" => msg[t] = NoText
    /\ stage[t] = "copy" => OwnOrNewer(t, asked[t])
    /\ stage[t] = "cleanup" /\ msg[t].from = "driver" => OwnOrNewer(t, msg[t].error)

CallInv == ApiInv /\ HandledErrors
================================================================================
