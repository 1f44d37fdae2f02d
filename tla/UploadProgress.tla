---------------------------- MODULE UploadProgress ----------------------------
(***************************************************************************)
(* uploadProgressHandlerBar, the progress handler of a firmware upload     *)
(* that the wrapper provides, and the part of _open_camera that starts,    *)
(* informs and joins it (src/ueye_handle.cpp). Two threads share the       *)
(* variable state, which is not synchronised: a read returns the old or    *)
(* the new value. CameraHandle has the handler as one that ends some time. *)
(* The names of the specification begin with Upload, because ThreadProofs  *)
(* is about three modules at once.                                         *)
(***************************************************************************)
EXTENDS Naturals

CONSTANTS
  Durations,  \* the upload times that the driver estimates, in units of time
  Interval,   \* update_interval, in units of time
  Latency,    \* how late a sleeping thread may wake up, an interval or more included
  MaxTime     \* bound on the clock

(* The estimate has been raised by a second: it is never 0.                  *)
ASSUME UploadProgressAssumption ==
  /\ Durations \subseteq Nat \ {0}
  /\ Interval \in Nat \ {0}
  /\ Latency \in Nat
  /\ MaxTime \in Nat

VARIABLES
  now,       \* the clock, from t_start on
  \* the constructor's thread
  pc,        \* "spawn", "upload", "join" or "joined"
  state,     \* its variable
  \* the handler's thread
  h,         \* "none", "loop", "failure", "complete", "draw", "sleep", "last" or "ended"
  duration,  \* its parameter
  tty,       \* the standard output is a terminal
  progress,  \* its counter
  bar,       \* what the bar shows, in intervals; Full: 100%
  \* history
  doneAt     \* when the upload ended

uploadVars == <<now, pc, state, h, duration, tty, progress, bar, doneAt>>

Full == MaxTime + Interval + 1

UploadTypeOK ==
  /\ now \in 0 .. MaxTime /\ doneAt \in 0 .. MaxTime
  /\ pc \in {"spawn", "upload", "join", "joined"}
  /\ state \in {"running", "complete", "failure"}
  /\ h \in {"none", "loop", "failure", "complete", "draw", "sleep", "last", "ended"}
  /\ duration \in Durations /\ tty \in BOOLEAN
  /\ progress \in Nat /\ progress * Interval < duration + Interval
  /\ bar \in 0 .. MaxTime \cup {Full}

UploadInit ==
  /\ now = 0 /\ doneAt = 0 /\ pc = "spawn" /\ state = "running"
  /\ h = "none" /\ duration \in Durations /\ tty \in BOOLEAN
  /\ progress = 0 /\ bar = 0

-------------------------------------------------------------------------------
(* Mutated forms of definitions below. *)

MutTimeLeft == TRUE                                    \* waits for the state alone
MutAfterFailure == "loop"                              \* continue instead of return
MutNextTick == (progress + 2) * Interval               \* sleeps an interval more
MutShown == progress + 1                               \* an interval ahead

-------------------------------------------------------------------------------
(* The constructor's thread *)

Spawn ==
  /\ pc = "spawn"
  /\ pc' = "upload"
  /\ h' = IF tty THEN "loop" ELSE "ended"
  /\ UNCHANGED <<now, state, duration, tty, progress, bar, doneAt>>

\* The second is_InitCamera returns, at any time.
Uploaded ==
  /\ pc = "upload"
  /\ state' \in {"complete", "failure"}
  /\ doneAt' = now
  /\ pc' = "join"
  /\ UNCHANGED <<now, h, duration, tty, progress, bar>>

Join ==
  /\ pc = "join"
  /\ h = "ended"
  /\ pc' = "joined"
  /\ UNCHANGED <<now, state, h, duration, tty, progress, bar, doneAt>>

-------------------------------------------------------------------------------
(* uploadProgressHandlerBar *)

\* progress * update_slice < 100
TimeLeft == progress * Interval < duration

Loop ==
  /\ h = "loop"
  /\ h' = IF TimeLeft THEN "failure" ELSE "last"
  /\ UNCHANGED <<now, pc, state, duration, tty, progress, bar, doneAt>>

\* The bar is left as it is.
AfterFailure == "ended"

\* The two conditions read the state one after the other.
CheckFailure ==
  /\ h = "failure"
  /\ h' = IF state = "failure" THEN AfterFailure ELSE "complete"
  /\ UNCHANGED <<now, pc, state, duration, tty, progress, bar, doneAt>>

CheckComplete ==
  /\ h = "complete"
  /\ h' = IF state = "complete" THEN "last" ELSE "draw"
  /\ UNCHANGED <<now, pc, state, duration, tty, progress, bar, doneAt>>

Shown == progress

SetProgress ==
  /\ h = "draw"
  /\ bar' = Shown
  /\ h' = "sleep"
  /\ UNCHANGED <<now, pc, state, duration, tty, progress, doneAt>>

NextTick == (progress + 1) * Interval

\* The tick is counted from t_start: one that has passed already is not waited for.
SleepUntil ==
  /\ h = "sleep"
  /\ now >= NextTick
  /\ progress' = progress + 1
  /\ h' = "loop"
  /\ UNCHANGED <<now, pc, state, duration, tty, bar, doneAt>>

\* Behind the loop.
SetFull ==
  /\ h = "last"
  /\ bar' = Full
  /\ h' = "ended"
  /\ UNCHANGED <<now, pc, state, duration, tty, progress, doneAt>>

uploadProgressHandlerBar ==
  Loop \/ CheckFailure \/ CheckComplete \/ SetProgress \/ SleepUntil \/ SetFull

-------------------------------------------------------------------------------

\* The clock goes on while the handler sleeps - up to the tick and, until the thread
\* wakes up, beyond it - or has ended; its own steps take no time to speak of.
Tick ==
  /\ now < MaxTime
  /\ h = "sleep" => now < NextTick + Latency
  /\ h \in {"sleep", "ended"}
  /\ pc # "joined"
  /\ now' = now + 1
  /\ UNCHANGED <<pc, state, h, duration, tty, progress, bar, doneAt>>

Finished == pc = "joined" /\ UNCHANGED uploadVars

UploadNext == Spawn \/ Uploaded \/ Join \/ uploadProgressHandlerBar \/ Tick \/ Finished

UploadSpec == UploadInit /\ [][UploadNext]_uploadVars

\* Time passes and threads are scheduled; an upload need not end.
UploadFairSpec ==
  /\ UploadSpec
  /\ WF_uploadVars(uploadProgressHandlerBar) /\ WF_uploadVars(Tick) /\ WF_uploadVars(Join)

-------------------------------------------------------------------------------
(* Properties. *)

\* The bar reaches 100% only for an upload that is complete, or when the estimate
\* has passed, whatever becomes of the upload then; until then it shows the share
\* of the estimate that has passed, late by an interval and the latency at most.
BarHonest ==
  /\ bar = Full => state = "complete" \/ now >= duration
  /\ bar # Full => bar * Interval <= now
  /\ h = "sleep" => now <= bar * Interval + Interval + Latency

\* The constructor waits for the handler an interval, and its latency, at most once
\* the upload has ended: the lateness of earlier intervals does not add up.
JoinPrompt == pc = "join" => now <= doneAt + Interval + Latency \/ h = "ended"

\* The handler ends without being told when its time is over: an upload that never
\* ends does not keep it drawing.
HandlerEnds == h = "loop" ~> h = "ended"

\* The constructor gets on, and the handler ends without being told.
Joins == HandlerEnds /\ (pc = "join" ~> pc = "joined")

\* Types, what the bar shows and how long it keeps the constructor.
ProgressInv == UploadTypeOK /\ BarHonest /\ JoinPrompt

(* The parts of an inductive invariant. *)

\* The handler is awake only after the tick of its counter, by the latency at most,
\* and turns to the end only when it is told or its time is over.
OnTime ==
  /\ h # "ended" => progress * Interval <= now
  /\ h \notin {"sleep", "ended"} => now <= progress * Interval + Latency
  /\ h = "sleep" => bar = progress /\ now <= NextTick + Latency
  /\ h \in {"failure", "complete", "draw", "sleep"} => TimeLeft
  /\ h = "last" => state = "complete" \/ duration <= now

\* The state tells whether the upload has ended, from then on.
StateTold ==
  /\ state = "running" <=> pc \in {"spawn", "upload"}
  /\ h = "none" <=> pc = "spawn"

\* An upload that has ended is noticed in the turn of the loop that follows.
Noticed ==
  pc = "join" =>
    /\ h = "sleep" => progress * Interval <= doneAt
    /\ h = "draw" => doneAt = now
    /\ h = "complete" => state = "complete" \/ doneAt = now

UploadInv == ProgressInv /\ OnTime /\ StateTold /\ Noticed
================================================================================
