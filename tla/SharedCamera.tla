------------------------------ MODULE SharedCamera -----------------------------
(***************************************************************************)
(* Several uEyeCaptureHandle objects (src/ueye_capture_handle.cpp) on one  *)
(* camera at the same time: nothing in getCaptureHandle() prevents a       *)
(* second one. Each has its own dispatcher thread and pool; the buffers,   *)
(* the frame event and the terminate event belong to the camera.           *)
(*                                                                         *)
(* CaptureHandle describes one handle after the other in full detail, with *)
(* every failure. Here no call fails, the handles are of type TRIGGER, and *)
(* what matters is what they share. A pool has a thread for each buffer    *)
(* and each task has a buffer locked, so no task waits for a thread.       *)
(***************************************************************************)
EXTENDS Naturals, FiniteSets

CONSTANTS
  Concurrency,   \* uEyeHandle::_concurrency: number of image buffers
  Handles,       \* the places of the application that hold a capture handle
  FrameFirst,    \* does a wait report the first signalled event of its list?
  MaxFrames,     \* bound on the frames captured
  MaxHandles     \* bound on the capture handles constructed

ASSUME SharedAssumption ==
  /\ Concurrency \in Nat \ {0}
  /\ FrameFirst \in BOOLEAN
  /\ MaxFrames \in Nat
  /\ MaxHandles \in Nat

Buffers == 1 .. Concurrency
Phases == {"task", "callback", "unlock"}
Task == [handle : Handles, buf : Buffers, frame : Nat, phase : Phases]

VARIABLES
  \* the driver, as in CaptureHandle
  freeze,          \* has a frame been triggered that has not been completed?
  filling, last, frames, image, locked, frameEvent, terminateEvent,
  \* the capture handles
  disp,            \* the next call of each handle's dispatcher
  cur,             \* its imgMemPtr, or 0
  tasks,           \* the tasks of all pools
  parallel,        \* are they used by several threads of the application?
  handle,          \* the application's next call on each handle
  constructed      \* number of handles constructed

driverVars == <<freeze, filling, last, frames, image>>
eventVars  == <<frameEvent, terminateEvent>>
dispVars   == <<disp, cur>>
appVars    == <<parallel, handle, constructed>>
vars == <<driverVars, locked, eventVars, dispVars, tasks, appVars>>

Destroying == {"stop_live", "stop_wait", "signal", "join", "wait_tasks", "reset"}

TypeOK ==
  /\ freeze \in BOOLEAN
  /\ filling \in Buffers \cup {0} /\ last \in Buffers \cup {0}
  /\ frames \in Nat
  /\ image \in [Buffers -> Nat]
  /\ locked \in SUBSET Buffers
  /\ frameEvent \in BOOLEAN /\ terminateEvent \in BOOLEAN
  /\ disp \in [Handles -> {"none", "wait", "get", "lock", "info", "done"}]
  /\ cur \in [Handles -> Buffers \cup {0}]
  /\ tasks \in SUBSET Task
  /\ parallel \in BOOLEAN
  /\ handle \in [Handles -> ({"none", "ready", "trigger_wait"} \cup Destroying)]
  /\ constructed \in 0 .. MaxHandles

Init ==
  /\ freeze = FALSE /\ filling = 0 /\ last = 0 /\ frames = 0
  /\ image = [b \in Buffers |-> 0]
  /\ locked = {}
  /\ frameEvent = FALSE /\ terminateEvent = FALSE
  /\ disp = [h \in Handles |-> "none"] /\ cur = [h \in Handles |-> 0]
  /\ tasks = {}
  /\ parallel \in BOOLEAN
  /\ handle = [h \in Handles |-> "none"] /\ constructed = 0

-------------------------------------------------------------------------------
(* Mutated forms of definitions below. *)

MutSkipNothing == {(last % Concurrency) + 1}          \* locked buffers are not skipped
MutLockable(b) == b # filling                         \* a locked buffer is locked again
MutCaptured(h) == frames                              \* the info of the newest frame
MutPoolDone(h) ==                                     \* waits for callbacks, not for unlocks
  \A t \in tasks : t.handle = h => t.phase = "unlock"
MutSignalled == terminateEvent                        \* the event is not set

-------------------------------------------------------------------------------
(* The driver. *)

\* Distance of buffer b from the buffer filled last, along the ring.
Distance(b) == (b + Concurrency - last - 1) % Concurrency

\* The next buffer of the sequence, skipping locked ones; empty if all are locked.
NextBuffers ==
  {b \in Buffers \ locked :
     \A c \in Buffers \ locked : Distance(b) <= Distance(c)}

BeginFrame ==
  /\ freeze
  /\ filling = 0
  /\ \E b \in NextBuffers :
       /\ filling' = b
       /\ image' = [image EXCEPT ![b] = 0]
  /\ UNCHANGED <<freeze, last, frames, locked, eventVars, dispVars, tasks, appVars>>

EndFrame ==
  /\ filling # 0
  /\ filling' = 0
  /\ last' = filling
  /\ frames' = frames + 1
  /\ image' = [image EXCEPT ![filling] = frames + 1]
  /\ frameEvent' = TRUE
  /\ freeze' = FALSE
  /\ UNCHANGED <<locked, terminateEvent, dispVars, tasks, appVars>>

\* All buffers are locked: the frame is lost.
DropFrame ==
  /\ freeze
  /\ filling = 0
  /\ NextBuffers = {}
  /\ freeze' = FALSE
  /\ UNCHANGED <<filling, last, frames, image, locked, eventVars, dispVars, tasks, appVars>>

-------------------------------------------------------------------------------
(* The image dispatcher of handle h. *)

\* The frame event is reset by the wait that reports it: one dispatcher gets it.
WaitFrame(h) ==
  /\ disp[h] = "wait"
  /\ frameEvent
  /\ frameEvent' = FALSE
  /\ disp' = [disp EXCEPT ![h] = "get"]
  /\ UNCHANGED <<driverVars, locked, terminateEvent, cur, tasks, appVars>>

\* The terminate event stays signalled: every dispatcher that waits meanwhile ends.
WaitTerminate(h) ==
  /\ disp[h] = "wait"
  /\ terminateEvent
  /\ FrameFirst => ~frameEvent
  /\ disp' = [disp EXCEPT ![h] = "done"]
  /\ UNCHANGED <<driverVars, locked, eventVars, cur, tasks, appVars>>

GetActSeqBuf(h) ==
  /\ disp[h] = "get"
  /\ cur' = [cur EXCEPT ![h] = last]
  /\ disp' = [disp EXCEPT ![h] = "lock"]
  /\ UNCHANGED <<driverVars, locked, eventVars, tasks, appVars>>

\* The driver refuses to lock a buffer that is locked or being filled.
Lockable(b) == b # filling /\ b \notin locked

LockSeqBuf(h) ==
  /\ disp[h] = "lock"
  /\ Lockable(cur[h])
  /\ locked' = locked \cup {cur[h]}
  /\ disp' = [disp EXCEPT ![h] = "info"]
  /\ UNCHANGED <<driverVars, eventVars, cur, tasks, appVars>>

Captured(h) == image[cur[h]]

\* is_GetImageInfo and push_task
PushTask(h) ==
  /\ disp[h] = "info"
  /\ tasks' = tasks \cup
       {[handle |-> h, buf |-> cur[h], frame |-> Captured(h), phase |-> "task"]}
  /\ disp' = [disp EXCEPT ![h] = "wait"]
  /\ cur' = [cur EXCEPT ![h] = 0]
  /\ UNCHANGED <<driverVars, locked, eventVars, appVars>>

\* catch (...): the lock was refused, the frame is skipped.
LockRefused(h) ==
  /\ disp[h] = "lock"
  /\ ~Lockable(cur[h])
  /\ disp' = [disp EXCEPT ![h] = "wait"]
  /\ cur' = [cur EXCEPT ![h] = 0]
  /\ UNCHANGED <<driverVars, locked, eventVars, tasks, appVars>>

-------------------------------------------------------------------------------
(* The pools. *)

Advance(t, from, to) ==
  /\ t.phase = from
  /\ tasks' = (tasks \ {t}) \cup {[t EXCEPT !.phase = to]}
  /\ UNCHANGED <<driverVars, locked, eventVars, dispVars, appVars>>

BeginCallback(t) == Advance(t, "task", "callback")
EndCallback(t) == Advance(t, "callback", "unlock")

ReturnBuffer(b) == locked' = locked \ {b}

UnlockSeqBuf(t) ==
  /\ t.phase = "unlock"
  /\ ReturnBuffer(t.buf)
  /\ tasks' = tasks \ {t}
  /\ UNCHANGED <<driverVars, eventVars, dispVars, appVars>>

-------------------------------------------------------------------------------
(* The application. *)

\* A single thread is inside of at most one call of the library.
Free(h) == \A g \in Handles \ {h} : parallel \/ handle[g] \in {"none", "ready"}

\* The constructor: the dispatcher is started, the trigger mode is set.
Construct(h) ==
  /\ handle[h] = "none" /\ Free(h)
  /\ constructed < MaxHandles
  /\ constructed' = constructed + 1
  /\ disp' = [disp EXCEPT ![h] = "wait"]
  /\ handle' = [handle EXCEPT ![h] = "ready"]
  /\ UNCHANGED <<driverVars, locked, eventVars, cur, tasks, parallel>>

Goto(h, pc) == handle' = [handle EXCEPT ![h] = pc]

\* trigger(wait). While a capture is running is_FreezeVideo fails, which is thrown
\* at the application and changes nothing.
Trigger(h, wait) ==
  /\ handle[h] = "ready" /\ Free(h)
  /\ ~freeze
  /\ frames < MaxFrames
  /\ freeze' = TRUE
  /\ Goto(h, IF wait THEN "trigger_wait" ELSE "ready")
  /\ UNCHANGED <<filling, last, frames, image, locked, eventVars, dispVars, tasks, parallel, constructed>>

TriggerReturns(h) ==
  /\ handle[h] = "trigger_wait"
  /\ ~freeze
  /\ Goto(h, "ready")
  /\ UNCHANGED <<driverVars, locked, eventVars, dispVars, tasks, parallel, constructed>>

\* The destructor: up to is_StopLiveVideo in _stop_capture.
Destroy(h) ==
  /\ handle[h] = "ready" /\ Free(h)
  /\ Goto(h, "stop_live")
  /\ UNCHANGED <<driverVars, locked, eventVars, dispVars, tasks, parallel, constructed>>

\* is_StopLiveVideo(IS_WAIT): a frame not yet begun, of whichever handle, is
\* cancelled, and the one being transferred is waited for.
StopLiveVideo(h) ==
  /\ handle[h] = "stop_live"
  /\ freeze' = (freeze /\ filling # 0)
  /\ Goto(h, "stop_wait")
  /\ UNCHANGED <<filling, last, frames, image, locked, eventVars, dispVars, tasks, parallel, constructed>>

CaptureStopped(h) ==
  /\ handle[h] = "stop_wait"
  /\ filling = 0
  /\ Goto(h, "signal")
  /\ UNCHANGED <<driverVars, locked, eventVars, dispVars, tasks, parallel, constructed>>

\* _stop_threads
Signalled == TRUE

SignalTerminate(h) ==
  /\ handle[h] = "signal"
  /\ terminateEvent' = Signalled
  /\ Goto(h, "join")
  /\ UNCHANGED <<driverVars, locked, frameEvent, dispVars, tasks, parallel, constructed>>

JoinDispatcher(h) ==
  /\ handle[h] = "join"
  /\ disp[h] = "done"
  /\ disp' = [disp EXCEPT ![h] = "none"]
  /\ Goto(h, "wait_tasks")
  /\ UNCHANGED <<driverVars, locked, eventVars, cur, tasks, parallel, constructed>>

PoolDone(h) == \A t \in tasks : t.handle # h

WaitForTasks(h) ==
  /\ handle[h] = "wait_tasks"
  /\ PoolDone(h)
  /\ Goto(h, "reset")
  /\ UNCHANGED <<driverVars, locked, eventVars, dispVars, tasks, parallel, constructed>>

\* The event is reset for every handle, whether its dispatcher has seen it or not.
ResetTerminate(h) ==
  /\ handle[h] = "reset"
  /\ terminateEvent' = FALSE
  /\ Goto(h, "none")
  /\ UNCHANGED <<driverVars, locked, frameEvent, dispVars, tasks, parallel, constructed>>

\* The application keeps the handles it has, or has constructed all it wants.
Finished ==
  /\ \A h \in Handles : handle[h] = "ready" \/ handle[h] = "none"
  /\ UNCHANGED vars

-------------------------------------------------------------------------------

Driver == BeginFrame \/ EndFrame \/ DropFrame

Dispatcher(h) ==
  \/ WaitFrame(h) \/ WaitTerminate(h) \/ GetActSeqBuf(h) \/ LockSeqBuf(h)
  \/ PushTask(h) \/ LockRefused(h)

Worker(t) == BeginCallback(t) \/ EndCallback(t) \/ UnlockSeqBuf(t)

Pool(h) == \E t \in tasks : t.handle = h /\ Worker(t)

Destructor(h) ==
  \/ StopLiveVideo(h) \/ CaptureStopped(h) \/ SignalTerminate(h)
  \/ JoinDispatcher(h) \/ WaitForTasks(h) \/ ResetTerminate(h)

User(h) ==
  \/ Construct(h) \/ Destroy(h) \/ TriggerReturns(h)
  \/ \E wait \in BOOLEAN : Trigger(h, wait)

Next ==
  \/ Driver
  \/ \E h \in Handles : Dispatcher(h) \/ Pool(h) \/ User(h) \/ Destructor(h)
  \/ Finished

Spec == Init /\ [][Next]_vars

(* A transfer ends, each dispatcher, pool and destructor that can take a step  *)
(* does, and image callbacks return; the application and the camera are free.  *)
Fairness ==
  /\ WF_vars(EndFrame)
  /\ \A h \in Handles :
       WF_vars(Dispatcher(h)) /\ WF_vars(Pool(h)) /\ WF_vars(Destructor(h))

FairSpec == Spec /\ Fairness

-------------------------------------------------------------------------------
(* Properties. *)

\* Two callbacks never have the same buffer, not even callbacks of different
\* handles on different pools, and the driver leaves a lent buffer alone
\* (README.MD:70, "the memory is locked for exclusive use").
CallbackExclusive ==
  \A t \in tasks : t.phase = "callback" =>
    /\ t.buf \in locked /\ t.buf # filling
    /\ \A u \in tasks \ {t} : u.buf # t.buf

\* The image of a task is the frame that was queried for it, whichever handle
\* triggered it and whatever the others' dispatchers did meanwhile.
ImageMatchesInfo == \A t \in tasks : image[t.buf] = t.frame

\* When a handle is gone, so are its dispatcher and its tasks, although the
\* event that ends the dispatcher is shared with the handles that remain.
QuietWhenDestroyed ==
  \A h \in Handles : handle[h] = "none" =>
    disp[h] = "none" /\ \A t \in tasks : t.handle # h

\* When the last handle is gone, every buffer is the driver's again, whichever
\* handle's dispatcher or pool had locked it.
AllUnlocked == (\A h \in Handles : handle[h] = "none") => locked = {}

\* The types, and what belongs to whom.
SharedInv == TypeOK /\ CallbackExclusive /\ QuietWhenDestroyed /\ AllUnlocked

(* The parts of an inductive invariant. *)

\* Every task of every pool has the lock on its buffer, which the driver is not filling.
TasksHoldLocks == ImageMatchesInfo /\ filling \notin locked /\ \A t \in tasks : t.buf \in locked

\* No two tasks, dispatchers with a lock, or a task and such a dispatcher, have the
\* same buffer.
TasksApart ==
  /\ \A t, u \in tasks : t.buf = u.buf => t = u
  /\ \A h \in Handles : disp[h] = "info" =>
       /\ cur[h] \in locked
       /\ \A t \in tasks : t.buf # cur[h]
       /\ \A g \in Handles \ {h} : disp[g] = "info" => cur[g] # cur[h]

\* A dispatcher that was woken finds a buffer.
CurrentKnown ==
  /\ (frameEvent \/ \E h \in Handles : disp[h] = "get") => last # 0
  /\ \A h \in Handles : disp[h] \in {"lock", "info"} => cur[h] # 0

\* What it asks for is an image, unless a newer one is overwriting it.
ImagesComplete ==
  /\ \A b \in Buffers : image[b] <= frames
  /\ last \notin {0, filling} => image[last] # 0
  /\ \A h \in Handles : disp[h] \in {"lock", "info"} /\ cur[h] # filling => image[cur[h]] # 0

\* Every lock is a task's, or that of a dispatcher about to push one.
LocksOwned ==
  \A b \in locked :
    (\E h \in Handles : disp[h] = "info" /\ cur[h] = b) \/ \E t \in tasks : t.buf = b

\* The dispatcher and the tasks of a handle at each step of its life.
ThreadsFollowHandle ==
  \A h \in Handles :
    /\ disp[h] = "none" <=> handle[h] \in {"none", "wait_tasks", "reset"}
    /\ handle[h] \in {"none", "reset"} => \A t \in tasks : t.handle # h

SInv ==
  /\ TypeOK /\ TasksHoldLocks /\ TasksApart /\ CurrentKnown /\ ImagesComplete
  /\ LocksOwned /\ ThreadsFollowHandle

\* Together the handles keep the promise of one: ImageLease, open while any exists.
LeaseOwner ==
  [b \in Buffers |->
     IF b = filling THEN "filling"
     ELSE IF \E t \in tasks : t.buf = b /\ t.phase = "callback" THEN "user"
     ELSE IF b \in locked THEN "wrapper" ELSE "driver"]

AnyOpen == \E h \in Handles : handle[h] # "none"

Lease == INSTANCE ImageLease WITH owner <- LeaseOwner, open <- AnyOpen

ImplementsLease == Lease!Spec

\* The dispatcher of a handle has missed the terminate event: it still waits for the
\* event that its destructor has signalled and that has been reset since.
Robbed(h) == handle[h] = "join" /\ disp[h] # "done" /\ ~terminateEvent

\* A destructor that has begun returns, with other handles alive - unless, in another
\* thread, a destructor of one of those resets the terminate event in between.
DestructionCompletes ==
  \A h \in Handles :
    handle[h] \in Destroying ~> handle[h] = "none" \/ (parallel /\ Robbed(h))
================================================================================
