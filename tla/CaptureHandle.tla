----------------------------- MODULE CaptureHandle -----------------------------
(***************************************************************************)
(* uEyeCaptureHandle (src/ueye_capture_handle.cpp): image capture on one   *)
(* opened camera.                                                          *)
(*                                                                         *)
(* Threads: the application's thread, which constructs, triggers and       *)
(* destroys capture handles one after the other; the image dispatcher      *)
(* thread of the handle; the worker threads of its pool, which execute the *)
(* image callback; and the driver, which fills the ring of image buffers   *)
(* and signals events.                                                     *)
(*                                                                         *)
(* The driver (uEye SDK) and the thread pool (BS::thread_pool) are         *)
(* external: they are described by what this code uses of them.            *)
(***************************************************************************)
EXTENDS Naturals, Sequences, FiniteSets

CONSTANTS
  Concurrency,   \* uEyeHandle::_concurrency: number of image buffers
  Workers,       \* threads of the pool (as many, but nothing depends on it)
  Kinds,         \* capture types used, a subset of {"LIVE", "TRIGGER"}
  Scaling,       \* is the colour mode IS_CM_RGB12_UNPACKED (uEye_RGB_16)?
  MayFail,       \* the calls that may fail
  FrameFirst,    \* does a wait report the first signalled event of its list?
  MaxFrames,     \* bound on the frames captured
  MaxHandles     \* bound on the capture handles constructed

ASSUME ConstantsAssumption ==
  /\ Concurrency \in Nat \ {0}
  /\ Kinds \subseteq {"LIVE", "TRIGGER"} /\ Kinds # {}
  /\ Scaling \in BOOLEAN
  /\ FrameFirst \in BOOLEAN
  /\ MaxFrames \in Nat
  /\ MaxHandles \in Nat

Buffers == 1 .. Concurrency
Task == [buf : Buffers, frame : Nat]
NoTask == [buf |-> 0, frame |-> 0]

VARIABLES
  \* the driver
  capture,         \* capture state of the camera
  filling,         \* the buffer a frame is being transferred to, or 0
  last,            \* the buffer of the frame completed last, or 0
  frames,          \* number of frames completed
  image,           \* number of the frame each buffer holds; 0: none or torn
  locked,          \* buffers locked by is_LockSeqBuf
  frameEvent,      \* IS_SET_EVENT_FRAME: reset by the wait that reports it
  terminateEvent,  \* IS_SET_EVENT_TERMINATE_CAPTURE_THREADS: reset by hand
  \* the image dispatcher
  disp,            \* the dispatcher's next call
  cur,             \* its imgMemPtr, or 0
  \* the pool
  queue,           \* tasks not yet taken by a worker
  phase,           \* what each worker does
  task,            \* the task each worker executes
  scaled,          \* how often the image in a buffer was scaled to 16 bit
  \* the application
  handle,          \* the application's next call on the capture handle
  kind,            \* template argument C of the handle
  handles,         \* number of handles constructed
  \* history
  born,            \* number of frames completed before the handle
  shown            \* frames passed to the image callback of any handle

driverVars == <<capture, filling, last, frames, image>>
eventVars  == <<frameEvent, terminateEvent>>
dispVars   == <<disp, cur>>
poolVars   == <<queue, phase, task>>
appVars    == <<handle, kind, handles, born>>
vars == <<driverVars, locked, eventVars, dispVars, poolVars, scaled, appVars, shown>>

Destroying == {"trigger_off", "stop_live", "stop_wait",
               "signal", "join", "wait_tasks", "reset"}
HandlePCs == {"none", "start_trigger", "start_capture", "ready", "trigger_wait",
              "unwind", "terminated"} \cup Destroying
DispPCs == {"none", "wait", "get", "lock", "info", "done"}
Phases == {"idle", "task", "callback", "unlock"}

TypeOK ==
  /\ capture \in {"off", "armed", "single", "live", "stopping"}
  /\ filling \in Buffers \cup {0}
  /\ last \in Buffers \cup {0}
  /\ frames \in Nat
  /\ image \in [Buffers -> Nat]
  /\ locked \in SUBSET Buffers
  /\ frameEvent \in BOOLEAN /\ terminateEvent \in BOOLEAN
  /\ disp \in DispPCs
  /\ cur \in Buffers \cup {0}
  /\ queue \in Seq(Task)
  /\ phase \in [Workers -> Phases]
  /\ task \in [Workers -> Task \cup {NoTask}]
  /\ scaled \in [Buffers -> Nat]
  /\ handle \in HandlePCs
  /\ kind \in Kinds
  /\ handles \in Nat
  /\ born \in Nat
  /\ shown \in SUBSET Nat

Init ==
  /\ capture = "off" /\ filling = 0 /\ last = 0 /\ frames = 0
  /\ image = [b \in Buffers |-> 0]
  /\ locked = {}
  /\ frameEvent = FALSE /\ terminateEvent = FALSE
  /\ disp = "none" /\ cur = 0
  /\ queue = <<>>
  /\ phase = [w \in Workers |-> "idle"]
  /\ task = [w \in Workers |-> NoTask]
  /\ scaled = [b \in Buffers |-> 0]
  /\ handle = "none" /\ kind \in Kinds /\ handles = 0
  /\ born = 0 /\ shown = {}

-------------------------------------------------------------------------------
(* Mutated forms of definitions below: plausible mistakes, each of which   *)
(* breaks a property that the runs check.                                  *)

MutEnqueue(t) == queue' = <<t>> \o queue              \* last in, first out
MutPoolDone == queue = <<>>                           \* running tasks forgotten
MutAfterReset == terminateEvent                       \* the reset is left out
MutReturnBuffer(b) == locked' = {}                    \* every buffer is unlocked
MutKeepBuffer(b) == UNCHANGED locked                  \* the unlock is left out
MutPendingFrame == FALSE                              \* the frame event loses the race
MutDispatcherGone == disp \in {"wait", "done"}        \* no join of the dispatcher
MutStopped == FALSE                                   \* the terminate event is ignored
MutCaptured == frames                                 \* info of another buffer is queried

-------------------------------------------------------------------------------
(* The driver. *)

\* Distance of buffer b from the buffer filled last, along the ring.
Distance(b) == (b + Concurrency - last - 1) % Concurrency

\* The next buffer of the sequence, skipping locked ones; empty if all are locked.
NextBuffers ==
  {b \in Buffers \ locked :
     \A c \in Buffers \ locked : Distance(b) <= Distance(c)}

BeginFrame ==
  /\ capture \in {"single", "live"}
  /\ filling = 0
  /\ frames < MaxFrames
  /\ \E b \in NextBuffers :
       /\ filling' = b
       /\ image' = [image EXCEPT ![b] = 0]
       /\ scaled' = [scaled EXCEPT ![b] = 0]
  /\ UNCHANGED <<capture, last, frames, locked, eventVars, dispVars, poolVars, appVars, shown>>

EndFrame ==
  /\ filling # 0
  /\ filling' = 0
  /\ last' = filling
  /\ frames' = frames + 1
  /\ image' = [image EXCEPT ![filling] = frames + 1]
  /\ frameEvent' = TRUE
  /\ capture' = IF capture = "single" THEN "armed" ELSE capture
  /\ UNCHANGED <<locked, terminateEvent, dispVars, poolVars, scaled, appVars, shown>>

\* "All destination buffers locked by the application": a single frame is lost.
\* (In live capture the loss changes nothing here: the next frame is tried.)
DropFrame ==
  /\ capture = "single"
  /\ filling = 0
  /\ NextBuffers = {}
  /\ capture' = "armed"
  /\ UNCHANGED <<filling, last, frames, image, locked, eventVars, dispVars, poolVars,
                 scaled, appVars, shown>>

\* std::terminate: every thread of the process is gone, the camera is closed.
Terminate ==
  /\ capture' = "off"
  /\ filling' = 0
  /\ disp' = "none"
  /\ cur' = 0
  /\ queue' = <<>>
  /\ phase' = [w \in Workers |-> "idle"]
  /\ task' = [w \in Workers |-> NoTask]
  /\ handle' = "terminated"
  /\ UNCHANGED <<last, frames, image, locked, eventVars, scaled, kind, handles, born, shown>>

-------------------------------------------------------------------------------
(* The image dispatcher. *)

PendingFrame == frameEvent

WaitFrame ==
  /\ disp = "wait"
  /\ frameEvent
  /\ frameEvent' = FALSE
  /\ disp' = "get"
  /\ UNCHANGED <<driverVars, locked, terminateEvent, cur, poolVars, scaled, appVars, shown>>

Stopped == terminateEvent

WaitTerminate ==
  /\ disp = "wait"
  /\ Stopped
  /\ FrameFirst => ~PendingFrame
  /\ disp' = "done"
  /\ UNCHANGED <<driverVars, locked, eventVars, cur, poolVars, scaled, appVars, shown>>

GetActSeqBuf ==
  /\ disp = "get"
  /\ cur' = last
  /\ disp' = "lock"
  /\ UNCHANGED <<driverVars, locked, eventVars, poolVars, scaled, appVars, shown>>

\* The wait itself fails: nSignaled keeps its value and the dispatcher waits again.
WaitFails ==
  /\ disp = "wait"
  /\ "IS_EVENT_CMD_WAIT" \in MayFail
  /\ UNCHANGED vars

\* The driver refuses to lock a buffer that is locked or being filled.
Lockable(b) == b # filling /\ b \notin locked

LockSeqBuf ==
  /\ disp = "lock"
  /\ Lockable(cur)
  /\ locked' = locked \cup {cur}
  /\ disp' = "info"
  /\ UNCHANGED <<driverVars, eventVars, cur, poolVars, scaled, appVars, shown>>

Captured == image[cur]
Enqueue(t) == queue' = Append(queue, t)

\* is_GetImageInfo and push_task
PushTask ==
  /\ disp = "info"
  /\ Enqueue([buf |-> cur, frame |-> Captured])
  /\ disp' = "wait"
  /\ cur' = 0
  /\ UNCHANGED <<driverVars, locked, eventVars, phase, task, scaled, appVars, shown>>

\* catch (...): the frame is skipped; a buffer locked before stays locked.
DispatchFails ==
  /\ \/ disp = "get" /\ "is_GetActSeqBuf" \in MayFail
     \/ disp = "lock" /\ (~Lockable(cur) \/ "is_LockSeqBuf" \in MayFail)
     \/ disp = "info" /\ "is_GetImageInfo" \in MayFail
  /\ disp' = "wait"
  /\ cur' = 0
  /\ UNCHANGED <<driverVars, locked, eventVars, poolVars, scaled, appVars, shown>>

-------------------------------------------------------------------------------
(* The workers of the pool. *)

TakeTask(w) ==
  /\ phase[w] = "idle"
  /\ queue # <<>>
  /\ task' = [task EXCEPT ![w] = Head(queue)]
  /\ queue' = Tail(queue)
  /\ phase' = [phase EXCEPT ![w] = "task"]
  /\ UNCHANGED <<driverVars, locked, eventVars, dispVars, scaled, appVars, shown>>

\* The 12 bit values are scaled in place, then the callback is entered.
BeginCallback(w) ==
  /\ phase[w] = "task"
  /\ phase' = [phase EXCEPT ![w] = "callback"]
  /\ scaled' = IF Scaling THEN [scaled EXCEPT ![task[w].buf] = @ + 1] ELSE scaled
  /\ shown' = shown \cup {task[w].frame}
  /\ UNCHANGED <<driverVars, locked, eventVars, dispVars, queue, task, appVars>>

\* The callback returns or throws a std::exception, which is logged.
EndCallback(w) ==
  /\ phase[w] = "callback"
  /\ phase' = [phase EXCEPT ![w] = "unlock"]
  /\ UNCHANGED <<driverVars, locked, eventVars, dispVars, queue, task, scaled, appVars, shown>>

ReturnBuffer(b) == locked' = locked \ {b}

UnlockSeqBuf(w) ==
  /\ phase[w] = "unlock"
  /\ ReturnBuffer(task[w].buf)
  /\ phase' = [phase EXCEPT ![w] = "idle"]
  /\ task' = [task EXCEPT ![w] = NoTask]
  /\ UNCHANGED <<driverVars, eventVars, dispVars, queue, scaled, appVars, shown>>

\* An exception leaves the task: anything but a std::exception thrown by the
\* callback, or the error of is_UnlockSeqBuf. No frame of the thread catches it.
TaskThrows(w) ==
  /\ \/ phase[w] = "callback" /\ "imageCallback" \in MayFail
     \/ phase[w] = "unlock" /\ "is_UnlockSeqBuf" \in MayFail
  /\ Terminate

-------------------------------------------------------------------------------
(* The application. *)

\* The constructor up to _start_capture: the dispatcher runs from here on.
Construct ==
  /\ handle = "none"
  /\ handles < MaxHandles
  /\ kind' \in Kinds
  /\ handles' = handles + 1
  /\ born' = frames
  /\ disp' = "wait"
  /\ handle' = "start_trigger"
  /\ UNCHANGED <<driverVars, locked, eventVars, cur, poolVars, scaled, shown>>

SetTriggerSoftware ==
  /\ handle = "start_trigger"
  /\ capture' = "armed"
  /\ handle' = IF kind = "LIVE" THEN "start_capture" ELSE "ready"
  /\ UNCHANGED <<filling, last, frames, image, locked, eventVars, dispVars, poolVars,
                 scaled, kind, handles, born, shown>>

CaptureVideo ==
  /\ handle = "start_capture"
  /\ capture' = "live"
  /\ handle' = "ready"
  /\ UNCHANGED <<filling, last, frames, image, locked, eventVars, dispVars, poolVars,
                 scaled, kind, handles, born, shown>>

\* _start_capture throws out of the constructor: the members are destroyed.
ConstructorThrows ==
  /\ \/ handle = "start_trigger" /\ "is_SetExternalTrigger" \in MayFail
     \/ handle = "start_capture" /\ "is_CaptureVideo" \in MayFail
  /\ handle' = "unwind"
  /\ UNCHANGED <<driverVars, locked, eventVars, dispVars, poolVars, scaled,
                 kind, handles, born, shown>>

\* trigger(wait). An error of is_FreezeVideo is thrown at the application and
\* changes nothing.
Trigger(wait) ==
  /\ handle = "ready"
  /\ kind = "TRIGGER"
  /\ capture = "armed"
  /\ frames < MaxFrames
  /\ capture' = "single"
  /\ handle' = IF wait THEN "trigger_wait" ELSE "ready"
  /\ UNCHANGED <<filling, last, frames, image, locked, eventVars, dispVars, poolVars,
                 scaled, kind, handles, born, shown>>

TriggerReturns ==
  /\ handle = "trigger_wait"
  /\ capture = "armed"
  /\ handle' = "ready"
  /\ UNCHANGED <<driverVars, locked, eventVars, dispVars, poolVars, scaled,
                 kind, handles, born, shown>>

\* The destructor: _stop_capture; an error of is_ForceTrigger is ignored.
Destroy ==
  /\ handle = "ready"
  /\ handle' = "trigger_off"
  /\ UNCHANGED <<driverVars, locked, eventVars, dispVars, poolVars, scaled,
                 kind, handles, born, shown>>

SetTriggerOff ==
  /\ handle = "trigger_off"
  /\ handle' = "stop_live"
  /\ UNCHANGED <<driverVars, locked, eventVars, dispVars, poolVars, scaled,
                 kind, handles, born, shown>>

\* is_StopLiveVideo(IS_WAIT): no frame is begun any more ...
StopLiveVideo ==
  /\ handle = "stop_live"
  /\ capture' = "stopping"
  /\ handle' = "stop_wait"
  /\ UNCHANGED <<filling, last, frames, image, locked, eventVars, dispVars, poolVars,
                 scaled, kind, handles, born, shown>>

\* ... and the one being transferred is waited for.
CaptureStopped ==
  /\ handle = "stop_wait"
  /\ filling = 0
  /\ capture' = "off"
  /\ handle' = "signal"
  /\ UNCHANGED <<filling, last, frames, image, locked, eventVars, dispVars, poolVars,
                 scaled, kind, handles, born, shown>>

\* The destructor is noexcept: an error of _stop_capture terminates the process.
DestructorThrows ==
  /\ \/ handle = "trigger_off" /\ "is_SetExternalTrigger" \in MayFail
     \/ handle = "stop_live" /\ "is_StopLiveVideo" \in MayFail
  /\ Terminate

\* _stop_threads. A call of is_Event that fails is repeated until it succeeds.
SignalTerminate ==
  /\ handle = "signal"
  /\ terminateEvent' = TRUE
  /\ handle' = "join"
  /\ UNCHANGED <<driverVars, locked, frameEvent, dispVars, poolVars, scaled,
                 kind, handles, born, shown>>

DispatcherGone == disp = "done"

JoinDispatcher ==
  /\ handle = "join"
  /\ DispatcherGone
  /\ disp' = "none"
  /\ handle' = "wait_tasks"
  /\ UNCHANGED <<driverVars, locked, eventVars, cur, poolVars, scaled,
                 kind, handles, born, shown>>

PoolDone == queue = <<>> /\ \A w \in Workers : phase[w] = "idle"

WaitForTasks ==
  /\ handle = "wait_tasks"
  /\ PoolDone
  /\ handle' = "reset"
  /\ UNCHANGED <<driverVars, locked, eventVars, dispVars, poolVars, scaled,
                 kind, handles, born, shown>>

\* The members of a handle whose constructor throws: the destructor of _pool waits for
\* its tasks, while the dispatcher still runs; the one of _image_dispatcher_executor,
\* which is joinable, calls std::terminate.
MembersDestroyed ==
  /\ handle = "unwind"
  /\ PoolDone
  /\ Terminate

AfterReset == FALSE

ResetTerminate ==
  /\ handle = "reset"
  /\ terminateEvent' = AfterReset
  /\ handle' = "none"
  /\ UNCHANGED <<driverVars, locked, frameEvent, dispVars, poolVars, scaled,
                 kind, handles, born, shown>>

\* The application constructs no further handle, or the process has ended.
Finished ==
  /\ handle = "terminated" \/ (handle = "none" /\ handles = MaxHandles)
  /\ UNCHANGED vars

-------------------------------------------------------------------------------

Driver == BeginFrame \/ EndFrame \/ DropFrame

Dispatcher ==
  \/ WaitFrame \/ WaitTerminate \/ WaitFails \/ GetActSeqBuf \/ LockSeqBuf \/ PushTask
  \/ DispatchFails

Worker(w) ==
  TakeTask(w) \/ BeginCallback(w) \/ EndCallback(w) \/ UnlockSeqBuf(w) \/ TaskThrows(w)

Constructor == Construct \/ SetTriggerSoftware \/ CaptureVideo \/ ConstructorThrows

Triggering == (\E wait \in BOOLEAN : Trigger(wait)) \/ TriggerReturns

Destructor ==
  \/ SetTriggerOff \/ StopLiveVideo \/ CaptureStopped \/ DestructorThrows
  \/ SignalTerminate \/ JoinDispatcher \/ WaitForTasks \/ ResetTerminate \/ MembersDestroyed

Application == Constructor \/ Triggering \/ Destroy \/ Destructor \/ Finished

Next == Driver \/ Dispatcher \/ (\E w \in Workers : Worker(w)) \/ Application

Spec == Init /\ [][Next]_vars

(* A transfer that has begun ends, a thread that can run does, and the image *)
(* callback returns. Nothing makes the application trigger or destroy a      *)
(* handle, nor the camera begin a frame.                                     *)
Fairness ==
  /\ WF_vars(EndFrame)
  /\ WF_vars(Dispatcher)
  /\ \A w \in Workers : WF_vars(Worker(w))
  /\ WF_vars(Destructor)

FairSpec == Spec /\ Fairness

-------------------------------------------------------------------------------
(* Properties. *)

Busy(w) == phase[w] # "idle"

\* While the callback runs, its buffer is locked against the driver, the driver
\* is not filling it and no other worker has a task on it
\* (README.MD:70, "the memory is locked for exclusive use").
CallbackExclusive ==
  \A w \in Workers : phase[w] = "callback" =>
    /\ task[w].buf \in locked
    /\ task[w].buf # filling
    /\ \A v \in Workers \ {w} : Busy(v) => task[v].buf # task[w].buf

\* The image lent to a callback is the frame whose timestamp and number are
\* passed with it, although the number is read by the dispatcher, several steps
\* after the frame event and long before the callback runs.
ImageMatchesInfo ==
  \A w \in Workers : phase[w] = "callback" => image[task[w].buf] = task[w].frame

\* Tasks wait in the order of their frames, no frame twice, behind the running
\* ones, although frame events coalesce and the last buffer is read after the wait.
OrderedDispatch ==
  \A i \in 1 .. Len(queue) :
    /\ \A j \in 1 .. Len(queue) : i < j => queue[i].frame < queue[j].frame
    /\ \A w \in Workers : Busy(w) => task[w].frame < queue[i].frame

\* When a handle is gone, so are its dispatcher, its tasks and its capture:
\* nothing uses the destroyed object.
QuietWhenDestroyed ==
  handle \in {"none", "terminated"} =>
    /\ disp = "none" /\ queue = <<>>
    /\ \A w \in Workers : ~Busy(w)
    /\ capture = "off" /\ filling = 0

\* The dispatcher of a handle in use is running: the terminate event of an
\* earlier handle does not stop it.
DispatcherAlive ==
  handle \in {"start_capture", "ready", "trigger_wait"} => disp \notin {"none", "done"}

\* "all buffer/memory chunks have to be unlocked by now; they should as all
\* threads should have been waited on" (ueye_handle.cpp:1015).
AllUnlocked == handle = "none" => locked = {}

\* A callback sees only frames captured after its handle was constructed: no
\* frame event is left over from an earlier handle.
NoStaleFrame ==
  \A w \in Workers : phase[w] = "callback" => task[w].frame > born

\* The newest frame of a handle has been shown when its threads are gone,
\* although frame events coalesce and capture stops before the dispatcher.
NewestShown == handle = "reset" /\ frames > born => frames \in shown

\* "16 bit color images are scaled to 16 bit full scale from only 12 bits"
\* (README.MD:28): once.
ScaledOnce ==
  \A w \in Workers : phase[w] = "callback" /\ Scaling => scaled[task[w].buf] = 1

-------------------------------------------------------------------------------
(* The inductive invariant: why CallbackExclusive, ImageMatchesInfo,       *)
(* OrderedDispatch, QuietWhenDestroyed and DispatcherAlive hold.           *)

\* Each task in flight has the lock on its buffer, which keeps its image.
TasksHoldLocks ==
  /\ \A i \in 1 .. Len(queue) :
       queue[i].buf \in locked /\ image[queue[i].buf] = queue[i].frame
  /\ \A w \in Workers : Busy(w) =>
       task[w].buf \in locked /\ image[task[w].buf] = task[w].frame
  /\ filling \notin locked

\* No two tasks, nor a task and the dispatcher, have the same buffer.
TasksDisjoint ==
  /\ \A i, j \in 1 .. Len(queue) : queue[i].buf = queue[j].buf => i = j
  /\ \A v, w \in Workers : Busy(v) /\ Busy(w) /\ task[v].buf = task[w].buf => v = w
  /\ \A i \in 1 .. Len(queue), w \in Workers : Busy(w) => queue[i].buf # task[w].buf

\* What the dispatcher knows about its buffer between its calls.
DispatcherHolds ==
  /\ frameEvent \/ disp = "get" => last # 0
  /\ disp = "lock" => cur # 0
  /\ disp = "info" =>
       /\ cur \in locked
       /\ \A i \in 1 .. Len(queue) : queue[i].buf # cur
       /\ \A w \in Workers : Busy(w) => task[w].buf # cur

\* The frame that is dispatched next is newer than those of all tasks: the frame
\* numbers of different buffers differ, and the last buffer holds the newest one.
FramesIncrease ==
  /\ \A b \in Buffers : image[b] <= frames
  /\ \A b, c \in Buffers : image[b] = image[c] /\ image[b] # 0 => b = c
  /\ last \notin {0, filling} /\ handle # "terminated" => image[last] = frames /\ frames > 0
  /\ disp \in {"lock", "info"} /\ cur # filling =>
       /\ \A i \in 1 .. Len(queue) : queue[i].buf # cur => queue[i].frame < image[cur]
       /\ \A w \in Workers : Busy(w) /\ task[w].buf # cur => task[w].frame < image[cur]

\* Which threads run, and whether the camera captures, at each step of the application.
ThreadsFollowHandle ==
  /\ handle \in {"none", "terminated", "start_trigger", "signal", "join", "wait_tasks", "reset"}
       => capture = "off"
  /\ capture \in {"off", "armed"} => filling = 0
  /\ disp = "none" <=> handle \in {"none", "terminated", "wait_tasks", "reset"}
  /\ disp = "done" => handle = "join"
  /\ terminateEvent => handle \in {"join", "wait_tasks", "reset", "terminated"}
  /\ handle \in {"none", "terminated", "reset"} =>
       queue = <<>> /\ \A w \in Workers : ~Busy(w)

IInv ==
  /\ TypeOK /\ TasksHoldLocks /\ TasksDisjoint /\ DispatcherHolds /\ FramesIncrease
  /\ OrderedDispatch /\ ThreadsFollowHandle

-------------------------------------------------------------------------------

\* A destructor that has begun returns. A constructor that throws does not hang in the
\* destruction of its pool, although the dispatcher is never told to end: it ends in
\* std::terminate, never with the exception (ueye_capture_handle.cpp:71-79).
DestructionCompletes ==
  /\ handle \in Destroying ~> handle = "none"
  /\ handle = "unwind" ~> handle = "terminated"

\* A buffer locked for a callback becomes available to the driver again.
LocksAreReturned == \A b \in Buffers : b \in locked ~> b \notin locked

\* The capture handle implements ImageLease: a buffer is the user's during the
\* callback, the wrapper's while it is locked otherwise.
LeaseOwner ==
  [b \in Buffers |->
     IF b = filling THEN "filling"
     ELSE IF \E w \in Workers : phase[w] = "callback" /\ task[w].buf = b THEN "user"
     ELSE IF b \in locked THEN "wrapper" ELSE "driver"]

Lease == INSTANCE ImageLease WITH
  owner <- LeaseOwner,
  open <- handle \notin {"none", "terminated"}

ImplementsLease == Lease!Spec
===============================================================================
