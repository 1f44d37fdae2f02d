----------------------------- MODULE CameraHandle ------------------------------
(***************************************************************************)
(* uEyeHandle (src/ueye_handle.cpp): one camera, from the constructor that *)
(* opens it - uploading a starter firmware if need be - and starts the     *)
(* observer of the capture status, to the destructor that closes it, and   *)
(* the constructor's own cleanup when a call of the driver fails.          *)
(*                                                                         *)
(* Threads: the application's, the progress handler of a firmware upload,  *)
(* and the capture status observer. The image buffers are those of         *)
(* ImageMemory, whose operations the constructor and destructor call.      *)
(***************************************************************************)
EXTENDS Naturals

CONSTANTS
  Concurrency, Addresses, IDs,  \* see ImageMemory
  MayFail,         \* the calls, and the steps of the try block, that may fail
  UploadRetries,   \* CAMERA_STARTER_FIRMWARE_UPLOAD_RETRIES
  CloseRetries,    \* CAMERA_CLOSE_RETRIES
  SetNeedsInit,    \* does is_Event fail to set an event that is not initialised?
  MaxStatus        \* bound on the capture status events

(* The steps of initialize() are those of ImageMemory: they fail as its calls do. *)
ASSUME CameraAssumption ==
  /\ Concurrency \in Nat
  /\ Addresses \subseteq Nat \ {0} /\ IDs \subseteq Nat \ {0}
  /\ "initializing" \notin MayFail
  /\ UploadRetries \in Nat \ {0}
  /\ CloseRetries \in Nat \ {0}
  /\ SetNeedsInit \in BOOLEAN
  /\ MaxStatus \in Nat

VARIABLES
  \* the driver
  camera,         \* "closed" or "open"
  outdated,       \* does the camera need a new starter firmware?
  events,         \* the events of the camera: "none", "init" or "enabled"
  statusEvent,    \* IS_SET_EVENT_CAPTURE_STATUS: reset by the wait that reports it
  terminateEvent, \* IS_SET_EVENT_TERMINATE_HANDLE_THREADS: reset by hand
  statuses,       \* number of capture status events raised by the driver
  \* the application's thread
  pc,             \* its next step
  path,           \* what it executes: "open", "setup", "catch", "dtor" or "idle"
  uploadRetrys,   \* rounds of _open_camera
  nret,           \* result of the firmware upload
  tries,          \* failed calls of is_ExitCamera
  \* the other threads
  progress,       \* the progress handler: "none", "running" or "ended"
  state,          \* progress_state it is told
  observer,       \* the observer: "none", "wait", "handle" or "done"
  checked,        \* history: has the observer handled a capture status event?
  unclosed,       \* history: the call whose failure left the camera open, or "none"
  \* ImageMemory
  step, left, memPtr, memID, managed, allocated, sequence, outcome, unfreed

Memory == INSTANCE ImageMemory

driverVars   == <<camera, outdated, events, statusEvent, terminateEvent, statuses>>
callVars     == <<pc, path, uploadRetrys, nret, tries, unclosed>>
progressVars == <<progress, state>>
observerVars == <<observer, checked>>
memoryVars   == <<step, left, memPtr, memID, managed, allocated, sequence, outcome, unfreed>>
vars == <<driverVars, callVars, progressVars, observerVars, memoryVars>>

Opening == {"init_camera", "get_duration", "upload", "join_progress", "reset_default"}
Setup == {"sensor_info", "color_mode", "initialize", "initializing", "display_mode",
          "init_events", "enable_events", "defaults"}
Unwinding == {"cleanup", "cleaning", "signal", "join", "exit_events", "exit_camera"}
Ended == {"thrown", "gone", "terminated"}

TypeOK ==
  /\ camera \in {"closed", "open"} /\ outdated \in BOOLEAN
  /\ events \in {"none", "init", "enabled"}
  /\ statusEvent \in BOOLEAN /\ terminateEvent \in BOOLEAN
  /\ statuses \in 0 .. MaxStatus
  /\ pc \in {"none", "ready"} \cup Opening \cup Setup \cup Unwinding \cup Ended
  /\ path \in {"open", "setup", "catch", "dtor", "idle"}
  /\ uploadRetrys \in 0 .. UploadRetries + 1
  /\ nret \in {"success", "pairing", "other"}
  /\ tries \in 0 .. CloseRetries
  /\ progress \in {"none", "running", "ended"}
  /\ state \in {"running", "complete", "failure"}
  /\ observer \in {"none", "wait", "handle", "done"} /\ checked \in BOOLEAN
  /\ unclosed \in {"none", "is_ResetToDefault", "is_ExitCamera"}
  /\ Memory!TypeOK

Init ==
  /\ camera = "closed" /\ outdated \in BOOLEAN
  /\ events = "none" /\ statusEvent = FALSE /\ terminateEvent = FALSE /\ statuses = 0
  /\ pc = "none" /\ path = "idle" /\ uploadRetrys = 0 /\ nret = "success" /\ tries = 0
  /\ unclosed = "none"
  /\ progress = "none" /\ state = "running"
  /\ observer = "none" /\ checked = FALSE
  /\ Memory!Init

-------------------------------------------------------------------------------
(* Mutated forms of definitions below. *)

MutLimitExceeded == uploadRetrys >= UploadRetries         \* off by one
MutRetry == pc' = "init_camera" /\ UNCHANGED uploadRetrys   \* the round is not counted
MutHandlerJoined == TRUE                                  \* detached progress handler
MutForced == FALSE                                        \* no initial status event
MutObserverGone == TRUE                                   \* no join of the observer
MutStopSignal == UNCHANGED terminateEvent                 \* the event is not set
MutAfter(p) ==                                            \* buffers are not freed
  IF path = "dtor"
  THEN CASE p = "join" -> "exit_events" [] p = "exit_events" -> "exit_camera"
         [] p = "cleaning" -> "exit_camera" [] p = "exit_camera" -> "gone"
  ELSE CASE p = "cleaning" -> "signal" [] p = "join" -> "exit_camera"
         [] p = "exit_camera" -> "thrown"

-------------------------------------------------------------------------------
(* _open_camera *)

\* The application constructs a handle: the first round of _open_camera.
Construct ==
  /\ pc = "none"
  /\ pc' = "init_camera" /\ path' = "open"
  /\ uploadRetrys' = 1
  /\ UNCHANGED <<driverVars, nret, tries, unclosed, progressVars, observerVars, memoryVars>>

LimitExceeded == uploadRetrys > UploadRetries

\* Behind the loop, which is left with break.
Opened == pc' = IF LimitExceeded THEN "thrown" ELSE "reset_default"

InitCamera ==
  /\ pc = "init_camera" /\ camera = "closed" /\ ~outdated
  /\ camera' = "open"
  /\ Opened
  /\ UNCHANGED <<outdated, events, statusEvent, terminateEvent, statuses, path, uploadRetrys,
                 nret, tries, unclosed, progressVars, observerVars, memoryVars>>

\* The driver opens no camera that is open already.
InitCameraFails ==
  /\ pc = "init_camera"
  /\ camera = "open" \/ "is_InitCamera" \in MayFail
  /\ pc' = "thrown"
  /\ UNCHANGED <<driverVars, path, uploadRetrys, nret, tries, unclosed, progressVars, observerVars,
                 memoryVars>>

StarterFirmwareNeeded ==
  /\ pc = "init_camera" /\ camera = "closed" /\ outdated
  /\ pc' = "get_duration"
  /\ UNCHANGED <<driverVars, path, uploadRetrys, nret, tries, unclosed, progressVars, observerVars,
                 memoryVars>>

\* The progress handler is given a reference to the local variable state.
GetDuration ==
  /\ pc = "get_duration"
  /\ state' = "running"
  /\ progress' = "running"
  /\ pc' = "upload"
  /\ UNCHANGED <<driverVars, path, uploadRetrys, nret, tries, unclosed, observerVars, memoryVars>>

GetDurationFails ==
  /\ pc = "get_duration"
  /\ "is_GetDuration" \in MayFail
  /\ pc' = "thrown"
  /\ UNCHANGED <<driverVars, path, uploadRetrys, nret, tries, unclosed, progressVars, observerVars,
                 memoryVars>>

\* is_InitCamera with IS_ALLOW_STARTER_FW_UPLOAD. A failed one may have brought the
\* firmware to the camera, and may have opened it if the error is one of pairing: these
\* errors "suggest a possible success" (ueye_handle.cpp:325).
UploadOutcome ==
  \/ nret' = "success" /\ camera' = "open" /\ outdated' = FALSE
  \/ /\ "upload" \in MayFail
     /\ \/ nret' \in {"pairing", "other"} /\ camera' = "closed" /\ outdated' \in BOOLEAN
        \/ nret' = "pairing" /\ camera' = "open" /\ outdated' = FALSE

Upload ==
  /\ pc = "upload"
  /\ UploadOutcome
  /\ state' = IF nret' = "success" THEN "complete" ELSE "failure"
  /\ pc' = "join_progress"
  /\ UNCHANGED <<events, statusEvent, terminateEvent, statuses, path, uploadRetrys, tries, unclosed,
                 progress, observerVars, memoryVars>>

\* The handler returns when it is told the end, or when its time is over.
ProgressEnds ==
  /\ progress = "running"
  /\ progress' = "ended"
  /\ UNCHANGED <<driverVars, callVars, state, observerVars, memoryVars>>

HandlerJoined == progress = "ended"
LoopAgain(n) == n <= UploadRetries

\* The next round, if there is one, or the error behind the loop.
Retry ==
  /\ uploadRetrys' = uploadRetrys + 1
  /\ pc' = IF LoopAgain(uploadRetrys') THEN "init_camera" ELSE "thrown"

JoinProgress ==
  /\ pc = "join_progress"
  /\ HandlerJoined
  /\ progress' = IF progress = "ended" THEN "none" ELSE progress
  /\ \/ nret = "success" /\ Opened /\ UNCHANGED <<uploadRetrys, tries>>
     \/ nret = "other" /\ Retry /\ UNCHANGED tries
     \/ nret = "pairing" /\ pc' = "exit_camera" /\ tries' = 0 /\ UNCHANGED uploadRetrys
  /\ UNCHANGED <<driverVars, path, nret, unclosed, state, observerVars, memoryVars>>

ResetToDefault ==
  /\ pc = "reset_default"
  /\ pc' = "sensor_info" /\ path' = "setup"
  /\ UNCHANGED <<driverVars, uploadRetrys, nret, tries, unclosed, progressVars, observerVars,
                 memoryVars>>

\* _open_camera throws: the constructor does not catch that.
ResetFails ==
  /\ pc = "reset_default"
  /\ "is_ResetToDefault" \in MayFail
  /\ pc' = "thrown" /\ unclosed' = "is_ResetToDefault"
  /\ UNCHANGED <<driverVars, path, uploadRetrys, nret, tries, progressVars, observerVars,
                 memoryVars>>

-------------------------------------------------------------------------------
(* The constructor's try block. *)

\* From one call to the next; _close_camera starts with its own tries.
Step(from, to) ==
  /\ pc = from
  /\ pc' = to
  /\ tries' = IF to = "exit_camera" THEN 0 ELSE tries
  /\ UNCHANGED <<path, uploadRetrys, nret, unclosed>>

Throw == pc' = "cleanup" /\ path' = "catch" /\ UNCHANGED <<uploadRetrys, nret, tries, unclosed>>

PopulateSensorInfo ==
  Step("sensor_info", "color_mode")
  /\ UNCHANGED <<driverVars, progressVars, observerVars, memoryVars>>

\* _setup_capture_to_memory
SetColorMode ==
  Step("color_mode", "initialize")
  /\ UNCHANGED <<driverVars, progressVars, observerVars, memoryVars>>

InitializeMemory ==
  /\ Step("initialize", "initializing")
  /\ Memory!Initialize
  /\ UNCHANGED <<driverVars, progressVars, observerVars>>

MemoryInitialized ==
  /\ pc = "initializing" /\ step = "idle"
  /\ \/ outcome = "ok" /\ Step("initializing", "display_mode")
     \/ outcome = "threw" /\ Throw
  /\ UNCHANGED <<driverVars, progressVars, observerVars, memoryVars>>

SetDisplayMode ==
  Step("display_mode", "init_events")
  /\ UNCHANGED <<driverVars, progressVars, observerVars, memoryVars>>

\* The capture status event is initialised as signalled.
Forced == TRUE

InitEvents ==
  /\ Step("init_events", "enable_events")
  /\ events' = "init" /\ statusEvent' = Forced /\ terminateEvent' = FALSE
  /\ UNCHANGED <<camera, outdated, statuses, progressVars, observerVars, memoryVars>>

\* ... and _SPAWN_capture_status_observer
EnableEvents ==
  /\ Step("enable_events", "defaults")
  /\ events' = "enabled"
  /\ observer' = "wait"
  /\ UNCHANGED <<camera, outdated, statusEvent, terminateEvent, statuses, progressVars, checked,
                 memoryVars>>

\* _set_AutoControl_default and setWhiteBalance(AUTO)
SetDefaults ==
  /\ pc = "defaults"
  /\ pc' = "ready" /\ path' = "idle"
  /\ UNCHANGED <<driverVars, uploadRetrys, nret, tries, unclosed, progressVars, observerVars,
                 memoryVars>>

SetupFails ==
  /\ pc \in Setup \cap MayFail
  /\ Throw
  /\ UNCHANGED <<driverVars, progressVars, observerVars, memoryVars>>

-------------------------------------------------------------------------------
(* The catch block and the destructor. *)

\* The step behind each: the catch block is memory, threads, camera; the
\* destructor is threads, events, memory, camera.
After(p) ==
  IF path = "dtor"
  THEN CASE p = "join" -> "exit_events" [] p = "exit_events" -> "cleanup"
         [] p = "cleaning" -> "exit_camera" [] p = "exit_camera" -> "gone"
  ELSE CASE p = "cleaning" -> "signal" [] p = "join" -> "exit_camera"
         [] p = "exit_camera" -> "thrown"

Destroy ==
  /\ pc = "ready"
  /\ pc' = "signal" /\ path' = "dtor"
  /\ UNCHANGED <<driverVars, uploadRetrys, nret, tries, unclosed, progressVars, observerVars,
                 memoryVars>>

CleanupMemory ==
  /\ Step("cleanup", "cleaning")
  /\ Memory!Cleanup
  /\ UNCHANGED <<driverVars, progressVars, observerVars>>

MemoryCleaned ==
  /\ step = "idle"
  /\ Step("cleaning", After("cleaning"))
  /\ UNCHANGED <<driverVars, progressVars, observerVars, memoryVars>>

StopSignal == terminateEvent' = TRUE

\* _stop_threads: is_Event is called until it succeeds.
SignalTerminate ==
  /\ Step("signal", "join")
  /\ SetNeedsInit => events # "none"
  /\ StopSignal
  /\ UNCHANGED <<camera, outdated, events, statusEvent, statuses, progressVars, observerVars,
                 memoryVars>>

ObserverGone == observer \in {"none", "done"}

JoinObserver ==
  /\ ObserverGone
  /\ Step("join", After("join"))
  /\ observer' = IF observer = "done" THEN "none" ELSE observer
  /\ UNCHANGED <<driverVars, progressVars, checked, memoryVars>>

\* _cleanup_events, the errors of which are ignored
ExitEvents ==
  /\ Step("exit_events", After("exit_events"))
  /\ events' = "none" /\ statusEvent' = FALSE /\ terminateEvent' = FALSE
  /\ UNCHANGED <<camera, outdated, statuses, progressVars, observerVars, memoryVars>>

\* _close_camera is also called between two rounds of _open_camera.
Closed ==
  IF path = "open" THEN Retry
  ELSE pc' = After("exit_camera") /\ UNCHANGED uploadRetrys

\* (After an upload that failed without opening the camera the driver may accept or
\* refuse to close its handle.)
ExitCamera ==
  /\ pc = "exit_camera"
  /\ camera' = "closed"
  /\ events' = "none" /\ statusEvent' = FALSE /\ terminateEvent' = FALSE
  /\ Closed /\ UNCHANGED unclosed
  /\ UNCHANGED <<outdated, statuses, path, nret, tries, progressVars, observerVars, memoryVars>>

ExitCameraFails ==
  /\ pc = "exit_camera"
  /\ camera = "closed" \/ "is_ExitCamera" \in MayFail
  /\ tries' = tries + 1
  /\ \/ /\ tries' = CloseRetries /\ Closed
        /\ unclosed' = IF camera = "open" THEN "is_ExitCamera" ELSE unclosed
     \/ tries' < CloseRetries /\ UNCHANGED <<pc, uploadRetrys, unclosed>>
  /\ UNCHANGED <<driverVars, path, nret, progressVars, observerVars, memoryVars>>

-------------------------------------------------------------------------------
(* The capture status observer. *)

RaiseStatus ==
  /\ events = "enabled" /\ camera = "open"
  /\ statuses < MaxStatus
  /\ statuses' = statuses + 1
  /\ statusEvent' = TRUE
  /\ UNCHANGED <<camera, outdated, events, terminateEvent, callVars, progressVars, observerVars,
                 memoryVars>>

WaitStatus ==
  /\ observer = "wait" /\ statusEvent
  /\ statusEvent' = FALSE
  /\ observer' = "handle"
  /\ UNCHANGED <<camera, outdated, events, terminateEvent, statuses, callVars, progressVars,
                 checked, memoryVars>>

WaitTerminate ==
  /\ observer = "wait" /\ terminateEvent
  /\ observer' = "done"
  /\ UNCHANGED <<driverVars, callVars, progressVars, checked, memoryVars>>

\* The wait itself fails: nSignaled keeps its value and the observer waits again.
WaitFails ==
  /\ observer = "wait"
  /\ "IS_EVENT_CMD_WAIT" \in MayFail
  /\ UNCHANGED vars

\* is_CaptureStatus, the update of the statistics and the callback; a
\* std::exception of these is logged.
HandleStatus ==
  /\ observer = "handle"
  /\ observer' = "wait"
  /\ checked' = TRUE
  /\ UNCHANGED <<driverVars, callVars, progressVars, memoryVars>>

\* The user's callback throws something else: std::terminate.
CallbackThrows ==
  /\ observer = "handle"
  /\ "captureErrorCallback" \in MayFail
  /\ pc' = "terminated" /\ path' = "idle"
  /\ observer' = "none" /\ progress' = "none"
  /\ camera' = "closed" /\ events' = "none" /\ statusEvent' = FALSE /\ terminateEvent' = FALSE
  /\ Memory!Abandon
  /\ UNCHANGED <<outdated, statuses, uploadRetrys, nret, tries, unclosed, state, checked>>

Finished == pc \in Ended /\ UNCHANGED vars

-------------------------------------------------------------------------------

MemoryStep ==
  /\ pc \in {"initializing", "cleaning"}
  /\ Memory!Proceed
  /\ UNCHANGED <<driverVars, callVars, progressVars, observerVars>>

OpenCamera ==
  \/ InitCamera \/ InitCameraFails \/ StarterFirmwareNeeded \/ GetDuration \/ GetDurationFails
  \/ Upload \/ JoinProgress \/ ResetToDefault \/ ResetFails

TryBlock ==
  \/ PopulateSensorInfo \/ SetColorMode \/ InitializeMemory \/ MemoryInitialized
  \/ SetDisplayMode \/ InitEvents \/ EnableEvents \/ SetDefaults \/ SetupFails

Unwind ==
  \/ CleanupMemory \/ MemoryCleaned \/ SignalTerminate \/ JoinObserver \/ ExitEvents
  \/ ExitCamera \/ ExitCameraFails

Observer == WaitStatus \/ WaitTerminate \/ WaitFails \/ HandleStatus \/ CallbackThrows

Next ==
  \/ Construct \/ OpenCamera \/ TryBlock \/ Destroy \/ Unwind \/ MemoryStep
  \/ ProgressEnds \/ Observer \/ RaiseStatus \/ Finished

Spec == Init /\ [][Next]_vars

(* A constructor or destructor that has begun goes on, and so do the progress *)
(* handler, the observer and the callback. Nothing makes the application      *)
(* construct or destroy a handle, nor the driver report a capture error.      *)
Fairness ==
  /\ WF_vars(OpenCamera \/ TryBlock \/ Unwind \/ MemoryStep)
  /\ WF_vars(ProgressEnds)
  /\ WF_vars(Observer)

FairSpec == Spec /\ Fairness

-------------------------------------------------------------------------------
(* Properties. *)

\* "_open_camera will cleanup after itself on failure" (ueye_handle.cpp:195),
\* "cleanup" (ueye_handle.cpp:214): a handle that could not be constructed, or was
\* destroyed, leaves the camera closed, but in two cases, each known by the call that
\* failed while the camera was open: the last try of is_ExitCamera, and
\* is_ResetToDefault, for which _open_camera throws without closing the camera it has
\* opened (ueye_handle.cpp:378) and the constructor does not catch that.
FailureCloses ==
  pc \in {"thrown", "gone"} /\ camera = "open" =>
    \/ unclosed = "is_ExitCamera" /\ tries = CloseRetries
    \/ unclosed = "is_ResetToDefault" /\ path = "open"

\* A handle that could not be constructed, or was destroyed, leaves no thread and no
\* buffer in its map: the member destructors that follow have nothing to do. (A buffer
\* the driver refused to free is allocated still: see ImageMemory.)
NothingLeftBehind ==
  pc \in {"thrown", "gone"} =>
    /\ observer = "none" /\ progress = "none"
    /\ DOMAIN managed = {} /\ step = "idle"

\* The camera is closed only after its buffers are freed and its observer is gone.
ClosedLast ==
  camera = "closed" /\ pc # "terminated" =>
    observer = "none" /\ DOMAIN allocated \subseteq unfreed

\* The progress handler runs only while the variable it refers to exists, and is
\* told the end of the upload before it is waited for.
ProgressStateAlive ==
  /\ progress # "none" => pc \in {"upload", "join_progress"}
  /\ pc = "join_progress" => (state = "complete" <=> nret = "success")

\* The constructor ends: opened, or with an exception ("catch and rethrow
\* exceptions after cleanup", ueye_handle.cpp:199).
ConstructionEnds == pc \in Opening ~> pc = "ready" \/ pc \in Ended

\* The destructor ends.
DestructionEnds == path = "dtor" ~> pc \in Ended

\* Both ends of a handle's life.
CallsEnd == ConstructionEnds /\ DestructionEnds

\* "start capture status event with signal flag and force initial handler
\* execution" (ueye_handle.cpp:166).
InitialStatusHandled == pc = "ready" ~> checked \/ pc # "ready"
===============================================================================
