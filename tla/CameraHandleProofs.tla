--------------------------- MODULE CameraHandleProofs ---------------------------
(***************************************************************************)
(* Proofs about CameraHandle, for any number of retries and rounds, any    *)
(* calls that fail and any capture status events: a handle that could not  *)
(* be constructed, or was destroyed, leaves no thread, no buffer and no    *)
(* open camera. What the memory does is taken from ImageMemoryProofs.      *)
(***************************************************************************)
EXTENDS CameraHandle, TLAPS

MP == INSTANCE ImageMemoryProofs

-------------------------------------------------------------------------------
(* The inductive invariant. *)

\* Where each part of the code may be.
PathRight ==
  /\ path = "open" => pc \in Opening \cup {"exit_camera", "thrown"}
  /\ path = "setup" => pc \in Setup
  /\ path = "catch" => pc \in {"cleanup", "cleaning", "signal", "join", "exit_camera", "thrown"}
  /\ path = "dtor" =>
       pc \in {"signal", "join", "exit_events", "cleanup", "cleaning", "exit_camera", "gone"}
  /\ path = "idle" => pc \in {"none", "ready", "terminated"}

\* The counters are below their limits while there is a try left.
TriesLeft ==
  /\ pc \in Opening \cup {"exit_camera"} /\ path = "open" => uploadRetrys <= UploadRetries
  /\ pc = "exit_camera" => tries < CloseRetries

\* Where the camera is open.
CameraRight ==
  /\ pc \in {"none", "get_duration", "upload"} => camera = "closed"
  /\ pc = "init_camera" /\ camera = "open" => unclosed = "is_ExitCamera" /\ tries = CloseRetries
  /\ pc = "join_progress" =>
       (nret = "success" => camera = "open") /\ (nret = "other" => camera = "closed")
  /\ pc \in {"reset_default", "ready"} => camera = "open"
  /\ path \in {"setup", "catch", "dtor"} /\ pc \notin Ended => camera = "open"
  /\ FailureCloses

\* The observer is gone before the camera is closed.
ObserverRight ==
  observer # "none" =>
    \/ pc \in {"defaults", "ready", "signal", "join"}
    \/ pc \in {"cleanup", "cleaning"} /\ path = "catch"

Untouched == outcome = "none" /\ managed = Memory!NoBuffers /\ allocated = Memory!NoBuffers

\* How far the memory is: untouched, initialised once, cleaned up once.
MemoryRight ==
  /\ pc \notin {"initializing", "cleaning"} => step = "idle"
  /\ path \in {"open", "idle"} /\ pc \notin {"ready", "terminated"} => Untouched
  /\ pc \in {"sensor_info", "color_mode", "initialize"} => Untouched
  /\ pc = "initializing" =>
       \/ step \in {"alloc", "add", "undo", "store"} /\ outcome = "none"
       \/ step = "idle" /\ outcome \in {"ok", "threw"}
  /\ pc \in {"display_mode", "init_events", "enable_events", "defaults", "ready", "exit_events"} =>
       outcome = "ok"
  /\ path = "dtor" /\ pc \in {"signal", "join", "cleanup"} => outcome = "ok"
  /\ path = "catch" /\ pc = "cleanup" => outcome \in {"ok", "threw"} \/ Untouched
  /\ pc = "cleaning" => step = "free" \/ (step = "idle" /\ outcome = "cleaned")
  /\ path = "catch" /\ pc \in {"signal", "join", "exit_camera", "thrown"} => outcome = "cleaned"
  /\ path = "dtor" /\ pc \in {"exit_camera", "gone"} => outcome = "cleaned"

CInv ==
  /\ TypeOK /\ PathRight /\ TriesLeft /\ CameraRight /\ ObserverRight /\ ProgressStateAlive
  /\ MemoryRight /\ MP!MInv

-------------------------------------------------------------------------------
(* The memory. *)

LEMMA MemoryTypes == (MP!MInv => Memory!TypeOK) /\ (MP!MInv' => Memory!TypeOK')
BY DEF Memory!TypeOK, MP!MInv, MP!TypeOK, Memory!Steps, MP!Steps

LEMMA SameProceed == Memory!Proceed <=> MP!Proceed
BY DEF Memory!Proceed, MP!Proceed, Memory!AllocImageMem, MP!AllocImageMem, Memory!AllocFails,
       MP!AllocFails, Memory!AddToSequence, MP!AddToSequence, Memory!AddFails, MP!AddFails,
       Memory!UndoAlloc, MP!UndoAlloc, Memory!UndoFails, MP!UndoFails, Memory!StoreBuffer,
       MP!StoreBuffer, Memory!InitializeEnds, MP!InitializeEnds, Memory!FreeImageMem,
       MP!FreeImageMem, Memory!CleanupEnds, MP!CleanupEnds, Memory!Put, MP!Put, Memory!Drop,
       MP!Drop, Memory!Free, MP!Free, Memory!AddFailed, MP!AddFailed, Memory!Stored, MP!Stored,
       Memory!Remaining, MP!Remaining, Memory!RoundsLeft, MP!RoundsLeft

\* A step of the memory manager as such.
LEMMA MemoryNext ==
  ASSUME MP!MInv,
         \/ outcome = "none" /\ Memory!Initialize
         \/ outcome # "none" /\ Memory!Cleanup
         \/ Memory!Proceed
         \/ UNCHANGED memoryVars
  PROVE  MP!MInv'
<1>1. MP!MemoryAssumption  BY CameraAssumption DEF MP!MemoryAssumption
<1>2. [MP!Next]_(MP!memoryVars)
  BY SameProceed DEF MP!Next, Memory!Initialize, MP!Initialize, Memory!Cleanup, MP!Cleanup,
                     memoryVars, MP!memoryVars
<1> QED  BY <1>1, <1>2, MP!NextMInv

\* A cleanup without an initialisation.
LEMMA EmptyCleanup == ASSUME MP!MInv, Untouched, Memory!Cleanup PROVE MP!MInv'
BY DEF Untouched, Memory!NoBuffers, Memory!Cleanup, MP!MInv, MP!TypeOK, MP!Steps, MP!LocalsRight,
       MP!NoneLost, MP!EntriesRight, MP!AllFreed, MP!InRound, MP!NoBuffers

LEMMA AbandonStep == ASSUME MP!MInv, Memory!Abandon PROVE MP!MInv'
<1>1. Concurrency \in Nat  BY CameraAssumption
<1> QED
  BY <1>1 DEF Memory!NoBuffers, Memory!Abandon, MP!MInv, MP!TypeOK, MP!Steps, MP!LocalsRight,
         MP!NoneLost, MP!EntriesRight, MP!AllFreed, MP!InRound, MP!NoBuffers

\* What the camera handle sees of the manager's steps.
LEMMA ProceedSeen ==
  ASSUME Memory!Proceed
  PROVE  /\ step \in {"alloc", "add", "undo", "store"} =>
              \/ step' \in {"alloc", "add", "undo", "store"} /\ outcome' = outcome
              \/ step' = "idle" /\ outcome' \in {"ok", "threw"}
         /\ step = "free" => step' = "free" \/ (step' = "idle" /\ outcome' = "cleaned")
         /\ step # "idle"
BY DEF Memory!Proceed, Memory!AllocImageMem, Memory!AllocFails, Memory!AddToSequence,
       Memory!AddFails, Memory!AddFailed, Memory!UndoAlloc, Memory!UndoFails, Memory!StoreBuffer,
       Memory!InitializeEnds, Memory!FreeImageMem, Memory!CleanupEnds

-------------------------------------------------------------------------------

LEMMA InitCInv == Init => CInv
<1> SUFFICES ASSUME Init PROVE CInv  OBVIOUS
<1>1. MP!MInv
  <2>1. MP!MemoryAssumption  BY CameraAssumption DEF MP!MemoryAssumption
  <2>2. MP!Init  BY DEF Init, Memory!Init, MP!Init, Memory!NoBuffers, MP!NoBuffers
  <2> QED  BY <2>1, <2>2, MP!InitMInv
<1>2. TypeOK
  <2>1. 0 \in 0 .. MaxStatus /\ 0 \in 0 .. UploadRetries + 1 /\ 0 \in 0 .. CloseRetries
    BY CameraAssumption
  <2>2. Memory!TypeOK  BY <1>1, MemoryTypes
  <2> QED  BY <2>1, <2>2 DEF Init, TypeOK
<1>3. PathRight /\ TriesLeft /\ CameraRight /\ ObserverRight /\ ProgressStateAlive
  BY DEF Init, PathRight, TriesLeft, CameraRight, FailureCloses, ObserverRight, ProgressStateAlive,
         Opening, Ended
<1>4. MemoryRight
  BY DEF Init, Memory!Init, MemoryRight, Untouched
<1> QED  BY <1>1, <1>2, <1>3, <1>4 DEF CInv

\* The steps that leave the memory alone.
LEMMA KeepsMemory == ASSUME CInv, UNCHANGED memoryVars PROVE Memory!TypeOK' /\ MP!MInv'
<1>1. MP!MInv'  BY MemoryNext DEF CInv
<1> QED  BY <1>1, MemoryTypes

LEMMA OpenStep == ASSUME CInv, Construct \/ OpenCamera PROVE CInv'
<1>1. UNCHANGED memoryVars
  BY DEF Construct, OpenCamera, InitCamera, InitCameraFails, StarterFirmwareNeeded, GetDuration,
         GetDurationFails, Upload, JoinProgress, ResetToDefault, ResetFails
<1>2. Memory!TypeOK' /\ MP!MInv'  BY <1>1, KeepsMemory
<1> USE CameraAssumption, <1>1, <1>2
    DEF CInv, TypeOK, PathRight, TriesLeft, CameraRight, FailureCloses, ObserverRight,
        ProgressStateAlive, MemoryRight, Untouched, Opening, Setup, Unwinding, Ended, driverVars, callVars,
        progressVars, observerVars, memoryVars
<1>3. CASE Construct              BY <1>3 DEF Construct
<1>4. CASE InitCamera             BY <1>4 DEF InitCamera, Opened, LimitExceeded
<1>5. CASE InitCameraFails        BY <1>5 DEF InitCameraFails
<1>6. CASE StarterFirmwareNeeded  BY <1>6 DEF StarterFirmwareNeeded
<1>7. CASE GetDuration            BY <1>7 DEF GetDuration
<1>8. CASE GetDurationFails       BY <1>8 DEF GetDurationFails
<1>9. CASE Upload
  <2>1. TypeOK'  BY ZenonT(40), <1>9 DEF Upload, UploadOutcome
  <2>2. PathRight' /\ TriesLeft' /\ CameraRight'  BY <1>9 DEF Upload, UploadOutcome
  <2>3. ObserverRight' /\ ProgressStateAlive' /\ MemoryRight'
    BY <1>9 DEF Upload, UploadOutcome
  <2> QED  BY <2>1, <2>2, <2>3
<1>10. CASE JoinProgress
  BY <1>10 DEF JoinProgress, HandlerJoined, Opened, LimitExceeded, Retry, LoopAgain
<1>11. CASE ResetToDefault        BY <1>11 DEF ResetToDefault
<1>12. CASE ResetFails            BY <1>12 DEF ResetFails
<1> QED
  BY <1>3, <1>4, <1>5, <1>6, <1>7, <1>8, <1>9, <1>10, <1>11, <1>12 DEF OpenCamera

LEMMA SetupStep == ASSUME CInv, TryBlock \/ Destroy PROVE CInv'
<1>1. MP!MInv'
  <2>1. CASE InitializeMemory
    BY <2>1, MemoryNext DEF InitializeMemory, Step, CInv, MemoryRight, Untouched
  <2>2. CASE UNCHANGED memoryVars  BY <2>2, KeepsMemory
  <2> QED
    BY <2>1, <2>2 DEF TryBlock, Destroy, PopulateSensorInfo, SetColorMode, MemoryInitialized,
                      SetDisplayMode, InitEvents, EnableEvents, SetDefaults, SetupFails
<1>2. Memory!TypeOK'  BY <1>1, MemoryTypes
<1> USE CameraAssumption, <1>1, <1>2
    DEF CInv, TypeOK, PathRight, TriesLeft, CameraRight, FailureCloses, ObserverRight,
        ProgressStateAlive, MemoryRight, Untouched, Opening, Setup, Unwinding, Ended, driverVars, callVars,
        progressVars, observerVars, memoryVars, Step, Throw
<1>3. CASE PopulateSensorInfo  BY <1>3 DEF PopulateSensorInfo
<1>4. CASE SetColorMode        BY <1>4 DEF SetColorMode
<1>5. CASE InitializeMemory    BY <1>5 DEF InitializeMemory, Memory!Initialize
<1>6. CASE MemoryInitialized   BY <1>6 DEF MemoryInitialized
<1>7. CASE SetDisplayMode      BY <1>7 DEF SetDisplayMode
<1>8. CASE InitEvents          BY ZenonT(40), <1>8 DEF InitEvents, Forced
<1>9. CASE EnableEvents        BY <1>9 DEF EnableEvents
<1>10. CASE SetDefaults        BY <1>10 DEF SetDefaults
<1>11. CASE SetupFails         BY <1>11 DEF SetupFails
<1>12. CASE Destroy            BY <1>12 DEF Destroy
<1> QED
  BY <1>3, <1>4, <1>5, <1>6, <1>7, <1>8, <1>9, <1>10, <1>11, <1>12 DEF TryBlock

LEMMA UnwindStep == ASSUME CInv, Unwind PROVE CInv'
<1>1. MP!MInv'
  <2>1. CASE CleanupMemory
    <3>1. Memory!Cleanup /\ pc = "cleanup"  BY <2>1 DEF CleanupMemory, Step
    <3>2. outcome # "none" \/ Untouched
      BY <3>1 DEF CInv, TypeOK, PathRight, MemoryRight, Opening, Setup
    <3> QED  BY <3>1, <3>2, MemoryNext, EmptyCleanup DEF CInv
  <2>2. CASE UNCHANGED memoryVars  BY <2>2, KeepsMemory
  <2> QED
    BY <2>1, <2>2 DEF Unwind, MemoryCleaned, SignalTerminate, JoinObserver, ExitEvents,
                      ExitCamera, ExitCameraFails
<1>2. Memory!TypeOK'  BY <1>1, MemoryTypes
<1> USE CameraAssumption, <1>1, <1>2
    DEF CInv, TypeOK, PathRight, TriesLeft, CameraRight, FailureCloses, ObserverRight,
        ProgressStateAlive, MemoryRight, Untouched, Opening, Setup, Unwinding, Ended, driverVars, callVars,
        progressVars, observerVars, memoryVars, Step, After
<1>3. CASE CleanupMemory    BY <1>3 DEF CleanupMemory, Memory!Cleanup
<1>4. CASE MemoryCleaned    BY <1>4 DEF MemoryCleaned
<1>5. CASE SignalTerminate  BY <1>5 DEF SignalTerminate, StopSignal
<1>6. CASE JoinObserver     BY <1>6 DEF JoinObserver, ObserverGone
<1>7. CASE ExitEvents       BY ZenonT(40), <1>7 DEF ExitEvents
<1>8. CASE ExitCamera
  <2>1. CASE path = "open"
    <3>1. /\ pc = "exit_camera" /\ camera' = "closed" /\ UNCHANGED <<path, nret, tries>>
          /\ uploadRetrys' = uploadRetrys + 1
          /\ pc' = IF uploadRetrys' <= UploadRetries THEN "init_camera" ELSE "thrown"
      BY <1>8, <2>1 DEF ExitCamera, Closed, Retry, LoopAgain
    <3>2. UNCHANGED <<outdated, statuses, unclosed, progress, state, observer, checked, step, outcome,
                      managed, allocated>>
      BY <1>8 DEF ExitCamera
    <3>3. events' = "none" /\ statusEvent' = FALSE /\ terminateEvent' = FALSE
      BY <1>8 DEF ExitCamera
    <3>4. TypeOK'
      <4>1. uploadRetrys \in Nat /\ uploadRetrys <= UploadRetries /\ UploadRetries \in Nat
        BY <2>1, <3>1
      <4>2. uploadRetrys' \in 0 .. UploadRetries + 1  BY <3>1, <4>1
      <4>3. pc' \in {"init_camera", "thrown"}  BY <3>1
      <4> QED  BY ZenonT(40), <3>1, <3>2, <3>3, <4>2, <4>3
    <3>5. PathRight' /\ TriesLeft' /\ CameraRight'  BY <2>1, <3>1, <3>2
    <3>6. ObserverRight' /\ ProgressStateAlive' /\ MemoryRight'  BY <2>1, <3>1, <3>2
    <3> QED  BY <3>4, <3>5, <3>6
  <2>2. CASE path = "catch"  BY ZenonT(40), <1>8, <2>2 DEF ExitCamera, Closed
  <2>3. CASE path = "dtor"
    <3>1. pc = "exit_camera" /\ pc' = "gone" /\ camera' = "closed" /\ UNCHANGED uploadRetrys
      BY <1>8, <2>3 DEF ExitCamera, Closed
    <3> QED  BY ZenonT(40), <1>8, <2>3, <3>1 DEF ExitCamera
  <2> QED  BY <1>8, <2>1, <2>2, <2>3 DEF ExitCamera
<1>9. CASE ExitCameraFails  BY <1>9 DEF ExitCameraFails, Closed, Retry, LoopAgain
<1> QED  BY <1>3, <1>4, <1>5, <1>6, <1>7, <1>8, <1>9 DEF Unwind

LEMMA OtherThreadsStep ==
  ASSUME CInv, ProgressEnds \/ (Observer /\ ~WaitFails) \/ RaiseStatus
  PROVE  CInv'
<1>1. MP!MInv'
  <2>1. CASE CallbackThrows        BY <2>1, AbandonStep DEF CallbackThrows, CInv
  <2>2. CASE UNCHANGED memoryVars  BY <2>2, KeepsMemory
  <2> QED
    BY <2>1, <2>2 DEF ProgressEnds, Observer, WaitStatus, WaitTerminate, HandleStatus, RaiseStatus
<1>2. Memory!TypeOK'  BY <1>1, MemoryTypes
<1> USE CameraAssumption, <1>1, <1>2
    DEF CInv, TypeOK, PathRight, TriesLeft, CameraRight, FailureCloses, ObserverRight,
        ProgressStateAlive, MemoryRight, Untouched, Opening, Setup, Unwinding, Ended, driverVars, callVars,
        progressVars, observerVars, memoryVars
<1>3. CASE ProgressEnds    BY <1>3 DEF ProgressEnds
<1>4. CASE WaitStatus
  <2>1. /\ observer = "wait" /\ observer' = "handle" /\ statusEvent' = FALSE
        /\ UNCHANGED <<camera, outdated, events, terminateEvent, statuses, callVars, progressVars,
                       checked, memoryVars>>
    BY <1>4 DEF WaitStatus
  <2>2. TypeOK'
    <3>1. statusEvent' \in BOOLEAN /\ observer' \in {"none", "wait", "handle", "done"}
      BY <2>1
    <3>2. UNCHANGED <<camera, outdated, events, terminateEvent, statuses, pc, path, uploadRetrys,
                      nret, tries, unclosed, progress, state, checked>>
      BY <2>1
    <3> QED  BY <3>1, <3>2
  <2>3. PathRight' /\ TriesLeft' /\ CameraRight'  BY <2>1
  <2>4. ObserverRight' /\ ProgressStateAlive'  BY <2>1
  <2>5. MemoryRight'  BY <2>1
  <2> QED  BY <2>2, <2>3, <2>4, <2>5
<1>5. CASE WaitTerminate   BY <1>5 DEF WaitTerminate
<1>6. CASE HandleStatus    BY <1>6 DEF HandleStatus
<1>7. CASE CallbackThrows  BY ZenonT(40), <1>7 DEF CallbackThrows, Memory!Abandon
<1>8. CASE RaiseStatus     BY <1>8 DEF RaiseStatus
<1> QED  BY <1>3, <1>4, <1>5, <1>6, <1>7, <1>8 DEF Observer

LEMMA MemoryStepStep == ASSUME CInv, MemoryStep PROVE CInv'
<1>1. MP!MInv'  BY MemoryNext DEF MemoryStep, CInv
<1>2. Memory!TypeOK'  BY <1>1, MemoryTypes
<1>3. Memory!Proceed  BY DEF MemoryStep
<1> QED
  BY <1>1, <1>2, <1>3, ProceedSeen
     DEF MemoryStep, CInv, TypeOK, PathRight, TriesLeft, CameraRight, FailureCloses, ObserverRight,
         ProgressStateAlive, MemoryRight, Untouched, Opening, Setup, Unwinding, Ended, driverVars,
         callVars, progressVars, observerVars

LEMMA NextCInv == CInv /\ [Next]_vars => CInv'
<1> SUFFICES ASSUME CInv, [Next]_vars PROVE CInv'  OBVIOUS
<1>1. CASE UNCHANGED vars \/ Finished \/ WaitFails
  <2>1. UNCHANGED vars  BY <1>1 DEF Finished, WaitFails
  <2>2. UNCHANGED memoryVars  BY <2>1 DEF vars
  <2>3. Memory!TypeOK' /\ MP!MInv'  BY <2>2, KeepsMemory
  <2> QED
    BY <2>1, <2>3 DEF vars, driverVars, callVars, progressVars, observerVars, memoryVars, CInv,
       TypeOK, PathRight, TriesLeft, CameraRight, FailureCloses, ObserverRight, ProgressStateAlive,
       MemoryRight, Untouched
<1> QED
  BY <1>1, OpenStep, SetupStep, UnwindStep, OtherThreadsStep, MemoryStepStep DEF Next

-------------------------------------------------------------------------------

\* In every reachable state the parts of CInv hold: where the code is, what of the
\* camera, its threads and its memory there is at that point.
THEOREM CameraInvariance == Spec => []CInv
BY InitCInv, NextCInv, PTL DEF Spec

\* The variables of the handle, its threads and its memory have their types.
THEOREM CameraTypeCorrect == Spec => []TypeOK
<1>1. CInv => TypeOK  BY DEF CInv
<1> QED  BY <1>1, CameraInvariance, PTL

\* A handle that could not be constructed, or was destroyed, leaves the camera closed,
\* unless the last try of is_ExitCamera failed on the open camera, or is_ResetToDefault
\* did behind an opening that succeeded, which nothing guards.
THEOREM FailuresClose == Spec => []FailureCloses
<1>1. CInv => FailureCloses  BY DEF CInv, CameraRight
<1> QED  BY <1>1, CameraInvariance, PTL

\* No thread and no entry of the buffer map survive the handle, however it ends.
THEOREM NothingIsLeft == Spec => []NothingLeftBehind
<1>1. CInv => NothingLeftBehind
  <2> SUFFICES ASSUME CInv, pc \in {"thrown", "gone"}
               PROVE  observer = "none" /\ progress = "none" /\ DOMAIN managed = {} /\ step = "idle"
    BY DEF NothingLeftBehind
  <2>1. observer = "none" /\ progress = "none" /\ step = "idle"
    BY DEF CInv, ObserverRight, ProgressStateAlive, MemoryRight
  <2>2. Untouched \/ outcome = "cleaned"
    BY DEF CInv, TypeOK, PathRight, MemoryRight, Setup, Opening
  <2>3. managed = Memory!NoBuffers
    BY <2>1, <2>2 DEF CInv, Untouched, MP!MInv, MP!AllFreed, Memory!NoBuffers, MP!NoBuffers
  <2> QED  BY <2>1, <2>3 DEF Memory!NoBuffers
<1> QED  BY <1>1, CameraInvariance, PTL

\* The camera is closed only after its buffers are freed and its observer is gone.
THEOREM CameraClosedLast == Spec => []ClosedLast
<1>1. CInv => ClosedLast
  <2> SUFFICES ASSUME CInv, camera = "closed", pc # "terminated"
               PROVE  observer = "none" /\ DOMAIN allocated \subseteq unfreed
    BY DEF ClosedLast
  <2>1. /\ path = "open" \/ pc \in {"none", "thrown", "gone"}
        /\ path \in {"open", "idle"} \/ outcome = "cleaned"
        /\ step = "idle" /\ pc # "ready"
    BY DEF CInv, TypeOK, PathRight, CameraRight, MemoryRight, Opening, Setup, Ended
  <2>2. observer = "none"
    BY <2>1 DEF CInv, PathRight, ObserverRight, Opening
  <2>3. Untouched \/ outcome = "cleaned"
    BY <2>1 DEF CInv, MemoryRight
  <2>4. DOMAIN allocated \subseteq unfreed
    BY <2>1, <2>3 DEF CInv, Untouched, MP!MInv, MP!AllFreed, Memory!NoBuffers
  <2> QED  BY <2>2, <2>4
<1> QED  BY <1>1, CameraInvariance, PTL

\* The progress handler never outlives the variable it refers to.
THEOREM ProgressAlive == Spec => []ProgressStateAlive
<1>1. CInv => ProgressStateAlive  BY DEF CInv
<1> QED  BY <1>1, CameraInvariance, PTL
================================================================================
