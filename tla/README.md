# ueye-wrapper: models, model checking and proofs

The library wraps the C API of IDS uEye cameras: it lists cameras, opens one
(uploading a starter firmware if necessary), and captures images into a ring of
locked buffers that are lent to a user callback on a thread pool. This
directory holds TLA+ models of its concurrent and failure-prone parts, the TLC
configurations that check them and proofs checked by TLAPS. Paths such as
`ueye_handle.cpp:166` are relative to `src/` or `include/` of the repository.

## The system

| component | code | state | operations |
|---|---|---|---|
| capture handle | `ueye_capture_handle.cpp` | dispatcher thread, thread pool, the events FRAME and TERMINATE_CAPTURE_THREADS, locks on buffers | construct (start capture), `trigger`, destroy; the dispatcher's loop; the pool task with the callback |
| image memory manager | `ueye_handle.cpp:1083-1229` | `std::map` address -> ID; the driver's allocations and sequence | `initialize`, `cleanup`, `getID` |
| camera handle | `ueye_handle.cpp:146-379, 834-1009` | driver handle, events, observer thread, image memory | constructor (`_open_camera`, set-up, catch block), destructor |
| capture status observer | `ueye_handle.cpp:878-935`, `wrapper_types.h:107-176` | observer thread, error statistics | wait, query, count, report |
| firmware progress handler | `ueye_handle.cpp:38-91, 293-317` | a thread per upload, the local `state`, the bar | run until told or timed out, join |
| frame rate | `ueye_handle.cpp:667-816` | pixel clock and frame rate of the camera | `setFPS` |
| auto controls and white balance | `ueye_handle.cpp:404-665` | HDR, auto exposure and white balance settings of the camera | `_set_AutoControl_default`, `setWhiteBalance` (mode, kelvin) |
| discovery | `ueye_wrapper.cpp:36-150` | the list being made, the driver's list | `getCameraList`, `getCameraConnectionInfo` |
| IP helpers | `ip_helpers.h` | none | conversions of addresses and masks |
| call wrapper | `wrapper_helpers.h`, `_api_wrapped` of each class | none; the driver's last error | `UEYE_API_CALL` |

How they interact. The application's thread constructs and destroys handles;
C++ scopes make a capture handle live within its camera handle
(`README.MD:78`). The camera handle owns the image memory and initialises the
four events; the capture handle waits for FRAME and TERMINATE_CAPTURE_THREADS,
the observer for CAPTURE_STATUS and TERMINATE_HANDLE_THREADS. The driver fills
buffers of the sequence that are not locked and signals FRAME; the dispatcher
asks for the buffer completed last, locks it, queries its info and pushes a task;
a worker runs the callback and unlocks the buffer. The observer queries the
driver's error counters and calls the application's error callback; the progress
handler of an upload reads a variable of the constructor. `setFPS` and
`setWhiteBalance` are sequences of driver calls on the application's thread.
Every driver call may fail, and the call wrapper turns that into an exception.

What is hard: the dispatcher's three driver calls are not atomic while the
driver goes on; frame events coalesce; terminate events are reset by hand and
shared by successive handles, and by handles that exist at the same time;
destruction stops driver, dispatcher and pool in turn; any call may throw with
threads running or buffers locked, with half of a setting made or half of a list
read; the constructor of the camera handle cleans up what it has set up so far;
numbers change their type and their byte order on the way to the driver.
`PROJECT.json` lists these hazards line by line with the properties that watch
them.

## The modules

### ImageLease - what the wrapper promises

The abstract specification of `README.MD:70`: each buffer is the driver's, being
filled, the wrapper's or the user's, and goes from one to the other in that
order; the image of a buffer that is away from the driver does not change;
frames are numbered upwards; nothing is lent without a capture handle, and a
handle ends only when nothing is lent.

### CaptureHandle - the core

One camera whose handle is open, and capture handles constructed one after the
other. Variables, by thread:

* driver: `capture` (off, armed for software trigger, single frame, live,
  stopping), `filling`, `last`, `frames`, `image` (the frame number each buffer
  holds, 0 for none or torn), `locked`, `frameEvent`, `terminateEvent`;
* dispatcher: `disp`, its next call (`wait`, `get`, `lock`, `info`, `done`), and
  `cur`, its `imgMemPtr`. One action per driver call of the loop
  (`ueye_capture_handle.cpp:134-254`); `DispatchFails` is the catch-all;
* pool: `queue`, and `phase` and `task` of each worker. `BeginCallback` is
  scaling and the call, `EndCallback` its end, `UnlockSeqBuf` the rest of the task;
  `TaskThrows` is what leaves the task (an unlock error, an exception that is no
  `std::exception`) and ends the process;
* application: `handle`, its next call in `_start_capture`, `trigger`,
  `_stop_capture` and `_stop_threads`. `ConstructorThrows` and
  `DestructorThrows` are the errors that end in `std::terminate`: a joinable
  `std::thread` member, and a `noexcept` destructor. The former is two steps: the members
  are destroyed from the last to the first, so that the pool waits for its tasks
  while the dispatcher, still running, dispatches more (`handle = "unwind"`), and the thread
  comes after it (`MembersDestroyed`).

A failing wait (`WaitFails`, here and in the observer's two models) changes nothing and the
loop waits again.

`MCCaptureHandle` adds the symmetry of the workers.

Assumptions about the driver and the pool, stated as actions marked external:
the sequence is a ring that skips locked buffers; `is_LockSeqBuf` refuses a
buffer that is locked or being filled; `is_GetActSeqBuf` reports the buffer
completed last; an auto-reset event is one bit; `is_StopLiveVideo(IS_WAIT)`
returns after the transfer in progress; the pool is first in, first out;
`is_Event` set or reset succeeds in the end. `FrameFirst` says whether a wait
with both events signalled reports the first of its list. The SDK does not say;
the safety run allows either, the liveness run assumes it (see below).

### ImageMemory

`initialize()` as the loop it is: allocate, add to the sequence, in the catch
block free what was allocated, then make the map entry - in failed rounds too.
`cleanup()` clears the sequence and frees entry by entry in the order of the
map. The driver's allocator returns any free address and ID, so an address can
come back with another ID.

### CameraHandle

The constructor, call by call: `_open_camera` with its upload loop and progress
handler, the set-up in the try block, the catch block (memory, threads, camera)
and the destructor (threads, events, memory, camera), told apart by `path`; the
observer thread and its two events. The image memory is an instance of
ImageMemory on the same variables: `InitializeMemory` and `CleanupMemory` start
its operations and `MemoryStep` runs them, so that every failure inside
`initialize()` reaches the catch block. `_set_AutoControl_default` and
`setWhiteBalance(AUTO)` are one step that may fail. `uploadRetrys` is the
counter of the code, compared twice as the code does. A failed upload may have
brought the firmware to the camera, and with a pairing error, which the code takes for
"a possible success" (`ueye_handle.cpp:325`), may have opened it (`UploadOutcome`): then
the handle that is closed before the next round may be open or not, a close that is given
up leaves it open for that round, and the next `is_InitCamera` may find firmware and
succeed. `unclosed` is no variable of the code: it records the call whose failure has left the camera
open, if one has.

### SharedCamera

Several capture handles alive at once on one camera; nothing in
`getCaptureHandle` prevents it. What the handles share is kept once (buffers,
locks, `frameEvent`, `terminateEvent`), the rest per handle: `handle`, `disp`,
`cur`; `tasks` is the set of tasks of all pools. No call fails and the handles are of type
TRIGGER: the failures are CaptureHandle's subject. `parallel`, chosen at the start,
says whether each handle belongs to a thread of its own or one thread uses them
all. It is shown to implement the same ImageLease as a single handle.

### CaptureStatus

The observer's loop with `captureErrors::update`: `cnt`, the driver's cumulative
counters; `info`, those queried; `next`, the entry of `errorMapper` reached;
`told`, how much of each counter the application has been told of. `StatOf` makes an entry
an alias of another's statistics. A failing query and a throwing callback cut the loop
off; `reach` records, for the latest event, up to where.

### FrameRate

`setFPS`: query the frame times; if the rate asked for is too high for the
clock, make the list of clocks (`PushClock`, step by step from the range, or
queried as a list), find the current one and go up until a clock suffices. A camera has
a list of clocks, a range of them, or both (`ListsOf`): if the query of the range fails, the
list is asked for instead (`NoRangeInfo`). Rates are integers; what doubles round to is not
modelled.

### AutoControl

`_set_AutoControl_default`, as the constructor calls it, and `setWhiteBalance`
for AUTO and for a temperature, one action per driver call. `M` and what the
camera supports are chosen at the start; the temperature is an `int` that becomes an
`unsigned int` of `Word` values and back. `buffer` is the configuration structure that
every cleanup handler and the normal path delete. The fallbacks of the code
(HDR, colour model, unknown range) are actions of their own, `Throws` is what leaves
`setWhiteBalance`.

### IpHelpers and CameraDiscovery

IpHelpers has the conversions between the driver's words, bytes, netmasks and
texts, with the byte a parameter of `B` bits. CameraDiscovery is `getCameraList` and
`getCameraConnectionInfo`, which use them: cameras come, go and are opened elsewhere
between the calls (`Arrives`, `Leaves`, `OpenedOrClosed`), and `buffers` counts the
driver's lists that are allocated. `there` is no variable of the code: the cameras that
were there when the driver's list was read. The number of cameras is read first and is the
room for the list; `dwCount` is the count in the list, which the driver is assumed to set to
what it filled, and the loop goes by it (`Count`), as the list may be shorter. The loop of `u32_to_cidr` runs step by step
(`CountBit`), because it does not end for every mask: shifting a 32-bit word by 32 is
undefined behaviour in C++, and `wraps` chooses between the two results that
processors give. The text of an autoconfigured range is left out.

### UploadProgress

`uploadProgressHandlerBar` and the thread that starts, informs and joins it, with
the clock in units of time; a sleeping thread wakes up at most `Latency` late. The handler reads `state` twice in a turn; the
constructor writes it without synchronisation at any moment. CameraHandle has this handler as
one that ends some time; `HandlerEnds` here is what justifies that.

### ApiCall

The wrapper behind `UEYE_API_CALL` on several threads of one camera: the call,
the query for the text of the last error, the copy of that text, the cleanup
handler, the exception. `LastError` is the driver's choice of the error it describes; a query
that fails goes on without a text (`WithoutText`). In the other modules a failing call is one step.

How they fit together. CameraHandle runs ImageMemory as an instance on its own
variables and has the observer and the progress handler as threads whose inner
steps are CaptureStatus and UploadProgress; its step `defaults` is AutoControl's
first call. CaptureHandle assumes an open camera with initialised events, which
CameraHandle's state `ready` is, and gives back what `ClosedLast` needs: no task and no
lock. SharedCamera repeats the core of CaptureHandle for several handles and
promises the same ImageLease.

## The runs

| run | module | shows |
|---|---|---|
| `CaptureSafety` | MCCaptureHandle | safety under every interleaving and every failure: `CallbackExclusive`, `ImageMatchesInfo`, `OrderedDispatch`, `QuietWhenDestroyed`, `DispatcherAlive`, and that the handle implements `ImageLease` |
| `CaptureLiveness` | MCCaptureHandle | with `is_CaptureVideo` as the only call that fails: `DestructionCompletes` (also of a construction that is given up), `LocksAreReturned`, `AllUnlocked`, `NewestShown`, `NoStaleFrame` |
| `CaptureScaling` | MCCaptureHandle | violated: `ScaledOnce` |
| `MemorySafety` | ImageMemory | under every failure: `DeliveredManaged`, `AllocatedManaged`, `AllFreed` |
| `Camera` | CameraHandle | under every failure: `FailureCloses`, `NothingLeftBehind`, `ClosedLast`, `ProgressStateAlive`, `CallsEnd` (construction and destruction), `InitialStatusHandled` |
| `Shared` | SharedCamera | two handles, on one thread of the application or on two: `SharedInv` (`TypeOK`, `CallbackExclusive`, `QuietWhenDestroyed`, `AllUnlocked`), `ImageMatchesInfo`, ImageLease implemented by both together, `DestructionCompletes` |
| `Status` | MCCaptureStatus | errors at any moment, failing queries, throwing callbacks: `NoErrorMissed`, `EveryErrorReported` |
| `Rate` | MCFrameRate | under every failure: `RateInv` (`TypeOK`, `ClocksComplete`, `NoOvershoot`), `FallsShortOnlyIfMust`, `CallEnds` |
| `Balance` | MCAutoControl | under every failure, in the constructor and after: `AutoSupported`, `RequestGranted` (`RequestHolds`, `TemperatureNearest`), `ThrownNeverEnables`, `FreedOnce` |
| `Discovery` | MCCameraDiscovery | under every failure and change: `ListInv` (`ListComplete`, `ConnectionRight`), `FreedButForConnections`, `CallEnds`; `TextRight` (`PrefixRight`, `ReadsBack`) against bit-wise definitions |
| `Progress` | MCUploadProgress | `ProgressInv` (`BarHonest`, `JoinPrompt`), `Joins` (which contains `HandlerEnds`) |
| `ApiErrors` | MCApiCall | three threads failing at once: `ApiInv` (`TextIsOwnOrNewer`) |

Bounds. `CaptureSafety`: three buffers and three workers are the library's
default concurrency; four frames make the ring wrap around with buffers locked;
two handles cover everything a handle can inherit from another (a left-over
event, lock or buffer). `CaptureLiveness` has two buffers, two workers, three
frames, so that all buffers can be locked and the ring still wraps; no symmetry,
which would be unsound for liveness. `MemorySafety` has three rounds with as
many addresses and IDs as rounds: every reuse of a freed address occurs.
`Camera` has the code's three uploads and three tries to close, two
buffers and two status events besides the initial one. `Shared` has two
handles, two buffers, three frames and three constructions, so that one handle is
destroyed and made anew while the other lives. `Status` has three codes,
two of them aliases as in `errorMapper`, and four errors: one more than codes, so that
one repeats. `Rate` has every range and every non-empty list of clocks up
to 4, a range also with the list of the same clocks, and every limit of the rate per clock, monotonic or not. `Balance` has
words of four bits, a scale of one temperature and one with room on both sides,
and requests below, at, in and above them, the smallest and the largest int
included. `Discovery` has one call and two cameras, one of any kind and one of three; with bytes of two bits there are nine contiguous netmasks, all of which occur,
and three with gaps. `Progress` has estimates below, on and between multiples of
the interval, a latency above the interval (so that a handler can sleep past a whole turn), and runs
the clock past the longest. `ApiErrors` has four failures on three
threads, so that a thread is overtaken by both others and fails again.

`MaxFrames`, `MaxHandles`, `MaxStatus`, `MaxErrors`, `MaxFailed`, `MaxCalls` and `MaxTime`
are bounds the code does not have; they stop the driver, the application or (the last) the
whole system after everything has ended, never a thread of the library before;
`MaxMask` ends the counting of a loop that does not end by itself.
`CHECK_DEADLOCK FALSE` stands where the code may really stop: in `Discovery`, in that
loop or after the last call, and in `Shared`, in the destructor described below.

Fairness. Each thread of the library takes a step it can take (the operating
system schedules it), a transfer that has begun ends, callbacks and progress
handlers return. Nothing is assumed of the application (it need not trigger or
destroy) or of when the camera sends frames or errors. A call in progress
(`setFPS`, `getCameraList`, a conversion) goes on, and so does the clock of
UploadProgress. `DestructionEnds` (in `CallsEnd`) relies
on `MaxStatus`: an observer that is kept busy by endless errors, and is always
told the status event first, would never see the terminate event. A wait that fails is no step
of its thread (`WaitFails` stutters): what is assumed is that it does not fail for ever.

### Where code and expectation part

The run `CaptureScaling` shows one disagreement between the code and its
documentation, told in `PROJECT.json`, `findings`. The other modules contain what the
code does in these places too, and their properties are stated so that they name the
exception:

* `is_GetImageInfo` fails after the buffer was locked (`ueye_capture_handle.cpp:170`):
  nothing unlocks it. `AllUnlocked` is checked and proved for environments in which
  that call does not fail; nothing excludes the leak where it does.
* `_start_capture` throws in the constructor (`ueye_capture_handle.cpp:79`) with the
  dispatcher thread joinable: `std::terminate`, once the pool has done its tasks.
  `DestructionCompletes` says that this point is reached. `_stop_capture` throwing out of the
  destructor (`ueye_capture_handle.cpp:330`) and `is_UnlockSeqBuf` out of a task
  (`ueye_capture_handle.cpp:240`) end the process at once; no property is about these two.
* `initialize()` makes the map entry in failed rounds too (`ueye_handle.cpp:1144`), so
  that it returns without a single buffer instead of throwing; `DeliveredManaged` says
  what is nevertheless true of the buffers that are delivered.
* `is_ResetToDefault` fails (`ueye_handle.cpp:378`) outside of the constructor's try
  block: the camera stays open, though `ueye_handle.cpp:195` says that the opening "will
  cleanup after itself". `FailureCloses` says that a camera is left open only by the
  failure of this call or of the last try of `is_ExitCamera`, and `unclosed` records that it was that call
  which failed.
* The catch block of the constructor repeats `IS_EVENT_CMD_SET`
  (`ueye_handle.cpp:216`), for an event that may not have been initialised. With
  `SetNeedsInit = TRUE`, a driver that refuses that, `ConstructionEnds` (in `CallsEnd`) does not hold;
  the SDK does not say, and the run has `FALSE`, so no property of it would find the hang.
  The safety proofs cover both.
* The destructor of a capture handle resets the terminate event of the camera
  (`ueye_capture_handle.cpp:302`), perhaps before another handle's dispatcher, whose
  destructor runs in another thread, has seen it: that destructor waits forever
  (`Robbed`). `DestructionCompletes` of SharedCamera names the case; on one thread it
  does not arise. The same event ends the dispatchers of handles that are not being
  destroyed (`ueye_capture_handle.cpp:274`): they get no image any more.
* `captureErrors::update` reports every code whose cumulative counter is not zero,
  at every event (`wrapper_types.h:166`), so errors are reported again and again;
  none is missed (`NoErrorMissed`).
* `!nSupportedModels & defaultColorModel` (`ueye_handle.cpp:644`) negates before it
  masks: the default colour model is set unchecked, for grey world too. No property is
  about the colour model, and the type is set anew before each enabling.
* `getCameraConnectionInfo` throws out of `getCameraList` (`ueye_wrapper.cpp:117`)
  past the list, which is lost: `FreedButForConnections` counts these. And it does not
  return for a netmask of the whole width where shifts wrap: `CallEnds`.
* Another thread's call may fail between a call and the query for its text, which is then
  the text of that thread's error (`ueye_handle.cpp:117`). `ApiInv` allows this and
  excludes an older error and the text of a query that failed.

With `FrameFirst = FALSE`, `NewestShown` and `NoStaleFrame` do not hold: the
dispatcher may be told to terminate with a frame pending, the frame is not shown,
and its event wakes the dispatcher of the next handle, which then shows an image
captured before it was constructed.

## The proofs

`CaptureHandleProofs` proves, for every number of buffers, workers, frames and
handles, both values of `FrameFirst` and `Scaling` and every set of failing
calls, that `IInv` is an invariant of `Spec`, and from it `TypeOK`,
`CallbackExclusive`, `ImageMatchesInfo`, `OrderedDispatch`, `QuietWhenDestroyed` and
`DispatcherAlive`. The only assumption is `ConstantsAssumption` on the types of
the constants.

The properties are not inductive: nothing in `CallbackExclusive` says that a
task that still waits has its lock. `IInv` adds

* `TasksHoldLocks` - every task in flight has the lock on its buffer, which
  still holds its frame, and the buffer being filled is not locked;
* `TasksDisjoint` - no two tasks have the same buffer;
* `DispatcherHolds` - what the dispatcher knows between its calls: there is a
  last buffer once an event was signalled, and after the lock it is alone with it;
* `FramesIncrease` - frame numbers of different buffers differ, the last buffer
  holds the newest, and the frame about to be dispatched is newer than those of
  all tasks on other buffers. This is what carries `OrderedDispatch` over the
  steps between `is_GetActSeqBuf` and `push_task`, while further frames arrive;
* `ThreadsFollowHandle` - which threads run and whether the camera captures at
  each step of the application.

The proof has one lemma per action that touches buffers or tasks and one per
group of actions that do not.

The module proves further, as `Refinement`, that CaptureHandle implements ImageLease, for
the same constants. Each step is mapped to one of ImageLease or to a stutter: a frame
begun or completed to `Fill` or `Complete`, the lock to `Take`, the callback's
begin and end to `Lend` and `Reclaim`, the unlock to `Return`, the first step of
the constructor and the last of the destructor to `Open` and `Close`,
`std::terminate` to `Abandon`. It needs one fact more than `IInv`:
`CurrentComplete`, that the buffer the dispatcher asked for holds an image unless
the driver is overwriting it.

Its last part proves what depends on the environment, each theorem with
the assumption it needs as its hypothesis:

| theorem | property | hypothesis | without it |
|---|---|---|---|
| `NoLockLeft` | `AllUnlocked` | `is_GetImageInfo` does not fail | the buffer stays locked |
| `FreshFrames` | `NoStaleFrame` | `FrameFirst` | a stale frame, see "The runs" |
| `NewestFrame` | `NewestShown` | `FrameFirst`, and none of the dispatcher's three calls fails | the frame is skipped |

`NoLockLeft` rests on `LocksOwned` (every lock is a task's, or the dispatcher's
between lock and push), `FreshFrames` on `Fresh` (whatever can still become a
task is newer than the handle, and no frame event survives the dispatcher), and
`NewestFrame` on both and on `NewestUnderway`, which follows the newest frame from
its event to its callback; the delicate case is a lock that is refused because the
buffer is being filled again (a newer frame is coming) or is locked already (a
task has that very frame).

`ImageMemoryProofs` proves `TypeOK`, `DeliveredManaged`, `AllocatedManaged` and
`AllFreed` of ImageMemory for any number of rounds, addresses and IDs, by the
invariant `MInv`: during a round the one buffer without an entry is that of the
round (`NoneLost`), and an entry is wrong only for an address that is not
allocated (`EntriesRight`). The assumption is `MemoryAssumption`, on types.

`CameraHandleProofs` proves `TypeOK`, `FailureCloses`, `NothingLeftBehind`, `ClosedLast`
and `ProgressStateAlive` of CameraHandle for any number of retries and buffers and any failing
calls. The invariant `CInv` says for each path where the
code can be (`PathRight`), where the camera is open and by whose failure (`CameraRight`), that
a try to close is left where one is made (`TriesLeft`), where the observer
may still be alive (`ObserverRight`) and how far the memory is (`MemoryRight`);
what the memory manager does is not proved again but taken from
`ImageMemoryProofs`, instantiated on the same variables: `ClosedLast` follows from
`AllFreed` and from where `outcome` is `"cleaned"`. `CameraAssumption` asks that the
addresses and IDs are positive and that the call `initializing` is not in `MayFail` (it fails as the
memory manager does).

`ThreadProofs` has what runs on threads beside the handle, three components in one
module; it extends all three, which is why the names of the specifications of
UploadProgress and ApiCall begin with `Upload` and `Call`.

* CaptureStatus: `StatusInv`, hence `NoErrorMissed`, for any number of codes, any
  aliases, errors and callbacks, and that a report is never taken back
  (`ReportsNeverShrink`). The part that carries it is `QueriedFresh`: the counters
  queried are the driver's unless the event is signalled again.
* UploadProgress: `ProgressInv` for every interval, estimate and latency. `OnTime` of the
  invariant `UploadInv` ties the counter to the clock, and `Noticed` says that the handler
  sleeps an interval and a latency at most after the end of the upload.
* ApiCall: `ApiInv` for any number of threads and errors. `HandledErrors` of the
  invariant `CallInv` follows an error from the call that failed to the text of its
  exception while other threads fail in between.

`AutoControlProofs` proves the four invariants of `Balance` for any camera, any
set of failing calls, any requests and any width of an int, under
`AutoControlAssumption` (temperatures are positive and fit an int). Its invariant
`AInv` follows the temperature on its way (`KelvinRight`: the request as unsigned, then
the nearest of the range) and what has been prepared by the time auto white balance
is enabled (`Prepared`); `ClampedNearest` is the fact about max and min.

`SharedCameraProofs` proves of several handles on one camera what CaptureHandleProofs
proves of one: `SharedInv`, `ImageMatchesInfo` and that they implement ImageLease
together, for any number of handles, buffers, frames and constructions, with an
application of one thread or of several. The assumption is `SharedAssumption`, on types.
What is new in the invariant `SInv` is who owns what: `LocksOwned` gives every lock to a
task of some pool or to the dispatcher of one handle between its lock and its push,
`TasksApart` keeps the tasks of all pools on different buffers, and `ThreadsFollowHandle`
says for each handle by itself which of its threads run. The terminate event, which
all handles share, occurs in none of these parts: that it is taken by the wrong dispatcher costs
termination (`Robbed`), not safety, and the proof shows it.

`FrameRateProofs` proves `RateInv` and `FallsShortOnlyIfMust` of setFPS, for any camera
that `FrameRateAssumption` admits: its clocks are a range of natural numbers with a
positive increment, an ascending list of them, or both, and every clock has a limit of its rate.
The invariant `FInv` says what is in the list while it is made (`ClocksFound`: the
first clocks of the range, none left out), that the options still to be tried are
those above the current clock (`OptionsRight`), and which rate the current clock is known to
allow (`RateKnown`); `NoOvershoot`, which is part of `RateInv`, is the invariant of the search. `GridFilled` is the fact about the loop: when the next
clock is above the maximum, the list has exactly the clocks of the range, also where the
maximum is not one of them.

`CameraDiscoveryProofs` proves the three invariants of `Discovery`: for any set of
cameras, whatever comes, goes and fails between the calls, and bytes of any width.
`DInv` keeps three lists in step, the driver's (`ListRead`), the one that is made
(`ListFollows`) and what is known of the entry that is asked about (`EntryKnown`); the
delicate part is that the number of cameras and the list are two calls, where `ListRead`
needs that a camera that leaves makes room (`Leaving`) and that the list chosen by the
driver is all of the cameras when nobody has come (`ReadList`). `TInv` adds the text:
`Counting`, that the loop of `u32_to_cidr` has not passed a shift that ends it, and
`TextKnown`, what a listed address is made of. `LoopResult` shows that the loop, where it
ends, ends at the last bit of the netmask, for either result of the undefined
shift; `BitOfMask` that the reversal of the bytes puts the bits in the order in which
they are written; `ReadAddress`, `OnesAndZeros` and `MaskOfPrefix` that the functions
for texts undo those for words.

The provers know nothing of exponentiation, and these theorems have its defining
equation, `2 ^ (n + 1) = 2 * 2 ^ n` for every natural number n, as their hypothesis
`Exponentiation`. What is proved from it (`PowerSum`, `Digits`, `Quotient` and the
lemmas on bits) needs induction over numbers: `Induction` states it for a set, from the
well-foundedness of `<` and the existence of minimal elements in `WellFoundedInduction`.

Every invariant and every action property that the passing runs check is thus proved for all
values of the constants. Only model-checked are the liveness properties
(`DestructionCompletes`, `LocksAreReturned`, `CallsEnd`, `InitialStatusHandled`,
`EveryErrorReported`, `Joins` and the `CallEnds` of FrameRate and CameraDiscovery):
they need fairness and ENABLED, which are out of the prover's reach. The violation
is TLC's alone.

## Not modelled

* Log lines, messages and how they are formatted, and the drawing of the progress bar.
* Pixel formats and colour modes, selected at compile time (`wrapper_types.h`,
  `ueye_handle.h`), apart from `M`, which decides the white balance; scaling is
  modelled by how often it is applied to an image.
* Rounding of doubles in `setFPS`; the conversion of time stamps.
* Concurrent reads of `errorStats` by the application (`wrapper_types.h:168`): a data
  race for which the code promises nothing that could be checked.
* A camera that is lost for good while `_stop_threads` repeats `is_Event`: the
  models assume that an event can be set in the end, and the destructor does not return
  otherwise.
* `ip_u32_to_bytes` and `ip_valid_cidr`, which nothing calls; `openCamera` and
  `getCaptureHandle`, which only pass their arguments on.
* The example program and the build files.

## The plan

What may follow: an abstract specification of the camera handle's life (closed, opening,
ready, closing) that CameraHandle implements, with the threads and the memory
hidden; and failing calls in SharedCamera, whose proofs would then need the cases of
CaptureHandle's `DispatchFails` for each handle.
