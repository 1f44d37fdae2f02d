-------------------------- MODULE SharedCameraProofs --------------------------
(***************************************************************************)
(* Proofs about SharedCamera, for every number of buffers, any set of      *)
(* places that hold a handle and both orders of reporting events: SInv is  *)
(* inductive, the safety properties follow from it, and all handles        *)
(* together implement ImageLease.                                          *)
(***************************************************************************)
EXTENDS SharedCamera, TLAPS

-------------------------------------------------------------------------------
(* Facts about tasks. *)

\* A task has a handle, a buffer, a frame and a phase.
LEMMA TaskTypes ==
  ASSUME TypeOK, NEW t \in tasks
  PROVE  /\ t \in Task /\ t.handle \in Handles /\ t.buf \in Buffers
         /\ t.frame \in Nat /\ t.phase \in Phases
<1>1. t \in Task  BY DEF TypeOK
<1> QED  BY <1>1 DEF Task

\* A task that advances keeps everything but its phase.
LEMMA Advanced ==
  ASSUME TypeOK, NEW t \in tasks, NEW to \in Phases
  PROVE  LET u == [t EXCEPT !.phase = to]
         IN  /\ u \in Task /\ u.handle = t.handle /\ u.buf = t.buf
             /\ u.frame = t.frame /\ u.phase = to
<1>1. t \in Task  BY TaskTypes
<1> QED  BY <1>1 DEF Task

-------------------------------------------------------------------------------
(* The invariant: the initial states, the driver's steps. *)

LEMMA InitSInv == Init => SInv
<1> SUFFICES ASSUME Init PROVE SInv  OBVIOUS
<1>1. TypeOK
  <2>1. 0 \in 0 .. MaxHandles  BY SharedAssumption
  <2> QED  BY <2>1 DEF Init, TypeOK
<1>2. TasksHoldLocks /\ TasksApart /\ CurrentKnown /\ ImagesComplete
  BY DEF Init, TasksHoldLocks, ImageMatchesInfo, TasksApart, CurrentKnown, ImagesComplete
<1>3. LocksOwned /\ ThreadsFollowHandle
  BY DEF Init, LocksOwned, ThreadsFollowHandle
<1> QED  BY <1>1, <1>2, <1>3 DEF SInv

LEMMA BeginFrameStep == ASSUME SInv, BeginFrame PROVE SInv'
<1> USE DEF SInv, driverVars, eventVars, dispVars, appVars
<1>1. PICK b \in Buffers \ locked : filling' = b /\ image' = [image EXCEPT ![b] = 0]
  BY DEF BeginFrame, NextBuffers
<1>2. /\ UNCHANGED <<freeze, last, frames, locked, frameEvent, terminateEvent, disp, cur, tasks,
                     parallel, handle, constructed>>
      /\ filling = 0 /\ image' \in [Buffers -> Nat] /\ b \in Nat /\ b # 0
  BY <1>1 DEF BeginFrame, TypeOK, Buffers
<1>3. TypeOK'  BY <1>1, <1>2 DEF TypeOK
<1>4. TasksHoldLocks'
  BY <1>1, <1>2, TaskTypes DEF TasksHoldLocks, ImageMatchesInfo, TypeOK
<1>5. TasksApart' /\ CurrentKnown' /\ LocksOwned' /\ ThreadsFollowHandle'
  BY <1>2 DEF TasksApart, CurrentKnown, LocksOwned, ThreadsFollowHandle
<1>6. ImagesComplete'
  <2>1. \A c \in Buffers : c # b => image'[c] = image[c]
    BY <1>1, <1>2 DEF TypeOK
  <2>2. image'[b] = 0  BY <1>1 DEF TypeOK
  <2>3. last # 0 => last \in Buffers /\ last # filling  BY <1>2 DEF TypeOK, Buffers
  <2>4. \A h \in Handles : disp[h] \in {"lock", "info"} => cur[h] \in Buffers /\ cur[h] # filling
    BY <1>2 DEF TypeOK, CurrentKnown, Buffers
  <2> QED  BY <1>1, <1>2, <2>1, <2>2, <2>3, <2>4 DEF ImagesComplete, TypeOK
<1> QED  BY <1>3, <1>4, <1>5, <1>6

LEMMA EndFrameStep == ASSUME SInv, EndFrame PROVE SInv'
<1> USE DEF SInv, driverVars, eventVars, dispVars, appVars
<1>1. /\ filling \in Buffers /\ filling \notin locked
      /\ filling' = 0 /\ last' = filling /\ frames' = frames + 1
      /\ image' = [image EXCEPT ![filling] = frames + 1] /\ frameEvent' = TRUE /\ freeze' = FALSE
      /\ UNCHANGED <<locked, terminateEvent, disp, cur, tasks, parallel, handle, constructed>>
  BY DEF EndFrame, TypeOK, TasksHoldLocks
<1>2. /\ image' \in [Buffers -> Nat] /\ frames \in Nat /\ filling # 0
      /\ image'[filling] = frames + 1
      /\ \A c \in Buffers : c # filling => image'[c] = image[c]
  BY <1>1 DEF TypeOK, Buffers
<1>3. TypeOK'  BY <1>1, <1>2 DEF TypeOK
<1>4. TasksHoldLocks'
  <2>1. 0 \notin locked  BY DEF TypeOK, Buffers
  <2> QED  BY <1>1, <1>2, <2>1, TaskTypes DEF TasksHoldLocks, ImageMatchesInfo
<1>5. TasksApart' /\ CurrentKnown' /\ LocksOwned' /\ ThreadsFollowHandle'
  BY <1>1, <1>2 DEF TasksApart, CurrentKnown, LocksOwned, ThreadsFollowHandle
<1>6. ImagesComplete'
  <2>1. \A c \in Buffers : image'[c] <= frames + 1
    BY <1>2 DEF ImagesComplete, TypeOK
  <2>2. \A h \in Handles : disp[h] \in {"lock", "info"} => image'[cur[h]] # 0
    BY <1>2 DEF ImagesComplete, TypeOK, CurrentKnown
  <2> QED  BY <1>1, <1>2, <2>1, <2>2 DEF ImagesComplete
<1> QED  BY <1>3, <1>4, <1>5, <1>6

-------------------------------------------------------------------------------
(* The dispatchers. *)

LEMMA WaitStep == ASSUME SInv, NEW h \in Handles, WaitFrame(h) \/ WaitTerminate(h) PROVE SInv'
<1> USE DEF SInv, driverVars, eventVars, dispVars, appVars, WaitFrame, WaitTerminate
<1>1. /\ disp[h] = "wait" /\ disp'[h] \in {"get", "done"}
      /\ \A g \in Handles \ {h} : disp'[g] = disp[g]
      /\ disp'[h] = "get" => last # 0
      /\ frameEvent' => frameEvent
  BY DEF TypeOK, CurrentKnown
<1>2. UNCHANGED <<driverVars, locked, cur, tasks, appVars>>  OBVIOUS
<1>3. TypeOK'  BY DEF TypeOK
<1> USE <1>1, <1>2
<1>4. TasksHoldLocks' /\ TasksApart'  BY DEF TasksHoldLocks, ImageMatchesInfo, TasksApart
<1>5. CurrentKnown' /\ ImagesComplete'  BY DEF CurrentKnown, ImagesComplete
<1>6. LocksOwned' /\ ThreadsFollowHandle'  BY DEF LocksOwned, ThreadsFollowHandle
<1> QED  BY <1>3, <1>4, <1>5, <1>6

LEMMA GetActSeqBufStep == ASSUME SInv, NEW h \in Handles, GetActSeqBuf(h) PROVE SInv'
<1> USE DEF SInv, driverVars, eventVars, dispVars, appVars, GetActSeqBuf
<1>1. /\ disp[h] = "get" /\ disp'[h] = "lock" /\ cur'[h] = last /\ last \in Buffers
      /\ last # filling => image[last] # 0
      /\ \A g \in Handles \ {h} : disp'[g] = disp[g] /\ cur'[g] = cur[g]
  BY DEF TypeOK, CurrentKnown, ImagesComplete, Buffers
<1>2. UNCHANGED <<driverVars, locked, eventVars, tasks, appVars>>  OBVIOUS
<1>3. TypeOK'  BY DEF TypeOK
<1> USE <1>1, <1>2
<1>4. TasksHoldLocks' /\ TasksApart'  BY DEF TasksHoldLocks, ImageMatchesInfo, TasksApart
<1>5. CurrentKnown' /\ ImagesComplete'  BY DEF CurrentKnown, ImagesComplete, Buffers
<1>6. LocksOwned' /\ ThreadsFollowHandle'  BY DEF LocksOwned, ThreadsFollowHandle
<1> QED  BY <1>3, <1>4, <1>5, <1>6

LEMMA LockSeqBufStep == ASSUME SInv, NEW h \in Handles, LockSeqBuf(h) PROVE SInv'
<1> USE DEF SInv, driverVars, eventVars, dispVars, appVars, LockSeqBuf, Lockable
<1>1. /\ disp[h] = "lock" /\ disp'[h] = "info" /\ cur[h] \in Buffers
      /\ cur[h] # filling /\ cur[h] \notin locked /\ locked' = locked \cup {cur[h]}
      /\ \A g \in Handles \ {h} : disp'[g] = disp[g]
  BY DEF TypeOK, CurrentKnown
<1>2. UNCHANGED <<driverVars, eventVars, cur, tasks, appVars>>  OBVIOUS
<1>3. TypeOK'  BY <1>1 DEF TypeOK
<1> USE <1>1, <1>2
<1>4. TasksHoldLocks'  BY DEF TasksHoldLocks, ImageMatchesInfo
<1>5. TasksApart'  BY DEF TasksHoldLocks, TasksApart
<1>6. CurrentKnown' /\ ImagesComplete'  BY DEF CurrentKnown, ImagesComplete
<1>7. LocksOwned' /\ ThreadsFollowHandle'  BY DEF LocksOwned, ThreadsFollowHandle
<1> QED  BY <1>3, <1>4, <1>5, <1>6, <1>7

\* A new task: the dispatcher's lock becomes the task's.
LEMMA PushTaskStep == ASSUME SInv, NEW h \in Handles, PushTask(h) PROVE SInv'
<1> USE DEF SInv, driverVars, eventVars, dispVars, appVars
<1> DEFINE new == [handle |-> h, buf |-> cur[h], frame |-> image[cur[h]], phase |-> "task"]
<1>1. /\ disp[h] = "info" /\ disp'[h] = "wait" /\ cur'[h] = 0 /\ cur[h] \in locked
      /\ cur[h] \in Buffers /\ tasks' = tasks \cup {new}
      /\ \A g \in Handles \ {h} : disp'[g] = disp[g] /\ cur'[g] = cur[g]
  BY DEF PushTask, Captured, TypeOK, TasksApart
<1>2. UNCHANGED <<driverVars, locked, eventVars, appVars>>  BY DEF PushTask
<1>3. new \in Task /\ new.buf = cur[h] /\ new.frame = image[cur[h]] /\ new.handle = h
  BY <1>1 DEF Task, Phases, TypeOK
<1> HIDE DEF new
<1>4. TypeOK'  BY <1>1, <1>2, <1>3 DEF PushTask, TypeOK
<1> USE <1>1, <1>2, <1>3
<1>5. TasksHoldLocks'  BY DEF TasksHoldLocks, ImageMatchesInfo
<1>6. TasksApart'
  <2>1. \A t, u \in tasks' : t.buf = u.buf => t = u  BY DEF TasksApart
  <2>2. \A g \in Handles : disp'[g] = "info" =>
          /\ g # h /\ cur'[g] = cur[g] /\ cur[g] \in locked /\ cur[g] # new.buf
          /\ \A t \in tasks : t.buf # cur[g]
          /\ \A f \in Handles \ {g} : disp'[f] = "info" => cur'[f] # cur[g]
    BY DEF TasksApart
  <2> QED  BY <2>1, <2>2 DEF TasksApart
<1>7. CurrentKnown' /\ ImagesComplete'  BY DEF CurrentKnown, ImagesComplete
<1>8. LocksOwned'  BY DEF LocksOwned
<1>9. ThreadsFollowHandle'  BY DEF ThreadsFollowHandle
<1> QED  BY <1>4, <1>5, <1>6, <1>7, <1>8, <1>9

LEMMA LockRefusedStep == ASSUME SInv, NEW h \in Handles, LockRefused(h) PROVE SInv'
<1> USE DEF SInv, driverVars, eventVars, dispVars, appVars, LockRefused
<1>1. /\ disp[h] = "lock" /\ disp'[h] = "wait" /\ cur'[h] = 0
      /\ \A g \in Handles \ {h} : disp'[g] = disp[g] /\ cur'[g] = cur[g]
  BY DEF TypeOK
<1>2. UNCHANGED <<driverVars, locked, eventVars, tasks, appVars>>  OBVIOUS
<1>3. TypeOK'  BY DEF TypeOK
<1> USE <1>1, <1>2
<1>4. TasksHoldLocks' /\ TasksApart'  BY DEF TasksHoldLocks, ImageMatchesInfo, TasksApart
<1>5. CurrentKnown' /\ ImagesComplete'  BY DEF CurrentKnown, ImagesComplete
<1>6. LocksOwned' /\ ThreadsFollowHandle'  BY DEF LocksOwned, ThreadsFollowHandle
<1> QED  BY <1>3, <1>4, <1>5, <1>6

-------------------------------------------------------------------------------
(* The pools. *)

LEMMA CallbackStep ==
  ASSUME SInv, NEW t \in tasks, BeginCallback(t) \/ EndCallback(t) PROVE SInv'
<1> USE DEF SInv, driverVars, eventVars, dispVars, appVars
<1>1. PICK u \in Task : /\ tasks' = (tasks \ {t}) \cup {u}
                        /\ u.handle = t.handle /\ u.buf = t.buf /\ u.frame = t.frame
  <2>1. ASSUME NEW to \in Phases, tasks' = (tasks \ {t}) \cup {[t EXCEPT !.phase = to]}
        PROVE  \E u \in Task : /\ tasks' = (tasks \ {t}) \cup {u}
                               /\ u.handle = t.handle /\ u.buf = t.buf /\ u.frame = t.frame
    BY <2>1, Advanced
  <2> QED  BY <2>1 DEF BeginCallback, EndCallback, Advance, Phases
<1>2. UNCHANGED <<driverVars, locked, eventVars, dispVars, appVars>>
  BY DEF BeginCallback, EndCallback, Advance
<1>3. TypeOK'  BY <1>1, <1>2 DEF TypeOK
<1> USE <1>1, <1>2
<1>4. TasksHoldLocks'  BY DEF TasksHoldLocks, ImageMatchesInfo
<1>5. TasksApart'  BY DEF TasksApart
<1>6. CurrentKnown' /\ ImagesComplete'  BY DEF CurrentKnown, ImagesComplete
<1>7. LocksOwned' /\ ThreadsFollowHandle'  BY DEF LocksOwned, ThreadsFollowHandle
<1> QED  BY <1>3, <1>4, <1>5, <1>6, <1>7

LEMMA UnlockSeqBufStep == ASSUME SInv, NEW t \in tasks, UnlockSeqBuf(t) PROVE SInv'
<1> USE DEF SInv, driverVars, eventVars, dispVars, appVars
<1>1. /\ tasks' = tasks \ {t} /\ locked' = locked \ {t.buf}
      /\ UNCHANGED <<driverVars, eventVars, dispVars, appVars>>
  BY DEF UnlockSeqBuf, ReturnBuffer
<1>2. TypeOK'  BY <1>1 DEF TypeOK
<1> USE <1>1
<1>3. TasksHoldLocks'  BY DEF TasksHoldLocks, ImageMatchesInfo, TasksApart
<1>4. TasksApart'  BY DEF TasksApart
<1>5. CurrentKnown' /\ ImagesComplete'  BY DEF CurrentKnown, ImagesComplete
<1>6. LocksOwned' /\ ThreadsFollowHandle'  BY DEF LocksOwned, ThreadsFollowHandle
<1> QED  BY <1>2, <1>3, <1>4, <1>5, <1>6

-------------------------------------------------------------------------------
(* The application, and a driver that drops a frame. *)

\* What concerns buffers and tasks is the same when only handles and events change.
LEMMA BuffersSame ==
  ASSUME SInv, UNCHANGED <<filling, last, frames, image, locked, frameEvent, disp, cur, tasks>>
  PROVE  TasksHoldLocks' /\ TasksApart' /\ CurrentKnown' /\ ImagesComplete' /\ LocksOwned'
BY DEF SInv, TasksHoldLocks, ImageMatchesInfo, TasksApart, CurrentKnown, ImagesComplete, LocksOwned

LEMMA ConstructStep == ASSUME SInv, NEW h \in Handles, Construct(h) PROVE SInv'
<1> USE DEF SInv, driverVars, eventVars, dispVars, appVars, Construct
<1>1. /\ disp[h] = "none" /\ disp'[h] = "wait" /\ handle[h] = "none" /\ handle'[h] = "ready"
      /\ \A g \in Handles \ {h} : disp'[g] = disp[g] /\ handle'[g] = handle[g]
      /\ UNCHANGED <<driverVars, locked, eventVars, cur, tasks, parallel>>
  BY DEF TypeOK, ThreadsFollowHandle
<1>2. TypeOK'
  <2>1. constructed' \in 0 .. MaxHandles  BY SharedAssumption DEF TypeOK
  <2> QED  BY <2>1 DEF TypeOK
<1> USE <1>1
<1>3. TasksHoldLocks' /\ TasksApart'  BY DEF TasksHoldLocks, ImageMatchesInfo, TasksApart
<1>4. CurrentKnown' /\ ImagesComplete'  BY DEF CurrentKnown, ImagesComplete
<1>5. LocksOwned' /\ ThreadsFollowHandle'  BY DEF LocksOwned, ThreadsFollowHandle
<1> QED  BY <1>2, <1>3, <1>4, <1>5

\* Joining the dispatcher removes it; it has no lock any more.
LEMMA JoinDispatcherStep == ASSUME SInv, NEW h \in Handles, JoinDispatcher(h) PROVE SInv'
<1> USE DEF SInv, driverVars, eventVars, dispVars, appVars, JoinDispatcher, Goto
<1>1. /\ disp[h] = "done" /\ disp'[h] = "none" /\ handle[h] = "join" /\ handle'[h] = "wait_tasks"
      /\ \A g \in Handles \ {h} : disp'[g] = disp[g] /\ handle'[g] = handle[g]
      /\ UNCHANGED <<driverVars, locked, eventVars, cur, tasks, parallel, constructed>>
  BY DEF TypeOK
<1>2. TypeOK'  BY DEF TypeOK, Destroying
<1> USE <1>1
<1>3. TasksHoldLocks' /\ TasksApart'  BY DEF TasksHoldLocks, ImageMatchesInfo, TasksApart
<1>4. CurrentKnown' /\ ImagesComplete'  BY DEF CurrentKnown, ImagesComplete
<1>5. LocksOwned' /\ ThreadsFollowHandle'  BY DEF LocksOwned, ThreadsFollowHandle
<1> QED  BY <1>2, <1>3, <1>4, <1>5

LEMMA HandleStep ==
  ASSUME SInv, NEW h \in Handles,
         \/ Destroy(h) \/ TriggerReturns(h) \/ \E wait \in BOOLEAN : Trigger(h, wait)
         \/ StopLiveVideo(h) \/ CaptureStopped(h) \/ SignalTerminate(h)
         \/ WaitForTasks(h) \/ ResetTerminate(h)
  PROVE  SInv'
<1> USE DEF SInv, driverVars, eventVars, dispVars, appVars, Destroy, TriggerReturns, Trigger,
            StopLiveVideo, CaptureStopped, SignalTerminate, WaitForTasks, ResetTerminate, Goto
<1>1. UNCHANGED <<filling, last, frames, image, locked, frameEvent, disp, cur, tasks>>
  OBVIOUS
<1>2. TypeOK'
  BY DEF TypeOK, Destroying, Signalled
<1>3. /\ \A g \in Handles \ {h} : handle'[g] = handle[g]
      /\ handle[h] \in {"none", "wait_tasks", "reset"} <=> handle'[h] \in {"none", "wait_tasks", "reset"}
      /\ handle'[h] \in {"none", "reset"} => \A t \in tasks : t.handle # h
  BY DEF TypeOK, ThreadsFollowHandle, PoolDone
<1>4. ThreadsFollowHandle'
  BY <1>1, <1>3 DEF ThreadsFollowHandle
<1> QED  BY <1>1, <1>2, <1>4, BuffersSame

LEMMA NextSInv == SInv /\ [Next]_vars => SInv'
<1> SUFFICES ASSUME SInv, [Next]_vars PROVE SInv'  OBVIOUS
<1>1. CASE DropFrame \/ UNCHANGED vars
  <2>1. /\ UNCHANGED <<filling, last, frames, image, locked, frameEvent, disp, cur, tasks>>
        /\ UNCHANGED <<terminateEvent, parallel, handle, constructed>> /\ freeze' \in BOOLEAN
    BY <1>1 DEF DropFrame, vars, driverVars, eventVars, dispVars, appVars, SInv, TypeOK
  <2>2. TypeOK' /\ ThreadsFollowHandle'  BY <2>1 DEF SInv, TypeOK, ThreadsFollowHandle
  <2> QED  BY <2>1, <2>2, BuffersSame DEF SInv
<1>2. CASE Driver  BY <1>1, <1>2, BeginFrameStep, EndFrameStep DEF Driver
<1>3. ASSUME NEW h \in Handles, Dispatcher(h) PROVE SInv'
  BY <1>3, WaitStep, GetActSeqBufStep, LockSeqBufStep, PushTaskStep, LockRefusedStep DEF Dispatcher
<1>4. ASSUME NEW h \in Handles, Pool(h) PROVE SInv'
  BY <1>4, CallbackStep, UnlockSeqBufStep DEF Pool, Worker
<1>5. ASSUME NEW h \in Handles, User(h) \/ Destructor(h) PROVE SInv'
  BY <1>5, ConstructStep, JoinDispatcherStep, HandleStep DEF User, Destructor
<1> QED  BY <1>1, <1>2, <1>3, <1>4, <1>5 DEF Next, Finished

\* SInv is an invariant of any number of capture handles on one camera.
THEOREM SharedInvariance == Spec => []SInv
BY InitSInv, NextSInv, PTL DEF Spec

-------------------------------------------------------------------------------
(* The safety properties. *)

\* The memory is locked for exclusive use among the callbacks of all handles, a
\* handle that is gone leaves no thread and no task, and the last one no lock.
THEOREM SharedSafety == Spec => []SharedInv
<1>1. SInv => SharedInv
  <2> SUFFICES ASSUME SInv PROVE SharedInv  OBVIOUS
  <2>1. CallbackExclusive
    BY DEF SInv, TasksHoldLocks, TasksApart, CallbackExclusive
  <2>2. QuietWhenDestroyed
    BY DEF SInv, ThreadsFollowHandle, QuietWhenDestroyed
  <2>3. AllUnlocked
    <3> SUFFICES ASSUME \A h \in Handles : handle[h] = "none", NEW b \in locked PROVE FALSE
      BY DEF AllUnlocked
    <3>1. \A h \in Handles : disp[h] = "none" /\ \A t \in tasks : t.handle # h
      BY DEF SInv, ThreadsFollowHandle
    <3>2. tasks = {}  BY <3>1, TaskTypes DEF SInv
    <3> QED  BY <3>1, <3>2 DEF SInv, LocksOwned
  <2> QED  BY <2>1, <2>2, <2>3 DEF SInv, SharedInv
<1> QED  BY <1>1, SharedInvariance, PTL

\* No task is given the image of another frame than the one queried for it.
THEOREM SharedImageAndInfo == Spec => []ImageMatchesInfo
<1>1. SInv => ImageMatchesInfo  BY DEF SInv, TasksHoldLocks
<1> QED  BY <1>1, SharedInvariance, PTL

-------------------------------------------------------------------------------
(* The refinement of ImageLease. *)

\* The owner of a buffer, read off the state.
LEMMA OwnerOf ==
  ASSUME SInv, NEW b \in Buffers
  PROVE  /\ LeaseOwner[b] = "filling" <=> b = filling
         /\ LeaseOwner[b] = "user" <=> \E t \in tasks : t.buf = b /\ t.phase = "callback"
         /\ LeaseOwner[b] = "driver" <=> b # filling /\ b \notin locked
         /\ LeaseOwner[b] \in {"wrapper", "user"} <=> b \in locked
BY DEF LeaseOwner, SInv, TasksHoldLocks

\* The mapping reads nothing but the buffer being filled, the locks and the tasks.
LEMMA SameOwners == ASSUME UNCHANGED <<filling, locked, tasks>> PROVE LeaseOwner' = LeaseOwner
BY DEF LeaseOwner

\* A step that changes no owner, no image, and not whether any handle exists.
LEMMA Stutter ==
  ASSUME UNCHANGED <<LeaseOwner, image, AnyOpen>>
  PROVE  [Lease!Next]_(Lease!vars)
BY DEF Lease!vars

LEMMA LeaseInit == Init => Lease!Init
BY DEF Init, Lease!Init, LeaseOwner, AnyOpen, Buffers

LEMMA DriverLease == ASSUME SInv, Driver PROVE [Lease!Next]_(Lease!vars)
<1> USE DEF SInv, driverVars, eventVars, dispVars, appVars
<1>1. UNCHANGED AnyOpen  BY DEF Driver, BeginFrame, EndFrame, DropFrame, AnyOpen
<1>2. CASE BeginFrame
  <2>1. PICK b \in Buffers \ locked : filling' = b /\ image' = [image EXCEPT ![b] = 0]
    BY <1>2 DEF BeginFrame, NextBuffers
  <2>2. UNCHANGED <<locked, tasks>> /\ \A c \in Buffers : c # filling
    BY <1>2 DEF BeginFrame, Buffers
  <2>3. LeaseOwner' = [LeaseOwner EXCEPT ![b] = "filling"]
    BY <2>1, <2>2 DEF LeaseOwner
  <2>4. LeaseOwner[b] = "driver" /\ \A c \in Buffers : LeaseOwner[c] # "filling"
    BY <2>1, <2>2, OwnerOf
  <2>5. Lease!Fill(b)  BY <1>1, <2>1, <2>3, <2>4 DEF Lease!Fill, Lease!Pass
  <2> QED  BY <2>5 DEF Lease!Next
<1>3. CASE EndFrame
  <2>1. /\ filling \in Buffers /\ filling \notin locked /\ UNCHANGED <<locked, tasks>>
        /\ \A c \in Buffers : c # filling'
        /\ \A t \in tasks : t.buf # filling
    BY <1>3 DEF EndFrame, TypeOK, TasksHoldLocks, Buffers
  <2>2. LeaseOwner' = [LeaseOwner EXCEPT ![filling] = "driver"]
    BY <2>1 DEF LeaseOwner
  <2>3. /\ image' = [image EXCEPT ![filling] = image'[filling]]
        /\ \A c \in Buffers : image'[filling] > image[c]
    BY <1>3, <2>1 DEF EndFrame, TypeOK, ImagesComplete
  <2>4. Lease!Complete(filling)
    BY <1>1, <2>1, <2>2, <2>3, OwnerOf DEF Lease!Complete, Lease!Pass
  <2> QED  BY <2>1, <2>4 DEF Lease!Next
<1>4. CASE DropFrame  BY <1>1, <1>4, SameOwners, Stutter DEF DropFrame
<1> QED  BY <1>2, <1>3, <1>4 DEF Driver

LEMMA DispatcherLease ==
  ASSUME SInv, NEW h \in Handles, Dispatcher(h)
  PROVE  [Lease!Next]_(Lease!vars)
<1> USE DEF SInv, driverVars, eventVars, dispVars, appVars
<1>1. UNCHANGED AnyOpen /\ UNCHANGED <<image, filling>>
  BY DEF Dispatcher, WaitFrame, WaitTerminate, GetActSeqBuf, LockSeqBuf, PushTask, LockRefused, AnyOpen
<1>2. CASE LockSeqBuf(h)
  <2> DEFINE b == cur[h]
  <2>1. /\ b \in Buffers /\ b # filling /\ b \notin locked /\ image[b] # 0
        /\ locked' = locked \cup {b} /\ UNCHANGED tasks
    BY <1>2 DEF LockSeqBuf, Lockable, TypeOK, CurrentKnown, ImagesComplete
  <2>2. \A t \in tasks : t.buf # b  BY <2>1 DEF TasksHoldLocks
  <2> HIDE DEF b
  <2>3. LeaseOwner' = [LeaseOwner EXCEPT ![b] = "wrapper"]
    BY <1>1, <2>1, <2>2 DEF LeaseOwner
  <2>4. Lease!Take(b)  BY <1>1, <2>1, <2>3, OwnerOf DEF Lease!Take, Lease!Pass
  <2> QED  BY <2>1, <2>4 DEF Lease!Next
<1>3. CASE PushTask(h)
  <2>1. PICK new : tasks' = tasks \cup {new} /\ new.phase = "task" /\ UNCHANGED locked
    BY <1>3 DEF PushTask
  <2>2. LeaseOwner' = LeaseOwner  BY <1>1, <2>1 DEF LeaseOwner
  <2> QED  BY <1>1, <2>2, Stutter
<1>4. CASE WaitFrame(h) \/ WaitTerminate(h) \/ GetActSeqBuf(h) \/ LockRefused(h)
  BY <1>1, <1>4, SameOwners, Stutter DEF WaitFrame, WaitTerminate, GetActSeqBuf, LockRefused
<1> QED  BY <1>2, <1>3, <1>4 DEF Dispatcher

LEMMA PoolLease ==
  ASSUME SInv, NEW h \in Handles, Pool(h)
  PROVE  [Lease!Next]_(Lease!vars)
<1> USE DEF SInv, driverVars, eventVars, dispVars, appVars
<1>1. PICK t \in tasks : t.handle = h /\ Worker(t)  BY DEF Pool
<1> DEFINE b == t.buf
<1>2. UNCHANGED <<AnyOpen, image, filling>>
  BY <1>1 DEF Worker, BeginCallback, EndCallback, Advance, UnlockSeqBuf, AnyOpen
<1>3. /\ b \in Buffers /\ b \in locked /\ b # filling
      /\ \A u \in tasks \ {t} : u.buf # b
  BY TaskTypes DEF TasksHoldLocks, TasksApart
<1>4. AnyOpen  BY <1>1 DEF ThreadsFollowHandle, AnyOpen
<1> HIDE DEF b
<1>5. ASSUME NEW from \in Phases, NEW to \in Phases, Advance(t, from, to)
      PROVE  /\ t.phase = from /\ UNCHANGED locked
             /\ \E u : tasks' = (tasks \ {t}) \cup {u} /\ u.buf = b /\ u.phase = to
  <2> DEFINE u == [t EXCEPT !.phase = to]
  <2>1. TypeOK
    OBVIOUS
  <2>2. u.buf = b /\ u.phase = to
    BY <2>1, Advanced DEF b
  <2>3. t.phase = from /\ UNCHANGED locked /\ tasks' = (tasks \ {t}) \cup {u}
    BY <1>5 DEF Advance
  <2> HIDE DEF u
  <2> QED  BY <2>2, <2>3
<1>6. CASE BeginCallback(t)
  <2>1. PICK u : tasks' = (tasks \ {t}) \cup {u} /\ u.buf = b /\ u.phase = "callback"
    BY <1>5, <1>6 DEF BeginCallback, Phases
  <2>2. t.phase = "task" /\ UNCHANGED locked  BY <1>5, <1>6 DEF BeginCallback, Phases
  <2>3. LeaseOwner[b] = "wrapper"  BY <1>3, <2>2, OwnerOf
  <2>4. LeaseOwner' = [LeaseOwner EXCEPT ![b] = "user"]
    BY <1>2, <1>3, <2>1, <2>2 DEF LeaseOwner, b
  <2>5. Lease!Lend(b)  BY <1>2, <1>3, <1>4, <2>3, <2>4 DEF Lease!Lend, Lease!Pass
  <2> QED  BY <1>3, <2>5 DEF Lease!Next
<1>7. CASE EndCallback(t)
  <2>1. PICK u : tasks' = (tasks \ {t}) \cup {u} /\ u.buf = b /\ u.phase = "unlock"
    BY <1>5, <1>7 DEF EndCallback, Phases
  <2>2. t.phase = "callback" /\ UNCHANGED locked  BY <1>5, <1>7 DEF EndCallback, Phases
  <2>3. LeaseOwner[b] = "user"  BY <1>3, <2>2, OwnerOf DEF b
  <2>4. LeaseOwner' = [LeaseOwner EXCEPT ![b] = "wrapper"]
    BY <1>2, <1>3, <2>1, <2>2 DEF LeaseOwner, b
  <2>5. Lease!Reclaim(b)  BY <1>2, <1>3, <2>3, <2>4 DEF Lease!Reclaim, Lease!Pass
  <2> QED  BY <1>3, <2>5 DEF Lease!Next
<1>8. CASE UnlockSeqBuf(t)
  <2>1. t.phase = "unlock" /\ tasks' = tasks \ {t} /\ locked' = locked \ {b}
    BY <1>8 DEF UnlockSeqBuf, ReturnBuffer, b
  <2>2. LeaseOwner[b] = "wrapper"  BY <1>3, <2>1, OwnerOf
  <2>3. LeaseOwner' = [LeaseOwner EXCEPT ![b] = "driver"]
    BY <1>2, <1>3, <2>1 DEF LeaseOwner, b
  <2>4. Lease!Return(b)  BY <1>2, <1>3, <2>2, <2>3 DEF Lease!Return, Lease!Pass
  <2> QED  BY <1>3, <2>4 DEF Lease!Next
<1> QED  BY <1>1, <1>6, <1>7, <1>8 DEF Worker

\* The first handle opens the lease and the last one closes it.
LEMMA ApplicationLease ==
  ASSUME SInv, NEW h \in Handles, User(h) \/ Destructor(h)
  PROVE  [Lease!Next]_(Lease!vars)
<1> USE DEF SInv, driverVars, eventVars, dispVars, appVars
<1>1. UNCHANGED <<image, LeaseOwner>>
  BY SameOwners DEF User, Construct, Destroy, TriggerReturns, Trigger, Destructor, StopLiveVideo,
                    CaptureStopped, SignalTerminate, JoinDispatcher, WaitForTasks, ResetTerminate
<1>2. CASE Construct(h)
  <2>1. AnyOpen'  BY <1>2 DEF Construct, AnyOpen, TypeOK
  <2>2. CASE AnyOpen  BY <1>1, <2>1, <2>2, Stutter
  <2>3. CASE ~AnyOpen  BY <1>1, <2>1, <2>3 DEF Lease!Open, Lease!Next, AnyOpen
  <2> QED  BY <2>2, <2>3
<1>3. CASE ResetTerminate(h)
  <2>1. AnyOpen  BY <1>3 DEF ResetTerminate, AnyOpen
  <2>2. CASE AnyOpen'  BY <1>1, <2>1, <2>2, Stutter
  <2>3. CASE ~AnyOpen'
    <3>1. \A g \in Handles : handle[g] \in {"none", "reset"}
      BY <1>3, <2>3 DEF ResetTerminate, Goto, AnyOpen, TypeOK
    <3>2. tasks = {}  BY <3>1, TaskTypes DEF ThreadsFollowHandle
    <3>3. Lease!Close  BY <1>1, <2>1, <2>3, <3>2, OwnerOf DEF Lease!Close
    <3> QED  BY <3>3 DEF Lease!Next
  <2> QED  BY <2>2, <2>3
<1>4. CASE \/ Destroy(h) \/ TriggerReturns(h) \/ \E wait \in BOOLEAN : Trigger(h, wait)
           \/ StopLiveVideo(h) \/ CaptureStopped(h) \/ SignalTerminate(h)
           \/ JoinDispatcher(h) \/ WaitForTasks(h)
  <2>1. handle[h] # "none" /\ handle'[h] # "none"
    BY <1>4 DEF Destroy, TriggerReturns, Trigger, StopLiveVideo, CaptureStopped, SignalTerminate,
                JoinDispatcher, WaitForTasks, Goto, TypeOK
  <2>2. AnyOpen /\ AnyOpen'  BY <2>1 DEF AnyOpen
  <2> QED  BY <1>1, <2>2, Stutter
<1> QED  BY <1>2, <1>3, <1>4 DEF User, Destructor

\* All handles together promise what a single one does: whatever their threads do to
\* each other, a buffer is lent to one callback at a time and keeps its image.
THEOREM SharedRefinement == Spec => ImplementsLease
<1>1. SInv /\ [Next]_vars => [Lease!Next]_(Lease!vars)
  <2> SUFFICES ASSUME SInv, [Next]_vars PROVE [Lease!Next]_(Lease!vars)  OBVIOUS
  <2>1. CASE UNCHANGED vars
    BY <2>1, SameOwners, Stutter DEF vars, driverVars, appVars, AnyOpen
  <2> QED  BY <2>1, DriverLease, DispatcherLease, PoolLease, ApplicationLease DEF Next, Finished
<1> QED  BY <1>1, LeaseInit, SharedInvariance, PTL DEF Spec, ImplementsLease, Lease!Spec
===============================================================================
