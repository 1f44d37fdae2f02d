-------------------------- MODULE CaptureHandleProofs --------------------------
(***************************************************************************)
(* Proofs about CaptureHandle, for every number of buffers, workers,       *)
(* frames and handles and every set of failing calls: IInv is inductive    *)
(* and the safety properties follow from it; the handle implements         *)
(* ImageLease; what it delivers and leaves behind, where the environment   *)
(* allows it.                                                              *)
(***************************************************************************)
EXTENDS CaptureHandle, TLAPS

-------------------------------------------------------------------------------
(* Facts about tasks and buffers. *)

\* The buffer and the frame of each waiting task have their types.
LEMMA QueuedTasks ==
  ASSUME TypeOK, NEW i \in 1 .. Len(queue)
  PROVE  queue[i] \in Task /\ queue[i].buf \in Buffers /\ queue[i].frame \in Nat
<1>1. queue[i] \in Task
  BY DEF TypeOK
<1> QED  BY <1>1 DEF Task

\* A worker that executes a task has a proper one.
LEMMA RunningTasks ==
  ASSUME IInv, NEW w \in Workers, Busy(w)
  PROVE  task[w] \in Task /\ task[w].buf \in Buffers /\ task[w].frame \in Nat
<1>1. task[w].buf \in locked /\ locked \subseteq Buffers
  BY DEF IInv, TypeOK, TasksHoldLocks
<1>2. task[w] # NoTask
  BY <1>1 DEF NoTask, Buffers
<1>3. task[w] \in Task
  BY <1>2 DEF IInv, TypeOK
<1> QED  BY <1>1, <1>3 DEF Task

\* Every task in flight is of a frame completed before, and if it does not have
\* the buffer completed last, of an older frame than that one.
LEMMA OlderThanLast ==
  ASSUME IInv, handle # "terminated", last \notin {0, filling},
         NEW b \in locked, b # last
  PROVE  image[b] < image[last]
<1>1. b \in Buffers /\ last \in Buffers /\ image[b] \in Nat /\ image[last] \in Nat
  BY DEF IInv, TypeOK
<1>2. image[b] <= frames /\ image[last] = frames /\ frames > 0
  BY <1>1 DEF IInv, FramesIncrease
<1>3. image[b] # image[last]
  BY <1>1, <1>2 DEF IInv, FramesIncrease
<1> QED  BY <1>1, <1>2, <1>3

-------------------------------------------------------------------------------
(* The initial states and the steps that preserve the invariant. *)

LEMMA InitIInv == Init => IInv
<1> SUFFICES ASSUME Init PROVE IInv
  OBVIOUS
<1>1. queue \in Seq(Task) /\ task \in [Workers -> Task \cup {NoTask}] /\ phase \in [Workers -> Phases]
  BY DEF Init, Phases
<1>2. image \in [Buffers -> Nat] /\ scaled \in [Buffers -> Nat]
  BY DEF Init
<1>3. TypeOK
  BY <1>1, <1>2 DEF Init, TypeOK, HandlePCs, DispPCs
<1>4. /\ TasksHoldLocks /\ TasksDisjoint /\ DispatcherHolds /\ FramesIncrease
      /\ OrderedDispatch /\ ThreadsFollowHandle
  BY DEF Init, TasksHoldLocks, TasksDisjoint, DispatcherHolds, FramesIncrease,
         OrderedDispatch, ThreadsFollowHandle, Busy, Buffers
<1> QED  BY <1>3, <1>4 DEF IInv

\* A frame is begun in a buffer that no task has.
LEMMA BeginFrameStep == ASSUME IInv, BeginFrame PROVE IInv'
<1>1. PICK b \in NextBuffers :
        /\ filling' = b
        /\ image' = [image EXCEPT ![b] = 0]
        /\ scaled' = [scaled EXCEPT ![b] = 0]
  BY DEF BeginFrame
<1>2. b \in Buffers /\ b \notin locked
  BY DEF NextBuffers
<1> USE DEF IInv, BeginFrame, eventVars, dispVars, poolVars, appVars
<1>3. TypeOK'
  BY <1>1, <1>2 DEF TypeOK
<1>4. TasksHoldLocks'
  BY <1>1, <1>2 DEF TasksHoldLocks, TypeOK, Busy
<1>5. TasksDisjoint' /\ DispatcherHolds' /\ OrderedDispatch' /\ ThreadsFollowHandle'
  BY <1>1 DEF TasksDisjoint, DispatcherHolds, OrderedDispatch, ThreadsFollowHandle, Busy
<1>6. FramesIncrease'
  <2>1. /\ image'[b] = 0 /\ filling = 0 /\ b # 0
        /\ \A c \in Buffers \ {b} : image'[c] = image[c]
    BY <1>1, <1>2 DEF TypeOK, Buffers
  <2>2. disp \in {"lock", "info"} => cur \in Buffers
    BY DEF TypeOK, DispatcherHolds
  <2>3. \A c \in Buffers : image'[c] <= frames
    BY <1>2, <2>1 DEF FramesIncrease, TypeOK
  <2>4. \A c, d \in Buffers : image'[c] = image'[d] /\ image'[c] # 0 => c = d
    BY <1>2, <2>1 DEF FramesIncrease
  <2>5. last \notin {0, b} /\ handle # "terminated" => image'[last] = frames /\ frames > 0
    BY <2>1 DEF FramesIncrease, TypeOK
  <2>6. disp \in {"lock", "info"} /\ cur # b =>
          /\ \A i \in 1 .. Len(queue) : queue[i].buf # cur => queue[i].frame < image'[cur]
          /\ \A w \in Workers : Busy(w) /\ task[w].buf # cur => task[w].frame < image'[cur]
    BY <2>1, <2>2 DEF FramesIncrease, DispatcherHolds, Buffers
  <2> QED  BY <1>1, <2>3, <2>4, <2>5, <2>6 DEF FramesIncrease, Busy
<1> QED  BY <1>3, <1>4, <1>5, <1>6

\* The frame completed is numbered higher than all others.
LEMMA EndFrameStep == ASSUME IInv, EndFrame PROVE IInv'
<1>1. filling \in Buffers /\ filling \notin locked /\ filling # 0
  BY DEF IInv, TypeOK, TasksHoldLocks, EndFrame
<1>2. image'[filling] = frames + 1 /\ \A b \in Buffers \ {filling} : image'[b] = image[b]
  BY <1>1 DEF IInv, TypeOK, EndFrame
<1> USE DEF IInv, EndFrame, dispVars, poolVars, appVars
<1>3. TypeOK'
  BY <1>1 DEF TypeOK
<1>4. TasksHoldLocks'
  BY <1>1, <1>2 DEF TasksHoldLocks, TypeOK, Busy, Buffers
<1>5. TasksDisjoint' /\ DispatcherHolds' /\ OrderedDispatch' /\ ThreadsFollowHandle'
  BY <1>1 DEF TasksDisjoint, DispatcherHolds, OrderedDispatch, ThreadsFollowHandle, Busy
<1>6. FramesIncrease'
  <2>1. \A b \in Buffers : image[b] \in Nat /\ frames \in Nat /\ image[b] <= frames
    BY DEF TypeOK, FramesIncrease
  <2>2. \A b \in Buffers : image'[b] <= frames'
    BY <1>2, <2>1
  <2>3. \A b, c \in Buffers : image'[b] = image'[c] /\ image'[b] # 0 => b = c
    <3> SUFFICES ASSUME NEW b \in Buffers, NEW c \in Buffers, image'[b] = image'[c], image'[b] # 0
                 PROVE  b = c
      OBVIOUS
    <3>1. (b = filling) <=> (c = filling)
      BY <1>2, <2>1
    <3>2. CASE b # filling
      BY <3>1, <3>2, <1>2 DEF FramesIncrease
    <3> QED  BY <3>1, <3>2
  <2>4. image'[last'] = frames' /\ frames' > 0
    BY <1>2, <2>1, <1>1
  <2>5. ASSUME disp \in {"lock", "info"}
        PROVE  /\ \A i \in 1 .. Len(queue) : queue[i].buf # cur => queue[i].frame < image'[cur]
               /\ \A w \in Workers : Busy(w) /\ task[w].buf # cur => task[w].frame < image'[cur]
    <3>1. cur \in Buffers
      BY <2>5 DEF TypeOK, DispatcherHolds
    <3>2. CASE cur = filling
      <4>1. image'[cur] = frames + 1
        BY <3>2, <1>2
      <4>2. \A i \in 1 .. Len(queue) : queue[i].frame \in Nat /\ queue[i].frame <= frames
        BY <2>1, QueuedTasks DEF TasksHoldLocks
      <4>3. \A w \in Workers : Busy(w) => task[w].frame \in Nat /\ task[w].frame <= frames
        BY <2>1, RunningTasks DEF TasksHoldLocks
      <4> QED  BY <4>1, <4>2, <4>3, <2>1, <3>1
    <3>3. CASE cur # filling
      BY <3>1, <3>3, <2>5, <1>2 DEF FramesIncrease
    <3> QED  BY <3>2, <3>3
  <2> QED  BY <2>2, <2>3, <2>4, <2>5 DEF FramesIncrease, Busy
<1> QED  BY <1>3, <1>4, <1>5, <1>6

\* The last buffer holds the newest frame; if a task has it, all others are older.
LEMMA GetActSeqBufStep == ASSUME IInv, GetActSeqBuf PROVE IInv'
<1> USE DEF IInv, GetActSeqBuf, driverVars, eventVars, poolVars, appVars
<1>1. TypeOK' /\ TasksHoldLocks' /\ TasksDisjoint' /\ DispatcherHolds' /\ OrderedDispatch'
        /\ ThreadsFollowHandle'
  BY DEF TypeOK, TasksHoldLocks, TasksDisjoint, DispatcherHolds, OrderedDispatch,
         ThreadsFollowHandle, Busy, DispPCs
<1>2. FramesIncrease'
  <2>1. handle # "terminated" /\ last # 0
    BY DEF ThreadsFollowHandle, DispatcherHolds
  <2>2. ASSUME last # filling
        PROVE  /\ \A i \in 1 .. Len(queue) : queue[i].buf # last => queue[i].frame < image[last]
               /\ \A w \in Workers : Busy(w) /\ task[w].buf # last => task[w].frame < image[last]
    BY <2>1, <2>2, OlderThanLast DEF TasksHoldLocks
  <2> QED  BY <2>2 DEF FramesIncrease, Busy
<1> QED  BY <1>1, <1>2

\* A buffer that can be locked belongs to no task.
LEMMA LockSeqBufStep == ASSUME IInv, LockSeqBuf PROVE IInv'
<1> USE DEF IInv, LockSeqBuf, Lockable, driverVars, eventVars, poolVars, appVars
<1>1. cur \in Buffers
  BY DEF TypeOK, DispatcherHolds
<1>2. TypeOK' /\ TasksHoldLocks' /\ TasksDisjoint' /\ OrderedDispatch' /\ ThreadsFollowHandle'
  BY <1>1 DEF TypeOK, TasksHoldLocks, TasksDisjoint, OrderedDispatch, ThreadsFollowHandle, Busy, DispPCs
<1>3. DispatcherHolds'
  BY DEF DispatcherHolds, TasksHoldLocks, Busy
<1>4. FramesIncrease'
  BY DEF FramesIncrease, Busy
<1> QED  BY <1>2, <1>3, <1>4

\* The task pushed is behind all older ones, alone with its buffer.
LEMMA PushTaskStep == ASSUME IInv, PushTask PROVE IInv'
<1> DEFINE t == [buf |-> cur, frame |-> image[cur]]
<1> USE DEF IInv, driverVars, eventVars, appVars
<1>1. cur \in locked /\ cur \in Buffers /\ t \in Task
  BY DEF PushTask, TypeOK, DispatcherHolds, Task
<1>2. /\ queue' = Append(queue, t) /\ disp = "info" /\ disp' = "wait" /\ cur' = 0
      /\ UNCHANGED <<driverVars, locked, eventVars, phase, task, scaled, appVars, shown>>
  BY DEF PushTask, Enqueue, Captured
<1>3. /\ queue' \in Seq(Task) /\ Len(queue') = Len(queue) + 1 /\ Len(queue) \in Nat
      /\ \A i \in 1 .. Len(queue) : queue'[i] = queue[i]
      /\ queue'[Len(queue) + 1] = t
  BY <1>1, <1>2 DEF TypeOK
<1>4. \A i \in 1 .. Len(queue') : i \in 1 .. Len(queue) \/ (i = Len(queue) + 1 /\ queue'[i] = t)
  BY <1>3
<1>5. t.buf = cur /\ t.frame = image[cur] /\ cur # filling
  BY <1>1 DEF TasksHoldLocks
<1> HIDE DEF t
<1>6. TypeOK'
  BY <1>2, <1>3 DEF TypeOK, DispPCs
<1>7. TasksHoldLocks'
  BY <1>1, <1>2, <1>3, <1>4, <1>5 DEF TasksHoldLocks, Busy
<1>8. TasksDisjoint'
  BY <1>2, <1>3, <1>4, <1>5 DEF TasksDisjoint, DispatcherHolds, Busy
<1>9. DispatcherHolds' /\ FramesIncrease' /\ ThreadsFollowHandle'
  BY <1>2 DEF DispatcherHolds, FramesIncrease, ThreadsFollowHandle, Busy
<1>10. OrderedDispatch'
  <2>1. /\ \A i \in 1 .. Len(queue) : queue[i].frame < t.frame
        /\ \A w \in Workers : Busy(w) => task[w].frame < t.frame
    BY <1>2, <1>5 DEF FramesIncrease, DispatcherHolds
  <2>2. \A i, j \in 1 .. Len(queue') : i < j => queue'[i].frame < queue'[j].frame
    BY <1>3, <1>4, <2>1 DEF OrderedDispatch
  <2>3. \A i \in 1 .. Len(queue'), w \in Workers : Busy(w) => task[w].frame < queue'[i].frame
    BY <1>3, <1>4, <2>1 DEF OrderedDispatch
  <2> QED  BY <1>2, <2>2, <2>3 DEF OrderedDispatch, Busy
<1> QED  BY <1>6, <1>7, <1>8, <1>9, <1>10

\* The other steps of the driver and the dispatcher leave buffers and tasks alone.
LEMMA OtherDispatcherStep ==
  ASSUME IInv, DropFrame \/ WaitFrame \/ WaitTerminate \/ WaitFails \/ DispatchFails
  PROVE  IInv'
<1> USE DEF IInv, TypeOK, TasksHoldLocks, TasksDisjoint, DispatcherHolds, FramesIncrease,
            OrderedDispatch, ThreadsFollowHandle, Busy, DispPCs,
            driverVars, eventVars, dispVars, poolVars, appVars
<1>1. CASE DropFrame      BY <1>1 DEF DropFrame
<1>2. CASE WaitFrame
  <2>1. TypeOK' /\ ThreadsFollowHandle' /\ DispatcherHolds'
    BY <1>2 DEF WaitFrame
  <2>2. TasksHoldLocks' /\ TasksDisjoint' /\ FramesIncrease' /\ OrderedDispatch'
    BY <1>2 DEF WaitFrame
  <2> QED  BY <2>1, <2>2
<1>3. CASE WaitTerminate  BY <1>3 DEF WaitTerminate, Stopped
<1>4. CASE DispatchFails  BY <1>4 DEF DispatchFails
<1>5. CASE WaitFails      BY <1>5 DEF WaitFails, vars
<1> QED  BY <1>1, <1>2, <1>3, <1>4, <1>5

-------------------------------------------------------------------------------
(* The workers. *)

\* The first task moves from the queue to a worker, the others move up.
LEMMA TakeTaskStep == ASSUME IInv, NEW w \in Workers, TakeTask(w) PROVE IInv'
<1> DEFINE n == Len(queue)
<1> USE DEF IInv, driverVars, eventVars, dispVars, appVars
<1>1. /\ n \in Nat /\ n >= 1 /\ queue[1] \in Task /\ Head(queue) = queue[1]
      /\ queue' \in Seq(Task) /\ Len(queue') = n - 1
      /\ \A i \in 1 .. Len(queue') : i + 1 \in 2 .. n /\ queue'[i] = queue[i + 1]
  BY DEF TakeTask, TypeOK
<1>2. /\ \A v \in Workers \ {w} : task'[v] = task[v] /\ phase'[v] = phase[v]
      /\ task'[w] = queue[1] /\ phase'[w] = "task" /\ phase[w] = "idle"
  BY <1>1 DEF TakeTask, TypeOK
<1>3. UNCHANGED <<driverVars, locked, eventVars, dispVars, scaled, appVars, shown>>
  BY DEF TakeTask
<1> HIDE DEF n
<1>4. TypeOK'
  BY <1>1 DEF TakeTask, TypeOK, Phases
<1>5. TasksHoldLocks'
  <2>1. \A i \in 1 .. Len(queue') :
          queue'[i].buf \in locked /\ image[queue'[i].buf] = queue'[i].frame
    <3> SUFFICES ASSUME NEW i \in 1 .. Len(queue')
                 PROVE  queue'[i].buf \in locked /\ image[queue'[i].buf] = queue'[i].frame
      OBVIOUS
    <3>1. i + 1 \in 1 .. Len(queue) /\ queue'[i] = queue[i + 1]  BY <1>1 DEF n
    <3> QED  BY <3>1 DEF TasksHoldLocks
  <2>2. queue[1].buf \in locked /\ image[queue[1].buf] = queue[1].frame
    BY <1>1 DEF TasksHoldLocks, n
  <2> QED  BY <1>2, <1>3, <2>1, <2>2 DEF TasksHoldLocks, Busy
<1>6. TasksDisjoint'
  <2>1. \A i, j \in 1 .. Len(queue') : queue'[i].buf = queue'[j].buf => i = j
    <3> SUFFICES ASSUME NEW i \in 1 .. Len(queue'), NEW j \in 1 .. Len(queue'),
                        queue'[i].buf = queue'[j].buf
                 PROVE  i = j
      OBVIOUS
    <3>1. /\ i + 1 \in 1 .. n /\ j + 1 \in 1 .. n /\ i \in Nat /\ j \in Nat
          /\ queue'[i] = queue[i + 1] /\ queue'[j] = queue[j + 1]
      BY <1>1
    <3>2. i + 1 = j + 1
      BY <3>1 DEF TasksDisjoint, n
    <3> QED  BY <3>1, <3>2
  <2>2. \A u, v \in Workers : Busy(u)' /\ Busy(v)' /\ task'[u].buf = task'[v].buf => u = v
    BY <1>1, <1>2 DEF TasksDisjoint, Busy, n
  <2>3. \A i \in 1 .. Len(queue'), v \in Workers : Busy(v)' => queue'[i].buf # task'[v].buf
    <3> SUFFICES ASSUME NEW i \in 1 .. Len(queue'), NEW v \in Workers, Busy(v)'
                 PROVE  queue'[i].buf # task'[v].buf
      OBVIOUS
    <3>1. i + 1 \in 1 .. n /\ i + 1 # 1 /\ 1 \in 1 .. n /\ queue'[i] = queue[i + 1]
      BY <1>1
    <3>2. CASE v = w
      BY <1>2, <3>1, <3>2 DEF TasksDisjoint, n
    <3>3. CASE v # w
      BY <1>2, <3>1, <3>3 DEF TasksDisjoint, Busy, n
    <3> QED  BY <3>2, <3>3
  <2> QED  BY <2>1, <2>2, <2>3 DEF TasksDisjoint
<1>7. \A i \in 1 .. Len(queue') : \E k \in 1 .. n : queue'[i] = queue[k]
  BY <1>1
<1>8. DispatcherHolds'
  BY <1>1, <1>2, <1>3, <1>7 DEF DispatcherHolds, Busy, n
<1>9. FramesIncrease'
  <2>1. ASSUME disp \in {"lock", "info"}, cur # filling
        PROVE  /\ \A i \in 1 .. Len(queue') : queue'[i].buf # cur => queue'[i].frame < image[cur]
               /\ queue[1].buf # cur => queue[1].frame < image[cur]
    BY <1>1, <1>7, <2>1 DEF FramesIncrease, n
  <2>2. ASSUME disp \in {"lock", "info"}, cur # filling
        PROVE  \A v \in Workers : Busy(v)' /\ task'[v].buf # cur => task'[v].frame < image[cur]
    BY <1>2, <2>1, <2>2 DEF FramesIncrease, Busy
  <2> QED  BY <1>3, <2>1, <2>2 DEF FramesIncrease
<1>10. OrderedDispatch'
  <2>1. \A i, j \in 1 .. Len(queue') : i < j => queue'[i].frame < queue'[j].frame
    <3> SUFFICES ASSUME NEW i \in 1 .. Len(queue'), NEW j \in 1 .. Len(queue'), i < j
                 PROVE  queue'[i].frame < queue'[j].frame
      OBVIOUS
    <3>1. /\ i + 1 \in 1 .. n /\ j + 1 \in 1 .. n /\ i + 1 < j + 1
          /\ queue'[i] = queue[i + 1] /\ queue'[j] = queue[j + 1]
      BY <1>1
    <3> QED  BY <3>1 DEF OrderedDispatch, n
  <2>2. \A i \in 1 .. Len(queue'), v \in Workers : Busy(v)' => task'[v].frame < queue'[i].frame
    <3> SUFFICES ASSUME NEW i \in 1 .. Len(queue'), NEW v \in Workers, Busy(v)'
                 PROVE  task'[v].frame < queue'[i].frame
      OBVIOUS
    <3>1. i + 1 \in 1 .. n /\ 1 < i + 1 /\ 1 \in 1 .. n /\ queue'[i] = queue[i + 1]
      BY <1>1
    <3>2. CASE v = w
      BY <1>2, <3>1, <3>2 DEF OrderedDispatch, n
    <3>3. CASE v # w
      BY <1>2, <3>1, <3>3 DEF OrderedDispatch, Busy, n
    <3> QED  BY <3>2, <3>3
  <2> QED  BY <2>1, <2>2 DEF OrderedDispatch
<1>11. ThreadsFollowHandle'
  BY <1>1, <1>3 DEF ThreadsFollowHandle, n, TypeOK
<1> QED  BY <1>4, <1>5, <1>6, <1>8, <1>9, <1>10, <1>11

\* The callback begins and ends on a worker that keeps its task.
LEMMA CallbackStep ==
  ASSUME IInv, NEW w \in Workers, BeginCallback(w) \/ EndCallback(w)
  PROVE  IInv'
<1>1. Busy(w)
  BY DEF BeginCallback, EndCallback, Busy
<1>2. task[w].buf \in Buffers /\ task[w].frame \in Nat
  BY <1>1, RunningTasks
<1>3. /\ \A v \in Workers : Busy(v)' <=> Busy(v)
      /\ UNCHANGED <<driverVars, locked, eventVars, dispVars, queue, task, appVars>>
  BY <1>1 DEF BeginCallback, EndCallback, IInv, TypeOK, Busy
<1> USE DEF IInv, driverVars, eventVars, dispVars, appVars
<1>4. TypeOK'
  <2>1. phase' \in [Workers -> Phases]
    BY DEF BeginCallback, EndCallback, TypeOK, Phases
  <2>2. scaled' \in [Buffers -> Nat]
    <3>1. scaled \in [Buffers -> Nat]  BY DEF TypeOK
    <3> HIDE DEF IInv
    <3>2. CASE EndCallback(w)  BY <3>1, <3>2 DEF EndCallback
    <3>3. CASE BeginCallback(w)  BY <3>1, <3>3, <1>2 DEF BeginCallback
    <3> QED  BY <3>2, <3>3
  <2>3. shown' \in SUBSET Nat
    BY <1>2 DEF BeginCallback, EndCallback, TypeOK
  <2> QED  BY <1>3, <2>1, <2>2, <2>3 DEF TypeOK
<1>5. TasksHoldLocks' /\ TasksDisjoint'
  BY <1>3 DEF TasksHoldLocks, TasksDisjoint
<1>6. DispatcherHolds' /\ FramesIncrease'
  BY <1>3 DEF DispatcherHolds, FramesIncrease
<1>7. OrderedDispatch' /\ ThreadsFollowHandle'
  BY <1>3 DEF OrderedDispatch, ThreadsFollowHandle
<1> QED  BY <1>4, <1>5, <1>6, <1>7

\* The buffer unlocked belongs to no other task and not to the dispatcher.
LEMMA UnlockSeqBufStep == ASSUME IInv, NEW w \in Workers, UnlockSeqBuf(w) PROVE IInv'
<1> DEFINE b == task[w].buf
<1>1. Busy(w) /\ locked' = locked \ {b}
  BY DEF UnlockSeqBuf, ReturnBuffer, Busy
<1>2. /\ \A v \in Workers \ {w} : task'[v] = task[v] /\ phase'[v] = phase[v]
      /\ phase'[w] = "idle"
      /\ UNCHANGED <<driverVars, eventVars, dispVars, queue, scaled, appVars, shown>>
  BY DEF UnlockSeqBuf, IInv, TypeOK
<1>3. \A v \in Workers : Busy(v)' <=> Busy(v) /\ v # w
  BY <1>2 DEF Busy
<1>4. \A v \in Workers : Busy(v)' => task'[v] = task[v] /\ task[v].buf # b
  BY <1>1, <1>2, <1>3 DEF IInv, TasksDisjoint
<1>5. \A i \in 1 .. Len(queue) : queue[i].buf # b
  BY <1>1 DEF IInv, TasksDisjoint
<1>6. disp = "info" => cur # b
  BY <1>1 DEF IInv, DispatcherHolds
<1> HIDE DEF b
<1> USE DEF IInv, driverVars, eventVars, dispVars, appVars
<1>7. TypeOK'
  BY <1>1 DEF UnlockSeqBuf, TypeOK, Phases
<1>8. TasksHoldLocks'
  BY <1>1, <1>2, <1>3, <1>4, <1>5 DEF TasksHoldLocks
<1>9. TasksDisjoint'
  BY <1>2, <1>3, <1>4 DEF TasksDisjoint
<1>10. DispatcherHolds'
  BY <1>1, <1>2, <1>3, <1>4, <1>6 DEF DispatcherHolds
<1>11. FramesIncrease'
  BY <1>2, <1>3, <1>4 DEF FramesIncrease
<1>12. OrderedDispatch' /\ ThreadsFollowHandle'
  BY <1>2, <1>3, <1>4 DEF OrderedDispatch, ThreadsFollowHandle
<1> QED  BY <1>7, <1>8, <1>9, <1>10, <1>11, <1>12

\* When the process ends, nothing is in flight.
LEMMA TerminateStep == ASSUME IInv, Terminate PROVE IInv'
<1>1. queue' \in Seq(Task) /\ phase' \in [Workers -> Phases] /\ task' \in [Workers -> Task \cup {NoTask}]
  BY DEF Terminate, Phases
<1>2. Len(queue') = 0 /\ \A w \in Workers : ~Busy(w)'
  BY DEF Terminate, Busy
<1> USE DEF IInv, Terminate, eventVars
<1>3. TypeOK'
  BY <1>1 DEF TypeOK, HandlePCs, DispPCs
<1>4. 0 \notin locked
  BY DEF TypeOK, Buffers
<1>5. TasksHoldLocks' /\ TasksDisjoint' /\ DispatcherHolds' /\ OrderedDispatch'
  BY <1>2, <1>4 DEF TasksHoldLocks, TasksDisjoint, DispatcherHolds, OrderedDispatch
<1>6. FramesIncrease' /\ ThreadsFollowHandle'
  BY <1>2 DEF FramesIncrease, ThreadsFollowHandle
<1> QED  BY <1>3, <1>5, <1>6

-------------------------------------------------------------------------------
(* The application. *)

LEMMA ConstructorStep == ASSUME IInv, Constructor PROVE IInv'
<1> USE DEF IInv, TypeOK, TasksHoldLocks, TasksDisjoint, DispatcherHolds, FramesIncrease,
            OrderedDispatch, ThreadsFollowHandle, Busy, HandlePCs, DispPCs,
            driverVars, eventVars, dispVars, poolVars
<1>1. CASE Construct           BY <1>1 DEF Construct
<1>2. CASE SetTriggerSoftware  BY <1>2 DEF SetTriggerSoftware
<1>3. CASE CaptureVideo        BY <1>3 DEF CaptureVideo
<1>4. CASE ConstructorThrows   BY <1>4 DEF ConstructorThrows
<1> QED  BY <1>1, <1>2, <1>3, <1>4 DEF Constructor

LEMMA TriggeringStep == ASSUME IInv, Triggering PROVE IInv'
<1> USE DEF IInv, TypeOK, TasksHoldLocks, TasksDisjoint, DispatcherHolds, FramesIncrease,
            OrderedDispatch, ThreadsFollowHandle, Busy, HandlePCs,
            driverVars, eventVars, dispVars, poolVars
<1>1. ASSUME NEW wait \in BOOLEAN, Trigger(wait) PROVE IInv'
  BY <1>1 DEF Trigger
<1>2. CASE TriggerReturns
  BY <1>2 DEF TriggerReturns
<1> QED  BY <1>1, <1>2 DEF Triggering

LEMMA DestructorStep == ASSUME IInv, Destroy \/ Destructor PROVE IInv'
<1> USE DEF IInv, TypeOK, TasksHoldLocks, TasksDisjoint, DispatcherHolds, FramesIncrease,
            OrderedDispatch, ThreadsFollowHandle, Busy, HandlePCs, Destroying, DispPCs,
            driverVars, eventVars, dispVars, poolVars
<1>1. CASE Destroy           BY <1>1 DEF Destroy
<1>2. CASE SetTriggerOff     BY <1>2 DEF SetTriggerOff
<1>3. CASE StopLiveVideo     BY <1>3 DEF StopLiveVideo
<1>4. CASE CaptureStopped    BY <1>4 DEF CaptureStopped
<1>5. CASE DestructorThrows  BY <1>5, TerminateStep DEF DestructorThrows
<1>6. CASE SignalTerminate   BY <1>6 DEF SignalTerminate
<1>7. CASE JoinDispatcher    BY <1>7 DEF JoinDispatcher, DispatcherGone
<1>8. CASE WaitForTasks      BY <1>8 DEF WaitForTasks, PoolDone
<1>9. CASE ResetTerminate
  <2>1. TypeOK' /\ ThreadsFollowHandle' /\ FramesIncrease'
    BY <1>9 DEF ResetTerminate, AfterReset
  <2>2. TasksHoldLocks' /\ TasksDisjoint' /\ DispatcherHolds' /\ OrderedDispatch'
    BY <1>9 DEF ResetTerminate
  <2> QED  BY <2>1, <2>2
<1>10. CASE MembersDestroyed  BY <1>10, TerminateStep DEF MembersDestroyed
<1> QED  BY <1>1, <1>2, <1>3, <1>4, <1>5, <1>6, <1>7, <1>8, <1>9, <1>10 DEF Destructor

-------------------------------------------------------------------------------
(* The theorems. *)

LEMMA NextIInv == IInv /\ [Next]_vars => IInv'
<1> SUFFICES ASSUME IInv, [Next]_vars PROVE IInv'
  OBVIOUS
<1>1. CASE Driver
  BY <1>1, BeginFrameStep, EndFrameStep, OtherDispatcherStep DEF Driver
<1>2. CASE Dispatcher
  BY <1>2, OtherDispatcherStep, GetActSeqBufStep, LockSeqBufStep, PushTaskStep DEF Dispatcher
<1>3. ASSUME NEW w \in Workers, Worker(w) PROVE IInv'
  BY <1>3, TakeTaskStep, CallbackStep, UnlockSeqBufStep, TerminateStep DEF Worker, TaskThrows
<1>4. ASSUME UNCHANGED vars PROVE IInv'
  BY <1>4 DEF IInv, TypeOK, TasksHoldLocks, TasksDisjoint, DispatcherHolds, FramesIncrease,
              OrderedDispatch, ThreadsFollowHandle, Busy,
              vars, driverVars, eventVars, dispVars, poolVars, appVars
<1>5. CASE Application
  BY <1>4, <1>5, ConstructorStep, TriggeringStep, DestructorStep DEF Application, Finished
<1> QED  BY <1>1, <1>2, <1>3, <1>4, <1>5 DEF Next

\* IInv holds in every reachable state.
THEOREM Invariance == Spec => []IInv
BY InitIInv, NextIInv, PTL DEF Spec

\* Every variable has its type: in particular no task, and no lock, is of a
\* buffer that does not exist.
THEOREM TypeCorrect == Spec => []TypeOK
<1>1. IInv => TypeOK
  BY DEF IInv
<1> QED  BY <1>1, Invariance, PTL

\* While an image callback runs, its buffer is locked, is not being filled and
\* is the buffer of no other task (README.MD:70).
THEOREM Exclusion == Spec => []CallbackExclusive
<1>1. IInv => CallbackExclusive
  BY DEF IInv, CallbackExclusive, TasksHoldLocks, TasksDisjoint, Busy
<1> QED  BY <1>1, Invariance, PTL

\* The image a callback sees is the frame whose number was queried with it.
THEOREM ImageAndInfo == Spec => []ImageMatchesInfo
<1>1. IInv => ImageMatchesInfo
  BY DEF IInv, ImageMatchesInfo, TasksHoldLocks, Busy
<1> QED  BY <1>1, Invariance, PTL

\* Frames are handed to the callbacks in the order of capture, none of them
\* while a task on the same frame waits or runs.
THEOREM DispatchOrder == Spec => []OrderedDispatch
<1>1. IInv => OrderedDispatch
  BY DEF IInv
<1> QED  BY <1>1, Invariance, PTL

\* The destruction of a handle leaves no thread, task or capture behind.
THEOREM QuietDestruction == Spec => []QuietWhenDestroyed
<1>1. IInv => QuietWhenDestroyed
  BY DEF IInv, QuietWhenDestroyed, ThreadsFollowHandle
<1> QED  BY <1>1, Invariance, PTL

\* A handle in use has a running dispatcher.
THEOREM DispatcherRuns == Spec => []DispatcherAlive
<1>1. IInv => DispatcherAlive
  BY DEF IInv, DispatcherAlive, ThreadsFollowHandle
<1> QED  BY <1>1, Invariance, PTL

-------------------------------------------------------------------------------
(* The handle implements ImageLease: each step of a thread passes one buffer   *)
(* on as ImageLease allows, opens or closes the handle, or changes nothing      *)
(* ImageLease speaks of.                                                         *)

(* A second invariant, for Take: what the dispatcher locks is an image. *)

\* The buffer the dispatcher asked for holds a complete frame, unless the driver
\* has begun to overwrite it.
CurrentComplete == disp \in {"lock", "info"} /\ cur # filling => image[cur] # 0

LInv == IInv /\ CurrentComplete

LEMMA CurrentCompleteStep == LInv /\ [Next]_vars => CurrentComplete'
<1> SUFFICES ASSUME IInv, CurrentComplete, [Next]_vars PROVE CurrentComplete'
  BY DEF LInv
<1> USE DEF CurrentComplete, driverVars, eventVars, dispVars, appVars
<1>1. CASE BeginFrame
  <2>1. PICK b \in Buffers : filling' = b /\ image' = [image EXCEPT ![b] = 0]
    BY <1>1 DEF BeginFrame, NextBuffers
  <2>2. disp \in {"lock", "info"} => cur \in Buffers /\ cur # filling
    BY <1>1 DEF BeginFrame, IInv, TypeOK, DispatcherHolds, Buffers
  <2> QED  BY <1>1, <2>1, <2>2 DEF BeginFrame, IInv, TypeOK
<1>2. CASE EndFrame
  BY <1>2 DEF EndFrame, IInv, TypeOK
<1>3. CASE GetActSeqBuf
  BY <1>3 DEF GetActSeqBuf, IInv, DispatcherHolds, FramesIncrease, ThreadsFollowHandle
<1>4. CASE DropFrame \/ WaitFrame \/ WaitTerminate \/ LockSeqBuf \/ PushTask \/ DispatchFails
  BY <1>4 DEF DropFrame, WaitFrame, WaitTerminate, LockSeqBuf, PushTask, DispatchFails
<1>5. CASE Terminate
  BY <1>5 DEF Terminate
<1>6. ASSUME NEW w \in Workers, Worker(w) PROVE CurrentComplete'
  BY <1>5, <1>6 DEF Worker, TakeTask, BeginCallback, EndCallback, UnlockSeqBuf, TaskThrows
<1>7. CASE Constructor
  BY <1>5, <1>7 DEF Constructor, Construct, SetTriggerSoftware, CaptureVideo, ConstructorThrows
<1>8. CASE Triggering \/ Destroy
  BY <1>8 DEF Triggering, Trigger, TriggerReturns, Destroy
<1>9. CASE Destructor
  BY <1>5, <1>9 DEF Destructor, SetTriggerOff, StopLiveVideo, CaptureStopped, DestructorThrows,
                    SignalTerminate, JoinDispatcher, WaitForTasks, ResetTerminate,
                    MembersDestroyed
<1>10. CASE UNCHANGED vars
  BY <1>10 DEF vars
<1> QED
  BY <1>1, <1>2, <1>3, <1>4, <1>6, <1>7, <1>8, <1>9, <1>10
     DEF Next, Driver, Dispatcher, WaitFails, Application, Finished

\* Whenever is_LockSeqBuf succeeds, it locks a buffer that holds an image.
THEOREM LeaseInvariance == Spec => []LInv
<1>1. Init => CurrentComplete
  BY DEF Init, CurrentComplete
<1> QED  BY <1>1, InitIInv, NextIInv, CurrentCompleteStep, PTL DEF Spec, LInv

-------------------------------------------------------------------------------
(* The refinement mapping. *)

\* The owner of a buffer, read off the state.
LEMMA OwnerOf ==
  ASSUME IInv, NEW b \in Buffers
  PROVE  /\ LeaseOwner[b] = "filling" <=> b = filling
         /\ LeaseOwner[b] = "user" <=> \E w \in Workers : phase[w] = "callback" /\ task[w].buf = b
         /\ LeaseOwner[b] = "driver" <=> b # filling /\ b \notin locked
         /\ LeaseOwner[b] \in {"wrapper", "user"} <=> b \in locked
BY DEF LeaseOwner, IInv, TasksHoldLocks, Busy

\* The mapping reads nothing but the buffer being filled, the locks and the
\* callbacks.
LEMMA SameOwners ==
  ASSUME UNCHANGED <<filling, locked>>,
         \A w \in Workers : /\ phase'[w] = "callback" <=> phase[w] = "callback"
                            /\ phase[w] = "callback" => task'[w] = task[w]
  PROVE  LeaseOwner' = LeaseOwner
BY DEF LeaseOwner

\* A step that changes no owner, no image and not whether a handle is open.
LEMMA Stutter ==
  ASSUME LeaseOwner' = LeaseOwner, UNCHANGED image,
         handle \in {"none", "terminated"} <=> handle' \in {"none", "terminated"}
  PROVE  [Lease!Next]_Lease!vars
BY DEF Lease!vars

LEMMA LeaseInit == Init => Lease!Init
BY DEF Init, Lease!Init, LeaseOwner, Buffers

LEMMA DriverLease ==
  ASSUME LInv, Driver
  PROVE  [Lease!Next]_Lease!vars
<1> USE DEF LInv, driverVars, eventVars, dispVars, poolVars, appVars
<1>1. CASE BeginFrame
  <2>1. PICK b \in Buffers \ locked : filling' = b /\ image' = [image EXCEPT ![b] = 0]
    BY <1>1 DEF BeginFrame, NextBuffers
  <2>2. LeaseOwner' = [LeaseOwner EXCEPT ![b] = "filling"]
    <3>1. \A c \in Buffers : (c = filling' <=> c = b) /\ c # filling
      BY <1>1, <2>1 DEF BeginFrame, Buffers
    <3> QED  BY <1>1, <3>1 DEF BeginFrame, LeaseOwner
  <2>3. LeaseOwner[b] = "driver" /\ \A c \in Buffers : LeaseOwner[c] # "filling"
    BY <1>1, <2>1, OwnerOf DEF BeginFrame, Buffers
  <2>4. Lease!Fill(b)
    BY <1>1, <2>1, <2>2, <2>3 DEF BeginFrame, Lease!Fill, Lease!Pass
  <2> QED  BY <2>4 DEF Lease!Next
<1>2. CASE EndFrame
  <2>1. filling \in Buffers /\ filling \notin locked
    BY <1>2 DEF EndFrame, IInv, TypeOK, TasksHoldLocks
  <2>2. LeaseOwner' = [LeaseOwner EXCEPT ![filling] = "driver"]
    <3>1. \A c \in Buffers : c # filling'
      BY <1>2 DEF EndFrame, Buffers
    <3>2. \A w \in Workers : phase[w] = "callback" => task[w].buf # filling
      BY <2>1 DEF IInv, TasksHoldLocks, Busy
    <3> QED  BY <1>2, <2>1, <3>1, <3>2 DEF EndFrame, LeaseOwner
  <2>3. image' = [image EXCEPT ![filling] = frames + 1] /\ image' = [image EXCEPT ![filling] = image'[filling]]
    BY <1>2, <2>1 DEF EndFrame, IInv, TypeOK
  <2>4. \A c \in Buffers : image'[filling] > image[c]
    BY <1>2, <2>1 DEF EndFrame, IInv, TypeOK, FramesIncrease
  <2>5. Lease!Complete(filling)
    BY <1>2, <2>1, <2>2, <2>3, <2>4, OwnerOf DEF EndFrame, Lease!Complete, Lease!Pass
  <2> QED  BY <2>1, <2>5 DEF Lease!Next
<1>3. CASE DropFrame
  BY <1>3, SameOwners, Stutter DEF DropFrame
<1> QED  BY <1>1, <1>2, <1>3 DEF Driver

LEMMA DispatcherLease ==
  ASSUME LInv, Dispatcher
  PROVE  [Lease!Next]_Lease!vars
<1> USE DEF LInv, driverVars, eventVars, dispVars, poolVars, appVars
<1>1. CASE LockSeqBuf
  <2>1. /\ cur \in Buffers /\ cur # filling /\ cur \notin locked
        /\ locked' = locked \cup {cur} /\ image[cur] # 0
    BY <1>1 DEF LockSeqBuf, Lockable, IInv, TypeOK, DispatcherHolds, CurrentComplete
  <2>2. LeaseOwner' = [LeaseOwner EXCEPT ![cur] = "wrapper"]
    BY <1>1, <2>1 DEF LockSeqBuf, LeaseOwner, IInv, TasksHoldLocks, Busy
  <2>3. Lease!Take(cur)
    BY <1>1, <2>1, <2>2, OwnerOf DEF LockSeqBuf, Lease!Take, Lease!Pass
  <2> QED  BY <2>1, <2>3 DEF Lease!Next
<1>2. CASE WaitFrame \/ WaitTerminate \/ GetActSeqBuf \/ PushTask \/ DispatchFails
  BY <1>2, SameOwners, Stutter
     DEF WaitFrame, WaitTerminate, GetActSeqBuf, PushTask, DispatchFails
<1>3. CASE WaitFails
  BY <1>3, SameOwners, Stutter DEF WaitFails, vars
<1> QED  BY <1>1, <1>2, <1>3 DEF Dispatcher

\* std::terminate, with a handle open.
LEMMA TerminateLease ==
  ASSUME LInv, Terminate, handle \notin {"none", "terminated"}
  PROVE  [Lease!Next]_Lease!vars
<1>1. LeaseOwner' = [b \in Buffers |-> IF b \in locked THEN "wrapper" ELSE "driver"]
  BY DEF Terminate, LeaseOwner, Buffers
<1>2. LeaseOwner' = [b \in Buffers |->
                      IF LeaseOwner[b] \in {"wrapper", "user"} THEN "wrapper" ELSE "driver"]
  BY <1>1, OwnerOf DEF LInv
<1>3. Lease!Abandon
  BY <1>2 DEF Terminate, Lease!Abandon
<1> QED  BY <1>3 DEF Lease!Next

LEMMA WorkerLease ==
  ASSUME LInv, NEW w \in Workers, Worker(w)
  PROVE  [Lease!Next]_Lease!vars
<1> USE DEF LInv, driverVars, eventVars, dispVars, poolVars, appVars
<1> DEFINE b == task[w].buf
<1>1. CASE TakeTask(w)
  BY <1>1, SameOwners, Stutter DEF TakeTask, IInv, TypeOK
<1>2. ASSUME Busy(w)
      PROVE  /\ b \in Buffers /\ b \in locked /\ b # filling
             /\ \A v \in Workers \ {w} : Busy(v) => task[v].buf # b
             /\ handle \notin {"none", "terminated"}
  BY <1>2, RunningTasks DEF IInv, TasksHoldLocks, TasksDisjoint, ThreadsFollowHandle
<1> HIDE DEF b
<1>3. CASE BeginCallback(w)
  <2>1. Busy(w) /\ phase' = [phase EXCEPT ![w] = "callback"]
    BY <1>3 DEF BeginCallback, Busy
  <2>2. LeaseOwner[b] = "wrapper"
    BY <1>2, <1>3, <2>1, OwnerOf DEF BeginCallback, Busy
  <2>3. LeaseOwner' = [LeaseOwner EXCEPT ![b] = "user"]
    BY <1>2, <1>3, <2>1 DEF BeginCallback, LeaseOwner, IInv, TypeOK, b
  <2>4. Lease!Lend(b)
    BY <1>2, <1>3, <2>1, <2>2, <2>3 DEF BeginCallback, Lease!Lend, Lease!Pass
  <2> QED  BY <1>2, <2>1, <2>4 DEF Lease!Next
<1>4. CASE EndCallback(w)
  <2>1. Busy(w) /\ phase' = [phase EXCEPT ![w] = "unlock"]
    BY <1>4 DEF EndCallback, Busy
  <2>2. LeaseOwner[b] = "user"
    BY <1>2, <1>4, <2>1, OwnerOf DEF EndCallback, b
  <2>3. LeaseOwner' = [LeaseOwner EXCEPT ![b] = "wrapper"]
    BY <1>2, <1>4, <2>1 DEF EndCallback, LeaseOwner, IInv, TypeOK, Busy, b
  <2>4. Lease!Reclaim(b)
    BY <1>2, <1>4, <2>1, <2>2, <2>3 DEF EndCallback, Lease!Reclaim, Lease!Pass
  <2> QED  BY <1>2, <2>1, <2>4 DEF Lease!Next
<1>5. CASE UnlockSeqBuf(w)
  <2>1. /\ Busy(w) /\ phase[w] = "unlock" /\ locked' = locked \ {b}
        /\ phase' = [phase EXCEPT ![w] = "idle"] /\ task' = [task EXCEPT ![w] = NoTask]
    BY <1>5 DEF UnlockSeqBuf, ReturnBuffer, Busy, b
  <2>2. LeaseOwner[b] = "wrapper"
    BY <1>2, <2>1, OwnerOf DEF Busy
  <2>3. LeaseOwner' = [LeaseOwner EXCEPT ![b] = "driver"]
    BY <1>2, <1>5, <2>1 DEF UnlockSeqBuf, LeaseOwner, IInv, TypeOK, Busy
  <2>4. Lease!Return(b)
    BY <1>2, <1>5, <2>1, <2>2, <2>3 DEF UnlockSeqBuf, Lease!Return, Lease!Pass
  <2> QED  BY <1>2, <2>1, <2>4 DEF Lease!Next
<1>6. CASE TaskThrows(w)
  BY <1>2, <1>6, TerminateLease DEF TaskThrows, Busy
<1> QED  BY <1>1, <1>3, <1>4, <1>5, <1>6 DEF Worker

LEMMA ApplicationLease ==
  ASSUME LInv, Application
  PROVE  [Lease!Next]_Lease!vars
<1> USE DEF LInv, driverVars, eventVars, dispVars, poolVars, appVars
<1>1. CASE Construct
  <2>1. Lease!Open
    BY <1>1, SameOwners DEF Construct, Lease!Open
  <2> QED  BY <2>1 DEF Lease!Next
<1>2. CASE ResetTerminate
  <2>1. \A b \in Buffers : LeaseOwner[b] # "user"
    BY <1>2, OwnerOf DEF ResetTerminate, IInv, ThreadsFollowHandle, Busy
  <2>2. Lease!Close
    BY <1>2, <2>1, SameOwners DEF ResetTerminate, Lease!Close
  <2> QED  BY <2>2 DEF Lease!Next
<1>3. CASE MembersDestroyed \/ DestructorThrows
  BY <1>3, TerminateLease DEF MembersDestroyed, DestructorThrows
<1>4. CASE SetTriggerSoftware \/ CaptureVideo \/ ConstructorThrows \/ Triggering \/ Destroy
  BY <1>4, SameOwners, Stutter
     DEF SetTriggerSoftware, CaptureVideo, ConstructorThrows, Triggering, Trigger,
         TriggerReturns, Destroy
<1>5. CASE SetTriggerOff \/ StopLiveVideo \/ CaptureStopped \/ SignalTerminate
  BY <1>5, SameOwners, Stutter
     DEF SetTriggerOff, StopLiveVideo, CaptureStopped, SignalTerminate
<1>6. CASE JoinDispatcher \/ WaitForTasks \/ Finished
  BY <1>6, SameOwners, Stutter DEF JoinDispatcher, WaitForTasks, Finished, vars
<1> QED  BY <1>1, <1>2, <1>3, <1>4, <1>5, <1>6 DEF Application, Constructor, Destructor

\* Every behaviour of the capture handle is one that ImageLease allows: in
\* particular a lent buffer keeps its image until it is given back, and a handle
\* does not end while a callback has a buffer.
THEOREM Refinement == Spec => ImplementsLease
<1>1. LInv /\ [Next]_vars => [Lease!Next]_Lease!vars
  <2> SUFFICES ASSUME LInv, [Next]_vars PROVE [Lease!Next]_Lease!vars
    OBVIOUS
  <2>1. CASE UNCHANGED vars
    BY <2>1, SameOwners, Stutter DEF vars, driverVars, poolVars, appVars
  <2> QED  BY <2>1, DriverLease, DispatcherLease, WorkerLease, ApplicationLease DEF Next
<1> QED  BY <1>1, LeaseInit, LeaseInvariance, PTL DEF Spec, ImplementsLease, Lease!Spec

-------------------------------------------------------------------------------
(* What the handle delivers and what it leaves behind. These properties depend  *)
(* on the environment: on the calls that may fail and on the event that a wait  *)
(* reports first. Each theorem names what it assumes; without it, a run of TLC  *)
(* shows a violation.                                                           *)

\* A task on buffer b waits or runs.
InFlight(b) ==
  \/ \E i \in 1 .. Len(queue) : queue[i].buf = b
  \/ \E w \in Workers : Busy(w) /\ task[w].buf = b

\* Every lock belongs to a task, or to the dispatcher that is about to push one.
LocksOwned ==
  handle # "terminated" =>
    \A b \in locked : (disp = "info" /\ cur = b) \/ InFlight(b)

\* What is to be shown was captured after the handle was constructed.
Fresh ==
  /\ born <= frames
  /\ disp \in {"none", "done"} /\ handle # "terminated" => ~frameEvent
  /\ (frameEvent \/ disp = "get") /\ handle # "terminated" => frames > born
  /\ disp \in {"lock", "info"} /\ cur # filling => image[cur] > born
  /\ \A b \in Buffers : InFlight(b) => image[b] > born

\* A frame whose callback has begun has been shown.
CallbacksShown ==
  \A w \in Workers : phase[w] \in {"callback", "unlock"} => task[w].frame \in shown

\* The newest frame of a handle is on its way to a callback, or a newer one is
\* just overwriting it, or it has been shown.
NewestUnderway ==
  handle \notin {"none", "terminated"} /\ frames > born =>
    \/ frameEvent \/ disp = "get"
    \/ disp \in {"lock", "info"} /\ cur = last
    \/ filling # 0 /\ filling = last
    \/ InFlight(last)
    \/ frames \in shown

-------------------------------------------------------------------------------
(* How the steps change which buffers are in flight. *)

LEMMA SameInFlight ==
  ASSUME queue' = queue, task' = task, \A w \in Workers : Busy(w)' <=> Busy(w)
  PROVE  \A b : InFlight(b)' <=> InFlight(b)
BY DEF InFlight

LEMMA TakeInFlight ==
  ASSUME IInv, NEW w \in Workers, TakeTask(w)
  PROVE  \A b : InFlight(b)' <=> InFlight(b)
<1> DEFINE n == Len(queue)
<1>1. /\ n \in Nat /\ n >= 1 /\ Head(queue) = queue[1] /\ Len(queue') = n - 1
      /\ \A i \in 1 .. n - 1 : i + 1 \in 1 .. n /\ queue'[i] = queue[i + 1]
      /\ \A i \in 1 .. n : i # 1 => i - 1 \in 1 .. n - 1 /\ queue'[i - 1] = queue[i]
  BY DEF TakeTask, IInv, TypeOK
<1>2. /\ \A v \in Workers \ {w} : task'[v] = task[v] /\ phase'[v] = phase[v]
      /\ task'[w] = queue[1] /\ phase'[w] = "task" /\ phase[w] = "idle"
  BY <1>1 DEF TakeTask, IInv, TypeOK
<1> HIDE DEF n
<1> SUFFICES ASSUME NEW b PROVE InFlight(b)' <=> InFlight(b)
  OBVIOUS
<1>3. ASSUME InFlight(b) PROVE InFlight(b)'
  <2>1. ASSUME NEW i \in 1 .. n, queue[i].buf = b PROVE InFlight(b)'
    BY <1>1, <1>2, <2>1 DEF InFlight, Busy
  <2>2. ASSUME NEW v \in Workers, Busy(v), task[v].buf = b PROVE InFlight(b)'
    BY <1>2, <2>2 DEF InFlight, Busy
  <2> QED  BY <1>3, <2>1, <2>2 DEF InFlight, n
<1>4. ASSUME InFlight(b)' PROVE InFlight(b)
  <2>1. ASSUME NEW i \in 1 .. n - 1, queue'[i].buf = b PROVE InFlight(b)
    BY <1>1, <2>1 DEF InFlight, n
  <2>2. ASSUME NEW v \in Workers, Busy(v)', task'[v].buf = b PROVE InFlight(b)
    <3>1. 1 \in 1 .. n
      BY <1>1
    <3> QED  BY <1>2, <2>2, <3>1 DEF InFlight, Busy, n
  <2> QED  BY <1>1, <1>4, <2>1, <2>2 DEF InFlight
<1> QED  BY <1>3, <1>4

LEMMA PushInFlight ==
  ASSUME IInv, PushTask
  PROVE  \A b : InFlight(b)' <=> InFlight(b) \/ b = cur
<1> DEFINE n == Len(queue)
<1>1. n \in Nat /\ queue' = Append(queue, [buf |-> cur, frame |-> image[cur]])
  BY DEF PushTask, Enqueue, Captured, IInv, TypeOK
<1>2. [buf |-> cur, frame |-> image[cur]] \in Task
  BY DEF PushTask, IInv, TypeOK, DispatcherHolds, Task
<1>3. /\ Len(queue') = n + 1 /\ n + 1 \in 1 .. n + 1 /\ queue'[n + 1].buf = cur
      /\ \A i \in 1 .. n : i \in 1 .. n + 1 /\ queue'[i] = queue[i]
      /\ \A i \in 1 .. n + 1 : i # n + 1 => i \in 1 .. n
  BY <1>1, <1>2 DEF IInv, TypeOK
<1>4. task' = task /\ phase' = phase
  BY DEF PushTask
<1> HIDE DEF n
<1> QED  BY <1>3, <1>4 DEF InFlight, Busy, n

LEMMA UnlockInFlight ==
  ASSUME IInv, NEW w \in Workers, UnlockSeqBuf(w)
  PROVE  \A b : InFlight(b)' <=> InFlight(b) /\ b # task[w].buf
<1>1. /\ \A v \in Workers \ {w} : task'[v] = task[v] /\ phase'[v] = phase[v]
      /\ phase'[w] = "idle" /\ phase[w] = "unlock" /\ queue' = queue
  BY DEF UnlockSeqBuf, IInv, TypeOK
<1> QED  BY <1>1 DEF InFlight, Busy, IInv, TasksDisjoint

\* A task in flight keeps its buffer locked.
LEMMA FlightLocked ==
  ASSUME IInv, NEW b, InFlight(b)
  PROVE  b \in locked /\ b # filling
BY DEF InFlight, IInv, TasksHoldLocks

\* The steps of the application and of std::terminate.
LEMMA ApplicationSteps ==
  ASSUME Application
  PROVE  \/ Terminate \/ Construct
         \/ /\ UNCHANGED <<filling, last, frames, image, locked, frameEvent, cur, queue, phase,
                          task, born, shown>>
            /\ disp' = disp \/ (disp = "done" /\ disp' = "none" /\ handle = "join")
            /\ handle' \notin {"none", "terminated"} => handle \notin {"none", "terminated"}
            /\ handle' # "terminated" => handle # "terminated"
<1> USE DEF driverVars, eventVars, dispVars, poolVars, appVars
<1>1. CASE Constructor
  BY <1>1 DEF Constructor, SetTriggerSoftware, CaptureVideo, ConstructorThrows
<1>2. CASE Triggering \/ Destroy
  BY <1>2 DEF Triggering, Trigger, TriggerReturns, Destroy
<1>3. CASE Destructor
  BY <1>3 DEF Destructor, SetTriggerOff, StopLiveVideo, CaptureStopped, DestructorThrows,
              SignalTerminate, JoinDispatcher, DispatcherGone, WaitForTasks, ResetTerminate,
              MembersDestroyed
<1>4. CASE Finished
  BY <1>4 DEF Finished, vars
<1> QED  BY <1>1, <1>2, <1>3, <1>4 DEF Application

-------------------------------------------------------------------------------
(* Locks. *)

LEMMA LocksOwnedStep ==
  ASSUME "is_GetImageInfo" \notin MayFail, IInv, LocksOwned, [Next]_vars
  PROVE  LocksOwned'
<1> USE DEF LocksOwned, driverVars, eventVars, dispVars, poolVars, appVars
<1>1. CASE Terminate
  BY <1>1 DEF Terminate
<1>2. CASE Driver \/ WaitFrame \/ WaitTerminate \/ GetActSeqBuf \/ LockSeqBuf \/ DispatchFails
  BY <1>2, SameInFlight
     DEF Driver, BeginFrame, EndFrame, DropFrame, WaitFrame, WaitTerminate, GetActSeqBuf,
         LockSeqBuf, DispatchFails, Busy
<1>3. CASE PushTask
  BY <1>3, PushInFlight DEF PushTask
<1>4. ASSUME NEW w \in Workers, Worker(w) PROVE LocksOwned'
  <2>1. CASE TakeTask(w)
    BY <2>1, TakeInFlight DEF TakeTask
  <2>2. CASE BeginCallback(w) \/ EndCallback(w)
    BY <2>2, SameInFlight DEF BeginCallback, EndCallback, Busy, IInv, TypeOK
  <2>3. CASE UnlockSeqBuf(w)
    BY <2>3, UnlockInFlight DEF UnlockSeqBuf, ReturnBuffer
  <2> QED  BY <1>1, <1>4, <2>1, <2>2, <2>3 DEF Worker, TaskThrows
<1>5. CASE Application
  <2>1. CASE Construct
    BY <2>1, SameInFlight DEF Construct, Busy, IInv, ThreadsFollowHandle
  <2>2. CASE ~Construct /\ ~Terminate
    <3>1. /\ UNCHANGED <<locked, cur, queue, phase, task>>
          /\ disp' = disp \/ disp = "done"
          /\ handle' # "terminated" => handle # "terminated"
      BY <1>5, <2>2, ApplicationSteps
    <3> QED  BY <3>1, SameInFlight DEF Busy
  <2> QED  BY <1>1, <2>1, <2>2
<1>6. CASE UNCHANGED vars
  BY <1>6, SameInFlight DEF vars, Busy
<1> QED  BY <1>2, <1>3, <1>4, <1>5, <1>6 DEF Next, Dispatcher, WaitFails

\* When a handle is gone no buffer is locked (ueye_handle.cpp:1015), provided that
\* is_GetImageInfo, between the lock and the task that gives it back, does not fail.
THEOREM NoLockLeft ==
  ASSUME "is_GetImageInfo" \notin MayFail
  PROVE  Spec => []AllUnlocked
<1>1. Init => LocksOwned
  BY DEF Init, LocksOwned
<1>2. IInv /\ LocksOwned /\ [Next]_vars => LocksOwned'
  BY LocksOwnedStep
<1>3. IInv /\ LocksOwned => AllUnlocked
  BY DEF IInv, LocksOwned, InFlight, AllUnlocked, ThreadsFollowHandle, TypeOK
<1> QED  BY <1>1, <1>2, <1>3, InitIInv, NextIInv, PTL DEF Spec

-------------------------------------------------------------------------------
(* Frames. *)

LEMMA DriverFresh ==
  ASSUME IInv, Fresh, Driver
  PROVE  Fresh'
<1> USE DEF driverVars, eventVars, dispVars, poolVars, appVars
<1>1. CASE BeginFrame
  <2>1. PICK b \in Buffers : filling' = b /\ b \notin locked /\ image' = [image EXCEPT ![b] = 0]
    BY <1>1 DEF BeginFrame, NextBuffers
  <2>2. /\ UNCHANGED <<disp, cur, queue, phase, task, frames, born, frameEvent, handle>>
        /\ filling = 0
    BY <1>1 DEF BeginFrame
  <2>3. disp \in {"lock", "info"} => cur \in Buffers /\ cur # filling
    BY <2>2 DEF IInv, TypeOK, DispatcherHolds, Buffers
  <2>4. \A c \in Buffers : InFlight(c)' => InFlight(c) /\ c # b
    BY <2>1, <2>2, SameInFlight, FlightLocked DEF Busy
  <2> QED  BY <2>1, <2>2, <2>3, <2>4 DEF Fresh, IInv, TypeOK
<1>2. CASE EndFrame
  <2>1. /\ UNCHANGED <<disp, cur, queue, phase, task, born, handle>>
        /\ filling' = 0 /\ frames' = frames + 1 /\ image' = [image EXCEPT ![filling] = frames + 1]
    BY <1>2 DEF EndFrame
  <2>2. /\ filling \in Buffers /\ capture \notin {"off", "armed"}
        /\ frames \in Nat /\ born \in Nat
    BY <1>2 DEF EndFrame, IInv, TypeOK, ThreadsFollowHandle
  <2>3. disp \notin {"none", "done"} \/ handle = "terminated"
    BY <2>2 DEF IInv, ThreadsFollowHandle
  <2>4. \A c \in Buffers : InFlight(c)' => InFlight(c) /\ c # filling
    BY <2>1, SameInFlight, FlightLocked DEF Busy
  <2>5. disp \in {"lock", "info"} => cur \in Buffers
    BY DEF IInv, TypeOK, DispatcherHolds
  <2> QED  BY <2>1, <2>2, <2>3, <2>4, <2>5 DEF Fresh, IInv, TypeOK
<1>3. CASE DropFrame
  BY <1>3, SameInFlight DEF DropFrame, Busy, Fresh
<1> QED  BY <1>1, <1>2, <1>3 DEF Driver

LEMMA DispatcherFresh ==
  ASSUME FrameFirst, IInv, Fresh, Dispatcher
  PROVE  Fresh'
<1> USE DEF driverVars, eventVars, dispVars, poolVars, appVars
<1>1. CASE WaitFrame
  BY <1>1, SameInFlight DEF WaitFrame, Busy, Fresh
<1>2. CASE WaitTerminate
  BY <1>2, SameInFlight DEF WaitTerminate, PendingFrame, Busy, Fresh
<1>3. CASE GetActSeqBuf
  <2>1. /\ UNCHANGED <<filling, last, frames, image, frameEvent, queue, phase, task, handle, born>>
        /\ disp = "get" /\ disp' = "lock" /\ cur' = last
    BY <1>3 DEF GetActSeqBuf
  <2>2. last # filling => image[last] = frames
    BY <2>1 DEF IInv, DispatcherHolds, FramesIncrease, ThreadsFollowHandle
  <2>3. \A c \in Buffers : InFlight(c)' <=> InFlight(c)
    BY <2>1, SameInFlight DEF Busy
  <2>4. frames > born
    BY <2>1 DEF Fresh, IInv, ThreadsFollowHandle
  <2> QED  BY <2>1, <2>2, <2>3, <2>4 DEF Fresh
<1>4. CASE LockSeqBuf \/ DispatchFails
  BY <1>4, SameInFlight DEF LockSeqBuf, DispatchFails, Busy, Fresh
<1>5. CASE PushTask
  <2>1. UNCHANGED <<filling, frames, image, frameEvent, handle, born>> /\ disp = "info" /\ disp' = "wait"
    BY <1>5 DEF PushTask
  <2>2. cur # filling
    BY <2>1 DEF IInv, DispatcherHolds, TasksHoldLocks
  <2> QED  BY <1>5, <2>1, <2>2, PushInFlight DEF Fresh
<1>6. CASE WaitFails
  BY <1>6, SameInFlight DEF WaitFails, vars, Busy, Fresh
<1> QED  BY <1>1, <1>2, <1>3, <1>4, <1>5, <1>6 DEF Dispatcher

LEMMA TerminateFresh ==
  ASSUME IInv, Fresh, Terminate
  PROVE  Fresh'
BY DEF Terminate, Fresh, InFlight, Busy

LEMMA FreshStep ==
  ASSUME FrameFirst, IInv, Fresh, [Next]_vars
  PROVE  Fresh'
<1> USE DEF driverVars, eventVars, dispVars, poolVars, appVars
<1>1. ASSUME NEW w \in Workers, Worker(w) PROVE Fresh'
  <2>1. CASE TakeTask(w)
    BY <2>1, TakeInFlight DEF TakeTask, Fresh
  <2>2. CASE BeginCallback(w) \/ EndCallback(w)
    BY <2>2, SameInFlight DEF BeginCallback, EndCallback, Busy, IInv, TypeOK, Fresh
  <2>3. CASE UnlockSeqBuf(w)
    BY <2>3, UnlockInFlight DEF UnlockSeqBuf, Fresh
  <2> QED  BY <1>1, <2>1, <2>2, <2>3, TerminateFresh DEF Worker, TaskThrows
<1>2. CASE Application
  <2>1. CASE Construct
    <3>1. /\ handle = "none" /\ disp = "none" /\ ~frameEvent /\ frames \in Nat
          /\ queue = <<>> /\ \A w \in Workers : ~Busy(w)
      BY <2>1 DEF Construct, IInv, TypeOK, ThreadsFollowHandle, Fresh
    <3>2. \A c : ~InFlight(c)
      BY <3>1 DEF InFlight
    <3>3. \A c : ~InFlight(c)'
      BY <2>1, <3>2, SameInFlight DEF Construct, Busy
    <3> QED  BY <2>1, <3>1, <3>3 DEF Construct, Fresh
  <2>2. CASE ~Construct /\ ~Terminate
    <3>1. /\ UNCHANGED <<filling, frames, image, frameEvent, cur, queue, phase, task, born>>
          /\ disp' = disp \/ (disp = "done" /\ disp' = "none")
          /\ handle' # "terminated" => handle # "terminated"
      BY <1>2, <2>2, ApplicationSteps
    <3> QED  BY <3>1, SameInFlight DEF Busy, Fresh
  <2> QED  BY <2>1, <2>2, TerminateFresh
<1>3. CASE UNCHANGED vars
  BY <1>3, SameInFlight DEF vars, Busy, Fresh
<1> QED  BY <1>1, <1>2, <1>3, DriverFresh, DispatcherFresh DEF Next

LEMMA InitFresh == Init => Fresh
BY DEF Init, Fresh, InFlight, Busy

\* No callback is given a frame captured before its handle was constructed,
\* provided that the dispatcher's wait reports a pending frame before the
\* terminate event.
THEOREM FreshFrames ==
  ASSUME FrameFirst
  PROVE  Spec => []NoStaleFrame
<1>1. IInv /\ Fresh /\ [Next]_vars => Fresh'
  BY FreshStep
<1>2. IInv /\ Fresh => NoStaleFrame
  <2> SUFFICES ASSUME IInv, Fresh, NEW w \in Workers, phase[w] = "callback"
               PROVE  task[w].frame > born
    BY DEF NoStaleFrame
  <2>1. Busy(w)
    BY DEF Busy
  <2>2. InFlight(task[w].buf) /\ task[w].buf \in Buffers /\ image[task[w].buf] = task[w].frame
    BY <2>1, RunningTasks DEF InFlight, IInv, TasksHoldLocks
  <2> QED  BY <2>2 DEF Fresh
<1> QED  BY <1>1, <1>2, InitFresh, InitIInv, NextIInv, PTL DEF Spec

-------------------------------------------------------------------------------
(* The newest frame. *)

DispatchSucceeds == {"is_GetActSeqBuf", "is_LockSeqBuf", "is_GetImageInfo"} \cap MayFail = {}

NInv == IInv /\ LocksOwned /\ Fresh /\ CallbacksShown /\ NewestUnderway

LEMMA CallbacksShownStep ==
  ASSUME IInv, CallbacksShown, [Next]_vars
  PROVE  CallbacksShown'
<1> USE DEF CallbacksShown, driverVars, eventVars, dispVars, poolVars, appVars
<1>1. CASE Terminate
  BY <1>1 DEF Terminate
<1>2. CASE Driver \/ Dispatcher
  BY <1>2 DEF Driver, BeginFrame, EndFrame, DropFrame, Dispatcher, WaitFrame, WaitTerminate,
              GetActSeqBuf, LockSeqBuf, PushTask, DispatchFails, WaitFails, vars
<1>3. ASSUME NEW w \in Workers, Worker(w) PROVE CallbacksShown'
  <2>1. CASE TakeTask(w) \/ BeginCallback(w) \/ EndCallback(w) \/ UnlockSeqBuf(w)
    BY <2>1 DEF TakeTask, BeginCallback, EndCallback, UnlockSeqBuf, IInv, TypeOK
  <2> QED  BY <1>1, <1>3, <2>1 DEF Worker, TaskThrows
<1>4. CASE Application
  BY <1>1, <1>4, ApplicationSteps DEF Construct
<1>5. CASE UNCHANGED vars
  BY <1>5 DEF vars
<1> QED  BY <1>2, <1>3, <1>4, <1>5 DEF Next

LEMMA DispatcherNewest ==
  ASSUME DispatchSucceeds, NInv, Dispatcher
  PROVE  NewestUnderway'
<1> USE DEF NInv, NewestUnderway, driverVars, eventVars, dispVars, poolVars, appVars
<1>1. CASE WaitFrame
  BY <1>1 DEF WaitFrame
<1>2. CASE WaitTerminate \/ LockSeqBuf
  BY <1>2, SameInFlight DEF WaitTerminate, LockSeqBuf, Busy
<1>3. CASE GetActSeqBuf
  BY <1>3 DEF GetActSeqBuf
<1>4. CASE PushTask
  BY <1>4, PushInFlight DEF PushTask
<1>5. CASE DispatchFails
  <2>1. /\ disp = "lock" /\ (cur = filling \/ cur \in locked) /\ cur # 0
        /\ UNCHANGED <<frameEvent, filling, last, frames, born, shown, handle, locked,
                      queue, phase, task>>
    BY <1>5 DEF DispatchFails, DispatchSucceeds, Lockable, IInv, DispatcherHolds
  <2>2. handle # "terminated"
    BY <2>1 DEF IInv, ThreadsFollowHandle
  <2>3. cur = last => (filling # 0 /\ filling = last) \/ InFlight(last)
    BY <2>1, <2>2 DEF LocksOwned
  <2> QED  BY <2>1, <2>3, SameInFlight DEF Busy
<1>6. CASE WaitFails
  BY <1>6, SameInFlight DEF WaitFails, vars, Busy
<1> QED  BY <1>1, <1>2, <1>3, <1>4, <1>5, <1>6 DEF Dispatcher

LEMMA WorkerNewest ==
  ASSUME NInv, NEW w \in Workers, Worker(w)
  PROVE  NewestUnderway'
<1> USE DEF NInv, NewestUnderway, driverVars, eventVars, dispVars, poolVars, appVars
<1>1. CASE TakeTask(w)
  BY <1>1, TakeInFlight DEF TakeTask
<1>2. CASE BeginCallback(w)
  BY <1>2, SameInFlight DEF BeginCallback, Busy, IInv, TypeOK
<1>3. CASE EndCallback(w)
  BY <1>3, SameInFlight DEF EndCallback, Busy, IInv, TypeOK
<1>4. CASE UnlockSeqBuf(w)
  <2>1. /\ Busy(w) /\ phase[w] = "unlock"
        /\ UNCHANGED <<frameEvent, disp, cur, filling, last, frames, born, shown, handle>>
    BY <1>4 DEF UnlockSeqBuf, Busy
  <2>2. task[w].buf \in Buffers /\ task[w].buf # filling
        /\ image[task[w].buf] = task[w].frame /\ task[w].frame \in shown
    BY <2>1, RunningTasks DEF IInv, TasksHoldLocks, CallbacksShown
  <2>3. handle # "terminated" /\ task[w].buf = last => frames \in shown
    BY <2>2 DEF IInv, FramesIncrease, Buffers
  <2> QED  BY <1>4, <2>1, <2>3, UnlockInFlight
<1>5. CASE TaskThrows(w)
  BY <1>5 DEF TaskThrows, Terminate
<1> QED  BY <1>1, <1>2, <1>3, <1>4, <1>5 DEF Worker

LEMMA NewestStep ==
  ASSUME DispatchSucceeds, NInv, [Next]_vars
  PROVE  NewestUnderway'
<1> USE DEF NewestUnderway, driverVars, eventVars, dispVars, poolVars, appVars
<1>1. CASE Driver
  <2>1. CASE EndFrame
    BY <2>1 DEF EndFrame
  <2>2. CASE BeginFrame \/ DropFrame
    BY <2>2, SameInFlight DEF NInv, BeginFrame, DropFrame, Busy
  <2> QED  BY <1>1, <2>1, <2>2 DEF Driver
<1>2. CASE Application
  <2>1. CASE Terminate
    BY <2>1 DEF Terminate
  <2>2. CASE Construct
    BY <2>2 DEF NInv, Construct, IInv, TypeOK
  <2>3. CASE ~Construct /\ ~Terminate
    <3>1. /\ UNCHANGED <<filling, last, frames, frameEvent, cur, queue, phase, task, born, shown>>
          /\ disp' = disp \/ (disp = "done" /\ disp' = "none")
          /\ handle' \notin {"none", "terminated"} => handle \notin {"none", "terminated"}
      BY <1>2, <2>3, ApplicationSteps
    <3> QED  BY <3>1, SameInFlight DEF NInv, Busy
  <2> QED  BY <2>1, <2>2, <2>3
<1>3. CASE UNCHANGED vars
  BY <1>3, SameInFlight DEF NInv, vars, Busy
<1> QED  BY <1>1, <1>2, <1>3, DispatcherNewest, WorkerNewest DEF Next

\* When the threads of a handle are gone, the newest frame captured during its life
\* has been shown, provided that the dispatcher's three calls do not fail and a
\* pending frame is reported before the terminate event.
THEOREM NewestFrame ==
  ASSUME FrameFirst, DispatchSucceeds
  PROVE  Spec => []NewestShown
<1>1. Init => LocksOwned /\ CallbacksShown /\ NewestUnderway
  BY DEF Init, LocksOwned, CallbacksShown, NewestUnderway
<1>2. NInv /\ [Next]_vars => NInv'
  BY NextIInv, LocksOwnedStep, FreshStep, CallbacksShownStep, NewestStep
     DEF NInv, DispatchSucceeds
<1>3. NInv => NewestShown
  <2> SUFFICES ASSUME NInv, handle = "reset", frames > born PROVE frames \in shown
    BY DEF NewestShown
  <2>1. disp = "none" /\ filling = 0 /\ ~frameEvent
    BY DEF NInv, IInv, ThreadsFollowHandle, Fresh
  <2>2. ~InFlight(last)
    BY DEF NInv, IInv, ThreadsFollowHandle, InFlight
  <2> QED  BY <2>1, <2>2 DEF NInv, NewestUnderway
<1>4. Init => NInv
  BY <1>1, InitIInv, InitFresh DEF NInv
<1> QED  BY <1>2, <1>3, <1>4, PTL DEF Spec
===============================================================================
