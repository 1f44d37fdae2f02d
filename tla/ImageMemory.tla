------------------------------ MODULE ImageMemory ------------------------------
(***************************************************************************)
(* imageMemoryManager (src/ueye_handle.cpp): the image buffers of one      *)
(* opened camera. The manager is a std::map from the address of a buffer   *)
(* to its ID; initialize() allocates buffers and adds them to the driver's *)
(* sequence, cleanup() frees them.                                         *)
(*                                                                         *)
(* The driver's side is what this code uses of it: an allocation returns   *)
(* an address and an ID that no allocated buffer has, those of a freed     *)
(* buffer included.                                                        *)
(***************************************************************************)
EXTENDS Naturals

CONSTANTS
  Concurrency,   \* uEyeHandle::_concurrency: number of rounds of initialize()
  Addresses,     \* addresses of image memory, numbers other than 0 (nullptr)
  IDs,           \* memory IDs, numbers other than 0
  MayFail        \* the calls that may fail

ASSUME MemoryAssumption ==
  /\ Concurrency \in Nat
  /\ Addresses \subseteq Nat \ {0}
  /\ IDs \subseteq Nat \ {0}

VARIABLES
  step,       \* the manager's next call, "idle" outside of its operations
  left,       \* rounds left in initialize()
  memPtr,     \* locals of the round, or the buffer that cleanup() is at
  memID,
  managed,    \* the map itself
  allocated,  \* driver: the IDs of the allocated buffers
  sequence,   \* driver: the buffers of the image sequence
  outcome,    \* how the last operation ended
  unfreed     \* history: buffers is_FreeImageMem failed to free

memoryVars == <<step, left, memPtr, memID, managed, allocated, sequence, outcome, unfreed>>

Steps == {"idle", "alloc", "add", "undo", "store", "free"}

TypeOK ==
  /\ step \in Steps
  /\ left \in 0 .. Concurrency
  /\ memPtr \in Addresses \cup {0}
  /\ memID \in IDs \cup {0}
  /\ DOMAIN managed \subseteq Addresses \cup {0}
  /\ \A a \in DOMAIN managed : managed[a] \in IDs \cup {0}
  /\ DOMAIN allocated \subseteq Addresses
  /\ \A a \in DOMAIN allocated : allocated[a] \in IDs
  /\ sequence \subseteq DOMAIN allocated
  /\ outcome \in {"none", "ok", "threw", "cleaned"}
  /\ unfreed \subseteq Addresses

NoBuffers == [a \in {} |-> 0]

Init ==
  /\ step = "idle" /\ left = 0 /\ memPtr = 0 /\ memID = 0
  /\ managed = NoBuffers
  /\ allocated = NoBuffers /\ sequence = {}
  /\ outcome = "none" /\ unfreed = {}

\* Function f with a mapped to v.
Put(f, a, v) == [x \in DOMAIN f \cup {a} |-> IF x = a THEN v ELSE f[x]]

\* Function f without a.
Drop(f, a) == [x \in DOMAIN f \ {a} |-> f[x]]

-------------------------------------------------------------------------------
(* Mutated forms of definitions below. *)

MutStored == IF memPtr \in DOMAIN managed THEN managed ELSE Put(managed, memPtr, memID)
MutAddFailed == step' = "alloc"              \* continue: neither freed nor stored
MutRemaining == DOMAIN managed \cap sequence \* only what is still in the sequence

-------------------------------------------------------------------------------
(* initialize() *)

Initialize ==
  /\ step = "idle"
  /\ step' = "alloc"
  /\ left' = Concurrency
  /\ UNCHANGED <<memPtr, memID, managed, allocated, sequence, outcome, unfreed>>

RoundsLeft == left > 0

AllocImageMem ==
  /\ step = "alloc" /\ RoundsLeft
  /\ \E a \in Addresses \ DOMAIN allocated,
        i \in {j \in IDs : \A b \in DOMAIN allocated : allocated[b] # j} :
       /\ allocated' = Put(allocated, a, i)
       /\ memPtr' = a
       /\ memID' = i
  /\ step' = "add"
  /\ UNCHANGED <<left, managed, sequence, outcome, unfreed>>

\* memPtr stays nullptr: nothing to free.
AllocFails ==
  /\ step = "alloc" /\ RoundsLeft
  /\ "is_AllocImageMem" \in MayFail
  /\ memPtr' = 0 /\ memID' = 0
  /\ step' = "store"
  /\ UNCHANGED <<left, managed, allocated, sequence, outcome, unfreed>>

AddToSequence ==
  /\ step = "add"
  /\ sequence' = sequence \cup {memPtr}
  /\ step' = "store"
  /\ UNCHANGED <<left, memPtr, memID, managed, allocated, outcome, unfreed>>

AddFailed == step' = "undo"

AddFails ==
  /\ step = "add"
  /\ "is_AddToSequence" \in MayFail
  /\ AddFailed
  /\ UNCHANGED <<left, memPtr, memID, managed, allocated, sequence, outcome, unfreed>>

Free(a) ==
  /\ allocated' = Drop(allocated, a)
  /\ sequence' = sequence \ {a}

\* catch (...): the buffer that could not be added is freed ...
UndoAlloc ==
  /\ step = "undo"
  /\ Free(memPtr)
  /\ step' = "store"
  /\ UNCHANGED <<left, memPtr, memID, managed, outcome, unfreed>>

\* ... and if that fails, initialize() throws in the middle.
UndoFails ==
  /\ step = "undo"
  /\ "is_FreeImageMem" \in MayFail
  /\ unfreed' = unfreed \cup {memPtr}
  /\ step' = "idle"
  /\ left' = 0
  /\ outcome' = "threw"
  /\ UNCHANGED <<memPtr, memID, managed, allocated, sequence>>

Stored == Put(managed, memPtr, memID)

\* The entry is made in every round, for a failed one too.
StoreBuffer ==
  /\ step = "store"
  /\ managed' = Stored
  /\ left' = left - 1
  /\ step' = "alloc"
  /\ UNCHANGED <<memPtr, memID, allocated, sequence, outcome, unfreed>>

InitializeEnds ==
  /\ step = "alloc" /\ ~RoundsLeft
  /\ outcome' = IF DOMAIN managed = {} THEN "threw" ELSE "ok"
  /\ step' = "idle"
  /\ UNCHANGED <<left, memPtr, memID, managed, allocated, sequence, unfreed>>

-------------------------------------------------------------------------------
(* cleanup() *)

\* is_ClearSequence, the error of which is ignored.
Cleanup ==
  /\ step = "idle"
  /\ \/ DOMAIN managed # {} /\ sequence' = {}
     \/ /\ DOMAIN managed = {} \/ "is_ClearSequence" \in MayFail
        /\ UNCHANGED sequence
  /\ step' = "free"
  /\ UNCHANGED <<left, memPtr, memID, managed, allocated, outcome, unfreed>>

Remaining == DOMAIN managed

\* The driver refuses to free what is not allocated; the error is ignored.
FreeImageMem ==
  /\ step = "free"
  /\ \E a \in Remaining :
       /\ \A b \in DOMAIN managed : a <= b
       /\ managed' = Drop(managed, a)
       /\ \/ a \in DOMAIN allocated /\ Free(a) /\ UNCHANGED unfreed
          \/ /\ a \notin DOMAIN allocated \/ "is_FreeImageMem" \in MayFail
             /\ unfreed' = unfreed \cup ({a} \cap DOMAIN allocated)
             /\ UNCHANGED <<allocated, sequence>>
  /\ UNCHANGED <<step, left, memPtr, memID, outcome>>

CleanupEnds ==
  /\ step = "free"
  /\ Remaining = {}
  /\ step' = "idle"
  /\ outcome' = "cleaned"
  /\ UNCHANGED <<left, memPtr, memID, managed, allocated, sequence, unfreed>>

\* The process ends in the middle of anything: the driver takes its memory back.
Abandon ==
  /\ step' = "idle" /\ left' = 0 /\ memPtr' = 0 /\ memID' = 0
  /\ managed' = NoBuffers /\ allocated' = NoBuffers /\ sequence' = {}
  /\ UNCHANGED <<outcome, unfreed>>

-------------------------------------------------------------------------------

\* The steps of an operation that has begun.
Proceed ==
  \/ AllocImageMem \/ AllocFails \/ AddToSequence \/ AddFails \/ UndoAlloc \/ UndoFails
  \/ StoreBuffer \/ InitializeEnds
  \/ FreeImageMem \/ CleanupEnds

\* uEyeHandle initializes once and cleans up at least once.
Next == (outcome = "none" /\ Initialize) \/ (outcome # "none" /\ Cleanup) \/ Proceed

Spec == Init /\ [][Next]_memoryVars

-------------------------------------------------------------------------------
(* Properties. *)

\* Every buffer the driver may deliver has an entry with its current ID, although
\* freed addresses come back with other IDs: getID() is right for each image.
DeliveredManaged ==
  step = "idle" /\ outcome = "ok" =>
    \A a \in sequence : a \in DOMAIN managed /\ managed[a] = allocated[a]

\* No buffer is lost between the operations: cleanup() will free it, unless the
\* driver has refused to.
AllocatedManaged ==
  step = "idle" => DOMAIN allocated \subseteq DOMAIN managed \cup unfreed

\* After cleanup() no buffer is left but those the driver refused to free.
AllFreed ==
  outcome = "cleaned" /\ step = "idle" => DOMAIN allocated \subseteq unfreed /\ managed = NoBuffers
===============================================================================
