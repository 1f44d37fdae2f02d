--------------------------- MODULE ImageMemoryProofs ---------------------------
(***************************************************************************)
(* Proofs about ImageMemory, for any number of rounds, any sets of         *)
(* addresses and IDs and any calls that fail: no buffer is lost, every     *)
(* buffer that may be delivered has an entry with its ID, and cleanup()    *)
(* frees what the driver lets it free.                                     *)
(***************************************************************************)
EXTENDS ImageMemory, TLAPS

\* A round of initialize() is under way: it has a buffer that has no entry yet.
InRound == step \in {"add", "undo", "store"}

\* managed and allocated are functions, and the locals belong to the round.
LocalsRight ==
  /\ managed = [a \in DOMAIN managed |-> managed[a]]
  /\ allocated = [a \in DOMAIN allocated |-> allocated[a]]
  /\ InRound => left > 0
  /\ InRound \/ step = "alloc" => outcome = "none"
  /\ step \in {"add", "undo"} => memPtr \in DOMAIN allocated
  /\ InRound /\ memPtr \in DOMAIN allocated => allocated[memPtr] = memID

\* Each buffer has an entry, is that of the round, or could not be freed.
NoneLost ==
  \A a \in DOMAIN allocated : a \in DOMAIN managed \cup unfreed \/ (InRound /\ a = memPtr)

\* Until the first cleanup() the entries are right, those of freed buffers, which
\* are not allocated, excepted.
EntriesRight ==
  outcome \in {"none", "ok"} /\ step # "free" =>
    \A a \in DOMAIN allocated :
      (a \in DOMAIN managed /\ managed[a] = allocated[a]) \/ (InRound /\ a = memPtr)

MInv == TypeOK /\ LocalsRight /\ NoneLost /\ EntriesRight /\ AllFreed

-------------------------------------------------------------------------------

LEMMA InitMInv == Init => MInv
BY MemoryAssumption
   DEF Init, MInv, TypeOK, Steps, LocalsRight, NoneLost, EntriesRight, AllFreed, InRound, NoBuffers

\* The steps of initialize().
LEMMA InitializeStep ==
  ASSUME MInv,
         \/ outcome = "none" /\ Initialize
         \/ AllocFails \/ AddToSequence \/ AddFails \/ UndoFails \/ InitializeEnds
  PROVE  MInv'
<1> USE MemoryAssumption
    DEF MInv, TypeOK, Steps, LocalsRight, NoneLost, EntriesRight, AllFreed, InRound, RoundsLeft
<1>1. CASE outcome = "none" /\ Initialize  BY <1>1 DEF Initialize
<1>2. CASE AllocFails                      BY <1>2 DEF AllocFails
<1>3. CASE AddToSequence                   BY <1>3 DEF AddToSequence
<1>4. CASE AddFails                        BY <1>4 DEF AddFails, AddFailed
<1>5. CASE UndoFails                       BY <1>5 DEF UndoFails
<1>6. CASE InitializeEnds                  BY <1>6 DEF InitializeEnds
<1> QED  BY <1>1, <1>2, <1>3, <1>4, <1>5, <1>6

LEMMA AllocStep == ASSUME MInv, AllocImageMem PROVE MInv'
<1> USE MemoryAssumption
    DEF MInv, TypeOK, Steps, LocalsRight, NoneLost, EntriesRight, AllFreed, InRound, RoundsLeft
<1>1. PICK a \in Addresses \ DOMAIN allocated, i \in IDs :
        allocated' = Put(allocated, a, i) /\ memPtr' = a /\ memID' = i
  BY DEF AllocImageMem
<1>2. /\ DOMAIN allocated' = DOMAIN allocated \cup {a} /\ allocated'[a] = i
      /\ \A b \in DOMAIN allocated : allocated'[b] = allocated[b]
      /\ allocated' = [b \in DOMAIN allocated' |-> allocated'[b]]
  BY <1>1 DEF Put
<1> QED  BY <1>1, <1>2 DEF AllocImageMem

\* The failed buffer is freed; its entry, made next, is for a free address.
LEMMA UndoStep == ASSUME MInv, UndoAlloc PROVE MInv'
<1> USE MemoryAssumption
    DEF MInv, TypeOK, Steps, LocalsRight, NoneLost, EntriesRight, AllFreed, InRound
<1>1. /\ DOMAIN allocated' = DOMAIN allocated \ {memPtr}
      /\ \A b \in DOMAIN allocated' : allocated'[b] = allocated[b]
      /\ allocated' = [b \in DOMAIN allocated' |-> allocated'[b]]
      /\ sequence' = sequence \ {memPtr}
  BY DEF UndoAlloc, Free, Drop
<1> QED  BY <1>1 DEF UndoAlloc

LEMMA StoreStep == ASSUME MInv, StoreBuffer PROVE MInv'
<1> USE MemoryAssumption
    DEF MInv, TypeOK, Steps, LocalsRight, NoneLost, EntriesRight, AllFreed, InRound
<1>1. /\ DOMAIN managed' = DOMAIN managed \cup {memPtr} /\ managed'[memPtr] = memID
      /\ \A b \in DOMAIN managed : b # memPtr => managed'[b] = managed[b]
      /\ managed' = [b \in DOMAIN managed' |-> managed'[b]]
  BY DEF StoreBuffer, Stored, Put
<1> QED  BY <1>1 DEF StoreBuffer

\* The steps of cleanup().
LEMMA CleanupStep ==
  ASSUME MInv, (outcome # "none" /\ Cleanup) \/ CleanupEnds
  PROVE  MInv'
<1> USE MemoryAssumption
    DEF MInv, TypeOK, Steps, LocalsRight, NoneLost, EntriesRight, AllFreed, InRound
<1>1. CASE outcome # "none" /\ Cleanup  BY <1>1 DEF Cleanup
<1>2. CASE CleanupEnds
  <2>1. managed = NoBuffers /\ DOMAIN managed = {}
    BY <1>2 DEF CleanupEnds, Remaining, NoBuffers
  <2> QED  BY <1>2, <2>1 DEF CleanupEnds
<1> QED  BY <1>1, <1>2

LEMMA FreeStep == ASSUME MInv, FreeImageMem PROVE MInv'
<1> USE MemoryAssumption
    DEF MInv, TypeOK, Steps, LocalsRight, NoneLost, EntriesRight, AllFreed, InRound
<1>1. PICK a \in DOMAIN managed :
        /\ managed' = Drop(managed, a)
        /\ \/ a \in DOMAIN allocated /\ Free(a) /\ UNCHANGED unfreed
           \/ /\ unfreed' = unfreed \cup ({a} \cap DOMAIN allocated)
              /\ UNCHANGED <<allocated, sequence>>
  BY DEF FreeImageMem, Remaining
<1>2. /\ DOMAIN managed' = DOMAIN managed \ {a}
      /\ \A b \in DOMAIN managed' : managed'[b] = managed[b]
      /\ managed' = [b \in DOMAIN managed' |-> managed'[b]]
  BY <1>1 DEF Drop
<1>3. step = "free" /\ UNCHANGED <<step, left, memPtr, memID, outcome>>
  BY DEF FreeImageMem
<1>4. CASE Free(a) /\ UNCHANGED unfreed
  <2>1. /\ DOMAIN allocated' = DOMAIN allocated \ {a} /\ sequence' = sequence \ {a}
        /\ \A b \in DOMAIN allocated' : allocated'[b] = allocated[b]
        /\ allocated' = [b \in DOMAIN allocated' |-> allocated'[b]]
    BY <1>4 DEF Free, Drop
  <2> QED  BY <1>2, <1>3, <1>4, <2>1
<1>5. CASE unfreed' = unfreed \cup ({a} \cap DOMAIN allocated) /\ UNCHANGED <<allocated, sequence>>
  BY <1>2, <1>3, <1>5
<1> QED  BY <1>1, <1>4, <1>5

LEMMA NextMInv == MInv /\ [Next]_memoryVars => MInv'
<1> SUFFICES ASSUME MInv, [Next]_memoryVars PROVE MInv'
  OBVIOUS
<1>1. CASE UNCHANGED memoryVars
  BY <1>1 DEF memoryVars, MInv, TypeOK, LocalsRight, NoneLost, EntriesRight, AllFreed, InRound
<1> QED
  BY <1>1, InitializeStep, AllocStep, UndoStep, StoreStep, CleanupStep, FreeStep
     DEF Next, Proceed

THEOREM MemoryInvariance == Spec => []MInv
BY InitMInv, NextMInv, PTL DEF Spec

\* The memory, the map and the locals have their types, in every round.
THEOREM MemoryTypeCorrect == Spec => []TypeOK
<1>1. MInv => TypeOK
  BY DEF MInv
<1> QED  BY <1>1, MemoryInvariance, PTL

\* When initialize() has returned, getID() is right for every buffer the driver
\* may deliver, although the map has entries for failed rounds too.
THEOREM Delivered == Spec => []DeliveredManaged
<1>1. MInv => DeliveredManaged
  BY DEF MInv, TypeOK, DeliveredManaged, EntriesRight, InRound
<1> QED  BY <1>1, MemoryInvariance, PTL

\* Between the operations every buffer is in the map, or could not be freed.
THEOREM NothingLost == Spec => []AllocatedManaged
<1>1. MInv => AllocatedManaged
  BY DEF MInv, AllocatedManaged, NoneLost, InRound
<1> QED  BY <1>1, MemoryInvariance, PTL

\* After cleanup() only buffers that the driver refused to free are left.
THEOREM EverythingFreed == Spec => []AllFreed
<1>1. MInv => AllFreed
  BY DEF MInv
<1> QED  BY <1>1, MemoryInvariance, PTL
===============================================================================
