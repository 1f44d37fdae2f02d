---------------------------- MODULE CameraDiscovery ----------------------------
(***************************************************************************)
(* getCameraList and getCameraConnectionInfo (src/ueye_wrapper.cpp): a     *)
(* list of the cameras the driver knows, with how each is connected. It    *)
(* takes several calls of the driver; cameras are plugged in and out and   *)
(* opened and closed by other programs between any two of them. The text   *)
(* of a static address is made with the conversions of IpHelpers and the   *)
(* loop of u32_to_cidr (include/ip_helpers.h); that of a range of          *)
(* autoconfigured addresses is left out.                                   *)
(***************************************************************************)
EXTENDS IpHelpers, FiniteSets, SequencesExt

CONSTANTS
  Cameras,   \* the cameras there may be
  Kinds,     \* what each of them may be: a set of KindType
  Changes,   \* the cameras may come and go, and be opened and closed
  MayFail,   \* the calls that may fail for no reason seen here
  MaxCalls,  \* bound on the calls of getCameraList
  MaxMask    \* bound on the counter of a loop that does not end

\* ip: is_IpConfig is supported; persistent, autoconfig: its capabilities;
\* dwAddr, dwMask: its static address and netmask, in the driver's words.
KindType ==
  [ip : BOOLEAN, persistent : BOOLEAN, autoconfig : BOOLEAN,
   dwAddr : 0 .. Word - 1, dwMask : 0 .. Word - 1]

ASSUME CameraDiscoveryAssumption ==
  /\ IsFiniteSet(Cameras)
  /\ Kinds \in [Cameras -> SUBSET KindType] /\ Changes \in BOOLEAN
  /\ MaxCalls \in Nat /\ MaxMask \in Nat /\ MaxMask > W

VARIABLES
  \* the driver
  kind,       \* what each camera is
  present,    \* the cameras that it knows
  inUse,      \* those that are open somewhere
  \* getCameraList and getCameraConnectionInfo
  pc,         \* the next step
  numCams,    \* the number of cameras read
  uci,        \* the entries allocated for the driver's list: cameras, and whether in use
  dwCount,    \* how many of them the driver has filled
  camList,    \* the list that is being made
  outcome,    \* how the last call ended
  wraps,      \* do the shifts of this build wrap? See Shifted
  u32,        \* the parameter of u32_to_cidr
  mask,       \* its variable
  \* history
  buffers,    \* the lists allocated and not freed
  losses,     \* the calls that threw for a camera's connection
  stayed,     \* the cameras present since the number was read
  arrived,    \* a camera has come between the number and the list
  there,      \* the cameras present when the list was read
  calls

driverVars == <<kind, present, inUse>>
historyVars == <<buffers, losses, stayed, arrived, there, calls>>
cidrVars == <<wraps, u32, mask>>
vars == <<driverVars, pc, numCams, uci, dwCount, camList, outcome, cidrVars, historyVars>>

Connections == {"USB", "static", "autoconfig"}
Info == [camera : Cameras, inUse : BOOLEAN]
Entry == [camera : Cameras, canOpen : BOOLEAN, connection : Connections, ip : Seq(Nat)]

TypeOK ==
  /\ kind \in [Cameras -> KindType]
  /\ present \subseteq Cameras /\ inUse \subseteq Cameras
  /\ pc \in {"idle", "number", "list", "capabilities", "persistent", "decode", "autoconfig", "free"}
  /\ numCams \in 0 .. Cardinality(Cameras)
  /\ uci \in Seq(Info) /\ Len(uci) <= numCams
  /\ dwCount \in Nat /\ dwCount <= Len(uci)
  /\ camList \in Seq(Entry)
  /\ outcome \in {"none", "returned", "thrown"}
  /\ wraps \in BOOLEAN /\ u32 \in 0 .. Word - 1 /\ mask \in 0 .. MaxMask
  /\ buffers \in Nat /\ losses \in Nat
  /\ stayed \subseteq present /\ there \subseteq Cameras /\ arrived \in BOOLEAN
  /\ calls \in 0 .. MaxCalls

Init ==
  /\ kind \in {k \in [Cameras -> UNION {Kinds[c] : c \in Cameras}] :
                 \A c \in Cameras : k[c] \in Kinds[c]}
  /\ present \in SUBSET Cameras /\ inUse \in SUBSET present
  /\ pc = "idle" /\ numCams = 0 /\ uci = <<>> /\ dwCount = 0 /\ camList = <<>>
  /\ outcome = "none"
  /\ wraps \in BOOLEAN /\ u32 = 0 /\ mask = 0
  /\ buffers = 0 /\ losses = 0 /\ stayed = {} /\ arrived = FALSE /\ there = {}
  /\ calls = 0

(* The entry after the last one listed. *)

Current == uci[Len(camList) + 1]
CurrentKind == kind[Current.camera]

NewEntry(connection, text) ==
  [camera |-> Current.camera, canOpen |-> ~Current.inUse, connection |-> connection, ip |-> text]

-------------------------------------------------------------------------------
(* Mutated forms of definitions below. *)

MutIsStatic(k) == k.dwAddr # 0                  \* a camera without autoconfiguration
MutCleanup == UNCHANGED buffers                 \* no cleanup handler
MutStuck(connection, text) ==                   \* the same entry for ever
  pc' = "capabilities" /\ UNCHANGED camList
MutCount == numCams                             \* as many as were allocated
MutLoopEnds == Shifted(u32, mask, wraps) < 2 ^ (W - 1)   \* stops at the first gap

-------------------------------------------------------------------------------
(* The driver *)

Arrives ==
  /\ Changes
  /\ \E c \in Cameras \ present :
       /\ present' = present \cup {c}
       /\ arrived' = (arrived \/ pc = "list")
  /\ UNCHANGED <<kind, inUse, pc, numCams, uci, dwCount, camList, outcome, cidrVars, buffers, losses,
                 stayed, there, calls>>

Leaves ==
  /\ Changes
  /\ \E c \in present :
       /\ present' = present \ {c} /\ inUse' = inUse \ {c} /\ stayed' = stayed \ {c}
  /\ UNCHANGED <<kind, pc, numCams, uci, dwCount, camList, outcome, cidrVars, buffers, losses, arrived,
                 there, calls>>

OpenedOrClosed ==
  /\ Changes
  /\ \E c \in present : inUse' = IF c \in inUse THEN inUse \ {c} ELSE inUse \cup {c}
  /\ UNCHANGED <<kind, present, pc, numCams, uci, dwCount, camList, outcome, cidrVars, historyVars>>

-------------------------------------------------------------------------------
(* getCameraList *)

Goto(step) == pc' = step

Call ==
  /\ pc = "idle" /\ calls < MaxCalls
  /\ calls' = calls + 1
  /\ camList' = <<>> /\ uci' = <<>> /\ dwCount' = 0 /\ numCams' = 0
  /\ Goto("number")
  /\ UNCHANGED <<driverVars, outcome, buffers, losses, stayed, arrived, there, cidrVars>>

Return == Goto("idle") /\ outcome' = "returned"
Throw == Goto("idle") /\ outcome' = "thrown"

\* The list is allocated for as many cameras as there are now.
GetNumberOfCameras ==
  /\ pc = "number"
  /\ numCams' = Cardinality(present)
  /\ stayed' = present /\ arrived' = FALSE
  /\ IF present = {} THEN Return /\ UNCHANGED buffers
                     ELSE Goto("list") /\ buffers' = buffers + 1 /\ UNCHANGED outcome
  /\ UNCHANGED <<driverVars, uci, dwCount, camList, losses, there, calls, cidrVars>>

\* The entries of the driver's list that the loop takes.
Count == dwCount

\* The entries that the driver fills, which it writes to dwCount: no more than are
\* allocated.
Filled == IF numCams < Cardinality(present) THEN numCams ELSE Cardinality(present)

\* The rest is what the memory allocated for it has held before.
GetCameraList ==
  /\ pc = "list"
  /\ \E chosen \in SUBSET present, rest \in Info :
       /\ Cardinality(chosen) = Filled
       /\ uci' = [i \in 1 .. numCams |->
                    IF i <= Filled
                    THEN LET c == SetToSeq(chosen)[i] IN [camera |-> c, inUse |-> c \in inUse]
                    ELSE rest]
  /\ dwCount' = Filled
  /\ there' = present
  /\ UNCHANGED <<driverVars, numCams, camList, outcome, cidrVars, buffers, losses, stayed, arrived,
                 calls>>
  /\ Goto(IF Count' = 0 THEN "free" ELSE "capabilities")

\* The cleanup handler of is_GetCameraList.
Cleanup == buffers' = buffers - 1

CallFails ==
  /\ \/ pc = "number" /\ "is_GetNumberOfCameras" \in MayFail /\ UNCHANGED buffers
     \/ pc = "list" /\ "is_GetCameraList" \in MayFail /\ Cleanup
  /\ Throw
  /\ UNCHANGED <<driverVars, numCams, uci, dwCount, camList, losses, stayed, arrived, there, calls,
                 cidrVars>>

Free ==
  /\ pc = "free"
  /\ buffers' = buffers - 1
  /\ Return
  /\ UNCHANGED <<driverVars, numCams, uci, dwCount, camList, losses, stayed, arrived, there, calls,
                 cidrVars>>

-------------------------------------------------------------------------------
(* getCameraConnectionInfo, for the entry after the last one listed *)

Advance(connection, text) ==
  /\ camList' = Append(camList, NewEntry(connection, text))
  /\ Goto(IF Len(camList) + 1 = Count THEN "free" ELSE "capabilities")

IsUsb(k) == ~k.ip \/ ~(k.persistent \/ k.autoconfig)

\* Neither capability, or none to be asked for.
QueryCapabilities ==
  /\ pc = "capabilities"
  /\ Current.camera \in present
  /\ \/ IsUsb(CurrentKind) /\ Advance("USB", <<>>)
     \/ /\ ~IsUsb(CurrentKind)
        /\ Goto(IF CurrentKind.persistent THEN "persistent" ELSE "autoconfig")
        /\ UNCHANGED camList
  /\ UNCHANGED <<driverVars, numCams, uci, dwCount, outcome, cidrVars, historyVars>>

\* A static address of 0.0.0.0 stands for autoconfiguration where there is one.
IsStatic(k) == k.dwAddr # 0 \/ ~k.autoconfig

\* The driver's words have the first byte of an address as their lowest.
GetPersistentIp ==
  /\ pc = "persistent"
  /\ Current.camera \in present
  /\ \/ /\ IsStatic(CurrentKind)
        /\ Goto("decode")
        /\ u32' = ip_bytes_to_u32(ip_u32_little_endian_to_bytes(CurrentKind.dwMask))
        /\ mask' = 0
     \/ ~IsStatic(CurrentKind) /\ Goto("autoconfig") /\ UNCHANGED <<u32, mask>>
  /\ UNCHANGED <<driverVars, numCams, uci, dwCount, camList, outcome, wraps, historyVars>>

\* while ((u32_cidr << mask) != 0)
LoopEnds == Shifted(u32, mask, wraps) = 0

CountBit ==
  /\ pc = "decode"
  /\ ~LoopEnds
  /\ mask < MaxMask
  /\ mask' = mask + 1
  /\ UNCHANGED <<driverVars, pc, numCams, uci, dwCount, camList, outcome, wraps, u32, historyVars>>

u32_to_cidr ==
  /\ pc = "decode"
  /\ LoopEnds
  /\ Advance("static", Append(ip_u32_little_endian_to_bytes(CurrentKind.dwAddr), mask))
  /\ u32' = 0 /\ mask' = 0
  /\ UNCHANGED <<driverVars, numCams, uci, dwCount, outcome, wraps, historyVars>>

GetAutoconfig ==
  /\ pc = "autoconfig"
  /\ Current.camera \in present
  /\ Advance("autoconfig", <<>>)
  /\ UNCHANGED <<driverVars, numCams, uci, dwCount, outcome, cidrVars, historyVars>>

\* is_IpConfig fails, for a camera that has gone in any case: the exception passes
\* through getCameraList, which frees nothing.
ConnectionFails ==
  /\ pc \in {"capabilities", "persistent", "autoconfig"}
  /\ Current.camera \notin present \/ "is_IpConfig" \in MayFail
  /\ losses' = losses + 1
  /\ Throw
  /\ UNCHANGED <<driverVars, numCams, uci, dwCount, camList, buffers, stayed, arrived, there, calls,
                 cidrVars>>

getCameraConnectionInfo ==
  \/ QueryCapabilities \/ GetPersistentIp \/ CountBit \/ u32_to_cidr \/ GetAutoconfig
  \/ ConnectionFails

getCameraList ==
  GetNumberOfCameras \/ GetCameraList \/ CallFails \/ getCameraConnectionInfo \/ Free

Next == Arrives \/ Leaves \/ OpenedOrClosed \/ Call \/ getCameraList

Spec == Init /\ [][Next]_vars

\* The caller's thread is scheduled.
FairSpec == Spec /\ WF_vars(getCameraList)

-------------------------------------------------------------------------------
(* Properties. *)

Listed == {camList[i].camera : i \in 1 .. Len(camList)}

\* Whatever comes and goes meanwhile, the list has no camera twice and none that was
\* not there when the driver's list was read: it is made of what the driver has filled,
\* without repetitions, and never of the memory behind that. And it has every camera
\* that was there from the first query to the last, unless another one has taken its
\* place between the number and the list (ueye_wrapper.cpp:109-120).
ListComplete ==
  /\ \A i, j \in 1 .. Len(camList) : camList[i].camera = camList[j].camera => i = j
  /\ Listed \subseteq there
  /\ pc = "free" => arrived \/ stayed \subseteq Listed

\* How a camera of kind k may be connected.
Fits(k, connection) ==
  /\ connection = "autoconfig" => k.ip /\ k.autoconfig /\ ~(k.persistent /\ k.dwAddr # 0)
  /\ connection = "static" => k.ip /\ k.persistent /\ (k.autoconfig => k.dwAddr # 0)
  /\ connection = "USB" => (k.ip => ~k.persistent /\ ~k.autoconfig)

\* A camera is listed as autoconfigured only if it can be, and has no static address
\* ("should get here, only if static IP is either not supported or static is
\* 0.0.0.0/0 and autoconfig is supported", ueye_wrapper.cpp:72), as static only if it
\* can have one, as on USB only if it has neither.
ConnectionRight ==
  \A i \in 1 .. Len(camList) : Fits(kind[camList[i].camera], camList[i].connection)

\* The types and the list.
ListInv == TypeOK /\ ListComplete /\ ConnectionRight

\* The driver's list is freed once on every way out but one: an exception for the
\* connection of a camera loses it.
FreedButForConnections ==
  buffers = losses + (IF pc \in {"idle", "number"} THEN 0 ELSE 1)

Statics == {camList[i] : i \in {j \in 1 .. Len(camList) : camList[j].connection = "static"}}

\* The prefix in a static address is the number of the netmask's last bit that is
\* set, for netmasks with gaps too and in either build.
PrefixRight ==
  \A e \in Statics :
    LET dw == kind[e.camera].dwMask
    IN /\ e.ip[5] \in 0 .. W
       /\ \A k \in 1 .. W : k > e.ip[5] => Bit(dw, k) = 0
       /\ e.ip[5] > 0 => Bit(dw, e.ip[5]) = 1

\* The functions for texts and those for words agree: reading a static address gives
\* the driver's words back, the netmask if it is one (with bytes of eight bits, every
\* prefix fits into one).
ReadsBack ==
  \A e \in Statics :
    LET k == kind[e.camera]
    IN /\ ip_bytes_to_u32_little_endian(ip_string_to_bytes(get_address_wo_netmask(e.ip))) = k.dwAddr
       /\ e.ip[5] < Byte /\ Contiguous(k.dwMask) =>
            cidr_to_u32(get_cidr_netmask(e.ip)) =
              ip_bytes_to_u32(ip_u32_little_endian_to_bytes(k.dwMask))

\* The text of a static address.
TextRight == PrefixRight /\ ReadsBack

\* A call returns or throws, unless it comes to a static netmask of the whole width
\* in a build whose shifts wrap: u32_to_cidr does not return for one whose last bit
\* is set, and does for every other.
CallEnds ==
  pc # "idle" ~> pc = "idle" \/ (wraps /\ pc = "decode" /\ Bit(CurrentKind.dwMask, W) = 1)

(* The parts of an inductive invariant. *)

Asking == {"capabilities", "persistent", "decode", "autoconfig"}
Found == {uci[i].camera : i \in 1 .. dwCount}

\* What the driver has filled has no camera twice, none that was not there, and all
\* those that stayed.
ListRead ==
  /\ pc \in {"number", "list"} => uci = <<>> /\ camList = <<>>
  /\ \A i, j \in 1 .. dwCount : uci[i].camera = uci[j].camera => i = j
  /\ Found \subseteq there
  /\ pc = "list" /\ ~arrived => stayed = present /\ Cardinality(present) <= numCams
  /\ pc \in Asking \cup {"free"} => arrived \/ stayed \subseteq Found

\* The list that is made follows it, entry by entry.
ListFollows ==
  /\ Len(camList) <= dwCount
  /\ \A i \in 1 .. Len(camList) : camList[i].camera = uci[i].camera
  /\ pc \in Asking => Len(camList) < dwCount
  /\ pc = "free" => Len(camList) = dwCount

\* What is known of the entry that is asked about.
EntryKnown ==
  /\ pc \in Asking \ {"capabilities"} => CurrentKind.ip
  /\ pc = "persistent" => CurrentKind.persistent
  /\ pc = "decode" => CurrentKind.persistent /\ IsStatic(CurrentKind)
  /\ pc = "autoconfig" =>
       CurrentKind.autoconfig /\ ~(CurrentKind.persistent /\ CurrentKind.dwAddr # 0)

DInv == ListInv /\ FreedButForConnections /\ ListRead /\ ListFollows /\ EntryKnown

NetmaskWord(k) == ip_bytes_to_u32(ip_u32_little_endian_to_bytes(k.dwMask))

\* u is 0 from bit p + 1 on, counted from the highest, and not from bit p on.
EndsAt(u, p) ==
  /\ p \in 0 .. W /\ u % 2 ^ (W - p) = 0
  /\ p > 0 => u % 2 ^ (W - p + 1) # 0

\* The loop of u32_to_cidr has come this far.
Counting ==
  pc = "decode" =>
    /\ u32 = NetmaskWord(CurrentKind)
    /\ \A m \in 0 .. mask - 1 : Shifted(u32, m, wraps) # 0

\* What the text of a static address is made of.
TextKnown ==
  \A i \in 1 .. Len(camList) :
    LET e == camList[i]
        k == kind[e.camera]
    IN e.connection = "static" =>
         \E p \in 0 .. W : /\ EndsAt(NetmaskWord(k), p)
                           /\ e.ip = Append(ip_u32_little_endian_to_bytes(k.dwAddr), p)

TInv == DInv /\ Counting /\ TextKnown
================================================================================
