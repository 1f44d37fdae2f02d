------------------------------ MODULE AutoControl ------------------------------
(***************************************************************************)
(* The automatic controls of a camera: _set_AutoControl_default, which the *)
(* constructor of uEyeHandle calls, and setWhiteBalance, which it and the  *)
(* application call (src/ueye_handle.cpp). The white balance is automatic  *)
(* or a colour temperature. One step is one call of the driver; any of     *)
(* those in MayFail may fail.                                              *)
(***************************************************************************)
EXTENDS Integers, FiniteSets

CONSTANTS
  AUTO,        \* whiteBalance::AUTO
  Requests,    \* the colour temperatures that the application asks for
  Scales,      \* the temperature ranges [min, max] of cameras
  Models,      \* the bits of the RGB colour models
  Word,        \* 2^w for the w bits of an int
  MayFail      \* the calls that may fail

(* The temperatures of a camera are positive ints. AUTO and the enum       *)
(* whiteBalance's temperatures, all positive, are requests too.              *)
ASSUME AutoControlAssumption ==
  /\ Word \in Nat /\ Word > 1
  /\ AUTO \notin Int
  /\ Requests \subseteq Int /\ \A k \in Requests : -Word <= 2 * k /\ 2 * k < Word
  /\ Scales \subseteq [min : Nat \ {0}, max : Nat]
  /\ \A s \in Scales : s.min <= s.max /\ 2 * s.max < Word
  /\ Models \subseteq Nat \ {0}

Types == {"temperature", "greyworld", "other"}
NoModel == 0

VARIABLES
  \* the camera, as it is made
  M,         \* the colour mode of the handle, a template parameter
  types,     \* its types of auto white balance
  models,    \* the colour models of its auto white balance
  default,   \* its default colour model
  scale,     \* its range of colour temperatures
  \* the camera, as it is set
  hdr, aes,  \* high dynamic range and auto exposure are on
  awb,       \* auto white balance is on
  awbType,   \* its type
  awbModel,  \* its colour model; NoModel: as the camera came
  temp,      \* the colour temperature of the manual white balance; 0: none set
  \* the handle
  pc,        \* the next step
  request,   \* AUTO or a temperature
  kelvin,    \* the parameter, and then the clamped temperature
  tempMin,   \* the minimum read
  ranged,    \* the last temperature was clamped to the range
  buffer,    \* the configuration structure: "none", "allocated", "freed", "freed_again"
  outcome,   \* how the last call ended
  \* history
  before     \* the white balance before the call

madeVars == <<M, types, models, default, scale>>
setVars == <<hdr, aes, awb, awbType, awbModel, temp>>
vars == <<madeVars, setVars, pc, request, kelvin, tempMin, ranged, buffer, outcome, before>>
camera == <<madeVars, setVars>>
handle == <<request, kelvin, ranged, before>>

Temperatures == 0 .. Word - 1

TypeOK ==
  /\ M \in {"RGB", "MONO"}
  /\ types \subseteq Types /\ models \subseteq Models /\ default \in Models /\ scale \in Scales
  /\ hdr \in BOOLEAN /\ aes \in BOOLEAN /\ awb \in BOOLEAN
  /\ awbType \in Types \cup {"none"} /\ awbModel \in Models \cup {NoModel}
  /\ temp \in Int /\ -Word <= 2 * temp /\ 2 * temp < Word
  /\ pc \in {"hdr_get", "hdr_enable", "aes_get", "aes_enable", "aes_set", "free",
             "get_types", "set_type", "get_default", "set_default", "get_models", "set_model",
             "enable", "get_min", "get_max", "set_temp", "idle", "gone"}
  /\ request \in Requests \cup {AUTO} /\ kelvin \in Temperatures /\ tempMin \in Temperatures
  /\ ranged \in BOOLEAN
  /\ buffer \in {"none", "allocated", "freed"}
  /\ outcome \in {"constructing", "running", "returned", "thrown"}
  /\ before \in [awb : BOOLEAN, temp : Int]

Init ==
  /\ M \in {"RGB", "MONO"}
  /\ types \in SUBSET Types /\ models \in SUBSET Models /\ default \in Models /\ scale \in Scales
  /\ hdr = FALSE /\ aes = FALSE /\ awb = FALSE /\ awbType = "none" /\ awbModel = NoModel /\ temp = 0
  /\ pc = "hdr_get" /\ request = AUTO /\ kelvin = 0 /\ tempMin = 0 /\ ranged = FALSE
  /\ buffer = "none" /\ outcome = "constructing"
  /\ before = [awb |-> FALSE, temp |-> 0]

-------------------------------------------------------------------------------
(* Mutated forms of definitions below. *)

MutBestType == IF "greyworld" \in types THEN "greyworld" ELSE "temperature"

\* Temperature precedes grey world.
BestType == IF "temperature" \in types THEN "temperature" ELSE "greyworld"

\* nEnable
EnableWanted == request = AUTO /\ M = "RGB"

MutDisableFirst == pc' = "get_default"             \* auto white balance stays on
MutClamped(k) == k                                 \* no adjustment
MutCleanup == buffer                               \* no cleanup handler
MutSetType ==                                      \* enabled before the rest is set
  /\ pc = "set_type"
  /\ awbType' = BestType /\ awb' = EnableWanted
  /\ pc' = "get_default"
  /\ UNCHANGED <<madeVars, hdr, aes, awbModel, temp, handle, tempMin, buffer, outcome>>

-------------------------------------------------------------------------------
(* Helpers *)

Goto(step) == pc' = step

\* A call of the driver that the step pc makes.
CallAt(step, call) == pc = step /\ call \in MayFail

-------------------------------------------------------------------------------
(* _set_AutoControl_default *)

\* A camera may support HDR or not.
GetHdrMode ==
  /\ pc = "hdr_get"
  /\ \/ Goto("hdr_enable") /\ UNCHANGED buffer
     \/ Goto("aes_get") /\ buffer' = "allocated"
  /\ UNCHANGED <<camera, handle, tempMin, outcome>>

EnableHdr ==
  /\ pc = "hdr_enable"
  /\ hdr' = TRUE
  /\ buffer' = "allocated"
  /\ Goto("aes_get")
  /\ UNCHANGED <<madeVars, aes, awb, awbType, awbModel, temp, handle, tempMin, outcome>>

\* The catch block around both: HDR is a matter of luck.
HdrFails ==
  /\ \/ CallAt("hdr_get", "is_GetHdrMode")
     \/ CallAt("hdr_enable", "is_EnableHdr")
  /\ buffer' = "allocated"
  /\ Goto("aes_get")
  /\ UNCHANGED <<camera, handle, tempMin, outcome>>

ConfigureAes ==
  /\ \/ pc = "aes_get" /\ Goto("aes_enable") /\ UNCHANGED aes
     \/ pc = "aes_enable" /\ aes' = TRUE /\ Goto("aes_set")
     \/ pc = "aes_set" /\ Goto("free") /\ UNCHANGED aes
  /\ UNCHANGED <<madeVars, hdr, awb, awbType, awbModel, temp, handle, tempMin, buffer, outcome>>

\* delete pBuffer
Deleted == IF buffer = "allocated" THEN "freed" ELSE "freed_again"

\* The cleanup handler of a failing call.
Cleanup == Deleted

AesFails ==
  /\ \/ CallAt("aes_get", "IS_AES_CMD_GET_CONFIGURATION_DEFAULT")
     \/ CallAt("aes_enable", "IS_AES_CMD_SET_ENABLE")
     \/ CallAt("aes_set", "IS_AES_CMD_SET_CONFIGURATION")
  /\ buffer' = Cleanup
  /\ outcome' = "thrown"
  /\ Goto("gone")
  /\ UNCHANGED <<camera, handle, tempMin>>

\* The end of _set_AutoControl_default, and the constructor's setWhiteBalance(AUTO).
FreeBuffer ==
  /\ pc = "free"
  /\ buffer' = Deleted
  /\ Goto("get_types")
  /\ UNCHANGED <<camera, handle, tempMin, outcome>>

-------------------------------------------------------------------------------
(* setWhiteBalance *)

\* int to unsigned int, and back.
AsUnsigned(k) == IF k < 0 THEN k + Word ELSE k
AsInt(k) == IF 2 * k < Word THEN k ELSE k - Word

\* _set_WhiteBalance_kelvin disables the auto white balance first.
DisableFirst == Goto("enable")

Begin ==
  /\ pc = "idle"
  /\ before' = [awb |-> awb, temp |-> temp]
  /\ outcome' = "running"
  /\ ranged' = FALSE

setWhiteBalance_AUTO ==
  /\ Begin
  /\ request' = AUTO /\ kelvin' = 0
  /\ Goto("get_types")
  /\ UNCHANGED <<camera, tempMin, buffer>>

setWhiteBalance_kelvin(k) ==
  /\ Begin
  /\ request' = k /\ kelvin' = AsUnsigned(k)
  /\ DisableFirst
  /\ UNCHANGED <<camera, tempMin, buffer>>

Known == types \cap {"temperature", "greyworld"}

GetSupportedTypes ==
  /\ pc = "get_types"
  /\ Known # {}
  /\ Goto("set_type")
  /\ UNCHANGED <<camera, handle, tempMin, buffer, outcome>>

SetType ==
  /\ pc = "set_type"
  /\ awbType' = BestType
  /\ Goto("get_default")
  /\ UNCHANGED <<madeVars, hdr, aes, awb, awbModel, temp, handle, tempMin, buffer, outcome>>

\* _set_WhiteBalance_colorModel_default, as called for either kind of request.
\* The model it sets is that of the manual white balance, which is not kept here.
AfterDefault == IF request = AUTO THEN "get_models" ELSE "get_min"

DefaultColorModel ==
  /\ \/ pc = "get_default" /\ Goto("set_default")
     \/ pc = "set_default" /\ Goto(AfterDefault)
  /\ UNCHANGED <<camera, handle, tempMin, buffer, outcome>>

DefaultFailed ==
  \/ CallAt("get_default", "GET_RGB_COLOR_MODEL_DEFAULT")
  \/ CallAt("set_default", "SET_RGB_COLOR_MODEL")

\* _set_WhiteBalance_kelvin carries on without.
DefaultFailureIgnored ==
  /\ DefaultFailed /\ request # AUTO
  /\ Goto("get_min")
  /\ UNCHANGED <<camera, handle, tempMin, buffer, outcome>>

\* !nSupportedModels & defaultColorModel
ModelRejected == models = {} /\ default % 2 = 1

GetSupportedModels ==
  /\ pc = "get_models"
  /\ Goto(IF ModelRejected THEN "enable" ELSE "set_model")
  /\ UNCHANGED <<camera, handle, tempMin, buffer, outcome>>

SetModel ==
  /\ pc = "set_model"
  /\ awbModel' = default
  /\ Goto("enable")
  /\ UNCHANGED <<madeVars, hdr, aes, awb, awbType, temp, handle, tempMin, buffer, outcome>>

\* Neither is reported to the caller. The driver may refuse a model of its own accord.
ModelFailureIgnored ==
  /\ \/ CallAt("get_models", "IS_AWB_CMD_GET_SUPPORTED_RGB_COLOR_MODELS")
     \/ CallAt("set_model", "IS_AWB_CMD_SET_RGB_COLOR_MODEL")
  /\ Goto("enable")
  /\ UNCHANGED <<camera, handle, tempMin, buffer, outcome>>

SetEnable ==
  /\ pc = "enable"
  /\ awb' = EnableWanted
  /\ IF request = AUTO THEN Goto("idle") /\ outcome' = "returned"
                         ELSE Goto("get_default") /\ UNCHANGED outcome
  /\ UNCHANGED <<madeVars, hdr, aes, awbType, awbModel, temp, handle, tempMin, buffer>>

GetTemperatureMin ==
  /\ pc = "get_min"
  /\ tempMin' = scale.min
  /\ Goto("get_max")
  /\ UNCHANGED <<camera, handle, buffer, outcome>>

AtMost(a, b) == IF a < b THEN a ELSE b
AtLeast(a, b) == IF a < b THEN b ELSE a

\* std::max(tempMin, std::min(tempMax, kelvin))
Clamped(k) == AtLeast(tempMin, AtMost(scale.max, k))

GetTemperatureMax ==
  /\ pc = "get_max"
  /\ kelvin' = Clamped(kelvin)
  /\ ranged' = TRUE
  /\ Goto("set_temp")
  /\ UNCHANGED <<camera, request, before, tempMin, buffer, outcome>>

\* "trying to set without range check"
RangeUnknown ==
  /\ \/ CallAt("get_min", "GET_TEMPERATURE_MIN")
     \/ CallAt("get_max", "GET_TEMPERATURE_MAX")
  /\ Goto("set_temp")
  /\ UNCHANGED <<camera, handle, tempMin, buffer, outcome>>

SetTemperature ==
  /\ pc = "set_temp"
  /\ temp' = AsInt(kelvin)
  /\ Goto("idle") /\ outcome' = "returned"
  /\ UNCHANGED <<madeVars, hdr, aes, awb, awbType, awbModel, handle, tempMin, buffer>>

\* An exception leaves setWhiteBalance: in the constructor, the object is gone.
Throws ==
  /\ \/ pc = "get_types" /\ (Known = {} \/ "IS_AWB_CMD_GET_SUPPORTED_TYPES" \in MayFail)
     \/ CallAt("set_type", "IS_AWB_CMD_SET_TYPE")
     \/ DefaultFailed /\ request = AUTO
     \/ CallAt("enable", "IS_AWB_CMD_SET_ENABLE")
     \/ CallAt("set_temp", "SET_TEMPERATURE")
  /\ outcome' = "thrown"
  /\ Goto(IF outcome = "constructing" THEN "gone" ELSE "idle")
  /\ UNCHANGED <<camera, handle, tempMin, buffer>>

set_AutoControl_default ==
  GetHdrMode \/ EnableHdr \/ HdrFails \/ ConfigureAes \/ AesFails \/ FreeBuffer

set_WhiteBalance ==
  \/ GetSupportedTypes \/ SetType \/ DefaultColorModel \/ DefaultFailureIgnored
  \/ GetSupportedModels \/ SetModel \/ ModelFailureIgnored \/ SetEnable
  \/ GetTemperatureMin \/ GetTemperatureMax \/ RangeUnknown \/ SetTemperature \/ Throws

Terminated == pc = "gone" /\ UNCHANGED vars

Next ==
  \/ set_AutoControl_default \/ set_WhiteBalance \/ Terminated
  \/ setWhiteBalance_AUTO \/ \E k \in Requests : setWhiteBalance_kelvin(k)

Spec == Init /\ [][Next]_vars

-------------------------------------------------------------------------------
(* Properties. *)

\* A handle never leaves a camera with auto white balance on unless it is a
\* colour camera's, the type is the best one that the camera supports, and the
\* auto controls have been configured before.
AutoSupported ==
  awb => /\ M = "RGB" /\ aes
         /\ awbType \in types
         /\ awbType \in {"temperature", "greyworld"}
         /\ awbType = "greyworld" => "temperature" \notin types

\* setWhiteBalance returns only with the mode asked for, whatever was tried before:
\* a temperature takes effect only with auto white balance off.
RequestHolds == outcome = "returned" => (awb <=> request = AUTO /\ M = "RGB")

Distance(a, b) == IF a < b THEN b - a ELSE a - b

\* A temperature set with the range known is the one in the range that is next to
\* the request ("adjust temperature to range", ueye_handle.cpp:565), and in the
\* range for a negative request too, which is a large number by then; with the
\* range unknown it is the request, converted to unsigned and back.
TemperatureNearest ==
  outcome = "returned" /\ request # AUTO =>
    IF ranged
    THEN /\ scale.min <= temp /\ temp <= scale.max
         /\ request >= 0 => \A t \in scale.min .. scale.max :
                              Distance(temp, request) <= Distance(t, request)
    ELSE temp = request

\* What was asked for, mode or temperature, is what the camera has.
RequestGranted == RequestHolds /\ TemperatureNearest

\* A call that throws, wherever it does, never turns auto white balance on, and
\* leaves the temperature as it was.
ThrownNeverEnables == outcome = "thrown" => (awb => before.awb) /\ temp = before.temp

\* The configuration structure is freed once, whether the set-up throws or not.
FreedOnce ==
  /\ buffer # "freed_again"
  /\ pc \notin {"hdr_get", "hdr_enable", "aes_get", "aes_enable", "aes_set", "free"} =>
       buffer = "freed"
================================================================================
