--------------------------- MODULE AutoControlProofs ---------------------------
(***************************************************************************)
(* Proofs about AutoControl, for any camera, any requests and any calls    *)
(* that fail: auto white balance is on only where supported and asked for, *)
(* and the temperature is the nearest one that the camera has.             *)
(***************************************************************************)
EXTENDS AutoControl, TLAPS

SettingUp == {"hdr_get", "hdr_enable", "aes_get", "aes_enable", "aes_set", "free"}

\* Who is where.
StepsRight ==
  /\ pc \in SettingUp => outcome = "constructing"
  /\ pc = "idle" => outcome \in {"returned", "thrown"}
  /\ pc = "gone" => outcome = "thrown"
  /\ pc \notin {"idle", "gone"} => outcome \in {"constructing", "running"}
  /\ outcome = "constructing" => request = AUTO /\ ~awb
  /\ pc \in {"get_types", "set_type", "get_models", "set_model"} => request = AUTO
  /\ pc \in {"get_min", "get_max", "set_temp"} => request # AUTO

\* What has been prepared when auto white balance is enabled, and was when it was.
Prepared ==
  /\ pc \notin {"hdr_get", "hdr_enable", "aes_get", "aes_enable", "gone"} => aes
  /\ pc = "set_type" => Known # {}
  /\ pc \in {"get_default", "set_default", "get_models", "set_model", "enable"} /\ request = AUTO =>
       Known # {} /\ awbType = BestType
  /\ awb => M = "RGB" /\ aes /\ Known # {} /\ awbType = BestType

\* A temperature is set with auto white balance off; what has not returned has not
\* changed the mode but for that.
ModeKept ==
  /\ pc \in {"get_default", "set_default", "get_min", "get_max", "set_temp"} /\ request # AUTO =>
       ~awb
  /\ outcome # "returned" => (awb => before.awb) /\ temp = before.temp

Nearest(t) ==
  /\ scale.min <= t /\ t <= scale.max
  /\ request >= 0 => \A s \in scale.min .. scale.max : Distance(t, request) <= Distance(s, request)

\* The temperature on its way to the camera.
KelvinRight ==
  /\ pc \in {"enable", "get_default", "set_default", "get_min", "get_max"} /\ request # AUTO =>
       kelvin = AsUnsigned(request) /\ ~ranged
  /\ pc = "get_max" => tempMin = scale.min
  /\ pc = "set_temp" => IF ranged THEN Nearest(kelvin) ELSE kelvin = AsUnsigned(request)

BufferRight ==
  /\ pc \in {"hdr_get", "hdr_enable"} => buffer = "none"
  /\ pc \in {"aes_get", "aes_enable", "aes_set", "free"} => buffer = "allocated"
  /\ pc \notin SettingUp => buffer = "freed"

AInv ==
  /\ TypeOK /\ StepsRight /\ Prepared /\ ModeKept /\ KelvinRight /\ BufferRight
  /\ RequestHolds /\ TemperatureNearest

-------------------------------------------------------------------------------
(* The conversions. *)

\* An int comes back from unsigned as it was; so does a temperature of the camera.
LEMMA RoundTrip ==
  ASSUME NEW k \in Int, -Word <= 2 * k, 2 * k < Word
  PROVE  AsUnsigned(k) \in Temperatures /\ AsInt(AsUnsigned(k)) = k
BY AutoControlAssumption DEF AsUnsigned, AsInt, Temperatures

LEMMA ScaleFacts ==
  ASSUME TypeOK
  PROVE  /\ scale.min \in Nat /\ scale.max \in Nat /\ 0 < scale.min
         /\ scale.min <= scale.max /\ 2 * scale.max < Word
         /\ Word \in Nat /\ 1 < Word
BY AutoControlAssumption DEF TypeOK

\* The clamped temperature is in the range and next to what was clamped.
LEMMA ClampedNearest ==
  ASSUME TypeOK, tempMin = scale.min, NEW k \in Nat
  PROVE  /\ Clamped(k) \in scale.min .. scale.max
         /\ \A s \in scale.min .. scale.max : Distance(Clamped(k), k) <= Distance(s, k)
BY ScaleFacts DEF Clamped, AtLeast, AtMost, Distance

-------------------------------------------------------------------------------
(* The inductive invariant: one lemma per part, one step per group of calls. *)

LEMMA InitAInv == Init => AInv
<1> SUFFICES ASSUME Init PROVE  AInv
  OBVIOUS
<1>1. TypeOK
  <2>1. /\ temp \in Int /\ -Word <= 2 * temp /\ 2 * temp < Word
        /\ kelvin \in Temperatures /\ tempMin \in Temperatures
    BY AutoControlAssumption DEF Init, Temperatures
  <2>2. before \in [awb : BOOLEAN, temp : Int]
    BY DEF Init
  <2> QED
    BY <2>1, <2>2 DEF Init, TypeOK, Types, NoModel
<1>2. StepsRight /\ Prepared /\ ModeKept /\ KelvinRight /\ BufferRight
  BY DEF Init, StepsRight, Prepared, ModeKept, KelvinRight, BufferRight, SettingUp
<1>3. RequestHolds /\ TemperatureNearest
  BY DEF Init, RequestHolds, TemperatureNearest
<1> QED
  BY <1>1, <1>2, <1>3 DEF AInv

LEMMA TypeStep == AInv /\ [Next]_vars => TypeOK'
<1> SUFFICES ASSUME AInv, [Next]_vars PROVE  TypeOK'
  OBVIOUS
<1> USE DEF Goto, camera, handle, madeVars, setVars, CallAt, DefaultFailed, Next,
  set_AutoControl_default, GetHdrMode, EnableHdr, HdrFails, ConfigureAes, AesFails,
  FreeBuffer, Deleted, Cleanup, set_WhiteBalance, Terminated, Begin,
  setWhiteBalance_AUTO, setWhiteBalance_kelvin, DisableFirst, GetSupportedTypes,
  SetType, GetSupportedModels, SetModel, ModelFailureIgnored, DefaultColorModel,
  DefaultFailureIgnored, AfterDefault, SetEnable, EnableWanted, GetTemperatureMin,
  GetTemperatureMax, RangeUnknown, SetTemperature, Throws, vars
<1>1. UNCHANGED madeVars
  OBVIOUS
<1>2. /\ pc' \in {"hdr_get", "hdr_enable", "aes_get", "aes_enable", "aes_set", "free",
                 "get_types", "set_type", "get_default", "set_default", "get_models",
                 "set_model", "enable", "get_min", "get_max", "set_temp", "idle", "gone"}
      /\ outcome' \in {"constructing", "running", "returned", "thrown"}
  BY DEF AInv, TypeOK
<1>3. hdr' \in BOOLEAN /\ aes' \in BOOLEAN /\ awb' \in BOOLEAN /\ ranged' \in BOOLEAN
  BY DEF AInv, TypeOK
<1>4. /\ awbType' \in Types \cup {"none"} /\ awbModel' \in Models \cup {NoModel}
      /\ request' \in Requests \cup {AUTO}
  BY DEF AInv, TypeOK, Types, BestType
<1>5. buffer' \in {"none", "allocated", "freed"}
  BY DEF AInv, TypeOK, BufferRight, SettingUp
<1>6. temp' \in Int /\ -Word <= 2 * temp' /\ 2 * temp' < Word
  <2>1. CASE SetTemperature
    BY <2>1, AutoControlAssumption DEF AInv, TypeOK, SetTemperature, AsInt, Temperatures
  <2>2. CASE UNCHANGED temp
    BY <2>2 DEF AInv, TypeOK
  <2> QED
    BY <2>1, <2>2
<1>7. kelvin' \in Temperatures
  <2>1. CASE setWhiteBalance_AUTO
    BY <2>1, AutoControlAssumption DEF setWhiteBalance_AUTO, Temperatures
  <2>2. ASSUME NEW k \in Requests, setWhiteBalance_kelvin(k) PROVE  kelvin' \in Temperatures
    BY <2>2, AutoControlAssumption, RoundTrip DEF setWhiteBalance_kelvin
  <2>3. CASE GetTemperatureMax
    BY <2>3, ScaleFacts DEF AInv, TypeOK, GetTemperatureMax, Clamped, AtLeast, AtMost,
      Temperatures
  <2>4. CASE UNCHANGED kelvin
    BY <2>4 DEF AInv, TypeOK
  <2> QED
    BY <2>1, <2>2, <2>3, <2>4
<1>8. tempMin' \in Temperatures
  BY ScaleFacts DEF AInv, TypeOK, Temperatures
<1>9. before' \in [awb : BOOLEAN, temp : Int]
  BY DEF AInv, TypeOK
<1> QED
  BY <1>1, <1>2, <1>3, <1>4, <1>5, <1>6, <1>7, <1>8, <1>9 DEF AInv, TypeOK

LEMMA StepsStep == AInv /\ [Next]_vars => StepsRight'
<1> SUFFICES ASSUME AInv, [Next]_vars PROVE  StepsRight'
  OBVIOUS
<1> USE DEF AInv, StepsRight, SettingUp, CallAt, DefaultFailed, Goto, camera, handle,
  madeVars, setVars
<1>1. CASE set_AutoControl_default
  BY <1>1 DEF set_AutoControl_default, GetHdrMode, EnableHdr, HdrFails, ConfigureAes,
    AesFails, FreeBuffer, Deleted, Cleanup
<1>2. CASE setWhiteBalance_AUTO
  BY <1>2 DEF setWhiteBalance_AUTO, Begin
<1>3. ASSUME NEW k \in Requests, setWhiteBalance_kelvin(k) PROVE  StepsRight'
  BY <1>3 DEF setWhiteBalance_kelvin, Begin, DisableFirst
<1>4. CASE GetSupportedTypes \/ SetType
           \/ GetSupportedModels \/ SetModel \/ ModelFailureIgnored
  BY <1>4 DEF GetSupportedTypes, SetType, GetSupportedModels, SetModel, ModelFailureIgnored
<1>5. CASE DefaultColorModel \/ DefaultFailureIgnored
  BY <1>5 DEF DefaultColorModel, DefaultFailureIgnored, AfterDefault
<1>6. CASE SetEnable
  BY <1>6 DEF SetEnable, EnableWanted
<1>7. CASE GetTemperatureMin \/ GetTemperatureMax \/ RangeUnknown
  BY <1>7 DEF GetTemperatureMin, GetTemperatureMax, RangeUnknown
<1>8. CASE SetTemperature
  BY <1>8 DEF SetTemperature
<1>9. CASE Throws
  BY <1>9 DEF Throws
<1>10. CASE UNCHANGED vars
  BY <1>10 DEF vars
<1> QED
  BY <1>1, <1>2, <1>3, <1>4, <1>5, <1>6, <1>7, <1>8, <1>9, <1>10 DEF Next,
    set_WhiteBalance, Terminated

LEMMA PreparedStep == AInv /\ [Next]_vars => Prepared'
<1> SUFFICES ASSUME AInv, [Next]_vars PROVE  Prepared'
  OBVIOUS
<1> USE DEF AInv, Prepared, StepsRight, SettingUp, CallAt, DefaultFailed, Known,
  BestType, Goto, camera, handle, madeVars, setVars
<1>1. CASE set_AutoControl_default
  BY <1>1 DEF set_AutoControl_default, GetHdrMode, EnableHdr, HdrFails, ConfigureAes,
    AesFails, FreeBuffer, Deleted, Cleanup
<1>2. CASE setWhiteBalance_AUTO
  BY <1>2 DEF setWhiteBalance_AUTO, Begin
<1>3. ASSUME NEW k \in Requests, setWhiteBalance_kelvin(k) PROVE  Prepared'
  BY <1>3, AutoControlAssumption DEF setWhiteBalance_kelvin, Begin, DisableFirst
<1>4. CASE GetSupportedTypes \/ SetType
           \/ GetSupportedModels \/ SetModel \/ ModelFailureIgnored
  BY <1>4 DEF GetSupportedTypes, SetType, GetSupportedModels, SetModel, ModelFailureIgnored
<1>5. CASE DefaultColorModel \/ DefaultFailureIgnored
  BY <1>5 DEF DefaultColorModel, DefaultFailureIgnored, AfterDefault
<1>6. CASE SetEnable
  BY <1>6 DEF SetEnable, EnableWanted
<1>7. CASE GetTemperatureMin \/ GetTemperatureMax \/ RangeUnknown
  BY <1>7 DEF GetTemperatureMin, GetTemperatureMax, RangeUnknown
<1>8. CASE SetTemperature
  BY <1>8 DEF SetTemperature
<1>9. CASE Throws
  BY <1>9 DEF Throws
<1>10. CASE UNCHANGED vars
  BY <1>10 DEF vars
<1> QED
  BY <1>1, <1>2, <1>3, <1>4, <1>5, <1>6, <1>7, <1>8, <1>9, <1>10 DEF Next,
    set_WhiteBalance, Terminated

LEMMA ModeStep == AInv /\ [Next]_vars => ModeKept'
<1> SUFFICES ASSUME AInv, [Next]_vars PROVE  ModeKept'
  OBVIOUS
<1> USE DEF AInv, ModeKept, StepsRight, Prepared, SettingUp, CallAt, DefaultFailed,
  Goto, camera, handle, madeVars, setVars
<1>1. CASE set_AutoControl_default
  BY <1>1 DEF set_AutoControl_default, GetHdrMode, EnableHdr, HdrFails, ConfigureAes,
    AesFails, FreeBuffer, Deleted, Cleanup
<1>2. CASE setWhiteBalance_AUTO
  BY <1>2 DEF setWhiteBalance_AUTO, Begin
<1>3. ASSUME NEW k \in Requests, setWhiteBalance_kelvin(k) PROVE  ModeKept'
  BY <1>3 DEF setWhiteBalance_kelvin, Begin, DisableFirst
<1>4. CASE GetSupportedTypes \/ SetType
           \/ GetSupportedModels \/ SetModel \/ ModelFailureIgnored
  BY <1>4 DEF GetSupportedTypes, SetType, GetSupportedModels, SetModel, ModelFailureIgnored
<1>5. CASE DefaultColorModel \/ DefaultFailureIgnored
  BY <1>5 DEF DefaultColorModel, DefaultFailureIgnored, AfterDefault
<1>6. CASE SetEnable
  BY <1>6 DEF SetEnable, EnableWanted
<1>7. CASE GetTemperatureMin \/ GetTemperatureMax \/ RangeUnknown
  BY <1>7 DEF GetTemperatureMin, GetTemperatureMax, RangeUnknown
<1>8. CASE SetTemperature
  BY <1>8 DEF SetTemperature
<1>9. CASE Throws
  BY <1>9 DEF Throws
<1>10. CASE UNCHANGED vars
  BY <1>10 DEF vars
<1> QED
  BY <1>1, <1>2, <1>3, <1>4, <1>5, <1>6, <1>7, <1>8, <1>9, <1>10 DEF Next,
    set_WhiteBalance, Terminated

LEMMA BufferStep == AInv /\ [Next]_vars => BufferRight'
<1> SUFFICES ASSUME AInv, [Next]_vars PROVE  BufferRight'
  OBVIOUS
<1> USE DEF AInv, BufferRight, StepsRight, SettingUp, CallAt, DefaultFailed, Goto,
  camera, handle, madeVars, setVars
<1>1. CASE set_AutoControl_default
  BY <1>1 DEF set_AutoControl_default, GetHdrMode, EnableHdr, HdrFails, ConfigureAes,
    AesFails, FreeBuffer, Deleted, Cleanup
<1>2. CASE setWhiteBalance_AUTO
  BY <1>2 DEF setWhiteBalance_AUTO, Begin
<1>3. ASSUME NEW k \in Requests, setWhiteBalance_kelvin(k) PROVE  BufferRight'
  BY <1>3 DEF setWhiteBalance_kelvin, Begin, DisableFirst
<1>4. CASE GetSupportedTypes \/ SetType
           \/ GetSupportedModels \/ SetModel \/ ModelFailureIgnored
  BY <1>4 DEF GetSupportedTypes, SetType, GetSupportedModels, SetModel, ModelFailureIgnored
<1>5. CASE DefaultColorModel \/ DefaultFailureIgnored
  BY <1>5 DEF DefaultColorModel, DefaultFailureIgnored, AfterDefault
<1>6. CASE SetEnable
  BY <1>6 DEF SetEnable, EnableWanted
<1>7. CASE GetTemperatureMin \/ GetTemperatureMax \/ RangeUnknown
  BY <1>7 DEF GetTemperatureMin, GetTemperatureMax, RangeUnknown
<1>8. CASE SetTemperature
  BY <1>8 DEF SetTemperature
<1>9. CASE Throws
  BY <1>9 DEF Throws
<1>10. CASE UNCHANGED vars
  BY <1>10 DEF vars
<1> QED
  BY <1>1, <1>2, <1>3, <1>4, <1>5, <1>6, <1>7, <1>8, <1>9, <1>10 DEF Next,
    set_WhiteBalance, Terminated

LEMMA RequestStep == AInv /\ [Next]_vars => RequestHolds'
<1> SUFFICES ASSUME AInv, [Next]_vars PROVE  RequestHolds'
  OBVIOUS
<1> USE DEF AInv, RequestHolds, StepsRight, SettingUp, ModeKept, CallAt, DefaultFailed,
  Goto, camera, handle, madeVars, setVars
<1>1. CASE set_AutoControl_default
  BY <1>1 DEF set_AutoControl_default, GetHdrMode, EnableHdr, HdrFails, ConfigureAes,
    AesFails, FreeBuffer, Deleted, Cleanup
<1>2. CASE setWhiteBalance_AUTO
  BY <1>2 DEF setWhiteBalance_AUTO, Begin
<1>3. ASSUME NEW k \in Requests, setWhiteBalance_kelvin(k) PROVE  RequestHolds'
  BY <1>3 DEF setWhiteBalance_kelvin, Begin, DisableFirst
<1>4. CASE GetSupportedTypes \/ SetType
           \/ GetSupportedModels \/ SetModel \/ ModelFailureIgnored
  BY <1>4 DEF GetSupportedTypes, SetType, GetSupportedModels, SetModel, ModelFailureIgnored
<1>5. CASE DefaultColorModel \/ DefaultFailureIgnored
  BY <1>5 DEF DefaultColorModel, DefaultFailureIgnored, AfterDefault
<1>6. CASE SetEnable
  BY <1>6 DEF SetEnable, EnableWanted
<1>7. CASE GetTemperatureMin \/ GetTemperatureMax \/ RangeUnknown
  BY <1>7 DEF GetTemperatureMin, GetTemperatureMax, RangeUnknown
<1>8. CASE SetTemperature
  BY <1>8 DEF SetTemperature
<1>9. CASE Throws
  BY <1>9 DEF Throws
<1>10. CASE UNCHANGED vars
  BY <1>10 DEF vars
<1> QED
  BY <1>1, <1>2, <1>3, <1>4, <1>5, <1>6, <1>7, <1>8, <1>9, <1>10 DEF Next,
    set_WhiteBalance, Terminated

LEMMA KelvinStep == AInv /\ [Next]_vars => KelvinRight'
<1> SUFFICES ASSUME AInv, [Next]_vars PROVE  KelvinRight'
  OBVIOUS
<1> USE DEF AInv, KelvinRight, StepsRight, SettingUp, CallAt, DefaultFailed, Goto,
  camera, handle, madeVars, setVars
<1>1. CASE set_AutoControl_default
  BY <1>1 DEF set_AutoControl_default, GetHdrMode, EnableHdr, HdrFails, ConfigureAes,
    AesFails, FreeBuffer, Deleted, Cleanup
<1>2. CASE setWhiteBalance_AUTO
  BY <1>2 DEF setWhiteBalance_AUTO, Begin
<1>3. ASSUME NEW k \in Requests, setWhiteBalance_kelvin(k) PROVE  KelvinRight'
  BY <1>3 DEF setWhiteBalance_kelvin, Begin, DisableFirst
<1>4. CASE GetSupportedTypes \/ SetType
           \/ GetSupportedModels \/ SetModel \/ ModelFailureIgnored
  BY <1>4 DEF GetSupportedTypes, SetType, GetSupportedModels, SetModel, ModelFailureIgnored
<1>5. CASE DefaultColorModel \/ DefaultFailureIgnored
  BY <1>5 DEF DefaultColorModel, DefaultFailureIgnored, AfterDefault
<1>6. CASE SetEnable
  BY <1>6 DEF SetEnable, EnableWanted
<1>7. CASE GetTemperatureMin \/ GetTemperatureMax \/ RangeUnknown
  <2>1. CASE GetTemperatureMin \/ RangeUnknown
    BY <1>7, <2>1 DEF GetTemperatureMin, RangeUnknown
  <2>2. CASE GetTemperatureMax
    <3>1. /\ request \in Int /\ -Word <= 2 * request /\ 2 * request < Word
          /\ kelvin = AsUnsigned(request) /\ kelvin \in Nat /\ tempMin = scale.min
      BY <2>2, AutoControlAssumption DEF TypeOK, Temperatures, GetTemperatureMax
    <3>2. request >= 0 => kelvin = request
      BY <3>1 DEF AsUnsigned
    <3>3. Nearest(Clamped(kelvin))
      BY <3>1, <3>2, ClampedNearest, ScaleFacts DEF Nearest
    <3> QED
      BY <2>2, <3>3 DEF GetTemperatureMax, Nearest
  <2> QED
    BY <1>7, <2>1, <2>2
<1>8. CASE SetTemperature
  BY <1>8 DEF SetTemperature
<1>9. CASE Throws
  BY <1>9 DEF Throws
<1>10. CASE UNCHANGED vars
  BY <1>10 DEF vars, Nearest
<1> QED
  BY <1>1, <1>2, <1>3, <1>4, <1>5, <1>6, <1>7, <1>8, <1>9, <1>10 DEF Next,
    set_WhiteBalance, Terminated

LEMMA NearestStep == AInv /\ [Next]_vars => TemperatureNearest'
<1> SUFFICES ASSUME AInv, [Next]_vars PROVE  TemperatureNearest'
  OBVIOUS
<1> USE DEF AInv, TemperatureNearest, StepsRight, SettingUp, CallAt, DefaultFailed,
  Goto, camera, handle, madeVars, setVars
<1>1. CASE set_AutoControl_default
  BY <1>1 DEF set_AutoControl_default, GetHdrMode, EnableHdr, HdrFails, ConfigureAes,
    AesFails, FreeBuffer, Deleted, Cleanup
<1>2. CASE setWhiteBalance_AUTO
  BY <1>2 DEF setWhiteBalance_AUTO, Begin
<1>3. ASSUME NEW k \in Requests, setWhiteBalance_kelvin(k) PROVE  TemperatureNearest'
  BY <1>3 DEF setWhiteBalance_kelvin, Begin, DisableFirst
<1>4. CASE GetSupportedTypes \/ SetType
           \/ GetSupportedModels \/ SetModel \/ ModelFailureIgnored
  BY <1>4 DEF GetSupportedTypes, SetType, GetSupportedModels, SetModel, ModelFailureIgnored
<1>5. CASE DefaultColorModel \/ DefaultFailureIgnored
  BY <1>5 DEF DefaultColorModel, DefaultFailureIgnored, AfterDefault
<1>6. CASE SetEnable
  BY <1>6 DEF SetEnable, EnableWanted
<1>7. CASE GetTemperatureMin \/ GetTemperatureMax \/ RangeUnknown
  BY <1>7 DEF GetTemperatureMin, GetTemperatureMax, RangeUnknown
<1>8. CASE SetTemperature
  <2>1. /\ temp' = AsInt(kelvin) /\ UNCHANGED <<request, ranged, scale>> /\ request # AUTO
        /\ request \in Int /\ -Word <= 2 * request /\ 2 * request < Word
    BY <1>8, AutoControlAssumption DEF TypeOK, SetTemperature
  <2>2. CASE ranged
    <3>1. Nearest(kelvin) /\ kelvin \in Nat
      BY <1>8, <2>2 DEF SetTemperature, KelvinRight, TypeOK, Temperatures
    <3>2. AsInt(kelvin) = kelvin
      BY <3>1, ScaleFacts DEF Nearest, AsInt
    <3> QED
      BY <2>1, <2>2, <3>1, <3>2 DEF Nearest
  <2>3. CASE ~ranged
    BY <1>8, <2>1, <2>3, RoundTrip DEF SetTemperature, KelvinRight
  <2> QED
    BY <2>2, <2>3
<1>9. CASE Throws
  BY <1>9 DEF Throws
<1>10. CASE UNCHANGED vars
  BY <1>10 DEF vars
<1> QED
  BY <1>1, <1>2, <1>3, <1>4, <1>5, <1>6, <1>7, <1>8, <1>9, <1>10 DEF Next,
    set_WhiteBalance, Terminated

LEMMA NextAInv == AInv /\ [Next]_vars => AInv'
BY TypeStep, StepsStep, PreparedStep, ModeStep, BufferStep, RequestStep, KelvinStep,
  NearestStep
  DEF AInv

\* In every reachable state, whatever the camera supports and whichever calls fail,
\* the parts of AInv hold: who is where, what has been prepared, which temperature
\* is on its way to the camera.
THEOREM AutoInvariance == Spec => []AInv
BY InitAInv, NextAInv, PTL DEF Spec

-------------------------------------------------------------------------------
(* The properties. *)

\* The handle, the camera and the arithmetic of int and unsigned int stay in their
\* ranges; the configuration structure is never freed twice.
THEOREM AutoTypeCorrect == Spec => []TypeOK
<1>1. AInv => TypeOK
  BY DEF AInv
<1> QED
  BY <1>1, AutoInvariance, PTL

\* Auto white balance is on only on a colour camera, with the best supported type and
\* with the auto controls configured (_set_WhiteBalance_auto).
THEOREM AutoOnlySupported == Spec => []AutoSupported
<1>1. AInv => AutoSupported
  BY DEF AInv, Prepared, AutoSupported, Known, BestType
<1> QED
  BY <1>1, AutoInvariance, PTL

\* A setWhiteBalance that returns has set the mode asked for.
THEOREM ModeAsRequested == Spec => []RequestHolds
<1>1. AInv => RequestHolds
  BY DEF AInv
<1> QED
  BY <1>1, AutoInvariance, PTL

\* A temperature that setWhiteBalance has set is the nearest one of the camera, or,
\* if its range could not be read, the request itself, for every width of an int.
THEOREM NearestTemperature == Spec => []TemperatureNearest
<1>1. AInv => TemperatureNearest
  BY DEF AInv
<1> QED
  BY <1>1, AutoInvariance, PTL

\* A setWhiteBalance that returns has set the mode asked for and, for a temperature,
\* the nearest one of the camera.
THEOREM RequestIsGranted == Spec => []RequestGranted
BY ModeAsRequested, NearestTemperature, PTL DEF RequestGranted

\* A setWhiteBalance that throws, at whichever call, has not enabled auto white
\* balance and has not changed the temperature.
THEOREM ThrowsWithoutEnabling == Spec => []ThrownNeverEnables
<1>1. AInv => ThrownNeverEnables
  BY DEF AInv, ModeKept, ThrownNeverEnables
<1> QED
  BY <1>1, AutoInvariance, PTL

\* The configuration structure of _set_AutoControl_default is freed on every path,
\* and on none twice.
THEOREM BufferFreedOnce == Spec => []FreedOnce
<1>1. AInv => FreedOnce
  BY DEF AInv, TypeOK, BufferRight, SettingUp, FreedOnce
<1> QED
  BY <1>1, AutoInvariance, PTL

================================================================================
