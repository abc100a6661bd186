------------------------------ MODULE EvoTypes ------------------------------
(***************************************************************************)
(* Types (ozobot/evo/protocol.py): the wire types of the Evo protocol.     *)
(* Each type is given by its layout: how many bytes serialize writes, and  *)
(* which slice of them holds which value.  serialize and deserialize of a  *)
(* struct use the same slices, so one table stands for both.  Values are   *)
(* kept only where the code tells them apart: the members of the           *)
(* enumerations, outside of which deserialize raises, and of the flags.    *)
(***************************************************************************)
EXTENDS Integers, Sequences, FiniteSetsExt, Functions, TLC

Scalar(width) == [kind |-> "scalar", width |-> width, fields |-> << >>]

\* An IntEnum, with its members.
E(width, members) ==
  [kind |-> "enum", width |-> width, fields |-> << >>, members |-> members]

\* An IntFlag, with its bits.
B(width, members) ==
  [kind |-> "flag", width |-> width, fields |-> << >>, members |-> members]

\* A struct, with its fields in order.
S(width, fields) == [kind |-> "struct", width |-> width, fields |-> fields]

\* One value, or an array of values, in the bytes from..to-1.
F(type, from, to) == [type |-> type, array |-> FALSE, from |-> from, to |-> to]
A(type, from, to) == [type |-> type, array |-> TRUE, from |-> from, to |-> to]

-----------------------------------------------------------------------------
(* The types, in the order of the class, a few classes to a definition.    *)

BuiltinTypes ==
  [c8 |-> Scalar(1),
   u8 |-> Scalar(1),
   u16 |-> Scalar(2),
   u32 |-> Scalar(4),
   u64 |-> Scalar(8),
   i8 |-> Scalar(1),
   i16 |-> Scalar(2),
   i32 |-> Scalar(4),
   i64 |-> Scalar(8)]

NamedTypes ==
  [RequestID |-> Scalar(4),
   S8_24 |-> Scalar(4),
   addr_t |-> Scalar(4),
   size_t |-> Scalar(2),
   interval_t |-> Scalar(2),
   time_t |-> Scalar(4),
   Version |-> S(4, <<F("u8", 0, 1), F("u8", 1, 2), F("u16", 2, 4)>>),
   RequestIdSource |-> E(1, [Ble |-> 2, Firmware |-> 4, LegacyLfOnOf |-> 3,
                             Remote |-> 5, Reserved |-> 0,
                             VirtualMachine |-> 1])]

ModuleEnums ==
  [LoggingState |-> E(1, [Off |-> 0, On_IgnoreSampleDrop |-> 2,
                          On_StopWithSampleDrop |-> 1]),
   LightSource |-> E(1, [Off |-> 0, On |-> 1]),
   ColorCodeExecution |-> E(1, [Disabled |-> 0, Legacy |-> 1]),
   IRChannelEmitState |-> E(1, [Off |-> 0, On |-> 1]),
   ErrorModuleIDs |-> E(1, [Bluetooth |-> 4, BrightnessControl |-> 8,
                            ControlProtocol |-> 9, OzoVMLoadFromColors |-> 1,
                            OzoVMProgramStreamLoader |-> 0,
                            OzoVMSystemCalls |-> 2, Undefined |-> 255,
                            UnsupportedOperation |-> 5,
                            VirtualMachineTask |-> 7]),
   ButtonOverrideEnum |-> E(1, [NotOverridden |-> 0, Overridden |-> 1])]

ColorSamples ==
  [PickupDetectionEnum |-> E(1, [OnSurface |-> 0, PickedUp |-> 1]),
   ColorSensorData |-> S(13, <<F("u16", 0, 2), F("u16", 2, 4), F("u16", 4, 6),
            F("u16", 6, 8), F("LightSource", 8, 9), F("time_t", 9, 13)>>),
   ColorSensorStatus |-> B(1, [AnalogSaturation |-> 2, DigitalSaturation |-> 4,
            Valid |-> 1])]

ColorSamplesWithStatus ==
  [ColorSensorDataWithStatus |-> S(14, <<F("u16", 0, 2), F("u16", 2, 4),
            F("u16", 4, 6), F("u16", 6, 8), F("LightSource", 8, 9),
            F("ColorSensorStatus", 9, 10), F("time_t", 10, 14)>>),
   RGBColor |-> S(3, <<F("u8", 0, 1), F("u8", 1, 2), F("u8", 2, 3)>>)]

ProcessedColors ==
  [RGBColorWithTimestamp |-> S(7, <<F("RGBColor", 0, 3), F("time_t", 3, 7)>>),
   ProcessedRGBColor |-> S(11, <<F("RGBColor", 0, 3), F("RGBColor", 3, 6),
            F("LightSource", 6, 7), F("time_t", 7, 11)>>)]

HclColors ==
  [HCLColor |-> S(4, <<F("u16", 0, 2), F("u8", 2, 3), F("u8", 3, 4)>>),
   HCLColorWithTimestamp |-> S(8, <<F("HCLColor", 0, 4), F("time_t", 4, 8)>>)]

SurfaceEnums ==
  [SurfaceProximityData |-> S(6, <<F("u16", 0, 2), F("time_t", 2, 6)>>),
   LineColorEnum |-> E(1, [Black |-> 0, Blue |-> 3, Green |-> 2, Red |-> 1,
                           Unknown |-> 255]),
   SurfaceColorEnum |-> E(1, [Black |-> 0, Blue |-> 4, Cyan |-> 6, Green |-> 2,
            Magenta |-> 5, Red |-> 1, Unknown |-> 8, White |-> 7,
            Yellow |-> 3]),
   PlasticColor |-> E(1, [Black |-> 1, White |-> 0]),
   EncryptionKeyVariant |-> E(1, [Development |-> 1, KeyFingerprint |-> 255,
            Production |-> 0])]

SystemEnums ==
  [LogLevel |-> E(1, [Debug |-> 4, Debug1 |-> 5, Debug2 |-> 6, Debug3 |-> 7,
                      Disabled |-> 0, Error |-> 1, Info |-> 3, Warning |-> 2]),
   LEDsMask |-> B(2, [back |-> 128, button |-> 64, front_center |-> 8,
                      front_left |-> 2, front_left_center |-> 4,
                      front_right |-> 32, front_right_center |-> 16,
                      top |-> 1]),
   BootloaderFields |-> B(1, [firmwareLoaded |-> 4, recoveryLoaded |-> 2,
            smartSkin |-> 1]),
   IOResult |-> E(1, [ErrorInvalidData |-> 8, ErrorMisaligned |-> 6,
                      ErrorOutOfRange |-> 4, ErrorPartialWrite |-> 7,
                      ErrorPermissionDenied |-> 3, ErrorRangeToLarge |-> 5,
                      ErrorReadOnly |-> 2, ErrorUnknown |-> 1, Success |-> 0]),
   IntersectionDirection |-> E(1, [Backward |-> 8, Left |-> 1, Right |-> 4,
            Straight |-> 2])]

StateEnums ==
  [IntersectionBitmap |-> B(1, [Backward |-> 8, Left |-> 1, Right |-> 4,
            Straight |-> 2]),
   LineCharacteristic |-> B(1, [LineOnLeft |-> 2, LineOnRight |-> 4,
            LineUnderAll |-> 1]),
   ExecutionStateEnum |-> E(1, [CorruptedInput |-> 6, FileNotFound |-> 4,
            FinishedForced |-> 2, FinishedNormal |-> 1,
            InvalidCalibration |-> 7, InvalidRequest |-> 5, NotExecuted |-> 3,
            Running |-> 0]),
   ChargerStateEnum |-> E(1, [Connected |-> 1, Disconnected |-> 0,
            LowPower |-> 2]),
   ShutdownSource |-> E(1, [BleDisconnect |-> 5, Button |-> 0,
                            ChargerDisconnect |-> 4, ColorCode |-> 6,
                            LowBattery |-> 1, OzoVM |-> 7, Restart |-> 3,
                            SystemAPI |-> 2])]

RequestEnums ==
  [PressType |-> E(1, [Double |-> 2, Long |-> 1, Max |-> 3, Release |-> 4,
                       Short |-> 0]),
   CalibrationType |-> E(1, [ColorSensor |-> 2, Encoders |-> 0,
                             HeightSensor |-> 3, LineSensors |-> 1,
                             OnSpot |-> 4, OnSpotWithoutEncoders |-> 5]),
   FirmwareUpdateSourceEnum |-> E(1, [FileSystem |-> 0, Recovery |-> 1]),
   FirmwareUpdateTargetEnum |-> E(1, [MainMCU |-> 0, WirelessMCU |-> 1]),
   CallStatus |-> E(1, [CallError |-> 2, CallSuccess |-> 0,
                        InvalidParameters |-> 1, Unsupported |-> 3]),
   SurfaceType |-> E(1, [Paper |-> 0, Screen |-> 1, Unknown |-> 255])]

CalibrationEnums ==
  [CalibrationResultEnum |-> E(1, [
            ColorSensorCalibrationAlignmentFailure |-> 5,
            ColorSensorThresholdFailure |-> 3, EncodersFailure |-> 1,
            LineSensorsCalibrationAlignmentFailure |-> 4,
            LineSensorsThresholdFailure |-> 2,
            NewDotFinalAlignmentFailure |-> 7,
            NewDotLineAlignmentFailure |-> 6, Success |-> 0]),
   CalibrationStatus |-> E(1, [Invalid |-> 0, Valid |-> 1]),
   CalibrationRangeStatus |-> B(1, [DifferenceTooHigh |-> 2,
            DifferenceTooLow |-> 1, LowerBoundCrossed |-> 4,
            UpperBoundCrossed |-> 8]),
   WatcherInfo |-> S(2, <<F("u8", 0, 1), F("u8", 1, 2)>>),
   WatcherFlags |-> B(1, [DisableWhenDisconnected |-> 2, Enabled |-> 1,
                          SendInitialValue |-> 4])]

WatcherEnums ==
  [WatcherRegionFlags |-> B(1, [DoNotSendInNotify |-> 2, DoNotSetDirty |-> 1]),
   BatteryFieldsEnum |-> B(1, [Charging |-> 1]),
   MemoryTestFields |-> B(1, [PageError |-> 1]),
   TestModeFields |-> B(4, [disableUSBRestrictions |-> 1]),
   BootloaderErrorCodes |-> E(1, [FirmwareDoesNotExist |-> 3,
            FirmwareVerificationFailed |-> 6, FirmwareVersionIsTooOld |-> 9,
            FirmwareWillNotFitInMemory |-> 4,
            FirmwareWrongEncryptionType |-> 5, InconsistentFirmware |-> 2,
            InvalidFileSystem |-> 8, LowBattery |-> 1, NoError |-> 0,
            UnsupportedHW |-> 7])]

ProductEnums ==
  [BluetoothUpdateErrorCodes |-> E(1, [BlockWriteFailed |-> 12,
            BlueFlagEraseFailed |-> 9, BlueFlagResetFailed |-> 10,
            BootloaderHWVersionReadFailed |-> 7, FileCRCCheckFailed |-> 4,
            FileCorrupted |-> 3, FileIncorrectSize |-> 2, FileNotFound |-> 1,
            InProgress |-> 15, SectorCRCCheckFailed |-> 13,
            SectorCRCGetFailed |-> 14, SectorEraseFailed |-> 11, Success |-> 0,
            UnsupportedBootloaderHWVersion |-> 8,
            UnsupportedBootloaderVersion |-> 6, VersionReadFailed |-> 5,
            WaitForUpdaterToBoot |-> 16]),
   BluetoothInitializedCode |-> E(1, [BrownoutReset |-> 7,
            FirmwareStartedProperly |-> 1, NotInitialized |-> 0,
            ResetCrash |-> 8, ResetECC |-> 9, ResetLockUp |-> 6,
            ResetWatchdog |-> 5, UpdaterBadBlueFlag |-> 3,
            UpdaterStartACI |-> 2, UpdaterStartPin |-> 4]),
   ProductTypeEnum |-> E(1, [Anvil |-> 5, Bridge |-> 3, Evo |-> 0, Evo_S |-> 1,
                             Jot15b |-> 4, Jot18 |-> 2]),
   AccountTypeEnum |-> E(1, [Adult |-> 0, Children |-> 1]),
   BehaviourTypeEnum |-> E(1, [Base |-> 0, School |-> 1])]

LineAttributeTypes ==
  [MemoryTestTypes |-> E(1, [FullTest |-> 1, FullTestReport |-> 0,
                             QuickTest |-> 2]),
   LineNavigationAction |-> E(1, [DoNotFollow |-> 0, Follow |-> 1]),
   LineAttributes |-> S(10, <<F("S8_24", 0, 4), F("S8_24", 4, 8),
            F("LineCharacteristic", 8, 9), F("u8", 9, 10)>>)]

RawLineSensors ==
  [LineSensorsRAW_8bit |-> S(7, <<A("u8", 0, 7)>>),
   LineSensorsRAW_16bit |-> S(14, <<A("u16", 0, 14)>>)]

Lines ==
  [Line |-> S(21, <<A("u8", 0, 7), F("LineAttributes", 7, 17),
                    F("time_t", 17, 21)>>),
   LineWithRAW_8bit |-> S(28, <<A("u8", 0, 7), A("u8", 7, 14),
            F("LineAttributes", 14, 24), F("time_t", 24, 28)>>)]

ColorClasses ==
  [LineColor |-> S(6, <<F("LineColorEnum", 0, 1), F("LightSource", 1, 2),
                        F("time_t", 2, 6)>>),
   SurfaceColor |-> S(8, <<F("SurfaceColorEnum", 0, 1), F("LightSource", 1, 2),
                           F("u16", 2, 4), F("time_t", 4, 8)>>)]

SurfaceStates ==
  [Surface |-> S(5, <<F("SurfaceType", 0, 1), F("time_t", 1, 5)>>),
   PickupDetection |-> S(5, <<F("PickupDetectionEnum", 0, 1),
            F("time_t", 1, 5)>>)]

PickupAndProximity ==
  [PickupSensorRaw |-> S(8, <<A("u16", 0, 4), F("time_t", 4, 8)>>),
   IRProximity |-> S(8, <<F("u8", 0, 1), F("u8", 1, 2), F("u8", 2, 3),
                          F("u8", 3, 4), F("time_t", 4, 8)>>)]

ProximityAndMessages ==
  [IRProximity_u16 |-> S(6, <<F("u16", 0, 2), F("time_t", 2, 6)>>),
   IRMessage |-> S(6, <<F("u8", 0, 1), F("u8", 1, 2), F("time_t", 2, 6)>>)]

EmittedAndPosition ==
  [IRMessageEmit |-> S(2, <<F("u8", 0, 1), F("IRChannelEmitState", 1, 2)>>),
   RelativePosition |-> S(21, <<F("u8", 0, 1), F("S8_24", 1, 5),
            F("S8_24", 5, 9), F("S8_24", 9, 13), F("S8_24", 13, 17),
            F("time_t", 17, 21)>>)]

EncoderAndCharger ==
  [WheelsEncoder |-> S(12, <<F("u32", 0, 4), F("u32", 4, 8),
                             F("time_t", 8, 12)>>),
   ChargerState |-> S(5, <<F("ChargerStateEnum", 0, 1), F("time_t", 1, 5)>>)]

CodesAndBattery ==
  [ColorCode |-> S(8, <<F("u32", 0, 4), F("time_t", 4, 8)>>),
   Battery |-> S(8, <<F("u16", 0, 2), F("u8", 2, 3),
                      F("BatteryFieldsEnum", 3, 4), F("time_t", 4, 8)>>)]

ButtonAndTasks ==
  [Button |-> S(5, <<F("PressType", 0, 1), F("time_t", 1, 5)>>),
   TaskInformation |-> S(13, <<A("c8", 0, 8), F("u8", 8, 9),
            F("u32", 9, 13)>>)]

ControlParameters ==
  [PIDParameters |-> S(12, <<F("S8_24", 0, 4), F("S8_24", 4, 8),
                             F("S8_24", 8, 12)>>),
   ExternalFlashInformation |-> S(7, <<F("u8", 0, 1), F("u8", 1, 2),
            F("u32", 2, 6), F("u8", 6, 7)>>)]

Ranges ==
  [SensorRange |-> S(4, <<F("u16", 0, 2), F("u16", 2, 4)>>),
   UnsignedRange |-> S(4, <<F("u16", 0, 2), F("u16", 2, 4)>>)]

LineSensorRanges ==
  [S8_24Range |-> S(8, <<F("S8_24", 0, 4), F("S8_24", 4, 8)>>),
   LineSensorsCalibration |-> S(28, <<A("SensorRange", 0, 28)>>)]

ColorSensorRanges ==
  [ColorSensorCalibration |-> S(12, <<F("SensorRange", 0, 4),
            F("SensorRange", 4, 8), F("SensorRange", 8, 12)>>),
   EncodersCalibration |-> S(2, <<F("u8", 0, 1), F("u8", 1, 2)>>)]

WheelSpeeds ==
  [WheelSpeed |-> S(5, <<F("S8_24", 0, 4), F("u8", 4, 5)>>),
   WheelsSpeed |-> S(14, <<A("WheelSpeed", 0, 10), F("time_t", 10, 14)>>)]

CalibrationProgress ==
  [CalibrationStatusLineSensor |-> S(12, <<F("CalibrationStatus", 0, 1),
            A("CalibrationRangeStatus", 1, 8), F("time_t", 8, 12)>>),
   CalibrationStatusColorSensor |-> S(8, <<F("CalibrationStatus", 0, 1),
            F("CalibrationRangeStatus", 1, 2),
            F("CalibrationRangeStatus", 2, 3),
            F("CalibrationRangeStatus", 3, 4), F("time_t", 4, 8)>>)]

BoardGeometry ==
  [BoardsConfiguration |-> S(5, <<F("u8", 0, 1), F("u8", 1, 2), F("u8", 2, 3),
            F("u8", 3, 4), F("u8", 4, 5)>>),
   DifferentialGeometry |-> S(12, <<F("S8_24", 0, 4), F("i32", 4, 8),
            F("i32", 8, 12)>>)]

SensorGeometry ==
  [LineSensorGeometry |-> S(16, <<F("S8_24", 0, 4), F("u32", 4, 8),
            F("S8_24", 8, 12), F("S8_24", 12, 16)>>)]

-----------------------------------------------------------------------------
Types ==
  BuiltinTypes @@ NamedTypes @@ ModuleEnums @@ ColorSamples @@
  ColorSamplesWithStatus @@ ProcessedColors @@ HclColors @@ SurfaceEnums @@
  SystemEnums @@ StateEnums @@ RequestEnums @@ CalibrationEnums @@
  WatcherEnums @@ ProductEnums @@ LineAttributeTypes @@ RawLineSensors @@
  Lines @@ ColorClasses @@ SurfaceStates @@ PickupAndProximity @@
  ProximityAndMessages @@ EmittedAndPosition @@ EncoderAndCharger @@ CodesAndBattery @@
  ButtonAndTasks @@ ControlParameters @@ Ranges @@ LineSensorRanges @@
  ColorSensorRanges @@ WheelSpeeds @@ CalibrationProgress @@ BoardGeometry @@
  SensorGeometry

Width(type) == Types[type].width

\* The slices of a struct follow one another from `from' to `to', and each is
\* as wide as its type, or a whole number of times as wide for an array.
Tiles(fields, from, to) ==
  LET ends == << from >> \o [i \in DOMAIN fields |-> fields[i].to] IN
  /\ ends[Len(ends)] = to
  /\ \A i \in DOMAIN fields :
       LET f == fields[i]  size == f.to - f.from IN
       /\ f.from = ends[i]
       /\ IF f.array THEN size > 0 /\ size % Width(f.type) = 0 ELSE size = Width(f.type)

\* No two members of an enumeration share a value, and each fits its width;
\* the bits of a flag are single ones.
MembersFit(t) ==
  LET values == Range(t.members) IN
  /\ Cardinality(values) = Cardinality(DOMAIN t.members)
  /\ \A v \in values : v >= 0 /\ (t.width < 4 => v < 256 ^ t.width)
  /\ t.kind = "flag" => \A v \in values : \E b \in 0 .. 8 * t.width - 1 : v = 2 ^ b

TypeFits(t) ==
  CASE t.kind = "struct" -> Tiles(t.fields, 0, t.width)
    [] t.kind \in {"enum", "flag"} -> MembersFit(t)
    [] t.kind = "scalar" -> t.width \in {1, 2, 4, 8}

\* deserialize hands each decoded field to the constructor, which converts it
\* once more with Types.X(value), an array element by element: a scalar or an
\* enumeration takes itself, a struct is called with one argument where it
\* expects its fields, and raises.
Decodable(type) ==
  \A i \in DOMAIN Types[type].fields : Types[Types[type].fields[i].type].kind # "struct"

\* The driver tells samples apart by the time they carry.
Timestamped(type) ==
  \E i \in DOMAIN Types[type].fields : Types[type].fields[i].type = "time_t"
=============================================================================
