----------------------------- MODULE EvoPackets -----------------------------
(***************************************************************************)
(* PacketTypes, VirtualMemory and the methods of AsyncControl              *)
(* (ozobot/evo/protocol.py): which packets there are, how they are laid    *)
(* out on the wire and which belong together.  An RPC is a request, its    *)
(* response and the events that tell of its progress; a response belongs   *)
(* to every request of its kind (isinstance), and of a keyed one only if   *)
(* the two carry the same requestId.                                       *)
(***************************************************************************)
EXTENDS EvoTypes

\* A packet: its message id, the bytes it has without its rest, and its fields;
\* bytes 0 and 1 are the message id.  The code has the bytes of a field in
\* serialize, in deserialize and, as widths, in data_width and expected_length:
\* they are alike there and one column here.
Packet(id, size, fields) == [id |-> id, size |-> size, fields |-> fields]

\* A named field.
N(name, type, from, to) ==
  [name |-> name, type |-> type, array |-> FALSE, from |-> from, to |-> to]

\* A field of variable length that takes the rest of the packet; its length is
\* the value of the field `counted', or is known from the end only ("None").
Rest(name, type, from, counted) ==
  [name |-> name, type |-> type, array |-> TRUE, from |-> from, to |-> from,
   counted |-> counted]

-----------------------------------------------------------------------------
(* The RPCs: request, response, whether both carry the requestId that      *)
(* is_response_to compares, and associated_events.  The events: the        *)
(* requests is_event_of accepts, and the fields of both that it compares.  *)

MemRead ==
  [request |-> Packet(1, 8, <<N("addr", "addr_t", 2, 6),
            N("length", "size_t", 6, 8)>>),
   response |-> Packet(2, 5, <<N("result", "IOResult", 2, 3),
            N("length", "size_t", 3, 5), Rest("data", "u8", 5, "length")>>),
   keyed |-> FALSE, events |-> {}]

MemWrite ==
  [request |-> Packet(3, 8, <<N("addr", "addr_t", 2, 6),
            N("length", "size_t", 6, 8), Rest("data", "u8", 8, "length")>>),
   response |-> Packet(4, 3, <<N("result", "IOResult", 2, 3)>>),
   keyed |-> FALSE, events |-> {}]

MoveStraight ==
  [request |-> Packet(100, 14, <<N("requestId", "RequestID", 2, 6),
            N("distance", "S8_24", 6, 10), N("speed", "S8_24", 10, 14)>>),
   response |-> Packet(101, 6, <<N("requestId", "RequestID", 2, 6)>>),
   keyed |-> TRUE, events |-> {"PreciseMovementExecutionUpdate"}]

Rotate ==
  [request |-> Packet(102, 14, <<N("requestId", "RequestID", 2, 6),
            N("angle", "S8_24", 6, 10), N("speed", "S8_24", 10, 14)>>),
   response |-> Packet(103, 6, <<N("requestId", "RequestID", 2, 6)>>),
   keyed |-> TRUE, events |-> {"PreciseMovementExecutionUpdate"}]

Velocity ==
  [request |-> Packet(104, 18, <<N("requestId", "RequestID", 2, 6),
            N("linearSpeed", "S8_24", 6, 10),
            N("rotationSpeed", "S8_24", 10, 14),
            N("durationTime", "i32", 14, 18)>>),
   response |-> Packet(105, 6, <<N("requestId", "RequestID", 2, 6)>>),
   keyed |-> TRUE, events |-> {"VelocityExecutionState"}]

LineNavigation ==
  [request |-> Packet(106, 8, <<N("requestId", "RequestID", 2, 6),
            N("direction", "IntersectionDirection", 6, 7),
            N("action", "LineNavigationAction", 7, 8)>>),
   response |-> Packet(107, 6, <<N("requestId", "RequestID", 2, 6)>>),
   keyed |-> TRUE, events |-> {"LineNavigationExecutionUpdate"}]

StopExecution ==
  [request |-> Packet(120, 6, <<N("requestId", "RequestID", 2, 6)>>),
   response |-> Packet(121, 6, <<N("requestId", "RequestID", 2, 6)>>),
   keyed |-> TRUE, events |-> {"AudioExecutionState",
            "VirtualMachineExecutionState", "PreciseMovementExecutionUpdate",
            "LineNavigationExecutionUpdate"}]

WatcherSetup ==
  [request |-> Packet(122, 8, <<N("watcherID", "u8", 2, 3),
            N("flags", "WatcherFlags", 3, 4),
            N("notificationPeriodMin", "u16", 4, 6),
            N("notificationPeriodMax", "u16", 6, 8)>>),
   response |-> Packet(123, 3, <<N("callStatus", "CallStatus", 2, 3)>>),
   keyed |-> FALSE, events |-> {"WatcherDirty"}]

WatcherRegionSetup ==
  [request |-> Packet(124, 8, <<N("watcherID", "u8", 2, 3),
            N("regionID", "u8", 3, 4), N("address", "u16", 4, 6),
            N("size", "u8", 6, 7), N("flags", "WatcherRegionFlags", 7, 8)>>),
   response |-> Packet(125, 3, <<N("callStatus", "CallStatus", 2, 3)>>),
   keyed |-> FALSE, events |-> {"WatcherDirty"}]

ExecuteFile ==
  [request |-> Packet(108, 6, <<N("requestId", "RequestID", 2, 6),
            Rest("path", "c8", 6, "None")>>),
   response |-> Packet(109, 7, <<N("requestId", "RequestID", 2, 6),
            N("callStatus", "CallStatus", 6, 7)>>),
   keyed |-> TRUE, events |-> {"VirtualMachineExecutionState",
            "AudioExecutionState"}]

SetLED ==
  [request |-> Packet(110, 8, <<N("ledsMask", "LEDsMask", 2, 4),
            N("red", "u8", 4, 5), N("green", "u8", 5, 6),
            N("blue", "u8", 6, 7), N("alpha", "u8", 7, 8)>>),
   response |-> Packet(111, 3, <<N("callStatus", "CallStatus", 2, 3)>>),
   keyed |-> FALSE, events |-> {}]

Calibrate ==
  [request |-> Packet(112, 3, <<N("type", "CalibrationType", 2, 3)>>),
   response |-> Packet(113, 3, <<N("callStatus", "CallStatus", 2, 3)>>),
   keyed |-> FALSE, events |-> {"CalibrationStatus"}]

TurnOff ==
  [request |-> Packet(114, 2, <<>>),
   response |-> Packet(115, 3, <<N("callStatus", "CallStatus", 2, 3)>>),
   keyed |-> FALSE, events |-> {}]

UpdateFirmware ==
  [request |-> Packet(116, 4, <<N("target", "FirmwareUpdateTargetEnum", 2, 3),
            N("source", "FirmwareUpdateSourceEnum", 3, 4)>>),
   response |-> Packet(117, 3, <<N("callStatus", "CallStatus", 2, 3)>>),
   keyed |-> FALSE, events |-> {}]

PlayTone ==
  [request |-> Packet(118, 11, <<N("requestId", "RequestID", 2, 6),
            N("frequency", "u16", 6, 8), N("duration", "u16", 8, 10),
            N("volume", "u8", 10, 11)>>),
   response |-> Packet(119, 6, <<N("requestId", "RequestID", 2, 6)>>),
   keyed |-> TRUE, events |-> {"AudioExecutionState"}]

LongRPCExtensionExecute ==
  [request |-> Packet(126, 8, <<N("dataLength", "size_t", 2, 4),
            N("dataCRC", "u32", 4, 8)>>),
   response |-> Packet(127, 9, <<N("callStatus", "CallStatus", 2, 3),
            N("dataLength", "size_t", 3, 5), N("dataCRC", "u32", 5, 9)>>),
   keyed |-> FALSE, events |-> {}]

SetRNGSeed ==
  [request |-> Packet(130, 6, <<N("seed", "u32", 2, 6)>>),
   response |-> Packet(131, 3, <<N("callStatus", "CallStatus", 2, 3)>>),
   keyed |-> FALSE, events |-> {}]

SensorsLogging ==
  [request |-> Packet(132, 3, <<N("newState", "LoggingState", 2, 3)>>),
   response |-> Packet(133, 3, <<N("callStatus", "CallStatus", 2, 3)>>),
   keyed |-> FALSE, events |-> {"SensorsLoggingExecutionUpdate"}]

MemoryTest ==
  [request |-> Packet(134, 3, <<N("testType", "MemoryTestTypes", 2, 3)>>),
   response |-> Packet(135, 3, <<N("callStatus", "CallStatus", 2, 3)>>),
   keyed |-> FALSE, events |-> {"MemoryTestStatus"}]

PreciseMovementExecutionUpdate ==
  [packet |-> Packet(256, 19, <<N("requestId", "RequestID", 2, 6),
            N("executionState", "ExecutionStateEnum", 6, 7),
            N("overshotTime", "S8_24", 7, 11),
            N("overshotDistance", "S8_24", 11, 15),
            N("maxSpeed", "S8_24", 15, 19)>>),
   key |-> <<"requestId", "requestId">>, of |-> {"MoveStraight", "Rotate",
            "StopExecution"}]

LineNavigationExecutionUpdate ==
  [packet |-> Packet(257, 8, <<N("requestId", "RequestID", 2, 6),
            N("executionState", "ExecutionStateEnum", 6, 7),
            N("intersection", "IntersectionBitmap", 7, 8)>>),
   key |-> <<"requestId", "requestId">>, of |-> {"LineNavigation",
            "StopExecution"}]

VelocityExecutionState ==
  [packet |-> Packet(266, 7, <<N("requestId", "RequestID", 2, 6),
            N("executionState", "ExecutionStateEnum", 6, 7)>>),
   key |-> <<"requestId", "requestId">>, of |-> {"Velocity"}]

WatcherDirty ==
  [packet |-> Packet(260, 3, <<N("id", "u8", 2, 3),
            Rest("data", "u8", 3, "None")>>),
   key |-> <<"watcherID", "id">>, of |-> {"WatcherSetup",
            "WatcherRegionSetup"}]

ModuleError ==
  [packet |-> Packet(263, 7, <<N("moduleID", "ErrorModuleIDs", 2, 3),
            N("errorCode", "u32", 3, 7)>>),
   key |-> <<"", "">>, of |-> {}]

Shutdown ==
  [packet |-> Packet(258, 3, <<N("source", "ShutdownSource", 2, 3)>>),
   key |-> <<"", "">>, of |-> {}]

AudioExecutionState ==
  [packet |-> Packet(259, 7, <<N("requestId", "RequestID", 2, 6),
            N("executionState", "ExecutionStateEnum", 6, 7)>>),
   key |-> <<"requestId", "requestId">>, of |-> {"StopExecution",
            "ExecuteFile", "PlayTone"}]

CalibrationStatus ==
  [packet |-> Packet(261, 3, <<N("status", "CalibrationResultEnum", 2, 3)>>),
   key |-> <<"", "">>, of |-> {"Calibrate"}]

MemoryTestStatus ==
  [packet |-> Packet(262, 10, <<
            N("executionState", "ExecutionStateEnum", 2, 3),
            N("progress", "u8", 3, 4), N("flashID", "u8", 4, 5),
            N("address", "addr_t", 5, 9),
            N("fields", "MemoryTestFields", 9, 10)>>),
   key |-> <<"", "">>, of |-> {"MemoryTest"}]

VirtualMachineExecutionState ==
  [packet |-> Packet(264, 7, <<N("requestId", "RequestID", 2, 6),
            N("executionState", "ExecutionStateEnum", 6, 7)>>),
   key |-> <<"requestId", "requestId">>, of |-> {"StopExecution",
            "ExecuteFile"}]

SensorsLoggingExecutionUpdate ==
  [packet |-> Packet(265, 3, <<
            N("executionState", "ExecutionStateEnum", 2, 3)>>),
   key |-> <<"", "">>, of |-> {"SensorsLogging"}]

Requests ==
  [MemRead |-> MemRead, MemWrite |-> MemWrite, MoveStraight |-> MoveStraight,
   Rotate |-> Rotate, Velocity |-> Velocity,
   LineNavigation |-> LineNavigation, StopExecution |-> StopExecution,
   WatcherSetup |-> WatcherSetup, WatcherRegionSetup |-> WatcherRegionSetup,
   ExecuteFile |-> ExecuteFile, SetLED |-> SetLED, Calibrate |-> Calibrate,
   TurnOff |-> TurnOff, UpdateFirmware |-> UpdateFirmware,
   PlayTone |-> PlayTone, LongRPCExtensionExecute |-> LongRPCExtensionExecute,
   SetRNGSeed |-> SetRNGSeed, SensorsLogging |-> SensorsLogging,
   MemoryTest |-> MemoryTest]

Events ==
  [PreciseMovementExecutionUpdate |-> PreciseMovementExecutionUpdate,
   LineNavigationExecutionUpdate |-> LineNavigationExecutionUpdate,
   VelocityExecutionState |-> VelocityExecutionState,
   WatcherDirty |-> WatcherDirty, ModuleError |-> ModuleError,
   Shutdown |-> Shutdown, AudioExecutionState |-> AudioExecutionState,
   CalibrationStatus |-> CalibrationStatus,
   MemoryTestStatus |-> MemoryTestStatus,
   VirtualMachineExecutionState |-> VirtualMachineExecutionState,
   SensorsLoggingExecutionUpdate |-> SensorsLoggingExecutionUpdate]

\* get_packet_type_by_message_id: the class of a message id.
PacketTypeById ==
  1 :> << "request", "MemRead" >> @@ 2 :> << "response", "MemRead" >> @@
  3 :> << "request", "MemWrite" >> @@ 4 :> << "response", "MemWrite" >> @@
  100 :> << "request", "MoveStraight" >> @@
  101 :> << "response", "MoveStraight" >> @@
  102 :> << "request", "Rotate" >> @@ 103 :> << "response", "Rotate" >> @@
  104 :> << "request", "Velocity" >> @@ 105 :> << "response", "Velocity" >> @@
  106 :> << "request", "LineNavigation" >> @@
  107 :> << "response", "LineNavigation" >> @@
  120 :> << "request", "StopExecution" >> @@
  121 :> << "response", "StopExecution" >> @@
  122 :> << "request", "WatcherSetup" >> @@
  123 :> << "response", "WatcherSetup" >> @@
  124 :> << "request", "WatcherRegionSetup" >> @@
  125 :> << "response", "WatcherRegionSetup" >> @@
  108 :> << "request", "ExecuteFile" >> @@
  109 :> << "response", "ExecuteFile" >> @@ 110 :> << "request", "SetLED" >> @@
  111 :> << "response", "SetLED" >> @@ 112 :> << "request", "Calibrate" >> @@
  113 :> << "response", "Calibrate" >> @@ 114 :> << "request", "TurnOff" >> @@
  115 :> << "response", "TurnOff" >> @@
  116 :> << "request", "UpdateFirmware" >> @@
  117 :> << "response", "UpdateFirmware" >> @@
  118 :> << "request", "PlayTone" >> @@ 119 :> << "response", "PlayTone" >> @@
  126 :> << "request", "LongRPCExtensionExecute" >> @@
  127 :> << "response", "LongRPCExtensionExecute" >> @@
  130 :> << "request", "SetRNGSeed" >> @@
  131 :> << "response", "SetRNGSeed" >> @@
  132 :> << "request", "SensorsLogging" >> @@
  133 :> << "response", "SensorsLogging" >> @@
  134 :> << "request", "MemoryTest" >> @@
  135 :> << "response", "MemoryTest" >> @@
  256 :> << "event", "PreciseMovementExecutionUpdate" >> @@
  257 :> << "event", "LineNavigationExecutionUpdate" >> @@
  266 :> << "event", "VelocityExecutionState" >> @@
  260 :> << "event", "WatcherDirty" >> @@
  263 :> << "event", "ModuleError" >> @@ 258 :> << "event", "Shutdown" >> @@
  259 :> << "event", "AudioExecutionState" >> @@
  261 :> << "event", "CalibrationStatus" >> @@
  262 :> << "event", "MemoryTestStatus" >> @@
  264 :> << "event", "VirtualMachineExecutionState" >> @@
  265 :> << "event", "SensorsLoggingExecutionUpdate" >>

-----------------------------------------------------------------------------
\* The methods of AsyncControl: each builds the request of its name from its
\* arguments, in the order given, and expects the response of its name.
MovementCalls ==
  [MemRead |-> <<"addr", "length">>,
   MemWrite |-> <<"addr", "length", "data">>,
   MoveStraight |-> <<"requestId", "distance", "speed">>,
   Rotate |-> <<"requestId", "angle", "speed">>,
   Velocity |-> <<"requestId", "linearSpeed", "rotationSpeed", "durationTime">>,
   LineNavigation |-> <<"requestId", "direction", "action">>,
   StopExecution |-> <<"requestId">>,
   WatcherSetup |-> <<"watcherID", "flags", "notificationPeriodMin", "notificationPeriodMax">>,
   WatcherRegionSetup |-> <<"watcherID", "regionID", "address", "size", "flags">>]

SystemCalls ==
  [ExecuteFile |-> <<"requestId", "path">>,
   SetLED |-> <<"ledsMask", "red", "green", "blue", "alpha">>,
   Calibrate |-> <<"type">>, TurnOff |-> <<>>,
   UpdateFirmware |-> <<"target", "source">>,
   PlayTone |-> <<"requestId", "frequency", "duration", "volume">>,
   LongRPCExtensionExecute |-> <<"dataLength", "dataCRC">>,
   SetRNGSeed |-> <<"seed">>, SensorsLogging |-> <<"newState">>,
   MemoryTest |-> <<"testType">>]

-----------------------------------------------------------------------------
(* VirtualMemory: the type and the address of each property.               *)

R(type, address) == [type |-> type, address |-> address, writable |-> FALSE]
RW(type, address) == [type |-> type, address |-> address, writable |-> TRUE]

SensorMemory ==
  [hwConfiguration |-> R("u8", 65575), fwVersion |-> R("Version", 65580),
   fwCommitHash |-> R("c8", 65584), fwBuildType |-> R("c8", 65598),
   serialNumber |-> R("u8", 65616), watchersInfo |-> R("WatcherInfo", 65651),
   protocolHash |-> R("c8", 65653),
   lineSensorsPaper |-> R("LineWithRAW_8bit", 0),
   lineSensorsScreen |-> R("LineWithRAW_8bit", 28),
   colorSensorData |-> R("ColorSensorData", 56),
   processedColor |-> R("ProcessedRGBColor", 69),
   surfaceProximityData |-> R("SurfaceProximityData", 80),
   lineColor |-> R("LineColor", 86), colorCode |-> R("ColorCode", 92),
   surfaceColor |-> R("SurfaceColor", 100), surfaceType |-> R("Surface", 108),
   pickupDetection |-> R("PickupDetection", 113),
   irProximity |-> R("IRProximity", 118),
   irMessageLeftRear |-> R("IRMessage", 126),
   irMessageLeftFront |-> R("IRMessage", 132),
   irMessageRightRear |-> R("IRMessage", 138),
   irMessageRightFront |-> R("IRMessage", 144),
   wheelsEncoder |-> R("WheelsEncoder", 150),
   relativePosition |-> R("RelativePosition", 162)]

ControlMemory ==
  [chargerState |-> R("ChargerState", 183),
   batteryState |-> R("Battery", 188), button |-> R("Button", 196),
   watcherUpdateCounters |-> R("u8", 1024), deviceName |-> RW("c8", 16384),
   audioVolume |-> RW("u8", 16401), ledsBrightness |-> RW("u8", 16402),
   accountType |-> RW("AccountTypeEnum", 16403),
   behaviour |-> RW("BehaviourTypeEnum", 16404),
   irMessageLeftRearEmitting |-> RW("IRMessageEmit", 16405),
   irMessageLeftFrontEmitting |-> RW("IRMessageEmit", 16407),
   irMessageRightRearEmitting |-> RW("IRMessageEmit", 16409),
   irMessageRightFrontEmitting |-> RW("IRMessageEmit", 16411),
   virtualMachineSharedRegisters |-> RW("u8", 16413),
   lineNavigationSpeed |-> RW("S8_24", 16421), chargeRate |-> RW("u8", 16425),
   buttonOverride |-> RW("ButtonOverrideEnum", 16426),
   speedPID |-> RW("PIDParameters", 16438),
   lineNavigationPID |-> RW("PIDParameters", 16462),
   bleAdvertisingInterval |-> RW("UnsignedRange", 16474),
   qaTrackLog |-> RW("u8", 16482),
   colorCodeExecution |-> RW("ColorCodeExecution", 16483),
   longRPCExtensionData |-> RW("u8", 24576),
   testMode |-> RW("TestModeFields", 28672)]

DeviceMemory ==
  [bootloaderVersion |-> R("Version", 65536),
   bootloaderCommitHash |-> R("c8", 65540),
   bootloaderFields |-> R("BootloaderFields", 65554),
   bootloaderErrorCode |-> R("BootloaderErrorCodes", 65559),
   bootloaderPress |-> R("time_t", 65555),
   keyVariant |-> R("EncryptionKeyVariant", 65560),
   keyFingerPrint |-> R("u8", 65561),
   productType |-> R("ProductTypeEnum", 65573),
   productRevision |-> R("u8", 65574),
   plasticColor |-> R("PlasticColor", 65579),
   bluetoothVersion |-> R("Version", 65632),
   bluetoothInitializedCode |-> R("BluetoothInitializedCode", 65636),
   bluetoothAddress |-> R("u8", 65637),
   bluetoothUpdateStatus |-> R("BluetoothUpdateErrorCodes", 65643),
   externalFlashInformation |-> R("ExternalFlashInformation", 65644),
   lineSensorsPaperCalibration |-> R("LineSensorsCalibration", 65667),
   lineSensorsScreenCalibration |-> R("LineSensorsCalibration", 65695),
   colorSensorPaperCalibration |-> R("ColorSensorCalibration", 65723),
   colorSensorScreenCalibration |-> R("ColorSensorCalibration", 65735),
   encodersCalibration |-> R("EncodersCalibration", 65747),
   colorSensorType |-> R("c8", 65749),
   boardsConfiguration |-> R("BoardsConfiguration", 65765),
   chassisGeometry |-> R("DifferentialGeometry", 65770),
   lineSensorGeometry |-> R("LineSensorGeometry", 65782),
   tasksInformation |-> R("TaskInformation", 73728)]
VirtualMemory == SensorMemory @@ ControlMemory @@ DeviceMemory

\* PropertyMetadata.size
Size(property) == Width(VirtualMemory[property].type)

\* NativeMemoryRegions: the properties a NativeDataWatcher watches.
WatchedProperties ==
  {"colorCode", "lineColor", "surfaceColor", "irProximity", "irMessageRightFront",
   "irMessageLeftFront", "irMessageRightRear", "irMessageLeftRear", "button",
   "chargerState"}

-----------------------------------------------------------------------------
\* EvoNativeDriver.open asks for packets of mtu_size_override - 3 bytes.
PacketSizeMax == 23 - 3

\* expected_length, of a packet whose tail has n bytes.
Length(packet, n) == packet.size + n

HasRest(packet) ==
  packet.fields # << >> /\ "counted" \in DOMAIN packet.fields[Len(packet.fields)]

Field(packet, name) == CHOOSE f \in Range(packet.fields) : f.name = name
FieldNames(packet) == [i \in DOMAIN packet.fields |-> packet.fields[i].name]

\* _rpc takes the long way when the request or the response is too long.
IsLong(rpc, requestTail, responseTail) ==
  \/ Length(Requests[rpc].request, requestTail) > PacketSizeMax
  \/ Length(Requests[rpc].response, responseTail) > PacketSizeMax

\* The bytes of data a chunk of a long RPC carries, there and back.
WriteChunk == PacketSizeMax - 8
ReadChunk == PacketSizeMax - 5

-----------------------------------------------------------------------------
(* What makes the tables a sound transcription.                            *)

\* The fields of a packet follow one another and are as wide as their types; the
\* rest comes last.
PacketFits(packet) ==
  LET fixed == SelectSeq(packet.fields, LAMBDA f : "counted" \notin DOMAIN f)
      rest == Len(packet.fields) - Len(fixed) IN
  /\ Tiles(fixed, 2, packet.size)
  /\ rest = IF HasRest(packet) THEN 1 ELSE 0
  /\ HasRest(packet) =>
       LET tail == packet.fields[Len(packet.fields)] IN
       /\ tail.from = packet.size
       /\ tail.counted = "None" \/ \E f \in Range(fixed) : f.name = tail.counted

\* The class whose message id a received packet has is found again.
Dispatched(packet, kind, name) ==
  packet.id \in DOMAIN PacketTypeById /\ PacketTypeById[packet.id] = << kind, name >>

HasField(packet, name) == \E f \in Range(packet.fields) : f.name = name

\* The method passes the fields of the request in their order, an event belongs
\* to the RPC exactly if the RPC expects it, and the fields that are compared
\* exist on both sides.
RpcAgrees(rpc) ==
  LET r == Requests[rpc] IN
  /\ Dispatched(r.request, "request", rpc) /\ Dispatched(r.response, "response", rpc)
  /\ (MovementCalls @@ SystemCalls)[rpc] = FieldNames(r.request)
  /\ r.keyed => HasField(r.request, "requestId") /\ HasField(r.response, "requestId")
  /\ r.events = {e \in DOMAIN Events : rpc \in Events[e].of}
  /\ \A e \in r.events :
       LET key == Events[e].key IN
       key # << "", "" >> =>
         HasField(r.request, key[1]) /\ HasField(Events[e].packet, key[2])

\* A property that a NativeDataWatcher can watch: its region and a MemRead of
\* it fit in one packet, WatcherRegionSetup has room for its address and size,
\* and its samples can be decoded and told apart.
Watchable(property) ==
  LET m == VirtualMemory[property]  setup == Requests.WatcherRegionSetup.request IN
  /\ Length(Events.WatcherDirty.packet, Size(property)) <= PacketSizeMax
  /\ ~IsLong("MemRead", 0, Size(property))
  /\ m.address < 256 ^ Width(Field(setup, "address").type)
  /\ Size(property) < 256 ^ Width(Field(setup, "size").type)
  /\ Decodable(m.type) /\ Timestamped(m.type)

\* Only a request with a tail is long, and no chunk of a long RPC is.
Short(rpc) ==
  ~IsLong(rpc, IF rpc = "MemWrite" THEN WriteChunk ELSE 0, IF rpc = "MemRead" THEN ReadChunk ELSE 0)

\* The tables have been copied without a slip; this says nothing of behaviour.
ASSUME TablesAssumption ==
  /\ \A t \in DOMAIN Types : TypeFits(Types[t])
  /\ \A e \in DOMAIN Events : PacketFits(Events[e].packet)
  /\ \A rpc \in DOMAIN Requests :
       /\ PacketFits(Requests[rpc].request) /\ PacketFits(Requests[rpc].response)
       /\ RpcAgrees(rpc) /\ Short(rpc)
  /\ \A property \in WatchedProperties : Watchable(property)
=============================================================================
