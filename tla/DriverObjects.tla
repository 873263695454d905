--------------------------- MODULE DriverObjects ---------------------------
(***************************************************************************)
(* The driver's audio objects as the HAL reads and sets their properties:  *)
(* the plug-in, its two devices and the null device, and the streams and   *)
(* controls of these.                                                      *)
(*                                                                         *)
(* Every class answers five questions about a property (is it there, may   *)
(* it be set, how large is it, what is it, set it) with a switch of its    *)
(* own that passes what it does not list on to its base class.  Here each  *)
(* switch is a set or a function of the selectors it lists, laid over that *)
(* of the base class; a selector outside a function's domain is one that   *)
(* NovaLINK_Object, at the end of the chain, throws for.                   *)
(*                                                                         *)
(* The HAL asks for a property's size and then, with that much room, for   *)
(* its data.  In between the output controls of a device and the null      *)
(* device may come and go, which is the subject of Device, so a list may   *)
(* be longer or shorter than it was.  Object IDs are pairs of an owner and *)
(* the part of it; sizes are in bytes.                                     *)
(***************************************************************************)
EXTENDS Device, FiniteSets, SequencesExt

CONSTANTS
    kAudioObjectUnknown,    \* the ID of no object
    MaxRequestsAsked        \* bound: requests after which the HAL asks no more

ASSUME ObjectsAssumption ==
    /\ \E d \in Devices : d # Main /\ Devices = {Main, d}
    /\ Devices \cap {"plugIn", "null"} = {}

VARIABLES
    call,               \* the property whose size the HAL was told, or NoCall
    outcome             \* of the last call that is complete

Scopes == {"Global", "Input", "Output"}
questionVars == <<call, outcome>>

NoCall == [selector |-> "none"]

-----------------------------------------------------------------------------
(* The objects.                                                            *)

PlugIn == <<"plugIn", "self">>
NullDevice == <<"null", "self">>
Parts(d) == {<<d, "input">>, <<d, "output">>, <<d, "volume">>}
        \cup (IF d = Main THEN {<<d, "mute">>} ELSE {})

\* The IDs that calls of the HAL are passed on for.
LookUpOwnerObject ==
    {PlugIn, NullDevice, <<"null", "output">>}
        \cup {<<d, "self">> : d \in Devices} \cup (UNION {Parts(d) : d \in Devices})

\* A part of a device.  The device for UI sounds has a mute control all the
\* same, that is not an object of the HAL.
ObjectID(d, part) == IF <<d, part>> \in LookUpOwnerObject \/ part # "mute"
                     THEN <<d, part>> ELSE kAudioObjectUnknown

\* The owner an object was constructed with.
Owner(o) == IF o[2] = "self" THEN PlugIn ELSE <<o[1], "self">>

-----------------------------------------------------------------------------
(* HasProperty: the selectors that are there.                              *)

Object_HasProperty == {"BaseClass", "Class", "Owner", "OwnedObjects"}

AbstractDevice_HasProperty ==
    Object_HasProperty \cup
    {"Name", "Manufacturer", "DeviceUID", "ModelUID", "TransportType", "RelatedDevices",
     "ClockDomain", "DeviceIsAlive", "DeviceIsRunning", "CanBeDefaultDevice",
     "CanBeDefaultSystemDevice", "Latency", "Streams", "ControlList", "SafetyOffset",
     "NominalSampleRate", "AvailableNominalSampleRates", "IsHidden", "ZeroTimeStampPeriod"}

\* There only when asked for one of the two directions.
Directional == {"Latency", "SafetyOffset", "PreferredChannelsForStereo",
                "PreferredChannelLayout", "CanBeDefaultDevice", "CanBeDefaultSystemDevice"}
MicMix == {"InputIsRunningElsewhere", "InjectMicAudio"}

Device_HasProperty(d, scope) ==
    (AbstractDevice_HasProperty \ Directional)
        \cup {"Icon", "CustomPropertyInfoList", "AudibleState", "MusicPlayerProcessID",
              "MusicPlayerBundleID", "IsRunningElsewhere", "EnabledOutputControls"}
        \cup (IF SupportsMicMix(d) THEN MicMix ELSE {})
        \cup (IF scope = "Global" THEN {} ELSE Directional)

Stream_HasProperty ==
    Object_HasProperty \cup
    {"IsActive", "Direction", "TerminalType", "StartingChannel", "Latency", "VirtualFormat",
     "PhysicalFormat", "AvailableVirtualFormats", "AvailablePhysicalFormats"}

Control_HasProperty == Object_HasProperty \cup {"Scope", "Element"}
MuteControl_HasProperty == Control_HasProperty \cup {"Value"}
VolumeControl_HasProperty ==
    Control_HasProperty \cup {"ScalarValue", "DecibelValue", "DecibelRange",
                              "ConvertScalarToDecibels", "ConvertDecibelsToScalar"}
PlugIn_HasProperty ==
    Object_HasProperty \cup {"Manufacturer", "DeviceList", "TranslateUIDToDevice",
                             "ResourceBundle", "CustomPropertyInfoList", "NullDeviceActive"}

-----------------------------------------------------------------------------
(* IsPropertySettable.                                                     *)

\* What f lists, over what g lists.
f ++ g == [s \in DOMAIN f \cup DOMAIN g |-> IF s \in DOMAIN f THEN f[s] ELSE g[s]]

All(selectors, value) == [s \in selectors |-> value]

Settable == TRUE
Fixed == FALSE

Object_IsPropertySettable == All(Object_HasProperty, Fixed)
AbstractDevice_IsPropertySettable == All(AbstractDevice_HasProperty, Fixed) ++ Object_IsPropertySettable

Device_IsPropertySettable(d) ==
    All({"NominalSampleRate", "MusicPlayerProcessID", "MusicPlayerBundleID",
         "EnabledOutputControls"}, Settable)
    ++ All({"InjectMicAudio"}, SupportsMicMix(d))
    ++ All(Directional \cup {"Streams", "Icon", "CustomPropertyInfoList", "AudibleState",
                             "IsRunningElsewhere", "InputIsRunningElsewhere"}, Fixed)
    ++ AbstractDevice_IsPropertySettable

Stream_IsPropertySettable ==
    All({"IsActive", "VirtualFormat", "PhysicalFormat"}, Settable)
    ++ All({"Direction", "TerminalType", "StartingChannel", "Latency",
            "AvailableVirtualFormats", "AvailablePhysicalFormats"}, Fixed)
    ++ Object_IsPropertySettable

Control_IsPropertySettable == All({"Scope", "Element"}, Fixed) ++ Object_IsPropertySettable
MuteControl_IsPropertySettable == All({"Value"}, Settable) ++ Control_IsPropertySettable
VolumeControl_IsPropertySettable ==
    All({"ScalarValue", "DecibelValue"}, Settable)
    ++ All({"DecibelRange", "ConvertScalarToDecibels", "ConvertDecibelsToScalar"}, Fixed)
    ++ Control_IsPropertySettable
PlugIn_IsPropertySettable ==
    All({"NullDeviceActive"}, Settable)
    ++ All({"Manufacturer", "DeviceList", "TranslateUIDToDevice", "ResourceBundle",
            "CustomPropertyInfoList"}, Fixed)
    ++ Object_IsPropertySettable

-----------------------------------------------------------------------------
(* GetPropertyDataSize.                                                    *)

sizeofUInt32 == 4           \* of Float32, AudioObjectID and AudioClassID too
sizeofFloat64 == 8
sizeofCFTypeRef == 8        \* any reference
sizeofAudioValueRange == 16
sizeofFormat == 40          \* AudioStreamBasicDescription
sizeofRangedFormat == 56    \* AudioStreamRangedDescription
sizeofCustomInfo == 12      \* AudioServerPlugInCustomPropertyInfo
sizeofStereoLayout == 52    \* AudioChannelLayout of two channels
IDs(n) == n * sizeofUInt32

Object_GetPropertyDataSize ==
    All({"BaseClass", "Class", "Owner"}, sizeofUInt32) ++ All({"OwnedObjects"}, 0)

AbstractDevice_GetPropertyDataSize ==
    All({"Name", "Manufacturer", "DeviceUID", "ModelUID"}, sizeofCFTypeRef)
    ++ All({"TransportType", "RelatedDevices", "ClockDomain", "CanBeDefaultDevice",
            "CanBeDefaultSystemDevice", "DeviceIsAlive", "DeviceIsRunning", "Latency",
            "SafetyOffset", "IsHidden", "ZeroTimeStampPeriod"}, sizeofUInt32)
    ++ All({"Streams", "ControlList", "AvailableNominalSampleRates"}, 0)
    ++ All({"NominalSampleRate"}, sizeofFloat64)
    ++ Object_GetPropertyDataSize

GetNumberOfOutputControls(d) == Cardinality(active[d])
NumberOfCustomProperties(d) == IF SupportsMicMix(d) THEN 7 ELSE 5

\* The lists that the controls are on, and what has always one size.
Device_ControlSizes(d, scope) ==
    All({"OwnedObjects"}, CASE scope = "Global" -> IDs(2 + GetNumberOfOutputControls(d))
                            [] scope = "Input" -> IDs(1)
                            [] scope = "Output" -> IDs(1 + GetNumberOfOutputControls(d)))
    ++ All({"ControlList"}, IDs(GetNumberOfOutputControls(d)))

Device_FixedSizes(d, scope) ==
    All({"Streams"}, IF scope = "Global" THEN IDs(2) ELSE IDs(1))
    ++ All({"AvailableNominalSampleRates"}, sizeofAudioValueRange)
    ++ All({"CustomPropertyInfoList"}, NumberOfCustomProperties(d) * sizeofCustomInfo)
    ++ All({"PreferredChannelsForStereo"}, 2 * sizeofUInt32)
    ++ All({"PreferredChannelLayout"}, sizeofStereoLayout)
    ++ All({"Icon", "AudibleState", "MusicPlayerProcessID", "MusicPlayerBundleID",
            "IsRunningElsewhere", "EnabledOutputControls"} \cup MicMix, sizeofCFTypeRef)
    ++ AbstractDevice_GetPropertyDataSize

Device_GetPropertyDataSize(d, scope) == Device_ControlSizes(d, scope) ++ Device_FixedSizes(d, scope)

NullDevice_GetPropertyDataSize ==
    All({"Streams"}, IDs(1)) ++ All({"AvailableNominalSampleRates"}, sizeofAudioValueRange)
    ++ AbstractDevice_GetPropertyDataSize

Stream_GetPropertyDataSize ==
    All({"IsActive", "Direction", "TerminalType", "StartingChannel", "Latency"}, sizeofUInt32)
    ++ All({"VirtualFormat", "PhysicalFormat"}, sizeofFormat)
    ++ All({"AvailableVirtualFormats", "AvailablePhysicalFormats"}, sizeofRangedFormat)
    ++ Object_GetPropertyDataSize

Control_GetPropertyDataSize == All({"Scope", "Element"}, sizeofUInt32) ++ Object_GetPropertyDataSize
MuteControl_GetPropertyDataSize == All({"Value"}, sizeofUInt32) ++ Control_GetPropertyDataSize
VolumeControl_GetPropertyDataSize ==
    All({"ScalarValue", "DecibelValue", "ConvertScalarToDecibels", "ConvertDecibelsToScalar"},
        sizeofUInt32)
    ++ All({"DecibelRange"}, sizeofAudioValueRange)
    ++ Control_GetPropertyDataSize

PlugIn_FixedSizes ==
    All({"Manufacturer", "ResourceBundle", "NullDeviceActive"}, sizeofCFTypeRef)
    ++ All({"TranslateUIDToDevice"}, sizeofUInt32)
    ++ All({"CustomPropertyInfoList"}, sizeofCustomInfo)
    ++ Object_GetPropertyDataSize

PlugIn_GetPropertyDataSize ==
    All({"OwnedObjects", "DeviceList"}, IDs(IF nullDeviceActive THEN 3 ELSE 2)) ++ PlugIn_FixedSizes

-----------------------------------------------------------------------------
(* GetPropertyData: of a value, the room it asks for and what it writes;   *)
(* of a list, the items that are written in their places and the most that *)
(* it says it returns.                                                     *)

Value(needs, size) == [kind |-> "value", needs |-> needs, size |-> size]
Sized(size) == Value(size, size)
List(item, content, most) == [kind |-> "list", item |-> item, content |-> content, most |-> most]
IDList(content, most) == List(sizeofUInt32, content, most)
Throws == [kind |-> "throws"]
String == Value(sizeofUInt32, sizeofCFTypeRef)  \* the room is compared with an ID's size

\* n items that are not objects.
Data(n) == [i \in 1 .. n |-> "data"]

Object_GetPropertyData ==
    All({"BaseClass", "Class", "Owner"}, Sized(sizeofUInt32)) ++ All({"OwnedObjects"}, IDList(<< >>, 0))

\* What a concrete device must answer itself throws.
AbstractDevice_GetPropertyData(o) ==
    All({"Name", "Manufacturer", "DeviceUID", "ModelUID", "DeviceIsRunning", "ZeroTimeStampPeriod",
         "NominalSampleRate", "AvailableNominalSampleRates"}, Throws)
    ++ All({"TransportType", "ClockDomain", "DeviceIsAlive", "CanBeDefaultDevice",
            "CanBeDefaultSystemDevice", "Latency", "SafetyOffset", "IsHidden"}, Sized(sizeofUInt32))
    ++ All({"RelatedDevices"}, IDList(<<o>>, 1))
    ++ All({"Streams", "ControlList"}, IDList(<< >>, 0))
    ++ Object_GetPropertyData

\* The active controls take the first places.
OutputControls(d) ==
    (IF "volume" \in active[d] THEN <<ObjectID(d, "volume")>> ELSE << >>)
        \o (IF "mute" \in active[d] THEN <<ObjectID(d, "mute")>> ELSE << >>)
Streams(d, scope) ==
    CASE scope = "Global" -> <<ObjectID(d, "input"), ObjectID(d, "output")>>
      [] scope = "Input" -> <<ObjectID(d, "input")>>
      [] scope = "Output" -> <<ObjectID(d, "output")>>

\* Mutant: in the global scope the objects there may be, not those there are.
Device_OwnedObjects_Unlimited(d, scope) ==
    CASE scope = "Global" -> IDList(Streams(d, scope) \o OutputControls(d), 4)
      [] scope = "Input" -> IDList(Streams(d, scope), 1)
      [] scope = "Output" -> IDList(Streams(d, scope) \o OutputControls(d),
                                    GetNumberOfOutputControls(d))

\* In the output scope it limits itself to the number of controls, and so
\* leaves out one of its objects.
Device_OwnedObjects(d, scope) ==
    CASE scope = "Global" -> IDList(Streams(d, scope) \o OutputControls(d),
                                    2 + GetNumberOfOutputControls(d))
      [] scope = "Input" -> IDList(Streams(d, scope), 1)
      [] scope = "Output" -> IDList(Streams(d, scope) \o OutputControls(d),
                                    GetNumberOfOutputControls(d))

Device_Lists(d, scope) ==
    All({"OwnedObjects"}, Device_OwnedObjects(d, scope))
    ++ All({"Streams"}, IDList(Streams(d, scope), Len(Streams(d, scope))))
    ++ All({"ControlList"}, IDList(OutputControls(d), GetNumberOfOutputControls(d)))
    ++ All({"AvailableNominalSampleRates"}, List(sizeofAudioValueRange, Data(1), 1))
    ++ All({"CustomPropertyInfoList"}, List(sizeofCustomInfo, Data(NumberOfCustomProperties(d)),
                                         NumberOfCustomProperties(d)))

Device_Values ==
    All({"Name", "Manufacturer", "DeviceUID", "ModelUID"}, String)
    ++ All({"DeviceIsRunning", "CanBeDefaultDevice", "ZeroTimeStampPeriod"}, Sized(sizeofUInt32))
    ++ All({"NominalSampleRate"}, Sized(sizeofFloat64))
    ++ All({"PreferredChannelsForStereo"}, Sized(2 * sizeofUInt32))
    ++ All({"PreferredChannelLayout"}, Sized(sizeofStereoLayout))
    ++ All({"Icon"}, Sized(sizeofCFTypeRef))

Device_CustomValues ==
    All({"AudibleState", "MusicPlayerProcessID", "MusicPlayerBundleID", "IsRunningElsewhere",
         "EnabledOutputControls"} \cup MicMix, Sized(sizeofCFTypeRef))

Device_GetPropertyData(d, scope) ==
    Device_Lists(d, scope) ++ Device_Values ++ Device_CustomValues
        ++ AbstractDevice_GetPropertyData(<<d, "self">>)

NullDevice_GetPropertyData(scope) ==
    All({"Name", "Manufacturer", "DeviceUID", "ModelUID"}, String)
    ++ All({"DeviceIsAlive", "DeviceIsRunning", "ZeroTimeStampPeriod"}, Sized(sizeofUInt32))
    ++ All({"Streams"}, IF scope = "Input" THEN IDList(<< >>, 0) ELSE IDList(<<<<"null", "output">>>>, 1))
    ++ All({"NominalSampleRate"}, Sized(sizeofFloat64))
    ++ All({"AvailableNominalSampleRates"}, List(sizeofAudioValueRange, Data(1), 1))
    ++ AbstractDevice_GetPropertyData(NullDevice)

Stream_GetPropertyData ==
    All({"BaseClass", "Class", "Owner", "IsActive", "Direction", "TerminalType", "StartingChannel",
         "Latency"}, Sized(sizeofUInt32))
    ++ All({"VirtualFormat", "PhysicalFormat"}, Sized(sizeofFormat))
    ++ All({"AvailableVirtualFormats", "AvailablePhysicalFormats"}, List(sizeofRangedFormat, Data(1), 1))
    ++ Object_GetPropertyData

Control_GetPropertyData == All({"Scope", "Element"}, Sized(sizeofUInt32)) ++ Object_GetPropertyData
MuteControl_GetPropertyData == All({"Value"}, Sized(sizeofUInt32)) ++ Control_GetPropertyData
VolumeControl_GetPropertyData ==
    All({"ScalarValue", "DecibelValue", "ConvertScalarToDecibels", "ConvertDecibelsToScalar"},
        Sized(sizeofUInt32))
    ++ All({"DecibelRange"}, Sized(sizeofAudioValueRange))
    ++ Control_GetPropertyData

\* The null device is listed last.
DeviceList ==
    <<<<Main, "self">>>> \o SetToSeq({<<d, "self">> : d \in Devices \ {Main}})
        \o (IF nullDeviceActive THEN <<NullDevice>> ELSE << >>)

PlugIn_GetPropertyData ==
    All({"OwnedObjects", "DeviceList"}, IDList(DeviceList, Len(DeviceList)))
    ++ All({"Manufacturer", "NullDeviceActive"}, Sized(sizeofCFTypeRef))
    ++ All({"TranslateUIDToDevice"}, Sized(sizeofUInt32))
    ++ All({"ResourceBundle"}, String)
    ++ All({"CustomPropertyInfoList"}, List(sizeofCustomInfo, Data(1), 1))
    ++ Object_GetPropertyData

-----------------------------------------------------------------------------
(* SetPropertyData: the selectors that a class sets.                       *)

Device_SetPropertyData(d) ==
    {"NominalSampleRate", "MusicPlayerProcessID", "MusicPlayerBundleID", "EnabledOutputControls"}
        \cup (IF SupportsMicMix(d) THEN {"InjectMicAudio"} ELSE {})
Stream_SetPropertyData == {"IsActive", "VirtualFormat", "PhysicalFormat"}
MuteControl_SetPropertyData == {"Value"}

\* Mutant: the volume in decibels is not set.
VolumeControl_SetPropertyData_ScalarOnly == {"ScalarValue"}

VolumeControl_SetPropertyData == {"ScalarValue", "DecibelValue"}
PlugIn_SetPropertyData == {"NullDeviceActive"}

-----------------------------------------------------------------------------
(* An object passes a call on to itself, a stream or a control.            *)

Owned(o, device, stream, volume, mute) ==
    CASE o[2] = "self" -> device
      [] o[2] \in {"input", "output"} -> stream
      [] o[2] = "volume" -> volume
      [] o[2] = "mute" -> mute

HasProperty(o, scope) ==
    IF o = PlugIn THEN PlugIn_HasProperty
    ELSE Owned(o, IF o = NullDevice THEN AbstractDevice_HasProperty ELSE Device_HasProperty(o[1], scope),
               Stream_HasProperty, VolumeControl_HasProperty, MuteControl_HasProperty)

IsPropertySettable(o) ==
    IF o = PlugIn THEN PlugIn_IsPropertySettable
    ELSE Owned(o, IF o = NullDevice THEN AbstractDevice_IsPropertySettable
                                    ELSE Device_IsPropertySettable(o[1]),
               Stream_IsPropertySettable, VolumeControl_IsPropertySettable,
               MuteControl_IsPropertySettable)

DataSize(o, scope) ==
    IF o = PlugIn THEN PlugIn_GetPropertyDataSize
    ELSE Owned(o, IF o = NullDevice THEN NullDevice_GetPropertyDataSize
                                    ELSE Device_GetPropertyDataSize(o[1], scope),
               Stream_GetPropertyDataSize, VolumeControl_GetPropertyDataSize,
               MuteControl_GetPropertyDataSize)

PropertyData(o, scope) ==
    IF o = PlugIn THEN PlugIn_GetPropertyData
    ELSE Owned(o, IF o = NullDevice THEN NullDevice_GetPropertyData(scope)
                                    ELSE Device_GetPropertyData(o[1], scope),
               Stream_GetPropertyData, VolumeControl_GetPropertyData, MuteControl_GetPropertyData)

Sets(o) ==
    IF o = PlugIn THEN PlugIn_SetPropertyData
    ELSE Owned(o, IF o = NullDevice THEN {} ELSE Device_SetPropertyData(o[1]),
               Stream_SetPropertyData, VolumeControl_SetPropertyData, MuteControl_SetPropertyData)

-----------------------------------------------------------------------------
(* IO operations: what a device says it will do, and what it does.         *)

WillDoIOOperation(d) ==
    IF d = NullDevice THEN {"WriteMix"}
    ELSE {"Thread", "ReadInput", "ProcessOutput", "WriteMix"}
             \cup (IF d = <<Main, "self">> THEN {} ELSE {"ProcessMix"})

\* BeginIOOperation and EndIOOperation do something for the operation of the IO
\* thread, and DoIOOperation for the others.  The null device ignores them all.
DoesIOOperation(d) ==
    IF d = NullDevice THEN {"Thread", "ReadInput", "ProcessOutput", "ProcessMix", "WriteMix"}
    ELSE {"Thread", "ReadInput", "ProcessOutput", "WriteMix"}
             \cup (IF d = <<Main, "self">> THEN {} ELSE {"ProcessMix"})

-----------------------------------------------------------------------------
(* The calls of the HAL, for properties that are there.                    *)

Done(accepted) == [accepted |-> accepted, of |-> << >>, listed |-> << >>,
                    unwritten |-> FALSE, missing |-> FALSE]

QuestionsInit ==
    /\ call = NoCall
    /\ outcome = Done(TRUE)

\* Remembered for the answer, in a call that is still to come.
GetPropertyDataSize(o, s, scope) ==
    /\ call = NoCall
    /\ LET sizes == DataSize(o, scope)
       IN  IF s \in DOMAIN sizes
           THEN /\ call' = [object |-> o, selector |-> s, scope |-> scope, room |-> sizes[s],
                            changed |-> FALSE]
                /\ outcome' = Done(TRUE)
           ELSE /\ outcome' = Done(FALSE)
                /\ UNCHANGED call

\* The answer of a list, in the room that was told.
ListAnswer(list) ==
    LET n == Min({call.room \div list.item, list.most})
    IN  [accepted |-> TRUE,
         of |-> <<call.object, call.selector, call.scope>>,
         listed |-> IF list.item = sizeofUInt32 THEN SubSeq(list.content, 1, Min({n, Len(list.content)}))
                                                ELSE << >>,
         unwritten |-> n > Len(list.content),
         missing |-> ~call.changed /\ n * list.item < call.room]

GetPropertyData ==
    /\ call # NoCall
    /\ call' = NoCall
    /\ LET all == PropertyData(call.object, call.scope)
           data == all[call.selector]
       IN  outcome' =
               CASE call.selector \notin DOMAIN all \/ data = Throws -> Done(FALSE)
                 [] data.kind = "value" -> Done(call.room >= data.needs /\ call.room >= data.size)
                 [] data.kind = "list" -> ListAnswer(data)

\* The HAL asks whether a property may be set and then sets it; what comes of it
\* is the subject of Device.
SetPropertyData(o, s) ==
    LET settable == IsPropertySettable(o)
    IN  /\ call = NoCall
        /\ outcome' = Done(s \in DOMAIN settable /\ (settable[s] => s \in Sets(o)))
        /\ UNCHANGED call

\* The HAL asks which operations a device will do and has it do them.
DoIOOperation(d) ==
    /\ call = NoCall
    /\ outcome' = Done(WillDoIOOperation(d) \subseteq DoesIOOperation(d))
    /\ UNCHANGED call

\* A step of Device, which may change what the HAL was told the size of.
ListsChange ==
    /\ call' = IF call # NoCall /\ (active' # active \/ nullDeviceActive' # nullDeviceActive)
               THEN [call EXCEPT !.changed = TRUE] ELSE call
    /\ UNCHANGED outcome

DeviceObjects == {<<d, "self">> : d \in Devices} \cup {NullDevice}
\* Only what a device answers depends on the scope.
ScopesOf(o) == IF o \in DeviceObjects THEN Scopes ELSE {"Global"}

Questions ==
    \/ MaxRequests - requestsLeft <= MaxRequestsAsked /\ \E o \in LookUpOwnerObject :
           \/ \E scope \in ScopesOf(o) : \E s \in HasProperty(o, scope) : GetPropertyDataSize(o, s, scope)
           \/ \E s \in UNION {HasProperty(o, scope) : scope \in ScopesOf(o)} : SetPropertyData(o, s)
    \/ GetPropertyData
    \/ \E d \in DeviceObjects : requestsLeft = MaxRequests /\ DoIOOperation(d)

-----------------------------------------------------------------------------
(* Correctness.                                                            *)

\* A property that an object says it has is one it knows in every other
\* switch too: it tells whether it may be set, tells a size and then, in that
\* room, gives the data, and sets it when it said that it may be set.  The
\* comments "Should be unreachable" of NovaLINK_AbstractDevice rely on it.
HonestAnswers == outcome.accepted

\* The device for UI sounds may list its mute control, which has no ID.
ListsMuteWithoutID(o, s) ==
    o \in {<<d, "self">> : d \in Devices \ {Main}} /\ s \in {"OwnedObjects", "ControlList"}

\* What a list gives for an object is the ID of one that the HAL can ask in
\* turn, and that names the object as its owner, unless it is a list of devices
\* related to it: a list and the switches over the IDs agree.
ListedObjectsAnswer ==
    \A i \in 1 .. Len(outcome.listed) :
        LET o == outcome.listed[i]
        IN  \/ /\ o \in LookUpOwnerObject
               /\ outcome.of[2] # "RelatedDevices" => Owner(o) = outcome.of[1]
            \/ o = kAudioObjectUnknown /\ ListsMuteWithoutID(outcome.of[1], outcome.of[2])

\* Two lists are cut short: the objects of a device in the output scope and the
\* null device's streams in the input scope.
CutShort(o, s, scope) ==
    \/ s = "OwnedObjects" /\ scope = "Output"
    \/ o = NullDevice /\ s = "Streams" /\ scope = "Input"

\* What a read of a list returns was written by it, although the controls and
\* the null device come and go between the call for the size and the one for
\* the items, so that the list is longer or shorter by then, and every list has
\* its own way of counting.  A list that nothing changed in between has as many
\* items as was said, unless it is cut short.  Every item is an object that
\* answers in turn, but for the mute control of the device for UI sounds, which
\* has no ID (NovaLINK_Device.cpp:96, 629).
ListsAnswered ==
    /\ ~outcome.unwritten
    /\ outcome.missing => CutShort(outcome.of[1], outcome.of[2], outcome.of[3])
    /\ ListedObjectsAnswer
=============================================================================
