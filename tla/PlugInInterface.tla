-------------------------- MODULE PlugInInterface --------------------------
(***************************************************************************)
(* The driver as the HAL calls it, through the functions of                *)
(* NovaLINK_PlugInInterface.cpp: questions about its objects, IO on a      *)
(* device, and changes of the devices' configuration, from the threads of  *)
(* the HAL that may run at the same time.  Each function checks which      *)
(* device is meant, passes the call on to it and turns what it throws into *)
(* an error.                                                               *)
(***************************************************************************)
EXTENDS DriverObjects, DeviceIO

CONSTANT MaxSessionsAsked   \* bound: sessions of IO after which the HAL asks no more

driverVars == <<vars, questionVars, ioVars>>

DriverInit == Init /\ QuestionsInit /\ IOInit

\* AddDeviceClient, RemoveDeviceClient, and a change that a device asked for is
\* performed or refused.
DeviceCalls == Next /\ ListsChange /\ ConfigurationChanges

\* HasProperty, IsPropertySettable and the others.
PropertyCalls ==
    /\ session <= MaxSessionsAsked
    /\ Questions
    /\ UNCHANGED <<vars, ioVars>>

\* StartIO, StopIO, GetZeroTimeStamp and the IO operations.
IOCalls == IONext /\ UNCHANGED <<vars, questionVars>>

DriverNext == DeviceCalls \/ PropertyCalls \/ IOCalls

DriverSpec == DriverInit /\ [][DriverNext]_driverVars
=============================================================================
