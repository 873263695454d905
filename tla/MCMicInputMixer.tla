-------------------------- MODULE MCMicInputMixer --------------------------
(***************************************************************************)
(* An instance of MicInputMixer for TLC: two microphones.                  *)
(***************************************************************************)
EXTENDS MicInputMixer

CONSTANTS builtIn, usb

BothMics == {builtIn, usb}
=============================================================================
