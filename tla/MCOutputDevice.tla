--------------------------- MODULE MCOutputDevice ---------------------------
(***************************************************************************)
(* Instances of OutputDevice for TLC: two devices, of which one is in the  *)
(* list of preferred devices at launch.                                    *)
(***************************************************************************)
EXTENDS OutputDevice

TwoDevices == {"speakers", "headphones"}
FirstOnly == <<"speakers">>
OnePicker == {"pick1"}
=============================================================================
