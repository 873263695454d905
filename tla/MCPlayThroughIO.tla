--------------------------- MODULE MCPlayThroughIO ---------------------------
(* Two cycles of two frames fill the ring buffer; with a third it wraps.   *)
EXTENDS PlayThroughIO, TLC

MCCapacityFrames == 4
MCIOFrames == 2
MCMaxTime == 5
MCMaxRestarts == 1
MCMaxAllocations == 1
MCMaxLogCalls == 2
=============================================================================
