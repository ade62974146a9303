--------------------------- MODULE MCEventHistory ---------------------------
(* An instance of EventHistory for TLC: a clock that is set back by twelve *)
(* at the first end of a frame, and keys that reach the machine within the *)
(* frame or together with its end.                                         *)
EXTENDS EventHistory

StartModes == {"save", "load", "reset", "overwrite"}
=============================================================================
