--------------------------- MODULE MCControlUnit ---------------------------
(* ControlUnit running FabComp's own microprogram. *)
EXTENDS ControlUnit, Microcode

UMem     == MicroWords
UJumpTab == JumpRows

AllOpcodes   == Byte
=============================================================================
