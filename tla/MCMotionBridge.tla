--------------------------- MODULE MCMotionBridge ---------------------------
(* MotionBridge for TLC: three zero commands per stop, of which two in a row *)
(* may be lost.                                                              *)
EXTENDS MotionBridge
=============================================================================
