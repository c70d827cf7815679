----------------------------- MODULE MCSerialRx -----------------------------
(* SerialRx for TLC: two callers that may ask for the same command or for   *)
(* different ones; the board may owe an answer to an earlier request that   *)
(* was given up.                                                            *)
EXTENDS SerialRx
=============================================================================
