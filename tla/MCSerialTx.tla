----------------------------- MODULE MCSerialTx -----------------------------
(* SerialTx for TLC: two threads, short and long frames, and a tty that     *)
(* holds one long frame, so that WriteChar blocks behind a torn one.        *)
EXTENDS SerialTx

MCLens == {1, 3}
=============================================================================
