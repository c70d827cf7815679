------------------------- MODULE MCControlAuthority -------------------------
(* ControlAuthority for TLC.  The board reports nobody, us, or the virtual RC *)
(* while we idle, with which obtain_control exits; the thread that obtains    *)
(* control also sends, and SDKConnectMonitor races with it.  A connection     *)
(* check has one attempt: those before the last one only count themselves.    *)
EXTENDS ControlAuthority

MCSenders == {"callback"}
MCModes == {{}, {"own"}, {"ownIdle", "rc"}}
=============================================================================
