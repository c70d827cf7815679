----------------------------- MODULE MCCtrlNode -----------------------------
(* CtrlNode for TLC: two fields, so that a frame may mix two commands, and    *)
(* three messages: go, stop and a mode request, whose value is not that of    *)
(* the construction.                                                          *)
EXTENDS CtrlNode

Value(forward, left) == [f \in Fields |-> IF f = "forward" THEN forward ELSE left]
MCFields == {"forward", "left"}
MCDefault == [mode_mark |-> FALSE, value |-> Value(0, 0)]
Go == [mode_mark |-> FALSE, value |-> Value(1, 1)]
Stop == [mode_mark |-> FALSE, value |-> Value(0, 0)]
Sit == [mode_mark |-> TRUE, value |-> Value(0, 0)]
MCMessages == {Go, Stop, Sit}
=============================================================================
