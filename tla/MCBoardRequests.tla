--------------------------- MODULE MCBoardRequests ---------------------------
(* BoardRequests for TLC: the status and one other topic, which fit the line   *)
(* one at a time; for every id the answers that its calls tell apart and one   *)
(* that they do not know.                                                      *)
EXTENDS BoardRequests

MCTopics == {"status", "motor"}
MCRates == {0, 10}
MCCost == [t \in MCTopics |-> 1]
MCGives == [c \in Ids |->
    CASE c = "brake" -> {85, 170, 0}
      [] c = "transform" -> {0, 1, 2}
      [] c = "mode" -> {0, 1}
      [] c = "rc_authorize" -> {0, 2, 3}
      [] c = "calibration" -> {0, 1, 2, 170}
      [] c = "activation" -> {0, 1}
      [] c = "frequency" -> {0}]
MCRcModes == {{}, {"rc"}, {"rcIdle", "other"}, {"own"}}
=============================================================================
