--------------------------- MODULE MCNewcomeFlags ---------------------------
(* NewcomeFlags for TLC: the publishers of the IMU (with two of its three    *)
(* topics) and of the battery, without and with the one of the status.       *)
EXTENDS NewcomeFlags, TLC

CONSTANTS status, accl, gyro, power, body_state, imu, battery

MCRank == accl :> 1 @@ gyro :> 2 @@ power :> 3
MCTopicsOf == imu :> <<accl, gyro>> @@ battery :> <<power>>

MCStatusRank == status :> 0 @@ MCRank
MCStatusTopicsOf == body_state :> <<status>> @@ MCTopicsOf
=============================================================================
