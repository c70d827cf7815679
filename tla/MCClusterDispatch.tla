-------------------------- MODULE MCClusterDispatch --------------------------
\* Two cluster calls to the dispatcher's own robot and one other, which is reached over
\* UDP, refuses, or is not configured, with one readiness check and two attempts each.
\* After the last call the system stops, so deadlock is not checked.
EXTENDS ClusterDispatch, TLC
=============================================================================
