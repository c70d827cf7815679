----------------------------- MODULE ClusterCall -----------------------------
(***************************************************************************)
(* What a cluster tool of the dispatcher (robot_mcp_server.py,             *)
(* ClusterToolDispatcher) promises about the robots, without the threads,  *)
(* datagrams and timeouts that bring it about.                             *)
(*                                                                         *)
(* Calls are made one after the other and closed with a report.  `ok'      *)
(* means that every robot has carried the command out at least once,       *)
(* `aborted' that no robot has and none ever will.  A report `failed'      *)
(* promises neither, and a robot may carry a command out after the call    *)
(* was reported; but each of the Retry attempts is carried out at most     *)
(* once for every copy the network makes of its request.                   *)
(***************************************************************************)
EXTENDS Naturals

CONSTANTS
    Targets,   \* the robots of the cluster
    Retry,     \* attempts per robot and call (DIABLO_CLUSTER_CALL_RETRY_COUNT)
    MaxCopies, \* copies of one request that can reach a robot
    MaxCalls   \* calls that are made

VARIABLES
    report, \* for every call: not made, open, or how it was closed
    runs    \* how often a robot has carried out an attempt of a call

vars == <<report, runs>>

Calls == 1..MaxCalls
Attempts == 1..Retry
Reports == {"idle", "open", "ok", "failed", "aborted"}

Init ==
    /\ report = [c \in Calls |-> "idle"]
    /\ runs = [t \in Targets |-> [c \in Calls |-> [a \in Attempts |-> 0]]]

\* A call is made when all calls before it are closed.
Open(c) ==
    /\ report[c] = "idle"
    /\ \A d \in Calls : d < c => report[d] \notin {"idle", "open"}
    /\ report' = [report EXCEPT ![c] = "open"]
    /\ UNCHANGED runs

\* A robot carries out an attempt of a call, which may be closed by now.
Run(t, c, a) ==
    /\ report[c] \in {"open", "ok", "failed"}
    /\ runs[t][c][a] < MaxCopies
    /\ runs' = [runs EXCEPT ![t][c][a] = @ + 1]
    /\ UNCHANGED report

\* The call is closed; the report says what is true of every robot.
Close(c, r) ==
    /\ report[c] = "open"
    /\ r = "ok" => \A t \in Targets : \E a \in Attempts : runs[t][c][a] > 0
    /\ r = "aborted" => \A t \in Targets, a \in Attempts : runs[t][c][a] = 0
    /\ report' = [report EXCEPT ![c] = r]
    /\ UNCHANGED runs

Next ==
    \E c \in Calls :
        \/ Open(c)
        \/ \E t \in Targets, a \in Attempts : Run(t, c, a)
        \/ \E r \in {"ok", "failed", "aborted"} : Close(c, r)

Spec == Init /\ [][Next]_vars
=============================================================================
