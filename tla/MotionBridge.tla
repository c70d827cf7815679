---------------------------- MODULE MotionBridge ----------------------------
(***************************************************************************)
(* The MCP server of one robot (DiabloRobotBridge in robot_mcp_server.py)  *)
(* and the command it leaves behind in the control node.                   *)
(*                                                                         *)
(* Two threads execute tool calls: the main thread, which reads requests   *)
(* from stdin one at a time, and the UDP relay thread.  Nothing excludes   *)
(* one's calls from the other's; only the publication of one message is    *)
(* under a lock.  A timed move publishes its command until its deadline    *)
(* and then, in a finally clause, the zero command several times.  The     *)
(* control node repeats the last command it got for ever (CtrlNode), so    *)
(* `robot' below moves on until a later command arrives.                   *)
(*                                                                         *)
(* A move is any tool with a duration; which axis it drives is left out.   *)
(* Waits for a subscriber and sleeps only separate the steps.              *)
(***************************************************************************)
EXTENDS Integers

CONSTANTS
    StopRepeat,  \* how often the zero command is published (stop_repeat_count)
    MaxLost      \* publications in a row that may miss the control node

ASSUME RepeatAssumption == StopRepeat \in Nat \ {0}
ASSUME LostAssumption == MaxLost \in Nat /\ MaxLost < StopRepeat

VARIABLES
    up,        \* the server process exists and its ROS node is valid
    closing,   \* stdin has ended: shutdown() runs
    pc,        \* what each thread is about to do
    left,      \* zero commands each thread still has to publish
    robot,     \* the command the control node repeats
    lost,      \* publications in a row that did not reach it
    orphaned   \* history: a process ended inside a call and `robot' was moving

vars == <<up, closing, pc, left, robot, lost, orphaned>>

Threads == {"main", "relay"}
Commands == {"zero", "go", "up"}
Tools == {"move", "stop", "stand_up", "stand_down"}

Init ==
    /\ up = TRUE
    /\ closing = FALSE
    /\ pc = [t \in Threads |-> "idle"]
    /\ left = [t \in Threads |-> 0]
    /\ robot = "zero"
    /\ lost = 0
    /\ orphaned = FALSE

-----------------------------------------------------------------------------
(* Publishing *)

\* One message on the motion topic: it becomes the command the robot repeats, or
\* it is lost while the two nodes do not see each other.
Publish(command) ==
    \/ /\ robot' = command
       /\ lost' = 0
       /\ orphaned' = FALSE
    \/ /\ lost < MaxLost
       /\ lost' = lost + 1
       /\ UNCHANGED <<robot, orphaned>>

\* Mutant of BeginStop: one zero command fewer than configured.
BeginStopShort(t) ==
    /\ pc' = [pc EXCEPT ![t] = "stop"]
    /\ left' = [left EXCEPT ![t] = StopRepeat - 1]

\* _publish_stop_repeated is entered.
BeginStop(t) ==
    /\ pc' = [pc EXCEPT ![t] = "stop"]
    /\ left' = [left EXCEPT ![t] = StopRepeat]

-----------------------------------------------------------------------------
(* Tool calls *)

\* The main thread has read a tools/call request, or the relay thread a datagram;
\* a thread that is inside a call reads nothing.
Call(t, tool) ==
    /\ up
    /\ ~closing
    /\ pc[t] = "idle"
    /\ \/ tool = "stop" /\ BeginStop(t)
       \/ /\ tool # "stop"
          /\ pc' = [pc EXCEPT ![t] = tool]
          /\ UNCHANGED left
    /\ UNCHANGED <<up, closing, robot, lost, orphaned>>

\* _move: the command is published, at least once.
PublishMove(t) ==
    /\ pc[t] = "move"
    /\ Publish("go")
    /\ pc' = [pc EXCEPT ![t] = "sleep"]
    /\ UNCHANGED <<up, closing, left>>

\* The deadline is not reached: another period.
MoveOn(t) ==
    /\ pc[t] = "sleep"
    /\ pc' = [pc EXCEPT ![t] = "move"]
    /\ UNCHANGED <<up, closing, left, robot, lost, orphaned>>

\* Mutant of MoveOver: no finally clause.
MoveOverUnstopped(t) ==
    /\ pc[t] = "sleep"
    /\ pc' = [pc EXCEPT ![t] = "idle"]
    /\ UNCHANGED <<up, closing, left, robot, lost, orphaned>>

\* It is reached: the finally clause stops the robot.
MoveOver(t) ==
    /\ pc[t] = "sleep"
    /\ BeginStop(t)
    /\ UNCHANGED <<up, closing, robot, lost, orphaned>>

\* _publish_stop_repeated: one zero command; after the last one the call returns,
\* or the main thread's shutdown() goes on to destroy the node.
PublishStop(t) ==
    /\ pc[t] = "stop"
    /\ Publish("zero")
    /\ left' = [left EXCEPT ![t] = left[t] - 1]
    /\ \/ left[t] > 1 /\ UNCHANGED pc
       \/ left[t] = 1 /\ ~(closing /\ t = "main") /\ pc' = [pc EXCEPT ![t] = "idle"]
       \/ left[t] = 1 /\ closing /\ t = "main" /\ pc' = [pc EXCEPT ![t] = "destroy"]
    /\ UNCHANGED <<up, closing>>

\* stand: the posture is requested first.  A mode message leaves the command the
\* control node repeats alone.  Standing down ends with stop(), standing up with a
\* raised body.
PublishMode(t) ==
    /\ \/ pc[t] = "stand_down" /\ BeginStop(t)
       \/ pc[t] = "stand_up" /\ pc' = [pc EXCEPT ![t] = "raise"] /\ UNCHANGED left
    /\ UNCHANGED <<up, closing, robot, lost, orphaned>>

\* _publish_motion_for: the height is published until the deadline; no stop follows.
PublishHeight(t) ==
    /\ pc[t] = "raise"
    /\ Publish("up")
    /\ \/ UNCHANGED pc
       \/ pc' = [pc EXCEPT ![t] = "idle"]
    /\ UNCHANGED <<up, closing, left>>

-----------------------------------------------------------------------------
(* The life of the process *)

\* The end of stdin, seen by the main thread between two calls: shutdown() closes
\* the relay's socket and waits for its thread.
StdinEnds ==
    /\ up
    /\ ~closing
    /\ pc["main"] = "idle"
    /\ closing' = TRUE
    /\ pc' = [pc EXCEPT !["main"] = "join"]
    /\ UNCHANGED <<up, left, robot, lost, orphaned>>

\* The relay thread has ended, or is still inside a call when the second it is
\* given is over: either way shutdown() stops the robot.
RelayJoined ==
    /\ pc["main"] = "join"
    /\ BeginStop("main")
    /\ UNCHANGED <<up, closing, robot, lost, orphaned>>

\* The process is gone, wherever its threads were.
ProcessEnds ==
    /\ up' = FALSE
    /\ closing' = FALSE
    /\ orphaned' = (orphaned \/ (robot = "go" /\ \E t \in Threads : pc[t] # "idle"))
    /\ pc' = [t \in Threads |-> "idle"]
    /\ left' = [t \in Threads |-> 0]
    /\ UNCHANGED <<robot, lost>>

\* destroy_node: a relay thread that is still moving can publish no more, not even
\* its zero commands.
Destroy ==
    /\ pc["main"] = "destroy"
    /\ ProcessEnds

\* The pipe ends a cycle (or the operator the program): SIGTERM, and 5 s later
\* SIGKILL.  main() catches KeyboardInterrupt only, so no clause of it runs.
Terminate ==
    /\ up
    /\ ProcessEnds

\* The pipe starts the server again.
Start ==
    /\ ~up
    /\ up' = TRUE
    /\ UNCHANGED <<closing, pc, left, robot, lost, orphaned>>

-----------------------------------------------------------------------------
Thread(t) ==
    \/ \E tool \in Tools : Call(t, tool)
    \/ PublishMove(t)
    \/ MoveOn(t)
    \/ MoveOver(t)
    \/ PublishStop(t)
    \/ PublishMode(t)
    \/ PublishHeight(t)

Life == StdinEnds \/ RelayJoined \/ Destroy \/ Terminate \/ Start

Next == (\E t \in Threads : Thread(t)) \/ Life

Spec == Init /\ [][Next]_vars

\* A thread inside a call goes on, the clock reaches its deadline, and a thread
\* that publishes zero commands again and again gets one of them through.
Fairness ==
    \A t \in Threads :
        /\ WF_vars(PublishMove(t))
        /\ SF_vars(MoveOver(t))
        /\ WF_vars(PublishStop(t))
        /\ SF_vars(PublishStop(t) /\ robot' = "zero")

FairSpec == Spec /\ Fairness

-----------------------------------------------------------------------------
(* Properties *)

TypeOK ==
    /\ up \in BOOLEAN
    /\ closing \in BOOLEAN
    /\ pc \in [Threads -> {"idle", "move", "sleep", "stop", "stand_up", "stand_down",
                           "raise", "join", "destroy"}]
    /\ left \in [Threads -> 0..StopRepeat]
    /\ robot \in Commands
    /\ lost \in 0..MaxLost
    /\ orphaned \in BOOLEAN

\* A thread publishes zero commands as long as it owes some.
StopsOwed == \A t \in Threads : pc[t] = "stop" <=> left[t] > 0

\* A thread that has the robot moving will stop it: it is inside a timed move, or
\* the zero commands it has published so far were all lost.
WillStop(t) ==
    \/ pc[t] \in {"move", "sleep"}
    \/ pc[t] = "stop" /\ StopRepeat - left[t] <= lost

MotionHasOwner == robot = "go" /\ ~orphaned => \E t \in Threads : WillStop(t)

IInv == TypeOK /\ StopsOwed /\ MotionHasOwner

\* No call leaves the robot moving: once no thread is inside one, whichever calls
\* overlapped and however their messages were interleaved, the command the control
\* node repeats is not a motion.  The exception is a process that ended in a call.
StillWhenIdle ==
    (\A t \in Threads : pc[t] = "idle") /\ robot = "go" => orphaned

\* A motion ends, even if further moves are requested all the time.
MotionEnds == robot = "go" ~> robot # "go" \/ orphaned

\* "The server always stops the robot afterwards" (robot_mcp_server.py 1166).
AlwaysStopsAfterwards == (\A t \in Threads : pc[t] = "idle") => robot # "go"
=============================================================================
