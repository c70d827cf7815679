-------------------------- MODULE ControlAuthority --------------------------
(***************************************************************************)
(* Who the node believes to control the robot: Movement_Ctrl's ctrl_status *)
(* (osdk_movement.cpp) and the parts of Telemetry that write it.           *)
(*                                                                         *)
(* Four threads share it without a lock.  The callback thread obtains      *)
(* control and, at shutdown, releases it; the heartbeat thread sends       *)
(* motion commands, as the callback does; SDKConnectMonitor checks the     *)
(* connection every 10 s; Telemetry::SerialHandle compares every pushed    *)
(* ctrl_mode with ctrl_status.  The controller board is external: it       *)
(* grants, refuses and withdraws control, and its frames are late, damaged *)
(* or lost (SerialRx shows how the node receives them).                    *)
(*                                                                         *)
(* ctrl_mode is the set of its bits that the code tests, for the node's    *)
(* SDK id: "own" (1 << 2id), "rc" (2 << 2id), "ownIdle" (16 << 2id),       *)
(* "rcIdle" (32 << 2id), and "other", any other bit of the low nibble.     *)
(***************************************************************************)
EXTENDS Integers

CONSTANTS
    Senders,        \* the threads that send motion commands: "callback", "heartbeat"
    BoardModes,     \* the values of ctrl_mode that the board reports
    DropLimit,      \* pushes without a bit of ours that are put up with: 10
    MaxAttempts,    \* of obtain_control: 20
    CheckAttempts,  \* of connection_check: 3
    NoFrame         \* "no frame on its way", as a value of `push' and `reply'

Bits == {"own", "rc", "ownIdle", "rcIdle", "other"}
LowNibble == {"own", "rc", "other"}

ASSUME ModesAssumption == BoardModes \subseteq SUBSET Bits /\ NoFrame \notin BoardModes
ASSUME SendersAssumption == Senders \subseteq {"callback", "heartbeat"}
ASSUME LimitsAssumption ==
    DropLimit \in Nat /\ MaxAttempts \in Nat \ {0} /\ CheckAttempts \in Nat \ {0}

\* The answers to OSDK_CTRL_AUTHORIZE_ID that obtain_control tells apart: granted (2),
\* not yet (3) and refused (0; 10 is treated like it).
Answers == {0, 2, 3}
ASSUME AnswersAssumption == NoFrame \notin Answers

VARIABLES
    mode,         \* external: the board's ctrl_mode
    link,         \* external: the serial line works
    push,         \* a status push on its way to SerialHandle
    reply,        \* an answer to OSDK_CTRL_AUTHORIZE_ID on its way
    ctrl_status,  \* Movement_Ctrl::ctrl_status
    dropCtrlCnt,  \* Movement_Ctrl::dropCtrlCnt
    idle_buffer,  \* Movement_Ctrl::idle_buffer
    status_mode,  \* telemetry->status.ctrl_mode, the node's copy
    taken,        \* the push that SerialHandle has copied there and not evaluated yet
    misses,       \* history: pushes in a row that showed no bit of ours, up to a cap
    pc,           \* where each thread is
    attempts,     \* obtain_control's attempts
    tries,        \* each thread's attempts in connection_check
    running       \* "up", "closing" (release_control at shutdown) or "exited"

vars == <<mode, link, push, reply, ctrl_status, dropCtrlCnt, idle_buffer,
          status_mode, taken, misses, pc, attempts, tries, running>>

board == <<mode, link, push, reply>>
authority == <<ctrl_status, dropCtrlCnt, idle_buffer>>
handling == <<taken, misses>>

Threads == Senders \cup {"callback", "connect_monitor"}

MissCap == DropLimit + 2

Init ==
    /\ mode \in BoardModes
    /\ link = TRUE
    /\ push = NoFrame
    /\ reply = NoFrame
    /\ ctrl_status = "RELEASED"
    /\ dropCtrlCnt = 0
    /\ idle_buffer = FALSE
    /\ status_mode = {}
    /\ taken = NoFrame
    /\ misses = 0
    /\ pc = [t \in Threads |-> "idle"]
    /\ attempts = 0
    /\ tries = [t \in Threads |-> 0]
    /\ running = "up"

in_control == ctrl_status \in {"OBTAINED", "IDLE"}

Goto(t, where) == pc' = [pc EXCEPT ![t] = where]

-----------------------------------------------------------------------------
(* The board and the line *)

\* A pilot, another SDK or a fault changes who controls the robot.
BoardChange ==
    /\ mode' \in BoardModes \ {mode}
    /\ UNCHANGED <<link, push, reply, authority, status_mode, handling, pc, attempts,
                   tries, running>>

LinkChange ==
    /\ link' = ~link
    /\ UNCHANGED <<mode, push, reply, authority, status_mode, handling, pc, attempts,
                   tries, running>>

BoardPush ==
    /\ link
    /\ push = NoFrame
    /\ push' = mode
    /\ UNCHANGED <<mode, link, reply, authority, status_mode, handling, pc, attempts,
                   tries, running>>

\* Frames are lost on the line or overwritten in the receive slot; an answer may
\* also come out of the slot damaged.
FrameLost ==
    /\ \/ push # NoFrame /\ push' = NoFrame /\ UNCHANGED reply
       \/ reply # NoFrame /\ reply' \in (Answers \cup {NoFrame}) \ {reply} /\ UNCHANGED push
    /\ UNCHANGED <<mode, link, authority, status_mode, handling, pc, attempts, tries, running>>

-----------------------------------------------------------------------------
(* obtain_control, called by Motion_callback when the node is not in control *)

\* With a bit of the virtual RC in the node's copy of ctrl_mode it exits the program.
ObtainControl ==
    /\ running = "up"
    /\ pc["callback"] = "idle"
    /\ ~in_control
    /\ IF status_mode \cap {"rc", "rcIdle"} # {}
       THEN running' = "exited" /\ UNCHANGED pc
       ELSE Goto("callback", "authorize") /\ UNCHANGED running
    /\ UNCHANGED <<board, authority, status_mode, handling, attempts, tries>>

\* The loop of obtain_control ends; its attempts go out of scope.
LeaveObtain(where) == Goto("callback", where) /\ attempts' = 0

\* Mutant of AuthorizeRequest: the attempts are not counted.
AuthorizeRequestForever ==
    /\ pc["callback"] = "authorize"
    /\ running # "exited"
    /\ \/ Goto("callback", "idle") /\ UNCHANGED <<mode, reply>>
       \/ Goto("callback", "answer") /\ UNCHANGED <<mode, reply>>
       \/ /\ link
          /\ Goto("callback", "answer")
          /\ \/ reply' = 2 /\ mode' \in {m \in BoardModes : "own" \in m}
             \/ reply' \in Answers \ {2} /\ UNCHANGED mode
    /\ UNCHANGED <<link, push, authority, status_mode, handling, attempts, tries, running>>

\* One attempt: serialSend fails and its result is returned, or the request is on
\* the line.  If it reaches the board it is granted or refused.
AuthorizeRequest ==
    /\ pc["callback"] = "authorize"
    /\ running # "exited"
    /\ attempts < MaxAttempts
    /\ \/ LeaveObtain("idle") /\ UNCHANGED <<mode, reply>>
       \/ Goto("callback", "answer") /\ attempts' = attempts + 1 /\ UNCHANGED <<mode, reply>>
       \/ /\ link
          /\ Goto("callback", "answer")
          /\ attempts' = attempts + 1
          /\ \/ reply' = 2 /\ mode' \in {m \in BoardModes : "own" \in m}
             \/ reply' \in Answers \ {2} /\ UNCHANGED mode
    /\ UNCHANGED <<link, push, authority, status_mode, handling, tries, running>>

\* An answer is there, maybe one to an earlier request: 2 ends the loop, 3 is tried
\* again until the attempts are used up, 0 is a refusal.
AuthorizeAnswer ==
    /\ pc["callback"] = "answer"
    /\ running # "exited"
    /\ reply # NoFrame
    /\ reply' = NoFrame
    /\ \/ reply = 2 /\ LeaveObtain("granted")
       \/ /\ reply = 3 /\ attempts < MaxAttempts
          /\ Goto("callback", "authorize")
          /\ UNCHANGED attempts
       \/ reply = 3 /\ attempts = MaxAttempts /\ LeaveObtain("idle")
       \/ reply = 0 /\ LeaveObtain("idle")
    /\ UNCHANGED <<mode, link, push, authority, status_mode, handling, tries, running>>

\* serialSend_ack returns 2, and so does obtain_control.
AuthorizeTimeout ==
    /\ pc["callback"] = "answer"
    /\ running # "exited"
    /\ LeaveObtain("idle")
    /\ UNCHANGED <<board, authority, status_mode, handling, tries, running>>

\* 5 ms after the answer the loop ends and control counts as obtained, whatever
\* SerialHandle has made of ctrl_status in between.
Obtained ==
    /\ pc["callback"] = "granted"
    /\ running # "exited"
    /\ ctrl_status' = "OBTAINED"
    /\ idle_buffer' = TRUE
    /\ Goto("callback", "idle")
    /\ UNCHANGED <<board, dropCtrlCnt, status_mode, handling, attempts, tries, running>>

-----------------------------------------------------------------------------
(* connection_check *)

StartCheck(t) == Goto(t, "check") /\ UNCHANGED tries

NextTry(t) == tries' = [tries EXCEPT ![t] = @ + 1]

\* Back from connection_check: a sender clears idle_buffer, release_control ends
\* the program.
CheckDone(t) ==
    /\ Goto(t, "idle")
    /\ tries' = [tries EXCEPT ![t] = 0]
    /\ idle_buffer' = (idle_buffer /\ (t = "connect_monitor" \/ running = "closing"))
    /\ running' = IF t = "callback" /\ running = "closing" THEN "exited" ELSE running

\* SDKConnectMonitor wakes up.
ConnectMonitor ==
    /\ running # "exited"
    /\ pc["connect_monitor"] = "idle"
    /\ StartCheck("connect_monitor")
    /\ UNCHANGED <<board, authority, status_mode, handling, attempts, running>>

\* SendMovementCtrlCmd, SendMovementModeCtrlCmd, SendTransformUpCmd or
\* SendTransformDownCmd while another SDK controls the robot: nothing is sent, and
\* the first such call checks the connection.
SendWhileIdle(t) ==
    /\ running = "up" \/ (running = "closing" /\ t = "heartbeat")
    /\ pc[t] = "idle"
    /\ ctrl_status = "IDLE"
    /\ idle_buffer
    /\ StartCheck(t)
    /\ UNCHANGED <<board, authority, status_mode, handling, attempts, running>>

\* An attempt is answered with SDK_CONNECTED.
CheckAnswered(t) ==
    /\ pc[t] = "check"
    /\ running # "exited"
    /\ link
    /\ CheckDone(t)
    /\ UNCHANGED <<board, ctrl_status, dropCtrlCnt, status_mode, handling, attempts>>

\* An attempt has another answer.  After the last one the line is taken to be alive
\* and everything is kept.
CheckMisanswered(t) ==
    /\ pc[t] = "check"
    /\ running # "exited"
    /\ link
    /\ IF tries[t] + 1 < CheckAttempts
       THEN NextTry(t) /\ UNCHANGED <<pc, idle_buffer, running>>
       ELSE CheckDone(t)
    /\ UNCHANGED <<board, ctrl_status, dropCtrlCnt, status_mode, handling, attempts>>

\* An attempt is not answered, or cannot be sent.  If it is the last one
\* SerialDisconnectHandle clears the node's copy of the status, and then ...
CheckUnanswered(t) ==
    /\ pc[t] = "check"
    /\ running # "exited"
    /\ IF tries[t] + 1 < CheckAttempts
       THEN NextTry(t) /\ UNCHANGED <<pc, status_mode>>
       ELSE Goto(t, "lost") /\ status_mode' = {} /\ UNCHANGED tries
    /\ UNCHANGED <<board, authority, handling, attempts, running>>

\* ... gives up control.
Disconnect(t) ==
    /\ pc[t] = "lost"
    /\ running # "exited"
    /\ ctrl_status' = "RELEASED"
    /\ CheckDone(t)
    /\ UNCHANGED <<board, dropCtrlCnt, status_mode, handling, attempts>>

-----------------------------------------------------------------------------
(* SerialHandle and CtrlStatusMonitorHandle *)

Silent(m) == "own" \notin m /\ "ownIdle" \notin m

\* Mutant of CtrlStatusMonitorHandle: pushes with a bit of ours do not restart the count.
MonitorHandleNoReset(m) ==
    \/ /\ "own" \in m
       /\ ctrl_status' = "OBTAINED"
       /\ UNCHANGED dropCtrlCnt
    \/ /\ "own" \notin m /\ "ownIdle" \in m
       /\ ctrl_status' = IF m \cap LowNibble # {} THEN "IDLE" ELSE "RELEASED"
       /\ UNCHANGED dropCtrlCnt
    \/ /\ Silent(m) /\ ctrl_status # "OBTAINED"
       /\ dropCtrlCnt' = 0
       /\ UNCHANGED ctrl_status
    \/ /\ Silent(m) /\ ctrl_status = "OBTAINED" /\ dropCtrlCnt > DropLimit
       /\ ctrl_status' = "RELEASED"
       /\ UNCHANGED dropCtrlCnt
    \/ /\ Silent(m) /\ ctrl_status = "OBTAINED" /\ dropCtrlCnt <= DropLimit
       /\ dropCtrlCnt' = dropCtrlCnt + 1
       /\ UNCHANGED ctrl_status

\* Mutant of CtrlStatusMonitorHandle: it never drops control, it only counts.
MonitorHandleNoDrop(m) ==
    \/ "own" \in m /\ ctrl_status' = "OBTAINED" /\ dropCtrlCnt' = 0
    \/ /\ "own" \notin m /\ "ownIdle" \in m
       /\ ctrl_status' = IF m \cap LowNibble # {} THEN "IDLE" ELSE "RELEASED"
       /\ dropCtrlCnt' = 0
    \/ Silent(m) /\ dropCtrlCnt' = 0 /\ UNCHANGED ctrl_status

\* Mutant of CtrlStatusMonitorHandle: the own bit is not taken for control.
MonitorHandleOwnBlind(m) ==
    \/ "own" \in m /\ dropCtrlCnt' = 0 /\ UNCHANGED ctrl_status
    \/ /\ "own" \notin m /\ "ownIdle" \in m
       /\ ctrl_status' = IF m \cap LowNibble # {} THEN "IDLE" ELSE "RELEASED"
       /\ dropCtrlCnt' = 0
    \/ Silent(m) /\ dropCtrlCnt' = 0 /\ ctrl_status' = "RELEASED"

\* Mutant of CtrlStatusMonitorHandle: the limit is not tested before it counts.
MonitorHandleUnlimited(m) ==
    \/ "own" \in m /\ ctrl_status' = "OBTAINED" /\ dropCtrlCnt' = 0
    \/ /\ "own" \notin m /\ "ownIdle" \in m
       /\ ctrl_status' = IF m \cap LowNibble # {} THEN "IDLE" ELSE "RELEASED"
       /\ dropCtrlCnt' = 0
    \/ /\ Silent(m)
       /\ dropCtrlCnt' = dropCtrlCnt + 1
       /\ ctrl_status' = IF dropCtrlCnt > DropLimit THEN "RELEASED" ELSE ctrl_status

\* Our bit means control, the idle bit means that another SDK or nobody has it, and
\* without either control is dropped after DropLimit + 1 counted pushes.  The
\* counter stays where it is when control is dropped.
CtrlStatusMonitorHandle(m) ==
    \/ /\ "own" \in m
       /\ ctrl_status' = "OBTAINED"
       /\ dropCtrlCnt' = 0
    \/ /\ "own" \notin m /\ "ownIdle" \in m
       /\ ctrl_status' = IF m \cap LowNibble # {} THEN "IDLE" ELSE "RELEASED"
       /\ dropCtrlCnt' = 0
    \/ /\ Silent(m) /\ ctrl_status # "OBTAINED"
       /\ dropCtrlCnt' = 0
       /\ UNCHANGED ctrl_status
    \/ /\ Silent(m) /\ ctrl_status = "OBTAINED" /\ dropCtrlCnt > DropLimit
       /\ ctrl_status' = "RELEASED"
       /\ UNCHANGED dropCtrlCnt
    \/ /\ Silent(m) /\ ctrl_status = "OBTAINED" /\ dropCtrlCnt <= DropLimit
       /\ dropCtrlCnt' = dropCtrlCnt + 1
       /\ UNCHANGED ctrl_status

\* SerialHandle copies the pushed status over the node's ...
SerialHandleCopy ==
    /\ running # "exited"
    /\ taken = NoFrame
    /\ push # NoFrame
    /\ push' = NoFrame
    /\ taken' = push
    /\ status_mode' = push
    /\ UNCHANGED <<mode, link, reply, authority, misses, pc, attempts, tries, running>>

\* The push in hand shows no bit of ours: it carried none, or a failed connection check
\* of another thread has cleared the copy.
Missed == Silent(taken) \/ status_mode # taken

\* ... and then reads ctrl_mode in the copy again, whatever it holds by now.
SerialHandleMonitor ==
    /\ running # "exited"
    /\ taken # NoFrame
    /\ taken' = NoFrame
    /\ CtrlStatusMonitorHandle(status_mode)
    /\ misses' = IF ~Missed THEN 0 ELSE IF misses < MissCap THEN misses + 1 ELSE misses
    /\ UNCHANGED <<board, idle_buffer, status_mode, pc, attempts, tries, running>>

SerialHandle == SerialHandleCopy \/ SerialHandleMonitor

-----------------------------------------------------------------------------
(* ~Movement_Ctrl calls release_control; rclcpp::spin has ended then, so no  *)
(* callback runs any more.                                                   *)
ReleaseControl ==
    /\ running = "up"
    /\ pc["callback"] = "idle"
    /\ running' = "closing"
    /\ ctrl_status' = "RELEASED"
    /\ \/ UNCHANGED mode
       \/ link /\ "own" \in mode /\ mode' \in {m \in BoardModes : "own" \notin m}
    /\ StartCheck("callback")
    /\ UNCHANGED <<link, push, reply, dropCtrlCnt, idle_buffer, status_mode, handling,
                   attempts>>

Exited == running = "exited" /\ UNCHANGED vars

-----------------------------------------------------------------------------
Board == BoardChange \/ LinkChange \/ BoardPush \/ FrameLost

Callback ==
    \/ ObtainControl
    \/ AuthorizeRequest
    \/ AuthorizeAnswer
    \/ AuthorizeTimeout
    \/ Obtained
    \/ ReleaseControl

Check(t) ==
    \/ t \in Senders /\ SendWhileIdle(t)
    \/ CheckAnswered(t)
    \/ CheckMisanswered(t)
    \/ CheckUnanswered(t)
    \/ Disconnect(t)

Next ==
    \/ Board
    \/ Callback
    \/ ConnectMonitor
    \/ \E t \in Threads : Check(t)
    \/ SerialHandle
    \/ Exited

Spec == Init /\ [][Next]_vars

\* What a thread does by itself: answers, of which nothing is assumed, may come first.
GoesOn(t) ==
    \/ t = "callback" /\ (AuthorizeRequest \/ AuthorizeTimeout \/ Obtained)
    \/ t = "connect_monitor" /\ ConnectMonitor
    \/ CheckAnswered(t) \/ CheckMisanswered(t) \/ CheckUnanswered(t) \/ Disconnect(t)

\* The threads run: a call that has begun goes on, SDKConnectMonitor wakes up every
\* 10 s and SerialHandle takes the pushes.  A board that is connected pushes its
\* status again and again, and not every push is lost.  Nor is every copy cleared before
\* it is read again: the two statements follow each other, and a connection check takes
\* 150 ms to fail.
Fairness ==
    /\ \A t \in Threads : WF_vars(GoesOn(t))
    /\ SF_vars(BoardPush)
    /\ SF_vars(SerialHandleCopy)
    /\ WF_vars(SerialHandleMonitor)
    /\ SF_vars(SerialHandleMonitor /\ status_mode = taken)

FairSpec == Spec /\ Fairness

-----------------------------------------------------------------------------
(* Properties *)

TypeOK ==
    /\ mode \in BoardModes
    /\ link \in BOOLEAN
    /\ push \in BoardModes \cup {NoFrame}
    /\ reply \in Answers \cup {NoFrame}
    /\ ctrl_status \in {"RELEASED", "OBTAINED", "IDLE"}
    /\ dropCtrlCnt \in 0..(DropLimit + 1)
    /\ idle_buffer \in BOOLEAN
    /\ status_mode \in BoardModes \cup {{}}
    /\ taken \in BoardModes \cup {NoFrame}
    /\ misses \in 0..MissCap
    /\ pc \in [Threads -> {"idle", "authorize", "answer", "granted", "check", "lost"}]
    /\ attempts \in 0..MaxAttempts
    /\ tries \in [Threads -> 0..CheckAttempts]
    /\ running \in {"up", "closing", "exited"}

\* While a push is evaluated the node's copy holds it or is cleared: no other thread
\* writes anything else there.
CopyOrCleared == taken # NoFrame => status_mode \in {taken, {}}

\* dropCtrlCnt never runs ahead of the pushes in a row that were silent or whose copy a
\* failed check had cleared: not when control is dropped and obtained again with the
\* counter left at its limit, not when obtain_control overtakes SerialHandle.  (It does
\* run ahead of the silent pushes alone: a push with our bit whose copy is cleared
\* between osdk_telemetry.cpp 349 and 350 is counted.)
CountedMisses == dropCtrlCnt <= misses

IInv == TypeOK /\ CopyOrCleared /\ CountedMisses

\* Control that was obtained is lost for a cause only: a connection check has failed, the
\* program releases it, the push in hand carried our idle bit, or more than DropLimit + 1
\* pushes in a row showed no bit of ours.  The last of these may have carried one: if a
\* failed check clears its copy it counts as silent.
AuthorityLostForCause ==
    [][ctrl_status = "OBTAINED" /\ ctrl_status' # "OBTAINED" =>
        \/ \E t \in Threads : pc[t] = "lost"
        \/ running' = "closing"
        \/ taken # NoFrame /\ "ownIdle" \in taken
        \/ misses' >= DropLimit + 2]_vars

\* When the board has taken control away the node does not go on believing to have
\* it, whether the line is up, down or flapping and whatever was still on its way: again
\* and again its belief is no more than what the board grants.
BelievedLossNoticed ==
    []<>(ctrl_status # "OBTAINED" \/ "own" \in mode \/ running = "exited")

\* When the board has settled on our SDK and the line on working, the node finds out,
\* even if unanswered connection checks make it give up control now and then.
OwnControlSeen ==
    <>[](link /\ "own" \in mode /\ running = "up") => []<>(ctrl_status = "OBTAINED")

\* obtain_control returns, even to a board that answers 3 for ever, and so does the
\* connection check of the thread that calls it: that thread gets back to its callbacks.
ObtainReturns == []<>(pc["callback"] = "idle")
=============================================================================
