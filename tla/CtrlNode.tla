------------------------------ MODULE CtrlNode ------------------------------
(***************************************************************************)
(* diabloCtrlNode (diablo_ctrl.cpp): the callback of diablo/MotionCmd and  *)
(* the heartbeat thread, which repeats the last motion command.            *)
(*                                                                         *)
(* They share onSend, ctrl_msg_ and Movement_Ctrl's ctrl_data, without a   *)
(* lock and field by field; a frame is packed from ctrl_data under the     *)
(* write lock (SerialTx).  The order in which a thread writes the fields   *)
(* is left open, so that packing in one step stands for a memcpy that the  *)
(* other thread's writes overtake.  What becomes of ctrl_status between    *)
(* the steps is ControlAuthority's subject: here it may change at any time.*)
(***************************************************************************)
EXTENDS Integers, Sequences

CONSTANTS
    Fields,        \* of MotionCtrl's value: forward, left, up, roll, pitch, leg_split
    Messages,      \* the messages published: [mode_mark, value]
    Default,       \* the message that ctrl_msg_ is constructed as
    QueueDepth,    \* of the subscription: 10
    MaxPublished   \* bound: messages published in a behaviour

Values == UNION {{m.value[f] : f \in Fields} : m \in Messages \cup {Default}}
Commands == [Fields -> Values]
MessageType == [mode_mark : BOOLEAN, value : Commands]

ASSUME MessagesAssumption == Messages \cup {Default} \subseteq MessageType
ASSUME DefaultAssumption == ~Default.mode_mark
ASSUME FieldsAssumption == Fields # {}
ASSUME QueueAssumption == QueueDepth \in Nat \ {0} /\ MaxPublished \in Nat

VARIABLES
    queue,        \* the subscription's messages, not yet taken
    published,    \* how many messages have been published
    latest,       \* history: the last one
    msg,          \* the callback's message, the last one taken
    cb,           \* where Motion_callback is
    cbTodo,       \* fields it has still to copy
    hb,           \* where heart_beat_loop is
    hbTodo,       \* fields it has still to copy
    reg,          \* the field it has loaded and not yet stored, if any
    onSend,
    ctrl_msg_,
    ctrl_data,    \* Movement_Ctrl::ctrl_data
    ctrl_status,  \* Movement_Ctrl::ctrl_status
    wire,         \* history: the last motion frame sent, if any
    accepted,     \* history: the last message that was not dropped
    late,         \* history: heartbeat frames since the callback has begun
    settled       \* history: no callback has run since the heartbeat's round began

messages == <<queue, published, latest>>
callback == <<msg, cb, cbTodo>>
heartbeat == <<hb, hbTodo, reg>>
history == <<wire, accepted, late, settled>>

vars == <<messages, callback, heartbeat, onSend, ctrl_msg_, ctrl_data, ctrl_status, history>>

Nothing == <<>>

Init ==
    /\ queue = <<>>
    /\ published = 0
    /\ latest = Default
    /\ msg = Default
    /\ cb = "idle"
    /\ cbTodo = {}
    /\ hb = "top"
    /\ hbTodo = {}
    /\ reg = Nothing
    /\ onSend = TRUE
    /\ ctrl_msg_ = Default
    /\ ctrl_data = Default.value
    /\ ctrl_status = "RELEASED"
    /\ wire = Nothing
    /\ accepted = Default
    /\ late = 0
    /\ settled = FALSE

in_control == ctrl_status \in {"OBTAINED", "IDLE"}

-----------------------------------------------------------------------------
(* The publishers, the subscription and the rest of the SDK *)

\* A message reaches the subscription, whose full queue drops its oldest one.
Publish(m) ==
    /\ published < MaxPublished
    /\ published' = published + 1
    /\ latest' = m
    /\ queue' = IF Len(queue) < QueueDepth THEN Append(queue, m) ELSE Append(Tail(queue), m)
    /\ UNCHANGED <<callback, heartbeat, onSend, ctrl_msg_, ctrl_data, ctrl_status, history>>

\* SerialHandle or a connection check rewrites ctrl_status.
ControlChange ==
    /\ ctrl_status' \in {"RELEASED", "OBTAINED", "IDLE"} \ {ctrl_status}
    /\ UNCHANGED <<messages, callback, heartbeat, onSend, ctrl_msg_, ctrl_data, history>>

-----------------------------------------------------------------------------
(* Motion_callback *)

\* A message is taken from the queue and the heartbeat is asked to pause.
CallbackStart ==
    /\ cb = "idle"
    /\ queue # <<>>
    /\ msg' = Head(queue)
    /\ queue' = Tail(queue)
    /\ onSend' = FALSE
    /\ cb' = "control"
    /\ late' = 0
    /\ settled' = FALSE
    /\ UNCHANGED <<published, latest, cbTodo, heartbeat,
                   ctrl_msg_, ctrl_data, ctrl_status, wire, accepted>>

\* obtain_control is called without control, and it may fail.
ObtainControl ==
    /\ cb = "control"
    /\ IF in_control
       THEN cb' = "store" /\ UNCHANGED ctrl_status
       ELSE cb' = "obtained" /\ ctrl_status' \in {ctrl_status, "OBTAINED"}
    /\ UNCHANGED <<messages, msg, cbTodo, heartbeat, onSend,
                   ctrl_msg_, ctrl_data, history>>

\* Mutant of DropOrKeep: the early return forgets to let the heartbeat go on.
DropOrKeepPaused ==
    /\ cb = "obtained"
    /\ cb' = IF in_control THEN "store" ELSE "idle"
    /\ UNCHANGED <<messages, msg, cbTodo, heartbeat, onSend,
                   ctrl_msg_, ctrl_data, ctrl_status, history>>

\* Still without control the message is dropped; ctrl_msg_ keeps the one before.
DropOrKeep ==
    /\ cb = "obtained"
    /\ IF in_control
       THEN cb' = "store" /\ UNCHANGED onSend
       ELSE cb' = "idle" /\ onSend' = TRUE
    /\ UNCHANGED <<messages, msg, cbTodo, heartbeat,
                   ctrl_msg_, ctrl_data, ctrl_status, history>>

StoreMark ==
    /\ cb = "store"
    /\ ctrl_msg_' = [ctrl_msg_ EXCEPT !.mode_mark = msg.mode_mark]
    /\ cb' = "value"
    /\ cbTodo' = Fields
    /\ UNCHANGED <<messages, msg, heartbeat, onSend,
                   ctrl_data, ctrl_status, history>>

\* Mutant of StoreValue: the last field is not copied.
StoreValueShort(f) ==
    /\ cb = "value"
    /\ f \in cbTodo
    /\ IF cbTodo = {f}
       THEN /\ cb' = IF msg.mode_mark THEN "transform" ELSE "data"
            /\ cbTodo' = IF msg.mode_mark THEN {} ELSE Fields
            /\ accepted' = msg
            /\ UNCHANGED ctrl_msg_
       ELSE /\ cbTodo' = cbTodo \ {f}
            /\ ctrl_msg_' = [ctrl_msg_ EXCEPT !.value[f] = msg.value[f]]
            /\ UNCHANGED <<cb, accepted>>
    /\ UNCHANGED <<messages, msg, heartbeat, onSend,
                   ctrl_data, ctrl_status, wire, late, settled>>

\* One field of ctrl_msg_.value; a mode message's value is stored as well.
StoreValue(f) ==
    /\ cb = "value"
    /\ f \in cbTodo
    /\ ctrl_msg_' = [ctrl_msg_ EXCEPT !.value[f] = msg.value[f]]
    /\ IF cbTodo = {f}
       THEN /\ cb' = IF msg.mode_mark THEN "transform" ELSE "data"
            /\ cbTodo' = IF msg.mode_mark THEN {} ELSE Fields
            /\ accepted' = msg
       ELSE cbTodo' = cbTodo \ {f} /\ UNCHANGED <<cb, accepted>>
    /\ UNCHANGED <<messages, msg, heartbeat, onSend,
                   ctrl_data, ctrl_status, wire, late, settled>>

\* One field of ctrl_data, for a motion message.
StoreData(f) ==
    /\ cb = "data"
    /\ f \in cbTodo
    /\ ctrl_data' = [ctrl_data EXCEPT ![f] = msg.value[f]]
    /\ cbTodo' = cbTodo \ {f}
    /\ cb' = IF cbTodo = {f} THEN "check" ELSE cb
    /\ UNCHANGED <<messages, msg, heartbeat, onSend,
                   ctrl_msg_, ctrl_status, history>>

\* The callback returns and lets the heartbeat go on.
Return == cb' = "idle" /\ onSend' = TRUE

\* SendMovementCtrlCmd sends nothing while another SDK controls the robot.
SendCheck ==
    /\ cb = "check"
    /\ IF ctrl_status = "IDLE" THEN Return ELSE cb' = "send" /\ UNCHANGED onSend
    /\ UNCHANGED <<messages, msg, cbTodo, heartbeat,
                   ctrl_msg_, ctrl_data, ctrl_status, history>>

\* serialSend packs ctrl_data as it is now, or fails.
Send ==
    /\ cb = "send"
    /\ wire' \in {ctrl_data, wire}
    /\ Return
    /\ UNCHANGED <<messages, msg, cbTodo, heartbeat,
                   ctrl_msg_, ctrl_data, ctrl_status, accepted, late, settled>>

\* SendTransformUpCmd or SendTransformDownCmd: nothing is sent while another SDK controls
\* the robot; otherwise the request is repeated until its answer is known.  The result is
\* only logged.
Transform ==
    /\ cb = "transform"
    /\ cb' = "jump"
    /\ UNCHANGED <<messages, msg, cbTodo, heartbeat, onSend, ctrl_msg_, ctrl_data,
                   ctrl_status, history>>

\* SendJumpCmd (if the robot stands), SendDanceCmd and SendMovementModeCtrlCmd, whose
\* results are only logged.
ModeRequest ==
    /\ \/ cb = "jump" /\ cb' = "dance" /\ UNCHANGED onSend
       \/ cb = "dance" /\ cb' = "mode" /\ UNCHANGED onSend
       \/ cb = "mode" /\ Return
    /\ UNCHANGED <<messages, msg, cbTodo, heartbeat,
                   ctrl_msg_, ctrl_data, ctrl_status, history>>

-----------------------------------------------------------------------------
(* heart_beat_loop *)

\* Mutant of HbTop: the pause is not looked at.
HbTopBlind ==
    /\ hb = "top"
    /\ hb' = "control"
    /\ settled' = (cb = "idle")
    /\ UNCHANGED <<messages, callback, hbTodo, reg, onSend, ctrl_msg_, ctrl_data, ctrl_status,
                   wire, accepted, late>>

HbTop ==
    /\ hb = "top"
    /\ onSend
    /\ hb' = "control"
    /\ settled' = (cb = "idle")
    /\ UNCHANGED <<messages, callback, hbTodo, reg, onSend, ctrl_msg_, ctrl_data, ctrl_status,
                   wire, accepted, late>>

HbControl ==
    /\ hb = "control"
    /\ hb' = IF in_control THEN "mark" ELSE "top"
    /\ UNCHANGED <<messages, callback, hbTodo, reg, onSend, ctrl_msg_, ctrl_data, ctrl_status,
                   history>>

\* A mode message is not repeated.
HbMark ==
    /\ hb = "mark"
    /\ IF ctrl_msg_.mode_mark
       THEN hb' = "top" /\ UNCHANGED hbTodo
       ELSE hb' = "copy" /\ hbTodo' = Fields
    /\ UNCHANGED <<messages, callback, reg, onSend, ctrl_msg_, ctrl_data, ctrl_status, history>>

HbLoad(f) ==
    /\ hb = "copy"
    /\ reg = Nothing
    /\ f \in hbTodo
    /\ reg' = <<f, ctrl_msg_.value[f]>>
    /\ UNCHANGED <<messages, callback, hb, hbTodo, onSend, ctrl_msg_, ctrl_data, ctrl_status,
                   history>>

HbStore ==
    /\ hb = "copy"
    /\ reg # Nothing
    /\ ctrl_data' = [ctrl_data EXCEPT ![reg[1]] = reg[2]]
    /\ hbTodo' = hbTodo \ {reg[1]}
    /\ reg' = Nothing
    /\ hb' = IF hbTodo = {reg[1]} THEN "check" ELSE hb
    /\ UNCHANGED <<messages, callback, onSend, ctrl_msg_, ctrl_status, history>>

HbCheck ==
    /\ hb = "check"
    /\ hb' = IF ctrl_status = "IDLE" THEN "top" ELSE "send"
    /\ UNCHANGED <<messages, callback, hbTodo, reg, onSend, ctrl_msg_, ctrl_data, ctrl_status,
                   history>>

HbSend ==
    /\ hb = "send"
    /\ hb' = "top"
    /\ wire' = ctrl_data
    /\ late' = IF cb = "idle" THEN late ELSE late + 1
    /\ UNCHANGED <<messages, callback, hbTodo, reg, onSend, ctrl_msg_, ctrl_data, ctrl_status,
                   accepted, settled>>

HbSendFails ==
    /\ hb = "send"
    /\ hb' = "top"
    /\ UNCHANGED <<messages, callback, hbTodo, reg, onSend, ctrl_msg_, ctrl_data, ctrl_status,
                   history>>

-----------------------------------------------------------------------------
Motion_callback ==
    \/ CallbackStart
    \/ ObtainControl
    \/ DropOrKeep
    \/ StoreMark
    \/ \E f \in Fields : StoreValue(f) \/ StoreData(f)
    \/ SendCheck
    \/ Send
    \/ Transform
    \/ ModeRequest

heart_beat_loop ==
    \/ HbTop
    \/ HbControl
    \/ HbMark
    \/ \E f \in Fields : HbLoad(f)
    \/ HbStore
    \/ HbCheck
    \/ HbSend
    \/ HbSendFails

Next ==
    \/ \E m \in Messages : Publish(m)
    \/ ControlChange
    \/ Motion_callback
    \/ heart_beat_loop

Spec == Init /\ [][Next]_vars

\* Both threads run, the board answers a mode request or it times out, and a line that
\* is asked again and again to take a heartbeat frame does not fail every time.
Fairness == WF_vars(Motion_callback) /\ WF_vars(heart_beat_loop) /\ SF_vars(HbSend)

FairSpec == Spec /\ Fairness

-----------------------------------------------------------------------------
(* Properties *)

CallbackPoints == {"idle", "control", "obtained", "store", "value", "data", "check", "send",
                   "transform", "jump", "dance", "mode"}
HeartbeatPoints == {"top", "control", "mark", "copy", "check", "send"}

TypeOK ==
    /\ queue \in Seq(Messages) /\ Len(queue) <= QueueDepth
    /\ published \in 0..MaxPublished
    /\ latest \in Messages \cup {Default}
    /\ msg \in Messages \cup {Default}
    /\ cb \in CallbackPoints
    /\ cbTodo \subseteq Fields
    /\ hb \in HeartbeatPoints
    /\ hbTodo \subseteq Fields
    /\ reg \in (Fields \X Values) \cup {Nothing}
    /\ onSend \in BOOLEAN
    /\ ctrl_msg_ \in MessageType
    /\ ctrl_data \in Commands
    /\ ctrl_status \in {"RELEASED", "OBTAINED", "IDLE"}
    /\ wire \in Commands \cup {Nothing}
    /\ accepted \in Messages \cup {Default}
    /\ late \in Nat
    /\ settled \in BOOLEAN

\* While the callback works on a message the heartbeat gets in at most one frame, the
\* one whose round had begun: onSend, read once per round and without a lock, is enough
\* for that.
AtMostOneLateFrame == late <= 1

\* A heartbeat whose round began after the callback had returned, and that none has
\* disturbed since, repeats the last accepted motion command: not a mixture of it and
\* the one before, not the value of a mode message, not a command that was dropped.
RepeatsLastAccepted ==
    settled /\ hb = "send" => ctrl_data = accepted.value /\ ~accepted.mode_mark

\* The parts that make these two inductive.
Paused == cb # "idle" => ~onSend
LateRoundOver == cb # "idle" /\ late = 1 => hb = "top"
KeepsAccepted ==
    IF cb = "value"
    THEN /\ ctrl_msg_.mode_mark = msg.mode_mark
         /\ \A f \in Fields \ cbTodo : ctrl_msg_.value[f] = msg.value[f]
    ELSE ctrl_msg_ = accepted
SettledCopies ==
    settled /\ hb \in {"copy", "check", "send"} =>
        /\ cb = "idle"
        /\ ~accepted.mode_mark
        /\ hb # "copy" => hbTodo = {}
        /\ \A f \in Fields \ hbTodo : ctrl_data[f] = accepted.value[f]
        /\ reg # Nothing => reg[1] \in hbTodo /\ reg[2] = accepted.value[reg[1]]
RegOnlyInCopy == reg # Nothing => hb = "copy"
SettledWhenIdle == settled => cb = "idle"

IInv ==
    /\ TypeOK
    /\ AtMostOneLateFrame
    /\ RepeatsLastAccepted
    /\ Paused
    /\ LateRoundOver
    /\ KeepsAccepted
    /\ SettledCopies
    /\ RegOnlyInCopy
    /\ SettledWhenIdle

\* When control stays obtained and nothing more is published, the last message has been
\* taken (a full queue drops older ones), and if the last accepted command is a motion
\* command it is what the line carries in the end: a late frame with old or mixed
\* fields does not stay the last word.
LatestWins ==
    <>[](ctrl_status = "OBTAINED") =>
        <>[](msg = latest /\ (accepted.mode_mark \/ wire = accepted.value))
=============================================================================
