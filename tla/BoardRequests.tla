---------------------------- MODULE BoardRequests ----------------------------
(***************************************************************************)
(* The requests of the SDK that wait for the board's answer: the posture   *)
(* and brake requests of Movement_Ctrl, obtain_control of Virtual_RC, and  *)
(* activation, calibration and the topics' rates of Telemetry.  Each is a  *)
(* loop around serialSend_ack; they differ in the answers that end the     *)
(* loop, in those that are a refusal, and in how often they try again.     *)
(*                                                                         *)
(* serialSend_ack recognises an answer by command set and id, so the       *)
(* answer to an earlier call that was given up can be taken for the answer *)
(* to this one: transform up, transform down, jump and dance share an id.  *)
(* Requests of different ids share neither answers nor data, so a          *)
(* behaviour is about the requests of one id, `cmd'.                       *)
(*                                                                         *)
(* The board is external: it works through the requests in order, carries  *)
(* each one out and confirms it, or does not and says something else.      *)
(* Requests are lost before it, answers after it.                          *)
(***************************************************************************)
EXTENDS Integers, Sequences, FiniteSetsExt

CONSTANTS
    Gives,      \* external: the answers the board gives to the requests of an id
    Topics,     \* the topics of a push
    Status,     \* TOPIC_STATUS
    Rates,      \* the rates a topic can be pushed at, per second
    NoChange,   \* OSDK_PUSH_DATA_NO_CHANGE
    Cost,       \* bits on the line for one push of a topic
    Bandwidth,  \* three quarters of the line's bits per second
    RcModes,    \* the values of ctrl_mode that the board reports
    RcLimit,    \* dropCtrlCnt's limit in Virtual_RC: 10
    MaxFlight   \* bound: requests, and answers, on their way

Ids == {"brake", "transform", "mode", "rc_authorize", "calibration", "activation", "frequency"}

\* The calls, by the command id of their request.
KindsOf(c) ==
    CASE c = "brake"        -> {"EmergencyBrake", "EmergencyBrakeRelease"}
      [] c = "transform"    -> {"TransformUp", "TransformDown", "Jump", "Dance"}
      [] c = "mode"         -> {"MovementMode"}
      [] c = "rc_authorize" -> {"ObtainRc", "ReleaseRc"}
      [] c = "calibration"  -> {"Calibration"}
      [] c = "activation"   -> {"Activate"}
      [] c = "frequency"    -> {"ConfigUpdate"}

Kinds == UNION {KindsOf(c) : c \in Ids}
NoKind == "none"

OSDK_ENABLE == 170
OSDK_DISABLE == 85
Acks == 0..65535
Unset == 65535    \* ack = -1

RcBits == {"own", "rc", "ownIdle", "rcIdle", "other"}
StatusFloor == 10    \* OSDK_PUSH_DATA_10Hz

ASSUME GivesAssumption == Gives \in [Ids -> SUBSET Acks]
ASSUME RatesAssumption == Rates \subseteq Nat /\ {0, StatusFloor} \subseteq Rates /\ NoChange \notin Rates
ASSUME TopicsAssumption == Status \in Topics /\ Cost \in [Topics -> Nat] /\ Bandwidth \in Nat
ASSUME RcAssumption == RcModes \subseteq SUBSET RcBits /\ RcLimit \in Nat
ASSUME FlightAssumption == MaxFlight \in Nat

Settings == [Topics -> Rates]
Selections == [Topics -> Rates \cup {NoChange}]

\* Mutant of Until: transform down waits for the answer that transform up waits for.
UntilPasted(k) ==
    CASE k \in {"TransformUp", "TransformDown", "Jump", "Dance"} -> {1}
      [] k \in {"EmergencyBrake", "Calibration"} -> {OSDK_ENABLE}
      [] k = "EmergencyBrakeRelease" -> {OSDK_DISABLE}
      [] k = "ObtainRc" -> {2}
      [] k = "MovementMode" -> {0}
      [] OTHER -> Acks

\* The answers that end a call's loop.  Activation and the topics' rates take any.
Until(k) ==
    CASE k \in {"TransformUp", "Jump", "Dance"} -> {1}
      [] k = "TransformDown" -> {0}
      [] k \in {"EmergencyBrake", "Calibration"} -> {OSDK_ENABLE}
      [] k = "EmergencyBrakeRelease" -> {OSDK_DISABLE}
      [] k = "ObtainRc" -> {2}
      [] k = "MovementMode" -> {0}
      [] OTHER -> Acks

\* External: the answers by which the board says that it has carried the request out.
\* Nothing is read from the one to ReleaseRc, so all that matters is what it looks like.
Confirms(k) ==
    CASE k \in {"TransformUp", "Jump", "Dance"} -> {1}
      [] k = "TransformDown" -> {0}
      [] k \in {"EmergencyBrake", "Calibration"} -> {OSDK_ENABLE}
      [] k = "EmergencyBrakeRelease" -> {OSDK_DISABLE}
      [] k = "ObtainRc" -> {2}
      [] k = "MovementMode" -> {0}
      [] OTHER -> Acks

\* What a call returns for an answer that is a refusal; 0 if it is none.
Refusal(k, a) ==
    CASE k \in {"TransformUp", "Jump", "Dance"} /\ a = 0 -> 255
      [] k = "TransformDown" /\ a = 1 -> 255
      [] k = "ObtainRc" /\ a \in {0, 10} -> 3
      [] k = "Calibration" /\ a \in {1, 2} -> a
      [] OTHER -> 0

\* How often a request is made that is not answered.
Attempts(k) == IF k = "Activate" THEN 3 ELSE IF k = "ConfigUpdate" THEN 5 ELSE 1

\* The calls that send nothing while another SDK controls the robot.
IdleKinds == {"TransformUp", "TransformDown", "MovementMode"}

VARIABLES
    cmd,        \* the command id the behaviour is about
    call,       \* the call that runs or, between calls, the last one
    at,         \* "idle", "send", "wait" for the answer, "judge" it, or "exited"
    ack,        \* the answer, while it is judged
    attempt,    \* the attempts made
    returned,   \* what the last call returned
    sent,       \* history: the call has made a request (and not returned before that)
    inbox,      \* requests on their way to the board
    outbox,     \* answers on their way back
    stale,      \* history: requests or answers of earlier calls were on their way at its start
    carried,    \* history: the board has carried out a request of this call
    frequency_flag,  \* Telemetry: the rates that the next configUpdate asks for
    msg,        \* the message of configUpdate
    bit_r,      \* the rates as they are accounted for, the low half of bit_r
    rates,      \* external: the rates the board pushes at
    sdk_id,     \* Telemetry::id
    rc_status,  \* Virtual_RC::ctrl_status
    rc_drop,    \* Virtual_RC::dropCtrlCnt
    rc_buffer,  \* Virtual_RC::idle_buffer
    rc_mode     \* telemetry->status.ctrl_mode

request == <<call, at, ack, attempt, returned, sent>>
line == <<inbox, outbox>>
history == <<stale, carried>>
topics == <<frequency_flag, msg, bit_r>>
rc == <<rc_status, rc_drop, rc_buffer, rc_mode>>
rq_vars == <<cmd, request, line, history, topics, rates, sdk_id, rc>>

\* The constructor clears six bytes of bit_r and sets three of the seven counts: the
\* others are whatever the memory held.
RQInit ==
    /\ cmd \in Ids
    /\ call = NoKind
    /\ at = "idle"
    /\ ack = Unset
    /\ attempt = 0
    /\ returned = 0
    /\ sent = FALSE
    /\ inbox = <<>>
    /\ outbox = <<>>
    /\ stale = FALSE
    /\ carried = FALSE
    /\ frequency_flag = [t \in Topics |-> NoChange]
    /\ msg = frequency_flag
    /\ bit_r \in {b \in Settings : b[Status] = StatusFloor}
    /\ rates \in {b \in Settings : b[Status] >= StatusFloor}
    /\ sdk_id = 255
    /\ rc_status = "RELEASED"
    /\ rc_drop = 0
    /\ rc_buffer = FALSE
    /\ rc_mode = {}

-----------------------------------------------------------------------------
(* A call *)

Others(items) == [i \in DOMAIN items |-> [items[i] EXCEPT !.own = FALSE]]

\* What is on its way when a call begins belongs to earlier calls.
NewCall(k) ==
    /\ call' = k
    /\ inbox' = Others(inbox)
    /\ outbox' = Others(outbox)
    /\ stale' = (inbox # <<>> \/ outbox # <<>>)
    /\ carried' = FALSE

\* The call's loop is entered.
Enter(k) ==
    /\ NewCall(k)
    /\ at' = "send"
    /\ attempt' = 1
    /\ sent' = TRUE
    /\ UNCHANGED <<ack, returned>>

\* The call returns before it has made a request.
ReturnAtOnce(k, r) ==
    /\ NewCall(k)
    /\ returned' = r
    /\ sent' = FALSE
    /\ UNCHANGED <<at, ack, attempt>>

\* A call returns r; configUpdate forgets the selection.
ReturnWith(r) ==
    /\ at' = "idle"
    /\ ack' = Unset
    /\ attempt' = 0
    /\ returned' = r
    /\ frequency_flag' = IF call = "ConfigUpdate" THEN [t \in Topics |-> NoChange]
                                                  ELSE frequency_flag

\* EmergencyBrake, EmergencyBrakeRelease, SendTransformUpCmd, SendTransformDownCmd,
\* SendJumpCmd, SendDanceCmd, SendMovementModeCtrlCmd, Calibration and activate.
Begin(k) ==
    /\ at = "idle"
    /\ k \in KindsOf(cmd) \ {"ObtainRc", "ReleaseRc", "ConfigUpdate"}
    /\ Enter(k)
    /\ UNCHANGED <<cmd, topics, rates, sdk_id, rc>>

\* Movement_Ctrl's ctrl_status is CTRL_IDLE (ControlAuthority says when, and has the
\* connection check of the first such call): nothing is sent and 0 is returned.
SkipWhileIdle(k) ==
    /\ at = "idle"
    /\ k \in KindsOf(cmd) \cap IdleKinds
    /\ ReturnAtOnce(k, 0)
    /\ UNCHANGED <<cmd, topics, rates, sdk_id, rc>>

\* serialSend: the request is on the line and reaches the board or does not.
SendRequest ==
    /\ at = "send"
    /\ at' = "wait"
    /\ \/ UNCHANGED inbox
       \/ /\ Len(inbox) < MaxFlight
          /\ inbox' = Append(inbox, [kind |-> call, own |-> TRUE, msg |-> msg])
    /\ UNCHANGED <<cmd, call, ack, attempt, returned, sent, outbox, history, topics, rates,
                   sdk_id, rc>>

\* serialSend_ack takes an answer of the id.
TakeAnswer ==
    /\ at = "wait"
    /\ outbox # <<>>
    /\ ack' = Head(outbox).val
    /\ outbox' = Tail(outbox)
    /\ at' = "judge"
    /\ UNCHANGED <<cmd, call, attempt, returned, sent, inbox, history, topics, rates, sdk_id, rc>>

\* Mutant of Fail: the result of serialSend_ack is not looked at, and the loop goes on.
FailIgnored(r) ==
    /\ at' = "send"
    /\ UNCHANGED <<ack, attempt, returned, frequency_flag>>

\* serialSend_ack returns r # 0: the call tries again or returns the same.
Fail(r) ==
    \/ /\ attempt < Attempts(call)
       /\ attempt' = attempt + 1
       /\ at' = "send"
       /\ UNCHANGED <<ack, returned, frequency_flag>>
    \/ attempt >= Attempts(call) /\ ReturnWith(r)

\* serialSend fails: the frame is not sent, or torn.
RequestFails ==
    /\ at = "send"
    /\ Fail(1)
    /\ UNCHANGED <<cmd, call, sent, line, history, msg, bit_r, rates, sdk_id, rc>>

\* 300 ms without an answer.
AnswerTimeout ==
    /\ at = "wait"
    /\ Fail(2)
    /\ UNCHANGED <<cmd, call, sent, line, history, msg, bit_r, rates, sdk_id, rc>>

\* The answer ends the loop.  activate keeps it as the SDK's id, a byte, and
\* obtain_control counts as in control.
Succeed ==
    /\ at = "judge"
    /\ ack \in Until(call)
    /\ ReturnWith(0)
    /\ sdk_id' = IF call = "Activate" THEN ack % 256 ELSE sdk_id
    /\ rc_status' = IF call = "ObtainRc" THEN "OBTAINED" ELSE rc_status
    /\ rc_buffer' = (call = "ObtainRc" \/ rc_buffer)
    /\ UNCHANGED <<cmd, call, sent, line, history, msg, bit_r, rates, rc_drop, rc_mode>>

Refuse ==
    /\ at = "judge"
    /\ ack \notin Until(call)
    /\ Refusal(call, ack) # 0
    /\ ReturnWith(Refusal(call, ack))
    /\ UNCHANGED <<cmd, call, sent, line, history, msg, bit_r, rates, sdk_id, rc>>

\* Any other answer: the request is made again, without a limit.
AskAgain ==
    /\ at = "judge"
    /\ ack \notin Until(call)
    /\ Refusal(call, ack) = 0
    /\ at' = "send"
    /\ ack' = Unset
    /\ UNCHANGED <<cmd, call, attempt, returned, sent, line, history, topics, rates, sdk_id, rc>>

-----------------------------------------------------------------------------
(* Telemetry: configTopic and configUpdate *)

\* A rate is selected; below 10 Hz it is refused for the status.
ConfigTopic(t, f) ==
    /\ cmd = "frequency"
    /\ at = "idle"
    /\ t = Status /\ f # NoChange => f >= StatusFloor
    /\ frequency_flag' = [frequency_flag EXCEPT ![t] = f]
    /\ UNCHANGED <<cmd, request, line, history, msg, bit_r, rates, sdk_id, rc>>

\* The counts after an update: a topic that keeps its rate counts as nothing.
Accounted(f) == [t \in Topics |-> IF f[t] = NoChange THEN 0 ELSE f[t]]

calculatebitrate(b) == MapThenSumSet(LAMBDA t : Cost[t] * b[t], Topics)

\* Mutant of ConfigUpdate: the bandwidth is not looked at.
ConfigUpdateUnchecked ==
    /\ cmd = "frequency"
    /\ at = "idle"
    /\ Enter("ConfigUpdate")
    /\ msg' = frequency_flag
    /\ bit_r' = Accounted(frequency_flag)
    /\ UNCHANGED <<cmd, frequency_flag, rates, sdk_id, rc>>

\* The selection fits the line and is sent, up to five times; bit_r has changed by then.
ConfigUpdate ==
    /\ cmd = "frequency"
    /\ at = "idle"
    /\ calculatebitrate(Accounted(frequency_flag)) <= Bandwidth
    /\ Enter("ConfigUpdate")
    /\ msg' = frequency_flag
    /\ bit_r' = Accounted(frequency_flag)
    /\ UNCHANGED <<cmd, frequency_flag, rates, sdk_id, rc>>

\* It does not: bit_r is restored and the selection dropped.
ConfigUpdateTooMuch ==
    /\ cmd = "frequency"
    /\ at = "idle"
    /\ calculatebitrate(Accounted(frequency_flag)) > Bandwidth
    /\ ReturnAtOnce("ConfigUpdate", 1)
    /\ frequency_flag' = [t \in Topics |-> NoChange]
    /\ UNCHANGED <<cmd, msg, bit_r, rates, sdk_id, rc>>

-----------------------------------------------------------------------------
(* Virtual_RC *)

\* obtain_control: nothing to do in control (5), the end of the program if
\* Movement_Ctrl has it, else the loop.
ObtainRc ==
    /\ cmd = "rc_authorize"
    /\ at = "idle"
    /\ \/ rc_status \in {"OBTAINED", "IDLE"} /\ ReturnAtOnce("ObtainRc", 5)
       \/ /\ rc_status = "RELEASED"
          /\ rc_mode \cap {"own", "ownIdle"} # {}
          /\ at' = "exited"
          /\ UNCHANGED <<call, ack, attempt, returned, sent, line, history>>
       \/ /\ rc_status = "RELEASED"
          /\ rc_mode \cap {"own", "ownIdle"} = {}
          /\ Enter("ObtainRc")
    /\ UNCHANGED <<cmd, topics, rates, sdk_id, rc>>

\* release_control does not wait for the answer, which the board owes all the same.
\* (Its connection check is RcDisconnect.)
ReleaseRc ==
    /\ cmd = "rc_authorize"
    /\ at = "idle"
    /\ call' = "ReleaseRc"
    /\ returned' = 0
    /\ sent' = FALSE
    /\ \/ inbox' = Others(inbox)
       \/ /\ Len(inbox) < MaxFlight
          /\ inbox' = Append(Others(inbox), [kind |-> "ReleaseRc", own |-> FALSE, msg |-> msg])
    /\ outbox' = Others(outbox)
    /\ stale' = TRUE
    /\ carried' = FALSE
    /\ rc_status' = "RELEASED"
    /\ UNCHANGED <<cmd, at, ack, attempt, topics, rates, sdk_id, rc_drop, rc_buffer, rc_mode>>

\* SendVirtualRCCmd while another SDK has control checks the connection once;
\* otherwise it sends the channels.
SendVirtualRCCmd ==
    /\ cmd = "rc_authorize"
    /\ at = "idle"
    /\ rc_status = "IDLE"
    /\ rc_buffer
    /\ rc_buffer' = FALSE
    /\ UNCHANGED <<cmd, request, line, history, topics, rates, sdk_id, rc_status, rc_drop, rc_mode>>

\* SerialDisconnectHandle, when a connection check of any thread has failed.
RcDisconnect ==
    /\ cmd = "rc_authorize"
    /\ at # "exited"
    /\ rc_status' = "RELEASED"
    /\ rc_mode' = {}
    /\ UNCHANGED <<cmd, request, line, history, topics, rates, sdk_id, rc_drop, rc_buffer>>

\* CtrlStatusMonitorHandle of Virtual_RC.  Unlike Movement_Ctrl's it counts the silent
\* pushes whether in control or not.
RcMonitor(m) ==
    \/ "rc" \in m /\ rc_status' = "OBTAINED" /\ rc_drop' = 0
    \/ /\ "rc" \notin m /\ "rcIdle" \in m
       /\ rc_status' = IF m \cap {"own", "rc", "other"} # {} THEN "IDLE" ELSE "RELEASED"
       /\ rc_drop' = 0
    \/ /\ m \cap {"rc", "rcIdle"} = {} /\ rc_drop > RcLimit
       /\ rc_status' = "RELEASED"
       /\ UNCHANGED rc_drop
    \/ /\ m \cap {"rc", "rcIdle"} = {} /\ rc_drop <= RcLimit
       /\ rc_drop' = rc_drop + 1
       /\ UNCHANGED rc_status

\* A pushed status is copied and evaluated; a failed connection check of another thread
\* may clear the copy in between, and then the cleared one is evaluated.
RcPush(m) ==
    /\ cmd = "rc_authorize"
    /\ at # "exited"
    /\ rc_mode' \in {m, {}}
    /\ RcMonitor(rc_mode')
    /\ UNCHANGED <<cmd, request, line, history, topics, rates, sdk_id, rc_buffer>>

Exited == at = "exited" /\ UNCHANGED rq_vars

-----------------------------------------------------------------------------
(* The board *)

\* The oldest request is dealt with: carried out and confirmed, or answered otherwise.
\* The answer is lost on its way or not.
Board(v) ==
    /\ inbox # <<>>
    /\ at # "exited"
    /\ inbox' = Tail(inbox)
    /\ v \in Gives[cmd]
    /\ LET r == Head(inbox) IN
        /\ carried' = (carried \/ (r.own /\ v \in Confirms(r.kind)))
        /\ rates' = IF r.kind = "ConfigUpdate"
                    THEN [t \in Topics |-> IF r.msg[t] = NoChange THEN rates[t] ELSE r.msg[t]]
                    ELSE rates
        /\ \/ UNCHANGED outbox
           \/ /\ Len(outbox) < MaxFlight
              /\ outbox' = Append(outbox, [val |-> v, own |-> r.own])
    /\ UNCHANGED <<cmd, request, stale, topics, sdk_id, rc>>

\* An answer that nobody has taken yet is overwritten in the receive slot, or damaged.
AnswerLost ==
    /\ outbox # <<>>
    /\ at # "exited"
    /\ outbox' = Tail(outbox)
    /\ UNCHANGED <<cmd, request, inbox, history, topics, rates, sdk_id, rc>>

-----------------------------------------------------------------------------
Client ==
    \/ \E k \in Kinds : Begin(k) \/ SkipWhileIdle(k)
    \/ SendRequest
    \/ TakeAnswer
    \/ RequestFails
    \/ AnswerTimeout
    \/ Succeed
    \/ Refuse
    \/ AskAgain

Topic ==
    \/ \E t \in Topics, f \in Rates \cup {NoChange} : ConfigTopic(t, f)
    \/ ConfigUpdate
    \/ ConfigUpdateTooMuch

VirtualRc ==
    \/ ObtainRc
    \/ ReleaseRc
    \/ SendVirtualRCCmd
    \/ RcDisconnect
    \/ \E m \in RcModes : RcPush(m)

RQNext ==
    \/ Client
    \/ Topic
    \/ VirtualRc
    \/ \E v \in Gives[cmd] : Board(v)
    \/ AnswerLost
    \/ Exited

RQSpec == RQInit /\ [][RQNext]_rq_vars

\* A thread inside a call goes on; nothing is assumed of the board.
RQFairness == WF_rq_vars(SendRequest \/ RequestFails) /\ WF_rq_vars(AnswerTimeout)
                /\ WF_rq_vars(Succeed \/ Refuse \/ AskAgain)

RQFairSpec == RQSpec /\ RQFairness

-----------------------------------------------------------------------------
(* Properties *)

Requests == [kind : Kinds, own : BOOLEAN, msg : Selections]
Replies == [val : Acks, own : BOOLEAN]

CallTyped ==
    /\ cmd \in Ids
    /\ call \in KindsOf(cmd) \cup {NoKind}
    /\ at \in {"idle", "send", "wait", "judge", "exited"}
    /\ at \in {"send", "wait", "judge"} => call # NoKind /\ sent
    /\ ack \in Acks
    /\ attempt \in 0..5
    /\ returned \in 0..255
    /\ sent \in BOOLEAN

LineTyped ==
    /\ inbox \in Seq(Requests) /\ Len(inbox) <= MaxFlight
    /\ outbox \in Seq(Replies) /\ Len(outbox) <= MaxFlight
    /\ stale \in BOOLEAN
    /\ carried \in BOOLEAN

TelemetryTyped ==
    /\ frequency_flag \in Selections
    /\ msg \in Selections
    /\ bit_r \in Settings
    /\ rates \in Settings
    /\ sdk_id \in 0..255

RcTyped ==
    /\ rc_status \in {"RELEASED", "OBTAINED", "IDLE"}
    /\ rc_drop \in 0..(RcLimit + 1)
    /\ rc_buffer \in BOOLEAN
    /\ rc_mode \in RcModes \cup {{}}

RQTypeOK == CallTyped /\ LineTyped /\ TelemetryTyped /\ RcTyped

\* What is marked as this call's is: its request, with its message.
OwnIsOwn ==
    \A i \in DOMAIN inbox : inbox[i].own =>
        inbox[i].kind = call /\ sent /\ inbox[i].msg = msg

\* A call that found nothing on its way meets only its own requests and answers.
FreshLine ==
    ~stale =>
        /\ \A i \in DOMAIN inbox : inbox[i].own
        /\ \A i \in DOMAIN outbox : outbox[i].own

\* A confirmation of this call's, on its way or taken, has been earned.
ConfirmedIsCarried ==
    /\ \A i \in DOMAIN outbox : outbox[i].own /\ outbox[i].val \in Confirms(call) => carried
    /\ at = "judge" /\ ~stale /\ ack \in Confirms(call) => carried

\* The counts are those of the last message, which fits the line ...
Counted ==
    call = "ConfigUpdate" /\ sent =>
        bit_r = Accounted(msg) /\ calculatebitrate(bit_r) <= Bandwidth

\* ... and the board has it once it has carried it out.
Applied ==
    call = "ConfigUpdate" /\ sent /\ ~stale /\ carried =>
        \A t \in Topics : msg[t] # NoChange => rates[t] = msg[t]

\* A call that has made requests reports success (0) only if the board has carried one
\* of them out, provided that nothing of an earlier call with its id was on its way
\* when it began: an answer is recognised by its id, not by SEQ (osdk_hal.hpp 147).
\* Without that provision it is false: transform down takes the late refusal of a
\* transform up for its own success.
SuccessMeansCarried ==
    at = "idle" /\ call # NoKind /\ sent /\ returned = 0 /\ ~stale => carried

RQIInv ==
    /\ RQTypeOK
    /\ OwnIsOwn
    /\ FreshLine
    /\ ConfirmedIsCarried
    /\ Counted
    /\ Applied
    /\ SuccessMeansCarried

\* After a successful configUpdate the topics it named are pushed at the rates that bit_r
\* accounts for, and if it named all of them they fit three quarters of the line
\* (osdk_telemetry.cpp 167 "guarantee the serial port could handle the data").  A topic
\* that keeps its rate is accounted for as nothing, so otherwise they need not.
RatesAgree ==
    at = "idle" /\ call = "ConfigUpdate" /\ sent /\ returned = 0 /\ ~stale =>
        /\ \A t \in Topics : msg[t] # NoChange => rates[t] = msg[t] /\ bit_r[t] = msg[t]
        /\ (\A t \in Topics : msg[t] # NoChange) => calculatebitrate(rates) <= Bandwidth

\* Calls end, unless the board gives answers that the call does not know for ever.
RequestsEnd ==
    \/ []<>(at \in {"idle", "exited"})
    \/ []<>(at = "judge" /\ ack \notin Until(call) /\ Refusal(call, ack) = 0)
=============================================================================
