------------------------------ MODULE SerialRx ------------------------------
(***************************************************************************)
(* The receive side of the hardware layer: RXMonitorProcess reads frames   *)
(* into serial_rxbuf, a single slot guarded by serial_rx_mtx, and wakes    *)
(* the threads that wait for one: the callers of serialSend_ack, each for  *)
(* the answer to its command, and Telemetry::SerialHandle for pushed data. *)
(* A waiting thread recognises its frame by command set and id only        *)
(* (verifyRXType) and then marks the slot as used.                         *)
(*                                                                         *)
(* A command set and id is one value here.  The controller board is        *)
(* external: it answers requests late, damaged or not at all, and pushes   *)
(* data whenever it likes.  RXMonitorProcess holds serial_rx_mtx from the  *)
(* first byte of a body to the notification, so receiving a frame is one   *)
(* step; SerialHandle holds it while it processes a push.                  *)
(***************************************************************************)
EXTENDS Naturals

CONSTANTS
    Callers,   \* threads that call serialSend_ack
    Cmds,      \* commands that are answered with an ACK frame
    Push,      \* OSDK_DATA_SET / OSDK_PUSH_DATA_ID
    NoCmd,     \* -1, or any set and id nobody waits for
    MaxOwed    \* bound: answers the board may owe for one command

ASSUME CmdsAssumption == Push \notin Cmds /\ NoCmd \notin Cmds /\ Push # NoCmd
ASSUME OwedAssumption == MaxOwed \in Nat

VARIABLES
    rx_cmd,         \* command set and id in the slot
    rx_sound,       \* history: the frame in the slot passed verify_crc16
    rx_taken,       \* history: it has been handed to a thread
    owed,           \* external: answers the board has not sent yet
    pc,             \* where each caller is
    want,           \* the command whose answer it waits for, NoCmd outside serialSend_ack
    result,         \* what its last serialSend_ack returned
    ack_notified,   \* callers woken through serial_rx_ack_cond
    tele,           \* where SerialHandle is
    data_notified,  \* it has been woken through serial_rx_data_cond
    push_sound,     \* history: the push being processed had passed verify_crc16
    alive           \* the process has not been terminated

vars == <<rx_cmd, rx_sound, rx_taken, owed, pc, want, result, ack_notified,
          tele, data_notified, push_sound, alive>>

slot == <<rx_cmd, rx_sound, rx_taken>>
callers == <<pc, want, result>>
telemetry == <<tele, data_notified, push_sound>>

Init ==
    /\ rx_cmd = NoCmd
    /\ rx_sound = TRUE
    /\ rx_taken = FALSE
    /\ owed = [k \in Cmds |-> 0]
    /\ pc = [c \in Callers |-> "idle"]
    /\ want = [c \in Callers |-> NoCmd]
    /\ result = [c \in Callers |-> 0]
    /\ ack_notified = {}
    /\ tele = "lock"
    /\ data_notified = FALSE
    /\ push_sound = TRUE
    /\ alive = TRUE

\* serial_rx_mtx can be taken: SerialHandle keeps it while it processes a push.
MutexFree == alive /\ tele # "process"

\* The callers that wait on serial_rx_ack_cond: notify_all wakes them all.
Waiting == {c \in Callers : pc[c] = "wait"}

\* verifyRXType
Matches(k) == rx_cmd = k

\* Mutant of MarkUsed: the frame stays recognisable.
MarkUsedNot == rx_taken' = TRUE /\ UNCHANGED <<rx_cmd, rx_sound>>

\* A thread takes the frame in the slot and marks command set and id invalid.
MarkUsed ==
    /\ rx_cmd' = NoCmd
    /\ rx_taken' = TRUE
    /\ UNCHANGED rx_sound

-----------------------------------------------------------------------------
(* RXMonitorProcess *)

\* The board sends a frame: an answer it owes, or a push.
Sent(k) ==
    \/ k = Push /\ UNCHANGED owed
    \/ k \in Cmds /\ owed[k] > 0 /\ owed' = [owed EXCEPT ![k] = @ - 1]

\* Mutant of RxSound: answers are announced on the condition variable of the data.
RxSoundWrongCond(k) ==
    /\ MutexFree
    /\ Sent(k)
    /\ rx_cmd' = k /\ rx_sound' = TRUE /\ rx_taken' = FALSE
    /\ data_notified' = (tele = "wait")
    /\ UNCHANGED <<ack_notified, pc, want, result, tele, push_sound, alive>>

\* Mutant of RxSound: the body is read without serial_rx_mtx.
RxSoundUnlocked(k) ==
    /\ alive
    /\ Sent(k)
    /\ rx_cmd' = k /\ rx_sound' = TRUE /\ rx_taken' = FALSE
    /\ \/ k # Push /\ ack_notified' = Waiting /\ UNCHANGED data_notified
       \/ k = Push /\ data_notified' = (tele = "wait") /\ UNCHANGED ack_notified
    /\ UNCHANGED <<callers, tele, push_sound, alive>>

\* A good frame fills the slot, whatever was in it; its ACK bit chooses whom to wake.
RxSound(k) ==
    /\ MutexFree
    /\ Sent(k)
    /\ rx_cmd' = k /\ rx_sound' = TRUE /\ rx_taken' = FALSE
    /\ \/ k # Push /\ ack_notified' = Waiting /\ UNCHANGED data_notified
       \/ k = Push /\ data_notified' = (tele = "wait") /\ UNCHANGED ack_notified
    /\ UNCHANGED <<callers, tele, push_sound, alive>>

\* A frame with a good header and a damaged body fills the slot as well; the
\* bytes of its command may be among the damaged ones.  Nobody is woken.
RxCorrupt(k, m) ==
    /\ MutexFree
    /\ Sent(k)
    /\ rx_cmd' = m /\ rx_sound' = FALSE /\ rx_taken' = FALSE
    /\ UNCHANGED <<callers, ack_notified, telemetry, alive>>

\* A frame with a bad header, or none at all: the slot is left alone.
RxLost(k) ==
    /\ alive
    /\ k # Push
    /\ Sent(k)
    /\ UNCHANGED <<slot, callers, ack_notified, telemetry, alive>>

\* ReadChar fails inside a body: the loop unlocks serial_rx_mtx and goes on, and
\* the second unlock of the released lock throws out of the thread.
RxBodyReadFails ==
    /\ MutexFree
    /\ alive' = FALSE
    /\ UNCHANGED <<slot, owed, callers, ack_notified, telemetry>>

-----------------------------------------------------------------------------
(* serialSend_ack *)

Return(c, r) ==
    /\ pc' = [pc EXCEPT ![c] = "idle"]
    /\ result' = [result EXCEPT ![c] = r]
    /\ want' = [want EXCEPT ![c] = NoCmd]
    /\ ack_notified' = ack_notified \ {c}

TakeAck(c) == MarkUsed /\ Return(c, 0)

\* serialSend fails: no answer is waited for.
SendFails(c) ==
    /\ alive
    /\ pc[c] = "idle"
    /\ Return(c, 1)
    /\ UNCHANGED <<slot, owed, telemetry, alive>>

\* The request is on the line; it may be lost on its way to the board.
Send(c, k) ==
    /\ alive
    /\ pc[c] = "idle"
    /\ pc' = [pc EXCEPT ![c] = "sent"]
    /\ want' = [want EXCEPT ![c] = k]
    /\ \/ owed[k] < MaxOwed /\ owed' = [owed EXCEPT ![k] = @ + 1]
       \/ UNCHANGED owed
    /\ result' = [result EXCEPT ![c] = 0]
    /\ UNCHANGED <<slot, ack_notified, telemetry, alive>>

\* Mutant of AckWait: wait_for without its first look at the slot.
AckWaitBlind(c) ==
    /\ MutexFree
    /\ pc[c] = "sent"
    /\ pc' = [pc EXCEPT ![c] = "wait"]
    /\ UNCHANGED <<slot, ack_notified, owed, want, result, telemetry, alive>>

\* The caller has serial_rx_mtx and looks at the slot before it waits.
AckWait(c) ==
    /\ MutexFree
    /\ pc[c] = "sent"
    /\ \/ Matches(want[c]) /\ TakeAck(c)
       \/ /\ ~Matches(want[c])
          /\ pc' = [pc EXCEPT ![c] = "wait"]
          /\ UNCHANGED <<slot, ack_notified, want, result>>
    /\ UNCHANGED <<owed, telemetry, alive>>

\* It has been woken and looks at the slot again.
AckWoken(c) ==
    /\ MutexFree
    /\ pc[c] = "wait"
    /\ c \in ack_notified
    /\ \/ Matches(want[c]) /\ TakeAck(c)
       \/ /\ ~Matches(want[c])
          /\ ack_notified' = ack_notified \ {c}
          /\ UNCHANGED <<slot, callers>>
    /\ UNCHANGED <<owed, telemetry, alive>>

\* Mutant of AckTimeout: the wait has no time limit.
AckTimeoutNever(c) == pc[c] = "wait" /\ FALSE /\ UNCHANGED vars

\* The 300 ms are over: a last look at the slot decides.
AckTimeout(c) ==
    /\ MutexFree
    /\ pc[c] = "wait"
    /\ \/ Matches(want[c]) /\ TakeAck(c)
       \/ ~Matches(want[c]) /\ Return(c, 2) /\ UNCHANGED slot
    /\ UNCHANGED <<owed, telemetry, alive>>

-----------------------------------------------------------------------------
(* Telemetry::SerialHandle and serialWaitRXDataS *)

TakePush ==
    /\ Matches(Push)
    /\ MarkUsed
    /\ tele' = "process"
    /\ push_sound' = rx_sound
    /\ data_notified' = FALSE

\* SerialHandle has serial_rx_mtx and looks at the slot before it waits.
DataWait ==
    /\ MutexFree
    /\ tele = "lock"
    /\ \/ TakePush
       \/ /\ ~Matches(Push)
          /\ tele' = "wait"
          /\ UNCHANGED <<slot, data_notified, push_sound>>
    /\ UNCHANGED <<owed, callers, ack_notified, alive>>

\* It has been woken and looks again.
DataWoken ==
    /\ MutexFree
    /\ tele = "wait"
    /\ data_notified
    /\ \/ TakePush
       \/ ~Matches(Push) /\ data_notified' = FALSE /\ UNCHANGED <<slot, tele, push_sound>>
    /\ UNCHANGED <<owed, callers, ack_notified, alive>>

\* A second has passed: a last look, then NULL, and the loop starts over.
DataTimeout ==
    /\ MutexFree
    /\ tele = "wait"
    /\ \/ TakePush
       \/ /\ ~Matches(Push)
          /\ tele' = "lock"
          /\ data_notified' = FALSE
          /\ UNCHANGED <<slot, push_sound>>
    /\ UNCHANGED <<owed, callers, ack_notified, alive>>

\* The push is processed; the end of the loop body releases serial_rx_mtx.
Processed ==
    /\ alive
    /\ tele = "process"
    /\ tele' = "lock"
    /\ push_sound' = TRUE
    /\ UNCHANGED <<slot, owed, callers, ack_notified, data_notified, alive>>

-----------------------------------------------------------------------------
Receive ==
    \/ \E k \in Cmds \cup {Push} :
        \/ RxSound(k)
        \/ \E m \in Cmds \cup {Push, NoCmd} : RxCorrupt(k, m)
        \/ RxLost(k)
    \/ RxBodyReadFails

Caller(c) ==
    \/ SendFails(c)
    \/ \E k \in Cmds : Send(c, k)
    \/ AckWait(c)
    \/ AckWoken(c)
    \/ AckTimeout(c)

SerialHandle == DataWait \/ DataWoken \/ DataTimeout \/ Processed

\* std::terminate has ended the process.
Terminated == ~alive /\ UNCHANGED vars

Next == Receive \/ (\E c \in Callers : Caller(c)) \/ SerialHandle \/ Terminated

Spec == Init /\ [][Next]_vars

\* Threads keep running and, asking often enough, get the mutex.  Nothing is
\* assumed of the board.
Fairness ==
    /\ WF_vars(Processed)
    /\ \A c \in Callers : SF_vars(AckWait(c)) /\ SF_vars(AckTimeout(c))

FairSpec == Spec /\ Fairness

-----------------------------------------------------------------------------
(* Properties *)

TypeOK ==
    /\ rx_cmd \in Cmds \cup {Push, NoCmd}
    /\ rx_sound \in BOOLEAN
    /\ rx_taken \in BOOLEAN
    /\ owed \in [Cmds -> 0..MaxOwed]
    /\ pc \in [Callers -> {"idle", "sent", "wait"}]
    /\ want \in [Callers -> Cmds \cup {NoCmd}]
    /\ result \in [Callers -> {0, 1, 2}]
    /\ ack_notified \subseteq Waiting
    /\ tele \in {"lock", "wait", "process"}
    /\ data_notified \in BOOLEAN
    /\ push_sound \in BOOLEAN
    /\ alive \in BOOLEAN

\* No lost wakeup: a thread that waits while a good frame for it lies in the slot
\* has been woken, in whatever order the answer, the wait and the other threads'
\* requests came.
AckWakeup ==
    \A c \in Callers : pc[c] = "wait" /\ rx_sound /\ Matches(want[c]) => c \in ack_notified
DataWakeup == tele = "wait" /\ rx_sound /\ Matches(Push) => data_notified
NoLostWakeup == AckWakeup /\ DataWakeup

\* A frame is handed to one thread at most, once: two threads that wait for the
\* same command never both count the same answer as theirs.
HandedOutOnce == rx_taken => rx_cmd = NoCmd

\* What makes the two inductive: a caller inside serialSend_ack, and no other, wants a
\* real command, so an emptied slot matches nobody.
WaitingWants == \A c \in Callers : pc[c] # "idle" <=> want[c] \in Cmds

IInv == TypeOK /\ WaitingWants /\ NoLostWakeup /\ HandedOutOnce

\* Every serialSend_ack returns, unless the process is gone.
CallReturns == \A c \in Callers : pc[c] = "sent" ~> (pc[c] = "idle" \/ ~alive)

\* The mutex, the condition variables and the looks at the slot implement the contract
\* AnswerSlot, in which a call takes its answer or gives up in one step: what the clients
\* of serialSend_ack (ControlAuthority, BoardRequests) take it for (osdk_hal.cpp 34-59).
Contract == INSTANCE AnswerSlot
                WITH slot <- rx_cmd, handling <- (tele = "process"), asked <- want
KeepsContract == Contract!Spec

\* serialWaitRXDataS returns no packet that failed the CRC16 verification: what
\* the comment in serialWaitRXDataS says.
PushesAreSound == tele = "process" => push_sound
=============================================================================
