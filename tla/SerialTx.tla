------------------------------ MODULE SerialTx ------------------------------
(***************************************************************************)
(* The transmit side of the hardware layer (HAL / HAL_Pi in osdk_hal.cpp): *)
(* the threads of the node call serialSend, and TXMonitorProcess, a thread *)
(* of its own, paces them.  A frame is handed to the tty byte by byte with *)
(* serial_tx_mtx held; the monitor then sleeps for the time the frame      *)
(* needs on the line and declares the line idle again.                     *)
(*                                                                         *)
(* Time is counted in character times (Tick): the UART shifts one          *)
(* character out of the tty buffer per tick and the monitor's sleep counts *)
(* down.  serial_tx_duration is size*10/br + 2e-4 s, that is, the frame's  *)
(* characters plus a Margin (2e-4 s are 9 characters at 460800 baud).      *)
(* serial_seq only labels frames and is not modelled.                      *)
(***************************************************************************)
EXTENDS Integers, FiniteSets

CONSTANTS
    Senders,     \* the threads that call serialSend
    Lens,        \* the lengths a frame may have, in characters
    Margin,      \* the slack of serial_tx_duration, in characters
    TtyBuffer,   \* characters the tty accepts before WriteChar blocks
    NoThread     \* "nobody", as a value of `holder'

ASSUME SendersAssumption == NoThread \notin Senders
ASSUME LensAssumption == Lens \subseteq Nat \ {0}
ASSUME MarginAssumption == Margin \in Nat
ASSUME TtyAssumption == TtyBuffer \in Nat \ {0}

VARIABLES
    serial_tx_idle,     \* the flag the condition variable is about
    serial_tx_duration, \* the sleep the last packed frame asks for
    holder,             \* the sender inside serialSend's write loop: it holds serial_tx_mtx
    pc,                 \* where each sender is
    notified,           \* the threads of serial_tx_cond that have been woken
    monitor,            \* where TXMonitorProcess is
    sleepLeft,          \* what is left of the monitor's sleep
    frame,              \* length of the frame being written
    sent,               \* characters of it handed to the tty so far
    uart,               \* characters in the tty that are not yet on the line
    torn                \* history: `uart' holds characters of a frame whose write failed

vars == <<serial_tx_idle, serial_tx_duration, holder, pc, notified, monitor,
          sleepLeft, frame, sent, uart, torn>>

TXMonitor == "TXMonitorProcess"
Threads == Senders \cup {TXMonitor}

Init ==
    /\ serial_tx_idle = TRUE
    /\ serial_tx_duration = 0
    /\ holder = NoThread
    /\ pc = [s \in Senders |-> "ready"]
    /\ notified = {}
    /\ monitor = "lock"
    /\ sleepLeft = 0
    /\ frame = 0
    /\ sent = 0
    /\ uart = 0
    /\ torn = FALSE

-----------------------------------------------------------------------------
(* serialSend *)

\* Mutant of BeginFrame: the monitor is left with the duration of the last frame.
BeginFrameOldDuration(s, len) ==
    /\ holder' = s
    /\ pc' = [pc EXCEPT ![s] = "write"]
    /\ frame' = len
    /\ sent' = 0
    /\ serial_tx_idle' = FALSE
    /\ notified' = Threads
    /\ UNCHANGED <<serial_tx_duration, monitor, sleepLeft, uart, torn>>

\* Past the wait: pack the frame, raise serial_tx_duration, clear the idle flag
\* and wake the waiting threads; the mutex is kept for the write loop.
BeginFrame(s, len) ==
    /\ holder' = s
    /\ pc' = [pc EXCEPT ![s] = "write"]
    /\ frame' = len
    /\ sent' = 0
    /\ serial_tx_duration' = len + Margin
    /\ serial_tx_idle' = FALSE
    /\ notified' = Threads
    /\ UNCHANGED <<monitor, sleepLeft, uart, torn>>

\* A thread calls serialSend and asks for serial_tx_mtx.
Call(s) ==
    /\ pc[s] = "ready"
    /\ pc' = [pc EXCEPT ![s] = "lock"]
    /\ UNCHANGED <<serial_tx_idle, serial_tx_duration, holder, notified, monitor,
                   sleepLeft, frame, sent, uart, torn>>

\* Mutant of Pack: the idle flag is not looked at.
PackUnchecked(s, len) ==
    /\ pc[s] = "lock"
    /\ holder = NoThread
    /\ BeginFrame(s, len)

\* It has the mutex: on an idle line it packs its frame at once.
Pack(s, len) ==
    /\ pc[s] = "lock"
    /\ holder = NoThread
    /\ serial_tx_idle
    /\ BeginFrame(s, len)

\* On a busy line it waits on serial_tx_cond, which releases the mutex.
Wait(s) ==
    /\ pc[s] = "lock"
    /\ holder = NoThread
    /\ ~serial_tx_idle
    /\ pc' = [pc EXCEPT ![s] = "wait"]
    /\ notified' = notified \ {s}
    /\ UNCHANGED <<serial_tx_idle, serial_tx_duration, holder, monitor,
                   sleepLeft, frame, sent, uart, torn>>

\* Woken, or at the end of the 100 ms, it has the mutex again and finds the line idle.
WaitDone(s, len) ==
    /\ pc[s] = "wait"
    /\ holder = NoThread
    /\ serial_tx_idle
    /\ BeginFrame(s, len)

\* Woken, but another thread has taken the line first: it waits on.
WaitAgain(s) ==
    /\ pc[s] = "wait"
    /\ s \in notified
    /\ holder = NoThread
    /\ ~serial_tx_idle
    /\ notified' = notified \ {s}
    /\ UNCHANGED <<serial_tx_idle, serial_tx_duration, holder, pc, monitor,
                   sleepLeft, frame, sent, uart, torn>>

\* Mutant of WaitTimeout: a wait without a time limit.
WaitTimeoutNever(s) == pc[s] = "wait" /\ FALSE /\ UNCHANGED vars

\* The 100 ms are over and the line is still busy: serialSend returns 1.
WaitTimeout(s) ==
    /\ pc[s] = "wait"
    /\ holder = NoThread
    /\ ~serial_tx_idle
    /\ pc' = [pc EXCEPT ![s] = "ready"]
    /\ UNCHANGED <<serial_tx_idle, serial_tx_duration, holder, notified, monitor,
                   sleepLeft, frame, sent, uart, torn>>

\* mySerial.WriteChar(serial_txbuf[i]); it blocks while the tty is full.
WriteChar(s) ==
    /\ holder = s
    /\ sent < frame
    /\ uart < TtyBuffer
    /\ sent' = sent + 1
    /\ uart' = uart + 1
    /\ UNCHANGED <<serial_tx_idle, serial_tx_duration, holder, pc, notified,
                   monitor, sleepLeft, frame, torn>>

\* The loop is over: serialSend returns 0 and its guard releases the mutex.
WriteDone(s) ==
    /\ holder = s
    /\ sent = frame
    /\ holder' = NoThread
    /\ pc' = [pc EXCEPT ![s] = "ready"]
    /\ UNCHANGED <<serial_tx_idle, serial_tx_duration, notified, monitor,
                   sleepLeft, frame, sent, uart, torn>>

\* WriteChar throws: the line is declared idle, the waiting threads are woken
\* and serialSend returns 1.  What was written stays in the tty.
WriteFail(s) ==
    /\ holder = s
    /\ sent < frame
    /\ serial_tx_idle' = TRUE
    /\ notified' = Threads
    /\ holder' = NoThread
    /\ pc' = [pc EXCEPT ![s] = "ready"]
    /\ torn' = (uart > 0)
    /\ UNCHANGED <<serial_tx_duration, monitor, sleepLeft, frame, sent, uart>>

-----------------------------------------------------------------------------
(* TXMonitorProcess *)

\* The monitor has the mutex and the line is idle: it waits for a frame.
MonitorWait ==
    /\ monitor = "lock"
    /\ holder = NoThread
    /\ serial_tx_idle
    /\ monitor' = "wait"
    /\ notified' = notified \ {TXMonitor}
    /\ UNCHANGED <<serial_tx_idle, serial_tx_duration, holder, pc, sleepLeft,
                   frame, sent, uart, torn>>

\* Nothing was sent (anything more) when it looks again: after a wakeup it waits
\* on, after the 100 ms it writes the idle flag and starts over.
MonitorIdle ==
    /\ monitor = "wait"
    /\ holder = NoThread
    /\ serial_tx_idle
    /\ \/ /\ TXMonitor \in notified
          /\ notified' = notified \ {TXMonitor}
          /\ UNCHANGED <<monitor, serial_tx_idle>>
       \/ /\ monitor' = "lock"
          /\ serial_tx_idle' = TRUE
          /\ UNCHANGED notified
    /\ UNCHANGED <<serial_tx_duration, holder, pc, sleepLeft, frame, sent, uart, torn>>

\* A frame is on its way: the monitor releases the mutex and sleeps.
MonitorSleep ==
    /\ monitor \in {"lock", "wait"}
    /\ holder = NoThread
    /\ ~serial_tx_idle
    /\ monitor' = "sleep"
    /\ sleepLeft' = serial_tx_duration
    /\ UNCHANGED <<serial_tx_idle, serial_tx_duration, holder, pc, notified,
                   frame, sent, uart, torn>>

\* Mutant of MonitorRelease: the waiting threads are woken but the flag stays down.
MonitorReleaseFlagless ==
    /\ monitor = "sleep"
    /\ sleepLeft = 0
    /\ holder = NoThread
    /\ notified' = Threads
    /\ monitor' = "lock"
    /\ UNCHANGED <<serial_tx_idle, serial_tx_duration, holder, pc, sleepLeft,
                   frame, sent, uart, torn>>

\* The sleep is over: the line is idle, and everybody who waits for it is woken.
MonitorRelease ==
    /\ monitor = "sleep"
    /\ sleepLeft = 0
    /\ holder = NoThread
    /\ serial_tx_idle' = TRUE
    /\ notified' = Threads
    /\ monitor' = "lock"
    /\ UNCHANGED <<serial_tx_duration, holder, pc, sleepLeft, frame, sent, uart, torn>>

-----------------------------------------------------------------------------
(* The UART and the clock *)

\* One character time passes.
Tick ==
    /\ uart > 0 \/ sleepLeft > 0
    /\ uart' = IF uart > 0 THEN uart - 1 ELSE 0
    /\ sleepLeft' = IF sleepLeft > 0 THEN sleepLeft - 1 ELSE 0
    /\ torn' = (torn /\ uart > 1)
    /\ UNCHANGED <<serial_tx_idle, serial_tx_duration, holder, pc, notified,
                   monitor, frame, sent>>

-----------------------------------------------------------------------------
\* A sender that asks for serial_tx_mtx, for the first time or again after a wait.
Acquire(s) ==
    \/ \E len \in Lens : Pack(s, len) \/ WaitDone(s, len)
    \/ Wait(s)
    \/ WaitAgain(s)
    \/ WaitTimeout(s)

Sender(s) ==
    \/ Call(s)
    \/ Acquire(s)
    \/ WriteChar(s)
    \/ WriteDone(s)
    \/ WriteFail(s)

Monitor == MonitorWait \/ MonitorIdle \/ MonitorSleep \/ MonitorRelease

Next == (\E s \in Senders : Sender(s)) \/ Monitor \/ Tick

Spec == Init /\ [][Next]_vars

\* A thread inside serialSend keeps running; one that asks for the mutex again
\* and again gets it eventually, though not on an idle line: others may always be
\* first.  The 100 ms of a wait pass, the clock runs, and so does the monitor.
Fairness ==
    /\ WF_vars(Tick)
    /\ SF_vars(MonitorSleep)
    /\ SF_vars(MonitorRelease)
    /\ \A s \in Senders :
        /\ SF_vars(Acquire(s))
        /\ SF_vars(WaitTimeout(s))
        /\ WF_vars(WriteChar(s))
        /\ WF_vars(WriteDone(s))

FairSpec == Spec /\ Fairness

-----------------------------------------------------------------------------
(* Properties *)

TypeOK ==
    /\ serial_tx_idle \in BOOLEAN
    /\ serial_tx_duration \in Nat
    /\ holder \in Senders \cup {NoThread}
    /\ pc \in [Senders -> {"ready", "lock", "wait", "write"}]
    /\ notified \subseteq Threads
    /\ monitor \in {"lock", "wait", "sleep"}
    /\ sleepLeft \in Nat
    /\ frame \in Nat
    /\ sent \in Nat
    /\ uart \in Nat
    /\ torn \in BOOLEAN

\* Pacing: whenever the line is declared idle every character of the frames
\* written before has left the tty, so the next frame does not queue up behind an
\* old one.  The exception is what a failed write left behind, which the code
\* does not wait for.
PacedLine == serial_tx_idle /\ ~torn => uart = 0

\* The monitor never sleeps while a frame is being written: its sleep covers one
\* whole frame, the one serial_tx_duration was computed from.
SleepCoversOneFrame == monitor = "sleep" => holder = NoThread /\ ~serial_tx_idle

\* What makes PacedLine inductive: the write loop runs only on a busy line and the
\* frame written so far bounds the tty; once it is written the monitor's sleep,
\* planned or running, is at least as long as what is left in the tty.
WriterOwnsLine ==
    /\ \A s \in Senders : holder = s <=> pc[s] = "write"
    /\ holder # NoThread =>
        /\ ~serial_tx_idle
        /\ monitor # "sleep"
        /\ sent <= frame
        /\ serial_tx_duration = frame + Margin
        /\ ~torn => uart <= sent

MonitorOutlastsTty ==
    /\ monitor = "sleep" /\ ~torn => uart <= sleepLeft
    /\ ~serial_tx_idle /\ holder = NoThread /\ monitor # "sleep" /\ ~torn
          => uart <= serial_tx_duration

IInv ==
    /\ TypeOK
    /\ WriterOwnsLine
    /\ SleepCoversOneFrame
    /\ MonitorOutlastsTty
    /\ PacedLine

\* A busy line becomes idle again: the monitor never misses a frame, even when it
\* was not waiting on serial_tx_cond as the frame was announced.
LineFreed == ~serial_tx_idle ~> serial_tx_idle

\* Every serialSend returns, whoever else competes for the line.
SendReturns == \A s \in Senders : pc[s] = "lock" ~> pc[s] = "ready"
=============================================================================
