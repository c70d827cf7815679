--------------------------- MODULE SerialTxProofs ---------------------------
(***************************************************************************)
(* Proofs about SerialTx, for every set of senders, every set of frame     *)
(* lengths, every margin and every tty size.                               *)
(***************************************************************************)
EXTENDS SerialTx, TLAPS

\* The initial state of HAL_Pi::init satisfies the inductive invariant.
LEMMA InitIInv == Init => IInv
<1> SUFFICES ASSUME Init
             PROVE  IInv
  OBVIOUS
<1>1. TypeOK
  BY DEF Init, TypeOK
<1>2. WriterOwnsLine
  BY SendersAssumption DEF Init, WriterOwnsLine
<1>3. SleepCoversOneFrame /\ MonitorOutlastsTty /\ PacedLine
  BY DEF Init, SleepCoversOneFrame, MonitorOutlastsTty, PacedLine
<1> QED
  BY <1>1, <1>2, <1>3 DEF IInv

\* Packing a frame on an idle line preserves the invariant: the tty is empty
\* then, unless a failed write left something in it.
LEMMA BeginFrameIInv ==
    ASSUME IInv, NEW s \in Senders, NEW len \in Lens,
           holder = NoThread, serial_tx_idle, BeginFrame(s, len)
    PROVE  IInv'
<1> USE SendersAssumption, LensAssumption, MarginAssumption DEF IInv, BeginFrame
<1>0. len \in Nat
  OBVIOUS
<1>1. TypeOK'
  <2>1. pc' \in [Senders -> {"ready", "lock", "wait", "write"}]
    BY DEF TypeOK
  <2>2. notified' \subseteq Threads'
    BY DEF Threads, TXMonitor
  <2>3. serial_tx_duration' \in Nat
    BY <1>0
  <2>4. serial_tx_idle' \in BOOLEAN /\ torn' \in BOOLEAN
    BY DEF TypeOK
  <2>5. frame' \in Nat /\ sent' \in Nat /\ sleepLeft' \in Nat /\ uart' \in Nat
    BY <1>0 DEF TypeOK
  <2>6. holder' \in Senders \cup {NoThread} /\ monitor' \in {"lock", "wait", "sleep"}
    BY DEF TypeOK
  <2> QED
    BY <2>1, <2>2, <2>3, <2>4, <2>5, <2>6 DEF TypeOK
<1>2. monitor # "sleep"
  BY DEF SleepCoversOneFrame
<1>3. WriterOwnsLine'
  BY <1>0, <1>2 DEF WriterOwnsLine, TypeOK, PacedLine
<1>4. SleepCoversOneFrame' /\ MonitorOutlastsTty' /\ PacedLine'
  BY <1>2 DEF SleepCoversOneFrame, MonitorOutlastsTty, PacedLine, TypeOK
<1> QED
  BY <1>1, <1>3, <1>4

\* Every step of a sender preserves the invariant.
LEMMA SenderIInv ==
    ASSUME IInv, NEW s \in Senders, Sender(s)
    PROVE  IInv'
<1> USE SendersAssumption, MarginAssumption DEF IInv
<1>1. CASE Call(s)
  BY <1>1 DEF Call, TypeOK, WriterOwnsLine, SleepCoversOneFrame,
              MonitorOutlastsTty, PacedLine
<1>2. CASE \E len \in Lens : Pack(s, len) \/ WaitDone(s, len)
  BY <1>2, BeginFrameIInv DEF Pack, WaitDone
<1>3. CASE Wait(s)
  BY <1>3 DEF Wait, TypeOK, WriterOwnsLine, SleepCoversOneFrame,
              MonitorOutlastsTty, PacedLine
<1>4. CASE WaitAgain(s)
  BY <1>4 DEF WaitAgain, TypeOK, WriterOwnsLine, SleepCoversOneFrame,
              MonitorOutlastsTty, PacedLine
<1>5. CASE WaitTimeout(s)
  BY <1>5 DEF WaitTimeout, TypeOK, WriterOwnsLine, SleepCoversOneFrame,
              MonitorOutlastsTty, PacedLine
<1>6. CASE WriteChar(s)
  BY <1>6 DEF WriteChar, TypeOK, WriterOwnsLine, SleepCoversOneFrame,
              MonitorOutlastsTty, PacedLine
<1>7. CASE WriteDone(s)
  BY <1>7 DEF WriteDone, TypeOK, WriterOwnsLine, SleepCoversOneFrame,
              MonitorOutlastsTty, PacedLine
<1>8. CASE WriteFail(s)
  <2> USE <1>8 DEF WriteFail
  <2>1. TypeOK'
    <3>1. pc' \in [Senders -> {"ready", "lock", "wait", "write"}]
      BY DEF TypeOK
    <3>2. notified' \subseteq Threads'
      BY DEF Threads, TXMonitor
    <3>3. torn' \in BOOLEAN
      BY DEF TypeOK
    <3> QED
      BY <3>1, <3>2, <3>3 DEF TypeOK
  <2>2. WriterOwnsLine'
    BY DEF TypeOK, WriterOwnsLine
  <2>3. ~torn' => uart' = 0
    <3>1. CASE uart > 0
      BY <3>1
    <3>2. CASE ~(uart > 0)
      BY <3>2 DEF TypeOK
    <3> QED
      BY <3>1, <3>2
  <2>4. monitor' # "sleep"
    BY DEF WriterOwnsLine
  <2>5. SleepCoversOneFrame' /\ MonitorOutlastsTty' /\ PacedLine'
    BY <2>3, <2>4 DEF SleepCoversOneFrame, MonitorOutlastsTty, PacedLine
  <2> QED
    BY <2>1, <2>2, <2>5
<1> QED
  BY <1>1, <1>2, <1>3, <1>4, <1>5, <1>6, <1>7, <1>8 DEF Sender, Acquire

\* Every step of TXMonitorProcess preserves the invariant.
LEMMA MonitorIInv ==
    ASSUME IInv, Monitor
    PROVE  IInv'
<1> USE MarginAssumption DEF IInv
<1>1. CASE MonitorWait
  BY <1>1 DEF MonitorWait, TypeOK, WriterOwnsLine, SleepCoversOneFrame,
              MonitorOutlastsTty, PacedLine
<1>2. CASE MonitorIdle
  BY <1>2 DEF MonitorIdle, TypeOK, WriterOwnsLine, SleepCoversOneFrame,
              MonitorOutlastsTty, PacedLine
<1>3. CASE MonitorSleep
  BY <1>3 DEF MonitorSleep, TypeOK, WriterOwnsLine, SleepCoversOneFrame,
              MonitorOutlastsTty, PacedLine
<1>4. CASE MonitorRelease
  BY <1>4 DEF MonitorRelease, TypeOK, WriterOwnsLine, SleepCoversOneFrame,
              MonitorOutlastsTty, PacedLine, Threads, TXMonitor
<1> QED
  BY <1>1, <1>2, <1>3, <1>4 DEF Monitor

\* So does the clock.
LEMMA TickIInv ==
    ASSUME IInv, Tick
    PROVE  IInv'
BY DEF Tick, IInv, TypeOK, WriterOwnsLine, SleepCoversOneFrame,
       MonitorOutlastsTty, PacedLine

\* IInv is an inductive invariant of the transmit side.
THEOREM TxInvariant == Spec => []IInv
<1>1. IInv /\ [Next]_vars => IInv'
  <2> SUFFICES ASSUME IInv, [Next]_vars
               PROVE  IInv'
    OBVIOUS
  <2>1. CASE \E s \in Senders : Sender(s)
    BY <2>1, SenderIInv
  <2>2. CASE Monitor
    BY <2>2, MonitorIInv
  <2>3. CASE Tick
    BY <2>3, TickIInv
  <2>4. CASE UNCHANGED vars
    BY <2>4 DEF vars, IInv, TypeOK, WriterOwnsLine, SleepCoversOneFrame,
                MonitorOutlastsTty, PacedLine
  <2> QED
    BY <2>1, <2>2, <2>3, <2>4 DEF Next
<1> QED
  BY <1>1, InitIInv, PTL DEF Spec

\* Every variable of the transmit side keeps its type.
THEOREM TxTypeCorrect == Spec => []TypeOK
<1>1. IInv => TypeOK
  BY DEF IInv
<1> QED
  BY <1>1, TxInvariant, PTL

\* The line is never declared idle while a completely written frame is still in
\* the tty, whatever the frame lengths and however the threads interleave.
THEOREM TxPaced == Spec => []PacedLine
<1>1. IInv => PacedLine
  BY DEF IInv
<1> QED
  BY <1>1, TxInvariant, PTL

\* The monitor's sleep never overlaps a write loop.
THEOREM TxSleepCoversOneFrame == Spec => []SleepCoversOneFrame
<1>1. IInv => SleepCoversOneFrame
  BY DEF IInv
<1> QED
  BY <1>1, TxInvariant, PTL
=============================================================================
