------------------------ MODULE ControlAuthorityProofs ------------------------
(***************************************************************************)
(* Proofs about ControlAuthority, for every board, every limit and every   *)
(* set of senders: the types, the count of pushes that showed no bit of    *)
(* ours, and that control is lost for a cause only.                        *)
(***************************************************************************)
EXTENDS ControlAuthority, TLAPS

PCs == {"idle", "authorize", "answer", "granted", "check", "lost"}

\* TypeOK in four parts, one for each kind of variable.
BoardTyped == /\ mode \in BoardModes
              /\ link \in BOOLEAN
              /\ push \in BoardModes \cup {NoFrame}
              /\ reply \in Answers \cup {NoFrame}
AuthorityTyped == /\ ctrl_status \in {"RELEASED", "OBTAINED", "IDLE"}
                  /\ idle_buffer \in BOOLEAN
                  /\ status_mode \in BoardModes \cup {{}}
                  /\ taken \in BoardModes \cup {NoFrame}
                  /\ running \in {"up", "closing", "exited"}
CountersTyped == /\ dropCtrlCnt \in 0..(DropLimit + 1)
                 /\ misses \in 0..MissCap
                 /\ attempts \in 0..MaxAttempts
ThreadsTyped == /\ pc \in [Threads -> PCs]
                /\ tries \in [Threads -> 0..CheckAttempts]

LEMMA TypeParts ==
    /\ BoardTyped /\ AuthorityTyped /\ CountersTyped /\ ThreadsTyped => TypeOK
    /\ (BoardTyped /\ AuthorityTyped /\ CountersTyped /\ ThreadsTyped)' => TypeOK'
BY DEF TypeOK, BoardTyped, AuthorityTyped, CountersTyped, ThreadsTyped, PCs

LEMMA CallbackIsThread == "callback" \in Threads /\ "connect_monitor" \in Threads
BY DEF Threads

\* Nothing is controlled, counted or running at first.
LEMMA AuthorityInit == Init => IInv
<1> SUFFICES ASSUME Init
             PROVE  IInv
  OBVIOUS
<1>1. BoardTyped
  BY DEF Init, BoardTyped
<1>2. AuthorityTyped
  BY DEF Init, AuthorityTyped
<1>3. CountersTyped
  BY LimitsAssumption DEF Init, CountersTyped, MissCap
<1>4. ThreadsTyped
  BY LimitsAssumption DEF Init, ThreadsTyped, PCs
<1>5. CountedMisses /\ CopyOrCleared
  BY DEF Init, CountedMisses, CopyOrCleared
<1> QED
  BY <1>1, <1>2, <1>3, <1>4, <1>5, TypeParts DEF IInv

\* Moving a thread on keeps the program counters typed.
LEMMA GotoTyped ==
    ASSUME pc \in [Threads -> PCs], NEW t, NEW where \in PCs, Goto(t, where)
    PROVE  pc' \in [Threads -> PCs]
BY DEF Goto

\* The end of a connection check keeps the threads and the flags typed.
LEMMA CheckDoneTyped ==
    ASSUME TypeOK, NEW t \in Threads, CheckDone(t)
    PROVE  ThreadsTyped' /\ idle_buffer' \in BOOLEAN /\ running' \in {"up", "closing", "exited"}
<1>1. pc' \in [Threads -> PCs]
  BY GotoTyped DEF CheckDone, TypeOK, PCs
<1>2. tries' \in [Threads -> 0..CheckAttempts]
  BY LimitsAssumption DEF CheckDone, TypeOK
<1>3. idle_buffer' \in BOOLEAN
  BY DEF CheckDone, TypeOK
<1>4. running' \in {"up", "closing", "exited"}
  BY DEF CheckDone, TypeOK
<1> QED
  BY <1>1, <1>2, <1>3, <1>4 DEF ThreadsTyped

\* Another attempt of a connection check keeps the attempts typed.
LEMMA NextTryTyped ==
    ASSUME TypeOK, NEW t \in Threads, tries[t] + 1 < CheckAttempts, NextTry(t)
    PROVE  tries' \in [Threads -> 0..CheckAttempts]
BY LimitsAssumption DEF NextTry, TypeOK

-----------------------------------------------------------------------------
\* The board, the line and the callback's calls keep the types; of the counters
\* they touch only the attempts.
LEMMA BoardIInv == ASSUME IInv, Board PROVE IInv'
<1>1. UNCHANGED <<authority, status_mode, handling, pc, attempts, tries, running>>
  BY DEF Board, BoardChange, LinkChange, BoardPush, FrameLost
<1>2. BoardTyped'
  BY DEF IInv, TypeOK, BoardTyped, Board, BoardChange, LinkChange, BoardPush, FrameLost
<1>3. AuthorityTyped' /\ CountersTyped' /\ ThreadsTyped' /\ CountedMisses' /\ CopyOrCleared'
  BY <1>1 DEF IInv, TypeOK, AuthorityTyped, CountersTyped, ThreadsTyped, CountedMisses,
              CopyOrCleared, authority, handling, PCs, MissCap
<1> QED
  BY <1>2, <1>3, TypeParts DEF IInv

LEMMA CallbackIInv == ASSUME IInv, Callback PROVE IInv'
<1> USE CallbackIsThread
<1>1. BoardTyped'
  BY DEF IInv, TypeOK, BoardTyped, board, Answers, Callback, ObtainControl, AuthorizeRequest,
         AuthorizeAnswer, AuthorizeTimeout, Obtained, ReleaseControl
<1>2. AuthorityTyped'
  BY DEF IInv, TypeOK, AuthorityTyped, authority, handling, Callback, ObtainControl, AuthorizeRequest,
         AuthorizeAnswer, AuthorizeTimeout, Obtained, ReleaseControl
<1>3. UNCHANGED <<dropCtrlCnt, misses, status_mode, taken>>
  BY DEF authority, handling, Callback, ObtainControl, AuthorizeRequest, AuthorizeAnswer,
         AuthorizeTimeout, Obtained, ReleaseControl
<1>4. attempts' \in 0..MaxAttempts
  BY LimitsAssumption
     DEF IInv, TypeOK, LeaveObtain, Callback, ObtainControl, AuthorizeRequest,
         AuthorizeAnswer, AuthorizeTimeout, Obtained, ReleaseControl
<1>5. CountersTyped' /\ CountedMisses' /\ CopyOrCleared'
  BY <1>3, <1>4 DEF IInv, TypeOK, CountersTyped, CountedMisses, CopyOrCleared, MissCap
<1>6. ThreadsTyped'
  <2>1. pc' \in [Threads -> PCs]
    <3>1. pc' = pc \/ \E where \in PCs : Goto("callback", where)
      BY DEF PCs, LeaveObtain, StartCheck, Callback, ObtainControl, AuthorizeRequest,
             AuthorizeAnswer, AuthorizeTimeout, Obtained, ReleaseControl
    <3> QED
      BY <3>1, GotoTyped DEF IInv, TypeOK, PCs
  <2>2. tries' = tries
    BY DEF StartCheck, Callback, ObtainControl, AuthorizeRequest,
           AuthorizeAnswer, AuthorizeTimeout, Obtained, ReleaseControl
  <2> QED
    BY <2>1, <2>2 DEF IInv, TypeOK, ThreadsTyped
<1> QED
  BY <1>1, <1>2, <1>5, <1>6, TypeParts DEF IInv

\* A connection check, whoever makes it, leaves the board and the counters alone, and
\* writes nothing to the node's copy of the status but zeros.
LEMMA CheckIInv ==
    ASSUME IInv, NEW t \in Threads, Check(t) \/ ConnectMonitor
    PROVE  IInv'
<1> USE CallbackIsThread
<1>1. UNCHANGED <<board, dropCtrlCnt, handling, attempts>>
  BY DEF board, authority, handling, Check, ConnectMonitor, SendWhileIdle, CheckAnswered,
         CheckMisanswered, CheckUnanswered, Disconnect
<1>2. BoardTyped' /\ CountersTyped' /\ CountedMisses'
  BY <1>1 DEF IInv, TypeOK, BoardTyped, CountersTyped, CountedMisses, board, handling, MissCap
<1>3. CopyOrCleared'
  <2>1. status_mode' = status_mode \/ status_mode' = {}
    BY DEF Check, ConnectMonitor, SendWhileIdle, CheckAnswered, CheckMisanswered,
           CheckUnanswered, Disconnect
  <2> QED
    BY <1>1, <2>1 DEF IInv, CopyOrCleared, handling
<1>4. AuthorityTyped' /\ ThreadsTyped'
  <2> USE DEF IInv
  <2> taken' = taken
    BY <1>1 DEF handling
  <2>1. CASE ConnectMonitor \/ SendWhileIdle(t)
    <3>1. \E u \in Threads : Goto(u, "check") /\ UNCHANGED tries
      BY <2>1 DEF ConnectMonitor, SendWhileIdle, StartCheck
    <3>2. UNCHANGED <<authority, status_mode, running>>
      BY <2>1 DEF ConnectMonitor, SendWhileIdle
    <3>3. ThreadsTyped'
      BY <3>1, GotoTyped DEF ThreadsTyped, TypeOK, PCs
    <3> QED
      BY <3>2, <3>3 DEF AuthorityTyped, TypeOK, authority
  <2>2. CASE CheckAnswered(t)
    BY <2>2, CheckDoneTyped DEF CheckAnswered, AuthorityTyped, TypeOK
  <2>3. CASE CheckMisanswered(t)
    <3>1. UNCHANGED <<ctrl_status, status_mode>>
      BY <2>3 DEF CheckMisanswered
    <3>2. CASE tries[t] + 1 < CheckAttempts
      BY <2>3, <3>1, <3>2, NextTryTyped
         DEF CheckMisanswered, AuthorityTyped, ThreadsTyped, TypeOK, PCs
    <3>3. CASE ~(tries[t] + 1 < CheckAttempts)
      BY <2>3, <3>1, <3>3, CheckDoneTyped DEF CheckMisanswered, AuthorityTyped, TypeOK
    <3> QED
      BY <3>2, <3>3
  <2>4. CASE CheckUnanswered(t)
    <3>1. UNCHANGED <<authority, running>>
      BY <2>4 DEF CheckUnanswered
    <3>2. CASE tries[t] + 1 < CheckAttempts
      BY <2>4, <3>1, <3>2, NextTryTyped
         DEF CheckUnanswered, AuthorityTyped, ThreadsTyped, TypeOK, PCs, authority
    <3>3. CASE ~(tries[t] + 1 < CheckAttempts)
      <4>1. Goto(t, "lost") /\ status_mode' = {} /\ UNCHANGED tries
        BY <2>4, <3>3 DEF CheckUnanswered
      <4>2. ThreadsTyped'
        BY <4>1, GotoTyped DEF ThreadsTyped, TypeOK, PCs
      <4> QED
        BY <3>1, <4>1, <4>2 DEF AuthorityTyped, TypeOK, authority
    <3> QED
      BY <3>2, <3>3
  <2>5. CASE Disconnect(t)
    BY <2>5, CheckDoneTyped DEF Disconnect, AuthorityTyped, TypeOK
  <2> QED
    BY <2>1, <2>2, <2>3, <2>4, <2>5 DEF Check
<1> QED
  BY <1>2, <1>3, <1>4, TypeParts DEF IInv

\* Copying a push counts nothing.
LEMMA CopyIInv == ASSUME IInv, SerialHandleCopy PROVE IInv'
<1>1. push \in BoardModes
  BY DEF IInv, TypeOK, SerialHandleCopy
<1>2. BoardTyped' /\ AuthorityTyped' /\ CountersTyped' /\ ThreadsTyped'
  BY <1>1 DEF IInv, TypeOK, SerialHandleCopy, BoardTyped, AuthorityTyped, CountersTyped,
              ThreadsTyped, PCs, authority, MissCap
<1>3. CountedMisses' /\ CopyOrCleared'
  BY DEF IInv, SerialHandleCopy, CountedMisses, CopyOrCleared, authority
<1> QED
  BY <1>2, <1>3, TypeParts DEF IInv

\* A value with no bit of ours comes from a push that was silent or cleared.
LEMMA SilentIsMissed ==
    ASSUME Silent(status_mode)
    PROVE  Missed
BY DEF Missed

\* Such a push adds at most one to each count, any other restarts the node's count: so
\* the node's count stays behind.
LEMMA MonitorIInv == ASSUME IInv, SerialHandleMonitor PROVE IInv'
<1>1. BoardTyped'
  BY DEF IInv, TypeOK, SerialHandleMonitor, BoardTyped, board
<1>2. AuthorityTyped'
  BY DEF IInv, TypeOK, SerialHandleMonitor, CtrlStatusMonitorHandle, AuthorityTyped
<1>3. misses' \in 0..MissCap /\ (Silent(status_mode) => misses' = MissCap \/ misses' = misses + 1)
  BY SilentIsMissed, LimitsAssumption DEF IInv, TypeOK, SerialHandleMonitor, MissCap
<1>4. dropCtrlCnt' \in 0..(DropLimit + 1) /\ dropCtrlCnt' <= misses'
  <2>1. dropCtrlCnt \in 0..(DropLimit + 1) /\ misses \in 0..MissCap /\ dropCtrlCnt <= misses
    BY DEF IInv, TypeOK, CountedMisses
  <2>2. \/ dropCtrlCnt' = 0
        \/ Silent(status_mode) /\ dropCtrlCnt' = dropCtrlCnt
        \/ Silent(status_mode) /\ dropCtrlCnt <= DropLimit /\ dropCtrlCnt' = dropCtrlCnt + 1
    BY DEF SerialHandleMonitor, CtrlStatusMonitorHandle
  <2> QED
    BY <1>3, <2>1, <2>2, LimitsAssumption DEF MissCap
<1>5. CountersTyped' /\ CountedMisses' /\ CopyOrCleared'
  BY <1>3, <1>4 DEF IInv, TypeOK, SerialHandleMonitor, CountersTyped, CountedMisses,
                    CopyOrCleared, MissCap
<1>6. ThreadsTyped'
  BY DEF IInv, TypeOK, SerialHandleMonitor, ThreadsTyped, PCs
<1> QED
  BY <1>1, <1>2, <1>5, <1>6, TypeParts DEF IInv

LEMMA AuthorityStep == IInv /\ [Next]_vars => IInv'
<1> SUFFICES ASSUME IInv, [Next]_vars
             PROVE  IInv'
  OBVIOUS
<1>1. CASE Board
  BY <1>1, BoardIInv
<1>2. CASE Callback
  BY <1>2, CallbackIInv
<1>3. CASE ConnectMonitor \/ \E t \in Threads : Check(t)
  BY <1>3, CheckIInv, CallbackIsThread
<1>4. CASE SerialHandle
  BY <1>4, CopyIInv, MonitorIInv DEF SerialHandle
<1>5. CASE Exited \/ UNCHANGED vars
  <2>1. UNCHANGED vars
    BY <1>5 DEF Exited
  <2>2. /\ BoardTyped' /\ AuthorityTyped' /\ CountersTyped' /\ ThreadsTyped'
        /\ CountedMisses' /\ CopyOrCleared'
    BY <2>1 DEF IInv, TypeOK, BoardTyped, AuthorityTyped, CountersTyped, ThreadsTyped,
                CountedMisses, CopyOrCleared, vars, PCs, MissCap
  <2> QED
    BY <2>2, TypeParts DEF IInv
<1> QED
  BY <1>1, <1>2, <1>3, <1>4, <1>5 DEF Next

\* The invariant of ControlAuthority holds for every board and every limit.
THEOREM AuthorityInvariant == Spec => []IInv
BY AuthorityInit, AuthorityStep, PTL DEF Spec

\* Every variable of ControlAuthority keeps its type; in particular dropCtrlCnt never
\* passes the limit of CtrlStatusMonitorHandle by more than one.
THEOREM AuthorityTypeCorrect == Spec => []TypeOK
<1>1. IInv => TypeOK
  BY DEF IInv
<1> QED
  BY <1>1, AuthorityInvariant, PTL

\* dropCtrlCnt is at most the number of pushes in a row that carried no bit of ours or
\* were cleared by a failed connection check before CtrlStatusMonitorHandle saw them,
\* although the counter is left at its limit when control is dropped.
THEOREM AuthorityCountedMisses == Spec => []CountedMisses
<1>1. IInv => CountedMisses
  BY DEF IInv
<1> QED
  BY <1>1, AuthorityInvariant, PTL

-----------------------------------------------------------------------------
\* AuthorityLostForCause as a formula about one step.
LostForCause ==
    ctrl_status = "OBTAINED" /\ ctrl_status' # "OBTAINED" =>
        \/ \E t \in Threads : pc[t] = "lost"
        \/ running' = "closing"
        \/ taken # NoFrame /\ "ownIdle" \in taken
        \/ misses' >= DropLimit + 2

\* Of the steps that change ctrl_status only SerialHandle's need an argument: an idle bit
\* in the copy is the push's, and a drop takes a full count, and then so many pushes have
\* been silent or cleared.
LEMMA LostStep == IInv /\ [Next]_vars => LostForCause
<1> SUFFICES ASSUME IInv, [Next]_vars, ctrl_status = "OBTAINED", ctrl_status' # "OBTAINED"
             PROVE  \/ \E t \in Threads : pc[t] = "lost"
                    \/ running' = "closing"
                    \/ taken # NoFrame /\ "ownIdle" \in taken
                    \/ misses' >= DropLimit + 2
  BY DEF LostForCause
<1>1. \/ SerialHandleMonitor
      \/ ReleaseControl
      \/ \E t \in Threads : Disconnect(t)
  BY DEF Next, vars, Board, BoardChange, LinkChange, BoardPush, FrameLost, authority,
         Callback, ObtainControl, AuthorizeRequest, AuthorizeAnswer, AuthorizeTimeout,
         Obtained, ConnectMonitor, Check, SendWhileIdle, CheckAnswered, CheckMisanswered,
         CheckUnanswered, SerialHandle, SerialHandleCopy, Exited
<1>2. CASE ReleaseControl
  BY <1>2 DEF ReleaseControl
<1>3. CASE \E t \in Threads : Disconnect(t)
  BY <1>3 DEF Disconnect
<1>4. CASE SerialHandleMonitor
  <2>1. \/ "ownIdle" \in status_mode
        \/ Silent(status_mode) /\ dropCtrlCnt > DropLimit
    BY <1>4 DEF SerialHandleMonitor, CtrlStatusMonitorHandle
  <2>2. CASE "ownIdle" \in status_mode
    BY <1>4, <2>2 DEF SerialHandleMonitor, IInv, CopyOrCleared
  <2>3. CASE Silent(status_mode) /\ dropCtrlCnt > DropLimit
    <3>1. misses \in Nat /\ misses >= DropLimit + 1
      BY <2>3, LimitsAssumption DEF IInv, TypeOK, CountedMisses, MissCap
    <3>2. misses' = IF misses < DropLimit + 2 THEN misses + 1 ELSE misses
      BY <1>4, <2>3, SilentIsMissed DEF SerialHandleMonitor, MissCap
    <3> QED
      BY <3>1, <3>2, LimitsAssumption
  <2> QED
    BY <2>1, <2>2, <2>3
<1> QED
  BY <1>1, <1>2, <1>3, <1>4

\* Control is lost for a cause only, whatever the interleaving of obtain_control, the
\* connection checks and the two steps of SerialHandle, between which a failed check may
\* clear the status.
THEOREM AuthorityNeverLostSilently == Spec => AuthorityLostForCause
<1>1. [Next]_vars /\ IInv => [LostForCause]_vars
  BY LostStep
<1> QED
  BY <1>1, AuthorityInvariant, PTL DEF Spec, AuthorityLostForCause, LostForCause
=============================================================================
