--------------------------- MODULE SerialRxProofs ---------------------------
(***************************************************************************)
(* Proofs about the answers of the board: first about SerialRx, which      *)
(* hands them to the callers of serialSend_ack, for every set of callers   *)
(* and commands; then about BoardRequests, the calls that wait for them,   *)
(* for every board, all topics and rates.                                  *)
(***************************************************************************)
EXTENDS SerialRx, BoardRequests, TLAPS

\* The slot starts empty and nobody waits.
LEMMA RxInit == Init => IInv
<1> SUFFICES ASSUME Init
             PROVE  IInv
  OBVIOUS
<1>1. TypeOK
  <2>1. owed \in [Cmds -> 0..MaxOwed]
    BY OwedAssumption DEF Init
  <2>2. /\ pc \in [Callers -> {"idle", "sent", "wait"}]
        /\ want \in [Callers -> Cmds \cup {NoCmd}]
        /\ result \in [Callers -> {0, 1, 2}]
    BY DEF Init
  <2>3. rx_sound \in BOOLEAN /\ rx_taken \in BOOLEAN /\ data_notified \in BOOLEAN
    BY DEF Init
  <2>4. push_sound \in BOOLEAN /\ alive \in BOOLEAN
    BY DEF Init
  <2> QED
    BY <2>1, <2>2, <2>3, <2>4 DEF Init, TypeOK
<1>2. NoLostWakeup
  BY DEF Init, NoLostWakeup, AckWakeup, DataWakeup
<1>3. HandedOutOnce /\ WaitingWants
  BY CmdsAssumption DEF Init, HandedOutOnce, WaitingWants
<1> QED
  BY <1>1, <1>2, <1>3 DEF IInv

\* The board's answers stay within the bound.
LEMMA SentOwed ==
    ASSUME TypeOK, NEW k, Sent(k)
    PROVE  owed' \in [Cmds -> 0..MaxOwed]
BY OwedAssumption DEF TypeOK, Sent

\* Every step of RXMonitorProcess preserves the invariant: a good frame wakes
\* the threads that wait, a damaged one is not good.
LEMMA ReceiveIInv ==
    ASSUME IInv, Receive
    PROVE  IInv'
<1> USE DEF IInv, slot, callers, telemetry
<1>1. ASSUME NEW k \in Cmds \cup {Push}, RxSound(k)
      PROVE  IInv'
  <2>1. TypeOK'
    <3>1. owed' \in [Cmds -> 0..MaxOwed]
      BY <1>1, SentOwed DEF RxSound
    <3>2. ack_notified' \subseteq Waiting'
      BY <1>1 DEF RxSound, TypeOK, Waiting
    <3>3. data_notified' \in BOOLEAN
      BY <1>1 DEF RxSound, TypeOK
    <3>4. rx_cmd' \in Cmds \cup {Push, NoCmd} /\ rx_sound' \in BOOLEAN /\ rx_taken' \in BOOLEAN
      BY <1>1 DEF RxSound
    <3>5. UNCHANGED <<pc, want, result, tele, push_sound, alive>>
      BY <1>1 DEF RxSound
    <3> QED
      BY <3>1, <3>2, <3>3, <3>4, <3>5 DEF TypeOK
  <2>2. NoLostWakeup'
    <3>1. CASE k # Push
      <4>1. ack_notified' = Waiting /\ pc' = pc /\ rx_cmd' # Push
        BY <1>1, <3>1 DEF RxSound
      <4> QED
        BY <4>1 DEF NoLostWakeup, AckWakeup, DataWakeup, Matches, Waiting
    <3>2. CASE k = Push
      <4>1. /\ data_notified' = (tele = "wait")
            /\ rx_cmd' = Push
            /\ UNCHANGED <<pc, want, tele>>
        BY <1>1, <3>2 DEF RxSound
      <4>2. AckWakeup'
        BY <4>1, CmdsAssumption DEF AckWakeup, WaitingWants, Matches
      <4>3. DataWakeup'
        BY <4>1 DEF DataWakeup
      <4> QED
        BY <4>2, <4>3 DEF NoLostWakeup
    <3> QED
      BY <3>1, <3>2
  <2>3. HandedOutOnce' /\ WaitingWants'
    BY <1>1 DEF RxSound, HandedOutOnce, WaitingWants
  <2> QED
    BY <2>1, <2>2, <2>3
<1>2. ASSUME NEW k \in Cmds \cup {Push}, NEW m \in Cmds \cup {Push, NoCmd}, RxCorrupt(k, m)
      PROVE  IInv'
  <2> USE <1>2 DEF RxCorrupt
  <2>1. TypeOK'
    BY SentOwed DEF TypeOK, Waiting
  <2>2. NoLostWakeup' /\ HandedOutOnce' /\ WaitingWants'
    BY DEF NoLostWakeup, AckWakeup, DataWakeup, HandedOutOnce, WaitingWants
  <2> QED
    BY <2>1, <2>2
<1>3. ASSUME NEW k \in Cmds \cup {Push}, RxLost(k)
      PROVE  IInv'
  <2> USE <1>3 DEF RxLost
  <2>1. TypeOK'
    BY SentOwed DEF TypeOK, Waiting
  <2>2. NoLostWakeup' /\ HandedOutOnce' /\ WaitingWants'
    BY DEF NoLostWakeup, AckWakeup, DataWakeup, Matches, HandedOutOnce, WaitingWants
  <2> QED
    BY <2>1, <2>2
<1>4. CASE RxBodyReadFails
  BY <1>4 DEF RxBodyReadFails, TypeOK, Waiting, NoLostWakeup, AckWakeup, DataWakeup,
              Matches, HandedOutOnce, WaitingWants
<1> QED
  BY <1>1, <1>2, <1>3, <1>4 DEF Receive

\* Taking an answer preserves the invariant: the emptied slot owes nobody a wakeup.
LEMMA TakeAckIInv ==
    ASSUME IInv, NEW c \in Callers, TakeAck(c),
           UNCHANGED <<owed, tele, data_notified, push_sound, alive>>
    PROVE  IInv'
<1> USE DEF IInv
<1>1. TypeOK'
  <2>1. /\ pc' \in [Callers -> {"idle", "sent", "wait"}]
        /\ want' \in [Callers -> Cmds \cup {NoCmd}]
        /\ result' \in [Callers -> {0, 1, 2}]
    BY DEF TypeOK, TakeAck, Return
  <2>2. ack_notified' \subseteq Waiting'
    BY DEF TypeOK, Waiting, TakeAck, Return
  <2>3. rx_cmd' = NoCmd /\ rx_sound' \in BOOLEAN /\ rx_taken' \in BOOLEAN
    BY DEF TakeAck, MarkUsed, TypeOK
  <2> QED
    BY <2>1, <2>2, <2>3 DEF TypeOK
<1>2. NoLostWakeup'
  <2>1. rx_cmd' = NoCmd
    BY DEF TakeAck, MarkUsed
  <2>2. \A d \in Callers : pc'[d] = "wait" => want'[d] = want[d]
    BY DEF TakeAck, Return, TypeOK
  <2>3. AckWakeup'
    <3> SUFFICES ASSUME NEW d \in Callers, pc'[d] = "wait", rx_sound', Matches(want[d])'
                 PROVE  d \in ack_notified'
      BY DEF AckWakeup
    <3>1. d # c /\ pc[d] = "wait"
      BY DEF TakeAck, Return, TypeOK
    <3> QED
      BY <2>1, <2>2, <3>1, CmdsAssumption DEF Matches, WaitingWants
  <2>4. DataWakeup'
    BY <2>1, CmdsAssumption DEF DataWakeup, Matches
  <2> QED
    BY <2>3, <2>4 DEF NoLostWakeup
<1>3. HandedOutOnce' /\ WaitingWants'
  BY CmdsAssumption DEF HandedOutOnce, WaitingWants, TakeAck, MarkUsed, Return, TypeOK
<1> QED
  BY <1>1, <1>2, <1>3

\* Every step of serialSend_ack preserves the invariant: a caller goes to wait, or
\* on waiting, only after it has found the slot not to be its own.
LEMMA CallerIInv ==
    ASSUME IInv, NEW c \in Callers, Caller(c)
    PROVE  IInv'
<1> USE DEF IInv, slot, callers, telemetry
<1>1. CASE SendFails(c)
  <2> USE <1>1 DEF SendFails, Return
  <2>1. TypeOK'
    BY DEF TypeOK, Waiting
  <2>2. NoLostWakeup' /\ HandedOutOnce' /\ WaitingWants'
    BY DEF NoLostWakeup, AckWakeup, DataWakeup, Matches, HandedOutOnce, WaitingWants, TypeOK
  <2> QED
    BY <2>1, <2>2
<1>2. ASSUME NEW k \in Cmds, Send(c, k)
      PROVE  IInv'
  <2> USE <1>2 DEF Send
  <2>1. owed' \in [Cmds -> 0..MaxOwed]
    BY OwedAssumption DEF TypeOK
  <2>2. TypeOK'
    BY <2>1 DEF TypeOK, Waiting
  <2>3. NoLostWakeup' /\ HandedOutOnce' /\ WaitingWants'
    BY DEF NoLostWakeup, AckWakeup, DataWakeup, Matches, HandedOutOnce, WaitingWants, TypeOK
  <2> QED
    BY <2>2, <2>3
<1>3. CASE AckWait(c)
  <2>1. CASE TakeAck(c)
    BY <1>3, <2>1, TakeAckIInv DEF AckWait
  <2>2. CASE ~Matches(want[c])
    <3> USE <1>3, <2>2 DEF AckWait
    <3>1. TypeOK'
      BY DEF TypeOK, Waiting
    <3>2. NoLostWakeup' /\ HandedOutOnce' /\ WaitingWants'
      BY DEF NoLostWakeup, AckWakeup, DataWakeup, Matches, HandedOutOnce, WaitingWants, TypeOK
    <3> QED
      BY <3>1, <3>2
  <2> QED
    BY <1>3, <2>1, <2>2 DEF AckWait
<1>4. CASE AckWoken(c)
  <2>1. CASE TakeAck(c)
    BY <1>4, <2>1, TakeAckIInv DEF AckWoken
  <2>2. CASE ~Matches(want[c])
    <3> USE <1>4, <2>2 DEF AckWoken
    <3>1. TypeOK'
      BY DEF TypeOK, Waiting
    <3>2. NoLostWakeup' /\ HandedOutOnce' /\ WaitingWants'
      BY DEF NoLostWakeup, AckWakeup, DataWakeup, Matches, HandedOutOnce, WaitingWants, TypeOK
    <3> QED
      BY <3>1, <3>2
  <2> QED
    BY <1>4, <2>1, <2>2 DEF AckWoken
<1>5. CASE AckTimeout(c)
  <2>1. CASE TakeAck(c)
    BY <1>5, <2>1, TakeAckIInv DEF AckTimeout
  <2>2. CASE ~Matches(want[c])
    <3> USE <1>5, <2>2 DEF AckTimeout, Return
    <3>1. TypeOK'
      BY DEF TypeOK, Waiting
    <3>2. NoLostWakeup' /\ HandedOutOnce' /\ WaitingWants'
      BY CmdsAssumption
         DEF NoLostWakeup, AckWakeup, DataWakeup, Matches, HandedOutOnce, WaitingWants, TypeOK
    <3> QED
      BY <3>1, <3>2
  <2> QED
    BY <1>5, <2>1, <2>2 DEF AckTimeout
<1> QED
  BY <1>1, <1>2, <1>3, <1>4, <1>5 DEF Caller

\* Every step of SerialHandle preserves the invariant.
LEMMA SerialHandleIInv ==
    ASSUME IInv, SerialHandle
    PROVE  IInv'
<1> USE DEF IInv, slot, callers, telemetry
<1>1. ASSUME TakePush, UNCHANGED <<owed, pc, want, result, ack_notified, alive>>
      PROVE  IInv'
  <2>1. rx_cmd' = NoCmd /\ tele' = "process"
    BY <1>1 DEF TakePush, MarkUsed
  <2>2. TypeOK'
    <3>1. /\ rx_sound' \in BOOLEAN
          /\ rx_taken' \in BOOLEAN
          /\ data_notified' \in BOOLEAN
          /\ push_sound' \in BOOLEAN
      BY <1>1 DEF TakePush, MarkUsed, TypeOK
    <3>2. ack_notified' \subseteq Waiting'
      BY <1>1 DEF TypeOK, Waiting
    <3> QED
      BY <1>1, <2>1, <3>1, <3>2 DEF TypeOK
  <2>3. NoLostWakeup'
    BY <1>1, <2>1, CmdsAssumption
       DEF NoLostWakeup, AckWakeup, DataWakeup, Matches, WaitingWants
  <2>4. HandedOutOnce' /\ WaitingWants'
    BY <1>1, <2>1 DEF HandedOutOnce, WaitingWants
  <2> QED
    BY <2>2, <2>3, <2>4
<1>2. CASE DataWait
  BY <1>1, <1>2 DEF DataWait, TypeOK, Waiting, NoLostWakeup, AckWakeup, DataWakeup,
                    Matches, HandedOutOnce, WaitingWants
<1>3. CASE DataWoken
  <2>1. CASE TakePush
    BY <1>1, <1>3, <2>1 DEF DataWoken
  <2>2. CASE ~Matches(Push)
    <3>1. /\ UNCHANGED tele /\ data_notified' = FALSE
          /\ UNCHANGED <<rx_cmd, rx_sound, rx_taken, owed, pc, want, result,
                         ack_notified, push_sound, alive>>
      BY <1>3, <2>2 DEF DataWoken, TakePush
    <3>2. TypeOK'
      BY <3>1 DEF TypeOK, Waiting
    <3>3. NoLostWakeup' /\ HandedOutOnce' /\ WaitingWants'
      BY <2>2, <3>1 DEF NoLostWakeup, AckWakeup, DataWakeup, Matches, HandedOutOnce, WaitingWants
    <3> QED
      BY <3>2, <3>3
  <2> QED
    BY <1>3, <2>1, <2>2 DEF DataWoken
<1>4. CASE DataTimeout
  <2>1. CASE TakePush
    BY <1>1, <1>4, <2>1 DEF DataTimeout
  <2>2. CASE ~Matches(Push)
    <3>1. /\ tele' = "lock" /\ data_notified' = FALSE
          /\ UNCHANGED <<rx_cmd, rx_sound, rx_taken, owed, pc, want, result,
                         ack_notified, push_sound, alive>>
      BY <1>4, <2>2 DEF DataTimeout, TakePush
    <3>2. TypeOK'
      BY <3>1 DEF TypeOK, Waiting
    <3>3. NoLostWakeup' /\ HandedOutOnce' /\ WaitingWants'
      BY <2>2, <3>1 DEF NoLostWakeup, AckWakeup, DataWakeup, Matches, HandedOutOnce, WaitingWants
    <3> QED
      BY <3>2, <3>3
  <2> QED
    BY <1>4, <2>1, <2>2 DEF DataTimeout
<1>5. CASE Processed
  BY <1>5 DEF Processed, TypeOK, Waiting, NoLostWakeup, AckWakeup, DataWakeup,
              Matches, HandedOutOnce, WaitingWants
<1> QED
  BY <1>2, <1>3, <1>4, <1>5 DEF SerialHandle

\* IInv is an inductive invariant of the receive side.
THEOREM RxInvariant == Spec => []IInv
<1>1. IInv /\ [Next]_vars => IInv'
  <2> SUFFICES ASSUME IInv, [Next]_vars
               PROVE  IInv'
    OBVIOUS
  <2>1. CASE Receive
    BY <2>1, ReceiveIInv
  <2>2. CASE \E c \in Callers : Caller(c)
    BY <2>2, CallerIInv
  <2>3. CASE SerialHandle
    BY <2>3, SerialHandleIInv
  <2>4. CASE Terminated \/ UNCHANGED vars
    BY <2>4 DEF Terminated, vars, IInv, TypeOK, Waiting, NoLostWakeup, AckWakeup,
                DataWakeup, Matches, HandedOutOnce, WaitingWants
  <2> QED
    BY <2>1, <2>2, <2>3, <2>4 DEF Next
<1> QED
  BY <1>1, RxInit, PTL DEF Spec

\* No thread waits on while a good frame for it lies in the slot.
THEOREM RxNoLostWakeup == Spec => []NoLostWakeup
<1>1. IInv => NoLostWakeup
  BY DEF IInv
<1> QED
  BY <1>1, RxInvariant, PTL

\* No frame is handed to two threads, or twice to one.
THEOREM RxHandedOutOnce == Spec => []HandedOutOnce
<1>1. IInv => HandedOutOnce
  BY DEF IInv
<1> QED
  BY <1>1, RxInvariant, PTL

\* Every variable of the receive side keeps its type; only threads that wait are
\* notified.
THEOREM RxTypeCorrect == Spec => []TypeOK
<1>1. IInv => TypeOK
  BY DEF IInv
<1> QED
  BY <1>1, RxInvariant, PTL

-----------------------------------------------------------------------------
(* SerialRx implements AnswerSlot *)

LEMMA RxInitContract == Init => Contract!Init
BY DEF Init, Contract!Init

\* A caller that takes the frame in the slot, or leaves without it.
LEMMA RxTakes ==
    ASSUME IInv, NEW c \in Callers, MutexFree, pc[c] # "idle", Matches(want[c]), TakeAck(c),
           UNCHANGED tele
    PROVE  Contract!Take(c)
<1>1. want[c] # NoCmd
  BY CmdsAssumption DEF IInv, WaitingWants
<1> QED
  BY <1>1 DEF MutexFree, Matches, TakeAck, MarkUsed, Return, Contract!Take, Contract!End

LEMMA RxGivesUp ==
    ASSUME IInv, NEW c \in Callers, pc[c] # "idle", ~Matches(want[c]), Return(c, 2),
           UNCHANGED <<slot, tele>>
    PROVE  Contract!GiveUp(c)
<1>1. want[c] # NoCmd
  BY CmdsAssumption DEF IInv, WaitingWants
<1> QED
  BY <1>1 DEF slot, Matches, Return, Contract!GiveUp, Contract!End

\* A caller outside a call wants nothing.
LEMMA RxIdleWants ==
    ASSUME IInv, NEW c \in Callers, pc[c] = "idle"
    PROVE  want[c] = NoCmd
BY DEF IInv, TypeOK, WaitingWants

\* Frames arrive, or are lost before they reach the slot.
LEMMA ReceiveContract ==
    ASSUME IInv, Receive
    PROVE  Contract!Next \/ UNCHANGED Contract!vars
<1> USE DEF slot, callers, telemetry
<1>1. ASSUME NEW k \in Cmds \cup {Push}, RxSound(k)
      PROVE  Contract!Arrive(k)
  BY <1>1 DEF RxSound, MutexFree, Contract!Arrive
<1>2. ASSUME NEW k \in Cmds \cup {Push}, NEW m \in Cmds \cup {Push, NoCmd}, RxCorrupt(k, m)
      PROVE  Contract!Arrive(m)
  BY <1>2 DEF RxCorrupt, MutexFree, Contract!Arrive
<1>3. ASSUME NEW k \in Cmds \cup {Push}, RxLost(k)
      PROVE  UNCHANGED Contract!vars
  BY <1>3 DEF RxLost, Contract!vars
<1>4. CASE RxBodyReadFails
  BY <1>4 DEF RxBodyReadFails, Contract!vars
<1> QED
  BY <1>1, <1>2, <1>3, <1>4 DEF Receive, Contract!Next

\* A look at the slot that finds the answer is Take, the last look that does not is
\* GiveUp; any other is invisible.
LEMMA CallerContract ==
    ASSUME IInv, NEW c \in Callers, Caller(c)
    PROVE  Contract!Next \/ UNCHANGED Contract!vars
<1> USE DEF slot, callers, telemetry
<1>1. CASE SendFails(c)
  <2>1. want[c] = NoCmd /\ want \in [Callers -> Cmds \cup {NoCmd}]
    BY <1>1, RxIdleWants DEF SendFails, IInv, TypeOK
  <2>2. want' = want
    BY <1>1, <2>1 DEF SendFails, Return
  <2>3. Contract!CannotAsk(c)
    BY <1>1, <2>1, <2>2 DEF SendFails, Return, Contract!CannotAsk
  <2> QED
    BY <2>3 DEF Contract!Next
<1>2. ASSUME NEW k \in Cmds, Send(c, k)
      PROVE  Contract!Next
  <2>1. want[c] = NoCmd
    BY <1>2, RxIdleWants DEF Send
  <2>2. Contract!Ask(c, k)
    BY <1>2, <2>1 DEF Send, Contract!Ask
  <2> QED
    BY <2>2 DEF Contract!Next
<1>3. CASE AckWait(c)
  <2>1. CASE Matches(want[c]) /\ TakeAck(c)
    BY <1>3, <2>1, RxTakes DEF AckWait, Contract!Next
  <2>2. CASE ~Matches(want[c])
    BY <1>3, <2>2 DEF AckWait, Contract!vars
  <2> QED
    BY <1>3, <2>1, <2>2 DEF AckWait
<1>4. CASE AckWoken(c)
  <2>1. CASE Matches(want[c]) /\ TakeAck(c)
    BY <1>4, <2>1, RxTakes DEF AckWoken, Contract!Next
  <2>2. CASE ~Matches(want[c])
    BY <1>4, <2>2 DEF AckWoken, Contract!vars
  <2> QED
    BY <1>4, <2>1, <2>2 DEF AckWoken
<1>5. CASE AckTimeout(c)
  <2>1. CASE Matches(want[c]) /\ TakeAck(c)
    BY <1>5, <2>1, RxTakes DEF AckTimeout, Contract!Next
  <2>2. CASE ~Matches(want[c])
    BY <1>5, <2>2, RxGivesUp DEF AckTimeout, Contract!Next
  <2> QED
    BY <1>5, <2>1, <2>2 DEF AckTimeout
<1> QED
  BY <1>1, <1>2, <1>3, <1>4, <1>5 DEF Caller

LEMMA SerialHandleContract ==
    ASSUME IInv, SerialHandle
    PROVE  Contract!Next \/ UNCHANGED Contract!vars
<1> USE DEF slot, callers, telemetry
<1>1. ASSUME MutexFree, TakePush, UNCHANGED callers
      PROVE  Contract!TakePush
  BY <1>1 DEF MutexFree, TakePush, Matches, MarkUsed, Contract!TakePush
<1>2. CASE Processed
  BY <1>2 DEF Processed, Contract!Handled, Contract!Next
<1>3. CASE DataWait \/ DataWoken \/ DataTimeout
  <2>1. CASE TakePush
    BY <1>1, <1>3, <2>1 DEF DataWait, DataWoken, DataTimeout, Contract!Next
  <2>2. CASE ~TakePush
    BY <1>3, <2>2 DEF DataWait, DataWoken, DataTimeout, MutexFree, Contract!vars
  <2> QED
    BY <2>1, <2>2
<1> QED
  BY <1>2, <1>3 DEF SerialHandle

\* The receive side implements AnswerSlot: with any number of callers and commands, and
\* whatever the order of frames, wakeups and timeouts, each call of serialSend_ack takes
\* its answer or gives up without one in a single step.
THEOREM RxKeepsContract == Spec => KeepsContract
<1>1. Init => Contract!Init
  BY RxInitContract
<1>2. IInv /\ [Next]_vars => [Contract!Next]_(Contract!vars)
  <2> SUFFICES ASSUME IInv, [Next]_vars
               PROVE  Contract!Next \/ UNCHANGED Contract!vars
    OBVIOUS
  <2>1. CASE Terminated \/ UNCHANGED vars
    BY <2>1 DEF Terminated, vars, Contract!vars
  <2> QED
    BY <2>1, ReceiveContract, CallerContract, SerialHandleContract DEF Next
<1> QED
  BY <1>1, <1>2, RxInvariant, PTL DEF Spec, KeepsContract, Contract!Spec

-----------------------------------------------------------------------------
(* BoardRequests *)

\* Others keeps the requests and their number, and marks none as this call's.
LEMMA RqOthersRequests ==
    ASSUME NEW items \in Seq(Requests)
    PROVE  /\ Others(items) \in Seq(Requests)
           /\ Len(Others(items)) = Len(items)
           /\ \A i \in DOMAIN Others(items) : ~Others(items)[i].own
<1> DEFINE o == Others(items)
<1>1. Len(items) \in Nat /\ DOMAIN items = 1..Len(items)
  OBVIOUS
<1>2. o = [i \in 1..Len(items) |-> [items[i] EXCEPT !.own = FALSE]]
  BY <1>1 DEF Others
<1>3. ASSUME NEW i \in 1..Len(items)
      PROVE  o[i] \in Requests /\ o[i].own = FALSE
  <2>1. items[i] \in Requests /\ o[i] = [items[i] EXCEPT !.own = FALSE]
    BY <1>1, <1>2, <1>3
  <2> HIDE DEF o
  <2> QED
    BY <2>1 DEF Requests
<1>4. o \in Seq(Requests) /\ Len(o) = Len(items)
  <2>1. o \in [1..Len(items) -> Requests]
    BY <1>2, <1>3
  <2> HIDE DEF o
  <2> QED
    BY <1>1, <2>1
<1> QED
  BY <1>3, <1>4, <1>2

\* The same of the answers.
LEMMA RqOthersReplies ==
    ASSUME NEW items \in Seq(Replies)
    PROVE  /\ Others(items) \in Seq(Replies)
           /\ Len(Others(items)) = Len(items)
           /\ \A i \in DOMAIN Others(items) : ~Others(items)[i].own
<1> DEFINE o == Others(items)
<1>1. Len(items) \in Nat /\ DOMAIN items = 1..Len(items)
  OBVIOUS
<1>2. o = [i \in 1..Len(items) |-> [items[i] EXCEPT !.own = FALSE]]
  BY <1>1 DEF Others
<1>3. ASSUME NEW i \in 1..Len(items)
      PROVE  o[i] \in Replies /\ o[i].own = FALSE
  <2>1. items[i] \in Replies /\ o[i] = [items[i] EXCEPT !.own = FALSE]
    BY <1>1, <1>2, <1>3
  <2> HIDE DEF o
  <2> QED
    BY <2>1 DEF Replies
<1>4. o \in Seq(Replies) /\ Len(o) = Len(items)
  <2>1. o \in [1..Len(items) -> Replies]
    BY <1>2, <1>3
  <2> HIDE DEF o
  <2> QED
    BY <1>1, <2>1
<1> QED
  BY <1>3, <1>4, <1>2

\* Before there is one, the answer is -1 as 16 bits.
LEMMA RqUnset == Unset \in Acks
BY DEF Unset, Acks

\* `none' is no call; each call has one id.
LEMMA RqKinds ==
    /\ \A c \in Ids : NoKind \notin KindsOf(c)
    /\ KindsOf("frequency") = {"ConfigUpdate"}
    /\ KindsOf("rc_authorize") = {"ObtainRc", "ReleaseRc"}
    /\ \A c \in Ids : "ConfigUpdate" \in KindsOf(c) => c = "frequency"
BY DEF Ids, NoKind, KindsOf

\* What a call returns for a refusal is a byte, and a request is made five times at most.
LEMMA RqReturns ==
    ASSUME NEW k, NEW a \in Acks
    PROVE  Refusal(k, a) \in 0..255 /\ Attempts(k) \in 1..5
BY DEF Refusal, Attempts, Acks

\* The counts of a selection are rates.
LEMMA RqAccounted ==
    ASSUME NEW f \in Selections
    PROVE  Accounted(f) \in Settings
BY RatesAssumption DEF Accounted, Settings, Selections

\* Nothing selected is a selection.
LEMMA RqNoSelection == [t \in Topics |-> NoChange] \in Selections
BY DEF Selections

\* A call that begins finds the line with the requests and answers of others.
LEMMA RqNewCall ==
    ASSUME RQTypeOK, NEW k, NewCall(k)
    PROVE  /\ inbox' \in Seq(Requests) /\ Len(inbox') <= MaxFlight
           /\ outbox' \in Seq(Replies) /\ Len(outbox') <= MaxFlight
           /\ stale' \in BOOLEAN /\ carried' = FALSE
           /\ \A i \in DOMAIN inbox' : ~inbox'[i].own
           /\ \A i \in DOMAIN outbox' : ~outbox'[i].own
           /\ ~stale' => DOMAIN inbox' = {} /\ DOMAIN outbox' = {}
<1>1. inbox \in Seq(Requests) /\ outbox \in Seq(Replies)
      /\ Len(inbox) <= MaxFlight /\ Len(outbox) <= MaxFlight
  BY DEF RQTypeOK, LineTyped
<1>2. inbox' = Others(inbox) /\ outbox' = Others(outbox)
      /\ stale' = (inbox # <<>> \/ outbox # <<>>) /\ carried' = FALSE
  BY DEF NewCall
<1>3. stale' \in BOOLEAN
  BY <1>2
<1>4. ~stale' => DOMAIN inbox' = {} /\ DOMAIN outbox' = {}
  <2>1. SUFFICES ASSUME inbox = <<>>, outbox = <<>>
                 PROVE  DOMAIN Others(inbox) = {} /\ DOMAIN Others(outbox) = {}
    BY <1>2
  <2> QED
    BY <2>1 DEF Others
<1> QED
  BY <1>1, <1>2, <1>3, <1>4, RqOthersRequests, RqOthersReplies

\* The oldest answer on its way is an answer.
LEMMA RqHeadReply ==
    ASSUME LineTyped, outbox # <<>>
    PROVE  /\ Head(outbox) \in Replies
           /\ Tail(outbox) \in Seq(Replies) /\ Len(Tail(outbox)) <= MaxFlight
           /\ DOMAIN outbox # {} /\ Head(outbox) = outbox[1]
           /\ \A i \in DOMAIN Tail(outbox) : i + 1 \in DOMAIN outbox /\ Tail(outbox)[i] = outbox[i + 1]
<1>1. outbox \in Seq(Replies) /\ Len(outbox) <= MaxFlight
  BY DEF LineTyped
<1> QED
  BY <1>1, FlightAssumption

\* The oldest request on its way is a request.
LEMMA RqHeadRequest ==
    ASSUME LineTyped, inbox # <<>>
    PROVE  /\ Head(inbox) \in Requests
           /\ Tail(inbox) \in Seq(Requests) /\ Len(Tail(inbox)) <= MaxFlight
           /\ DOMAIN inbox # {} /\ Head(inbox) = inbox[1]
           /\ \A i \in DOMAIN Tail(inbox) : i + 1 \in DOMAIN inbox /\ Tail(inbox)[i] = inbox[i + 1]
<1>1. inbox \in Seq(Requests) /\ Len(inbox) <= MaxFlight
  BY DEF LineTyped
<1> QED
  BY <1>1, FlightAssumption

\* A call that fails tries again or returns what it was told.
LEMMA RqFailTyped ==
    ASSUME CallTyped, at \in {"send", "wait"}, NEW r \in {1, 2}, Fail(r),
           UNCHANGED <<cmd, call, sent>>
    PROVE  CallTyped'
<1>1. CASE attempt < Attempts(call) /\ attempt' = attempt + 1 /\ at' = "send"
           /\ UNCHANGED <<ack, returned, frequency_flag>>
  BY <1>1 DEF CallTyped, Attempts
<1>2. CASE ReturnWith(r)
  BY <1>2, RqUnset DEF CallTyped, ReturnWith
<1> QED
  BY <1>1, <1>2 DEF Fail

\* A call that enters its loop has its kind, its first attempt and nothing returned yet.
LEMMA RqEnterTyped ==
    ASSUME CallTyped, NEW k \in KindsOf(cmd), Enter(k), cmd' = cmd
    PROVE  CallTyped'
<1>1. call' = k /\ at' = "send" /\ attempt' = 1 /\ sent' = TRUE /\ ack' = ack /\ returned' = returned
  BY DEF Enter, NewCall
<1>2. k # NoKind
  BY RqKinds DEF CallTyped
<1> QED
  BY <1>1, <1>2 DEF CallTyped

\* One that returns at once keeps the types too.
LEMMA RqAtOnceTyped ==
    ASSUME CallTyped, at = "idle", call' \in KindsOf(cmd), returned' \in 0..255, sent' = FALSE,
           UNCHANGED <<cmd, at, ack, attempt>>
    PROVE  CallTyped'
BY DEF CallTyped

\* Every step keeps the types of the call's variables.
LEMMA RqCallTyped ==
    ASSUME RQTypeOK, RQNext
    PROVE  CallTyped'
<1> USE DEF RQTypeOK
<1>1. ASSUME NEW k \in Kinds, Begin(k) \/ SkipWhileIdle(k)
      PROVE  CallTyped'
  <2>1. CASE Begin(k)
    BY <2>1, RqEnterTyped DEF Begin
  <2>2. CASE SkipWhileIdle(k)
    <3>1. at = "idle" /\ sent' = FALSE /\ UNCHANGED <<cmd, at, ack, attempt>>
      BY <2>2 DEF SkipWhileIdle, ReturnAtOnce, NewCall
    <3>2. call' \in KindsOf(cmd) /\ returned' \in 0..255
      BY <2>2, RqKinds DEF SkipWhileIdle, ReturnAtOnce, NewCall
    <3> QED
      BY <3>1, <3>2, RqAtOnceTyped
  <2> QED
    BY <1>1, <2>1, <2>2
<1>2. CASE SendRequest
  BY <1>2 DEF SendRequest, CallTyped
<1>3. CASE TakeAnswer
  BY <1>3, RqHeadReply DEF TakeAnswer, CallTyped, Replies
<1>4. CASE RequestFails
  BY <1>4, RqFailTyped DEF RequestFails
<1>5. CASE AnswerTimeout
  BY <1>5, RqFailTyped DEF AnswerTimeout
<1>6. CASE Succeed
  BY <1>6, RqUnset DEF Succeed, ReturnWith, CallTyped
<1>7. CASE Refuse
  <2>1. Refusal(call, ack) \in 0..255
    BY RqReturns DEF CallTyped
  <2> QED
    BY <1>7, <2>1, RqUnset DEF Refuse, ReturnWith, CallTyped
<1>8. CASE AskAgain
  BY <1>8, RqUnset DEF AskAgain, CallTyped
<1>9. CASE Topic
  <2>1. CASE ConfigUpdate
    BY <2>1, RqKinds, RqEnterTyped DEF ConfigUpdate
  <2>2. CASE ConfigUpdateTooMuch
    <3>1. at = "idle" /\ sent' = FALSE /\ UNCHANGED <<cmd, at, ack, attempt>>
      BY <2>2 DEF ConfigUpdateTooMuch, ReturnAtOnce, NewCall
    <3>2. call' \in KindsOf(cmd) /\ returned' \in 0..255
      BY <2>2, RqKinds DEF ConfigUpdateTooMuch, ReturnAtOnce, NewCall
    <3> QED
      BY <3>1, <3>2, RqAtOnceTyped
  <2>3. ASSUME NEW t \in Topics, NEW f \in Rates \cup {NoChange}, ConfigTopic(t, f)
        PROVE  CallTyped'
    BY <2>3 DEF ConfigTopic, request, CallTyped
  <2> QED
    BY <1>9, <2>1, <2>2, <2>3 DEF Topic
<1>10. CASE ObtainRc \/ ReleaseRc
  <2>1. ASSUME cmd = "rc_authorize", at = "idle", cmd' = cmd, ReturnAtOnce("ObtainRc", 5)
        PROVE  CallTyped'
    <3>1. at = "idle" /\ sent' = FALSE /\ UNCHANGED <<cmd, at, ack, attempt>>
      BY <2>1 DEF ReturnAtOnce, NewCall
    <3>2. call' \in KindsOf(cmd) /\ returned' \in 0..255
      BY <2>1, RqKinds DEF ReturnAtOnce, NewCall
    <3> QED
      BY <3>1, <3>2, RqAtOnceTyped
  <2>2. ASSUME cmd = "rc_authorize", cmd' = cmd, Enter("ObtainRc")
        PROVE  CallTyped'
    BY <2>2, RqKinds, RqEnterTyped
  <2>3. ASSUME at' = "exited", UNCHANGED <<cmd, call, ack, attempt, returned, sent>>
        PROVE  CallTyped'
    BY <2>3 DEF CallTyped
  <2>4. CASE ReleaseRc
    <3>1. /\ cmd = "rc_authorize" /\ at = "idle" /\ call' = "ReleaseRc" /\ returned' = 0
          /\ sent' = FALSE /\ UNCHANGED <<cmd, at, ack, attempt>>
      BY <2>4 DEF ReleaseRc
    <3>2. call' \in KindsOf(cmd) /\ returned' \in 0..255
      BY <3>1, RqKinds
    <3> QED
      BY <3>1, <3>2, RqAtOnceTyped
  <2> QED
    BY <1>10, <2>1, <2>2, <2>3, <2>4 DEF ObtainRc
<1>11. CASE SendVirtualRCCmd \/ RcDisconnect \/ (\E m \in RcModes : RcPush(m))
            \/ (\E v \in Gives[cmd] : Board(v)) \/ AnswerLost \/ Exited
  BY <1>11 DEF SendVirtualRCCmd, RcDisconnect, RcPush, Board, AnswerLost, Exited, request,
      rq_vars, CallTyped
<1> QED
  BY <1>1, <1>2, <1>3, <1>4, <1>5, <1>6, <1>7, <1>8, <1>9, <1>10, <1>11
  DEF RQNext, Client, VirtualRc

\* Every step keeps the types of the line, and its bound.
LEMMA RqLineTyped ==
    ASSUME RQTypeOK, RQNext
    PROVE  LineTyped'
<1> USE DEF RQTypeOK
<1>1. ASSUME NEW k \in Kinds \cup {"ObtainRc", "ConfigUpdate"}, NewCall(k)
      PROVE  LineTyped'
  BY <1>1, RqNewCall DEF LineTyped
<1>2. ASSUME NEW k, NEW r, k \in Kinds, Enter(k) \/ ReturnAtOnce(k, r)
      PROVE  LineTyped'
  BY <1>1, <1>2 DEF Enter, ReturnAtOnce
<1>3. ASSUME NEW k \in Kinds, Begin(k) \/ SkipWhileIdle(k)
      PROVE  LineTyped'
  BY <1>2, <1>3 DEF Begin, SkipWhileIdle
<1>4. CASE SendRequest
  <2>1. \/ UNCHANGED inbox
        \/ /\ Len(inbox) < MaxFlight
           /\ inbox' = Append(inbox, [kind |-> call, own |-> TRUE, msg |-> msg])
    BY <1>4 DEF SendRequest
  <2>2. [kind |-> call, own |-> TRUE, msg |-> msg] \in Requests
    <3>1. call \in Kinds
      BY <1>4 DEF SendRequest, CallTyped, Kinds
    <3> QED
      BY <3>1 DEF Requests, TelemetryTyped
  <2>3. inbox' \in Seq(Requests) /\ Len(inbox') <= MaxFlight
    BY <2>1, <2>2, FlightAssumption DEF LineTyped
  <2> QED
    BY <1>4, <2>3 DEF SendRequest, LineTyped, history
<1>5. CASE TakeAnswer
  BY <1>5, RqHeadReply DEF TakeAnswer, LineTyped, history
<1>6. CASE RequestFails \/ AnswerTimeout \/ Succeed \/ Refuse \/ AskAgain
  BY <1>6 DEF RequestFails, AnswerTimeout, Succeed, Refuse, AskAgain, line, history, LineTyped
<1>7. CASE Topic
  <2>1. "ConfigUpdate" \in Kinds
    BY RqKinds DEF Kinds, Ids
  <2>2. ASSUME NEW t \in Topics, NEW f \in Rates \cup {NoChange}, ConfigTopic(t, f)
        PROVE  LineTyped'
    BY <2>2 DEF ConfigTopic, line, history, LineTyped
  <2> QED
    BY <1>2, <1>7, <2>1, <2>2 DEF Topic, ConfigUpdate, ConfigUpdateTooMuch
<1>8. CASE ObtainRc
  <2>1. "ObtainRc" \in Kinds
    BY RqKinds DEF Kinds, Ids
  <2>2. ASSUME UNCHANGED <<line, history>>
        PROVE  LineTyped'
    BY <2>2 DEF line, history, LineTyped
  <2> QED
    BY <1>2, <1>8, <2>1, <2>2 DEF ObtainRc
<1>9. CASE ReleaseRc
  <2>1. inbox \in Seq(Requests) /\ outbox \in Seq(Replies)
        /\ Len(inbox) <= MaxFlight /\ Len(outbox) <= MaxFlight
    BY DEF LineTyped
  <2>2. /\ Others(inbox) \in Seq(Requests) /\ Len(Others(inbox)) = Len(inbox)
        /\ Others(outbox) \in Seq(Replies) /\ Len(Others(outbox)) = Len(outbox)
    BY <2>1, RqOthersRequests, RqOthersReplies
  <2>3. [kind |-> "ReleaseRc", own |-> FALSE, msg |-> msg] \in Requests
    <3>1. "ReleaseRc" \in Kinds
      BY RqKinds DEF Kinds, Ids
    <3> QED
      BY <3>1 DEF Requests, TelemetryTyped
  <2>4. inbox' \in Seq(Requests) /\ Len(inbox') <= MaxFlight
    <3>1. \/ inbox' = Others(inbox)
          \/ /\ Len(inbox) < MaxFlight
             /\ inbox' = Append(Others(inbox), [kind |-> "ReleaseRc", own |-> FALSE, msg |-> msg])
      BY <1>9 DEF ReleaseRc
    <3>2. Len(inbox) \in Nat
      BY <2>1
    <3>3. ASSUME NEW s \in Seq(Requests), NEW r \in Requests, Len(s) < MaxFlight
          PROVE  Append(s, r) \in Seq(Requests) /\ Len(Append(s, r)) <= MaxFlight
      BY <3>3, FlightAssumption
    <3> QED
      BY <2>1, <2>2, <2>3, <3>1, <3>2, <3>3
  <2>5. outbox' = Others(outbox) /\ stale' = TRUE /\ carried' = FALSE
    BY <1>9 DEF ReleaseRc
  <2> QED
    BY <2>1, <2>2, <2>4, <2>5 DEF LineTyped
<1>10. ASSUME NEW v \in Gives[cmd], Board(v)
       PROVE  LineTyped'
  <2>1. inbox # <<>> /\ inbox' = Tail(inbox) /\ stale' = stale
    BY <1>10 DEF Board
  <2>2. Head(inbox) \in Requests /\ Tail(inbox) \in Seq(Requests) /\ Len(Tail(inbox)) <= MaxFlight
    BY <2>1, RqHeadRequest
  <2>3. Head(inbox).own \in BOOLEAN
    BY <2>2 DEF Requests
  <2>4. v \in Acks
    BY GivesAssumption DEF CallTyped
  <2>5. [val |-> v, own |-> Head(inbox).own] \in Replies
    BY <2>3, <2>4 DEF Replies
  <2>6. \/ UNCHANGED outbox
        \/ /\ Len(outbox) < MaxFlight
           /\ outbox' = Append(outbox, [val |-> v, own |-> Head(inbox).own])
    BY <1>10 DEF Board
  <2>7. outbox' \in Seq(Replies) /\ Len(outbox') <= MaxFlight
    BY <2>5, <2>6, FlightAssumption DEF LineTyped
  <2>8. carried' \in BOOLEAN
    BY <1>10 DEF Board, LineTyped
  <2> QED
    BY <2>1, <2>2, <2>7, <2>8 DEF LineTyped
<1>11. CASE AnswerLost
  BY <1>11, RqHeadReply DEF AnswerLost, LineTyped, history
<1>12. CASE SendVirtualRCCmd \/ RcDisconnect \/ (\E m \in RcModes : RcPush(m)) \/ Exited
  BY <1>12 DEF SendVirtualRCCmd, RcDisconnect, RcPush, Exited, line, history, rq_vars, LineTyped
<1> QED
  BY <1>3, <1>4, <1>5, <1>6, <1>7, <1>8, <1>9, <1>10, <1>11, <1>12
  DEF RQNext, Client, VirtualRc

\* Every step keeps the types of Telemetry's variables and of the board's rates.
LEMMA RqTelemetryTyped ==
    ASSUME RQTypeOK, RQNext
    PROVE  TelemetryTyped'
<1> USE DEF RQTypeOK
<1>1. ASSUME UNCHANGED <<topics, rates, sdk_id>>
      PROVE  TelemetryTyped'
  BY <1>1 DEF topics, TelemetryTyped
<1>2. ASSUME NEW r, ReturnWith(r) \/ Fail(r), UNCHANGED <<msg, bit_r, rates>>, sdk_id' \in 0..255
      PROVE  TelemetryTyped'
  BY <1>2, RqNoSelection DEF ReturnWith, Fail, TelemetryTyped
<1>3. ASSUME NEW k \in Kinds, Begin(k) \/ SkipWhileIdle(k)
      PROVE  TelemetryTyped'
  BY <1>1, <1>3 DEF Begin, SkipWhileIdle
<1>4. CASE SendRequest \/ TakeAnswer \/ AskAgain
  BY <1>1, <1>4 DEF SendRequest, TakeAnswer, AskAgain
<1>5. CASE RequestFails \/ AnswerTimeout \/ Refuse
  BY <1>2, <1>5 DEF RequestFails, AnswerTimeout, Refuse, TelemetryTyped
<1>6. CASE Succeed
  <2>1. ack % 256 \in 0..255
    BY DEF CallTyped, Acks
  <2> QED
    BY <1>2, <1>6, <2>1 DEF Succeed, TelemetryTyped
<1>7. ASSUME NEW t \in Topics, NEW f \in Rates \cup {NoChange}, ConfigTopic(t, f)
      PROVE  TelemetryTyped'
  <2>1. frequency_flag' \in Selections
    BY <1>7 DEF ConfigTopic, TelemetryTyped, Selections
  <2> QED
    BY <1>7, <2>1 DEF ConfigTopic, TelemetryTyped
<1>8. CASE ConfigUpdate
  BY <1>8, RqAccounted DEF ConfigUpdate, TelemetryTyped
<1>9. CASE ConfigUpdateTooMuch
  BY <1>9, RqNoSelection DEF ConfigUpdateTooMuch, TelemetryTyped
<1>10. CASE VirtualRc \/ AnswerLost \/ Exited
  BY <1>1, <1>10 DEF VirtualRc, ObtainRc, ReleaseRc, SendVirtualRCCmd, RcDisconnect, RcPush,
     AnswerLost, Exited, rq_vars
<1>11. ASSUME NEW v \in Gives[cmd], Board(v)
       PROVE  TelemetryTyped'
  <2>1. Head(inbox).msg \in Selections
    BY <1>11, RqHeadRequest DEF Board, Requests
  <2>2. [t \in Topics |-> IF Head(inbox).msg[t] = NoChange THEN rates[t] ELSE Head(inbox).msg[t]]
            \in Settings
    BY <2>1 DEF TelemetryTyped, Selections, Settings
  <2>3. rates' \in Settings
    BY <1>11, <2>2 DEF Board, TelemetryTyped
  <2> QED
    BY <1>11, <2>3 DEF Board, topics, TelemetryTyped
<1> QED
  BY <1>3, <1>4, <1>5, <1>6, <1>7, <1>8, <1>9, <1>10, <1>11 DEF RQNext, Client, Topic

\* Every step keeps the types of Virtual_RC's variables.
LEMMA RqRcTyped ==
    ASSUME RQTypeOK, RQNext
    PROVE  RcTyped'
<1> USE DEF RQTypeOK
<1>1. ASSUME UNCHANGED rc
      PROVE  RcTyped'
  BY <1>1 DEF rc, RcTyped
<1>2. ASSUME NEW m \in RcModes, RcPush(m)
      PROVE  RcTyped'
  <2>1. rc_status' \in {"RELEASED", "OBTAINED", "IDLE"} /\ rc_drop' \in 0..(RcLimit + 1)
    BY <1>2, RcAssumption DEF RcPush, RcMonitor, RcTyped
  <2> QED
    BY <1>2, <2>1 DEF RcPush, RcTyped
<1>3. CASE Succeed
  BY <1>3 DEF Succeed, RcTyped
<1>4. CASE ReleaseRc \/ SendVirtualRCCmd \/ RcDisconnect
  BY <1>4 DEF ReleaseRc, SendVirtualRCCmd, RcDisconnect, RcTyped
<1>5. CASE (\E k \in Kinds : Begin(k) \/ SkipWhileIdle(k)) \/ SendRequest \/ TakeAnswer
           \/ RequestFails \/ AnswerTimeout \/ Refuse \/ AskAgain \/ Topic \/ ObtainRc
           \/ (\E v \in Gives[cmd] : Board(v)) \/ AnswerLost \/ Exited
  BY <1>1, <1>5 DEF Begin, SkipWhileIdle, SendRequest, TakeAnswer, RequestFails, AnswerTimeout,
     Refuse, AskAgain, Topic, ConfigTopic, ConfigUpdate, ConfigUpdateTooMuch, ObtainRc, Board,
     AnswerLost, Exited, rq_vars
<1> QED
  BY <1>2, <1>3, <1>4, <1>5 DEF RQNext, Client, VirtualRc

\* The steps in which a call begins, except for release_control, which puts its request
\* on the line at once.
Begins ==
    \/ \E k \in Kinds : Begin(k) \/ SkipWhileIdle(k)
    \/ ConfigUpdate
    \/ ConfigUpdateTooMuch
    \/ ObtainRc /\ at' # "exited"

\* The steps that leave the line, the call's kind and its message alone.
Keeps ==
    \/ RequestFails \/ AnswerTimeout \/ Succeed \/ Refuse \/ AskAgain
    \/ \E t \in Topics, f \in Rates \cup {NoChange} : ConfigTopic(t, f)
    \/ ObtainRc /\ at' = "exited"
    \/ SendVirtualRCCmd \/ RcDisconnect \/ (\E m \in RcModes : RcPush(m)) \/ Exited

\* These and the five steps on the line are all.
LEMMA RqCases ==
    ASSUME RQNext
    PROVE  \/ Begins
           \/ Keeps
           \/ SendRequest
           \/ TakeAnswer
           \/ ReleaseRc
           \/ \E v \in Gives[cmd] : Board(v)
           \/ AnswerLost
BY DEF RQNext, Client, Topic, VirtualRc, Begins, Keeps

\* A call that begins is announced by NewCall, between calls.
LEMMA RqBegins ==
    ASSUME Begins
    PROVE  /\ \E k \in Kinds : NewCall(k) /\ call' = k
           /\ \/ sent' = TRUE /\ at' = "send"
              \/ sent' = FALSE /\ at' = at
           /\ at = "idle"
<1>1. ASSUME NEW k \in Kinds, Enter(k), at = "idle"
      PROVE  /\ NewCall(k) /\ call' = k /\ sent' = TRUE /\ at' = "send" /\ at = "idle"
  BY <1>1 DEF Enter, NewCall
<1>2. ASSUME NEW k \in Kinds, NEW r, ReturnAtOnce(k, r), at = "idle"
      PROVE  /\ NewCall(k) /\ call' = k /\ sent' = FALSE /\ at' = at /\ at = "idle"
  BY <1>2 DEF ReturnAtOnce, NewCall
<1>3. "ConfigUpdate" \in Kinds /\ "ObtainRc" \in Kinds
  BY RqKinds DEF Kinds, Ids
<1>4. ASSUME NEW k \in Kinds, Begin(k) \/ SkipWhileIdle(k)
      PROVE  at = "idle" /\ (Enter(k) \/ ReturnAtOnce(k, 0))
  BY <1>4 DEF Begin, SkipWhileIdle
<1>5. ASSUME ConfigUpdate \/ ConfigUpdateTooMuch
      PROVE  at = "idle" /\ (Enter("ConfigUpdate") \/ ReturnAtOnce("ConfigUpdate", 1))
  BY <1>5 DEF ConfigUpdate, ConfigUpdateTooMuch
<1>6. ASSUME ObtainRc, at' # "exited"
      PROVE  at = "idle" /\ (Enter("ObtainRc") \/ ReturnAtOnce("ObtainRc", 5))
  BY <1>6 DEF ObtainRc
<1>7. PICK k \in Kinds, r \in {0, 1, 5} : at = "idle" /\ (Enter(k) \/ ReturnAtOnce(k, r))
  BY <1>3, <1>4, <1>5, <1>6 DEF Begins
<1> QED
  BY <1>1, <1>2, <1>7

\* What the steps of Keeps leave alone.
LEMMA RqKeeps ==
    ASSUME Keeps
    PROVE  UNCHANGED <<call, sent, inbox, outbox, stale, carried, msg, bit_r, rates>>
<1>1. CASE RequestFails \/ AnswerTimeout \/ Succeed \/ Refuse \/ AskAgain
  BY <1>1 DEF RequestFails, AnswerTimeout, Succeed, Refuse, AskAgain, line, history, topics
<1>2. CASE \E t \in Topics, f \in Rates \cup {NoChange} : ConfigTopic(t, f)
  BY <1>2 DEF ConfigTopic, request, line, history
<1>3. CASE ObtainRc /\ at' = "exited"
  BY <1>3 DEF ObtainRc, ReturnAtOnce, Enter, line, history, topics
<1>4. CASE SendVirtualRCCmd \/ RcDisconnect \/ (\E m \in RcModes : RcPush(m)) \/ Exited
  BY <1>4 DEF SendVirtualRCCmd, RcDisconnect, RcPush, Exited, rq_vars, request, line, history, topics
<1> QED
  BY <1>1, <1>2, <1>3, <1>4 DEF Keeps

\* What release_control leaves on the line is marked as nobody's, and the line as used.
LEMMA RqRelease ==
    ASSUME RQTypeOK, ReleaseRc
    PROVE  /\ \A i \in DOMAIN inbox' : ~inbox'[i].own
           /\ \A i \in DOMAIN outbox' : ~outbox'[i].own
           /\ stale' = TRUE /\ sent' = FALSE /\ call' = "ReleaseRc" /\ at = "idle" /\ at' = at
<1>1. inbox \in Seq(Requests) /\ outbox \in Seq(Replies)
  BY DEF RQTypeOK, LineTyped
<1>2. /\ Others(inbox) \in Seq(Requests)
      /\ \A i \in DOMAIN Others(inbox) : ~Others(inbox)[i].own
      /\ \A i \in DOMAIN Others(outbox) : ~Others(outbox)[i].own
  BY <1>1, RqOthersRequests, RqOthersReplies
<1>3. /\ \/ inbox' = Others(inbox)
         \/ inbox' = Append(Others(inbox), [kind |-> "ReleaseRc", own |-> FALSE, msg |-> msg])
      /\ outbox' = Others(outbox)
      /\ stale' = TRUE /\ sent' = FALSE /\ call' = "ReleaseRc" /\ at = "idle" /\ at' = at
  BY DEF ReleaseRc
<1>4. ASSUME NEW s \in Seq(Requests), NEW r, \A i \in DOMAIN s : ~s[i].own, ~r.own
      PROVE  \A i \in DOMAIN Append(s, r) : ~Append(s, r)[i].own
  BY <1>4
<1> QED
  BY <1>2, <1>3, <1>4

\* What is marked as this call's stays so: only the call's request is marked when it is sent.
LEMMA RqOwnIsOwn ==
    ASSUME RQTypeOK, OwnIsOwn, RQNext
    PROVE  OwnIsOwn'
<1>0. LineTyped
  BY DEF RQTypeOK
<1>1. CASE Begins
  <2>1. \A i \in DOMAIN inbox' : ~inbox'[i].own
    BY <1>1, RqBegins, RqNewCall
  <2> QED
    BY <2>1 DEF OwnIsOwn
<1>2. CASE Keeps
  BY <1>2, RqKeeps DEF OwnIsOwn
<1>3. CASE SendRequest
  <2>1. call' = call /\ sent' = sent /\ msg' = msg /\ sent
    BY <1>3 DEF SendRequest, topics, RQTypeOK, CallTyped
  <2>2. CASE UNCHANGED inbox
    BY <2>1, <2>2 DEF OwnIsOwn
  <2>3. CASE inbox' = Append(inbox, [kind |-> call, own |-> TRUE, msg |-> msg])
    <3>1. inbox \in Seq(Requests)
      BY <1>0 DEF LineTyped
    <3>2. /\ DOMAIN inbox' = 1..(Len(inbox) + 1) /\ DOMAIN inbox = 1..Len(inbox)
          /\ Len(inbox) \in Nat
          /\ \A i \in 1..Len(inbox) : inbox'[i] = inbox[i]
          /\ inbox'[Len(inbox) + 1] = [kind |-> call, own |-> TRUE, msg |-> msg]
      BY <2>3, <3>1
    <3>3. ASSUME NEW i \in DOMAIN inbox', inbox'[i].own
          PROVE  inbox'[i].kind = call /\ inbox'[i].msg = msg
      <4>1. CASE i \in 1..Len(inbox)
        BY <3>2, <3>3, <4>1 DEF OwnIsOwn
      <4>2. CASE i = Len(inbox) + 1
        BY <3>2, <4>2
      <4> QED
        BY <3>2, <4>1, <4>2
    <3> QED
      BY <2>1, <3>3 DEF OwnIsOwn
  <2> QED
    BY <1>3, <2>2, <2>3 DEF SendRequest
<1>4. CASE TakeAnswer \/ AnswerLost
  BY <1>4 DEF TakeAnswer, AnswerLost, OwnIsOwn, request, topics
<1>5. CASE ReleaseRc
  BY <1>5, RqRelease DEF OwnIsOwn
<1>6. ASSUME NEW v \in Gives[cmd], Board(v)
      PROVE  OwnIsOwn'
  <2>1. inbox # <<>> /\ inbox' = Tail(inbox) /\ call' = call /\ sent' = sent /\ msg' = msg
    BY <1>6 DEF Board, request, topics
  <2> QED
    BY <1>0, <2>1, RqHeadRequest DEF OwnIsOwn
<1> QED
  BY <1>1, <1>2, <1>3, <1>4, <1>5, <1>6, RqCases

\* On a line that was fresh when the call began everything is the call's.
LEMMA RqFreshLine ==
    ASSUME RQTypeOK, FreshLine, RQNext
    PROVE  FreshLine'
<1>0. LineTyped
  BY DEF RQTypeOK
<1>1. CASE Begins
  BY <1>1, RqBegins, RqNewCall DEF FreshLine
<1>2. CASE Keeps
  BY <1>2, RqKeeps DEF FreshLine
<1>3. CASE SendRequest
  <2>1. stale' = stale /\ outbox' = outbox /\ inbox \in Seq(Requests)
    BY <1>0, <1>3 DEF SendRequest, history, LineTyped
  <2>2. \/ inbox' = inbox
        \/ inbox' = Append(inbox, [kind |-> call, own |-> TRUE, msg |-> msg])
    BY <1>3 DEF SendRequest
  <2>3. ASSUME NEW s \in Seq(Requests), NEW r, r.own, \A i \in DOMAIN s : s[i].own
        PROVE  \A i \in DOMAIN Append(s, r) : Append(s, r)[i].own
    BY <2>3
  <2> QED
    BY <2>1, <2>2, <2>3 DEF FreshLine
<1>4. CASE TakeAnswer \/ AnswerLost
  <2>1. outbox # <<>> /\ outbox' = Tail(outbox) /\ inbox' = inbox /\ stale' = stale
    BY <1>4 DEF TakeAnswer, AnswerLost, history
  <2> QED
    BY <1>0, <2>1, RqHeadReply DEF FreshLine
<1>5. CASE ReleaseRc
  BY <1>5, RqRelease DEF FreshLine
<1>6. ASSUME NEW v \in Gives[cmd], Board(v)
      PROVE  FreshLine'
  <2> DEFINE answer == [val |-> v, own |-> Head(inbox).own]
  <2>1. inbox # <<>> /\ inbox' = Tail(inbox) /\ stale' = stale
        /\ (outbox' = outbox \/ outbox' = Append(outbox, answer))
    BY <1>6 DEF Board
  <2>2. SUFFICES ASSUME ~stale
                 PROVE  /\ \A i \in DOMAIN inbox' : inbox'[i].own
                        /\ \A i \in DOMAIN outbox' : outbox'[i].own
    BY <2>1 DEF FreshLine
  <2>3. \A i \in DOMAIN inbox' : inbox'[i].own
    BY <1>0, <2>1, <2>2, RqHeadRequest DEF FreshLine
  <2>4. answer.own
    BY <1>0, <2>1, <2>2, RqHeadRequest DEF FreshLine
  <2>5. ASSUME NEW s \in Seq(Replies), NEW r, r.own, \A i \in DOMAIN s : s[i].own
        PROVE  \A i \in DOMAIN Append(s, r) : Append(s, r)[i].own
    BY <2>5
  <2>6. outbox \in Seq(Replies) /\ \A i \in DOMAIN outbox : outbox[i].own
    BY <1>0, <2>2 DEF LineTyped, FreshLine
  <2> HIDE DEF answer
  <2>7. \A i \in DOMAIN outbox' : outbox'[i].own
    BY <2>1, <2>4, <2>5, <2>6
  <2> QED
    BY <2>3, <2>7
<1> QED
  BY <1>1, <1>2, <1>3, <1>4, <1>5, <1>6, RqCases

\* The board confirms this call's request only when it carries it out.
LEMMA RqConfirmedIsCarried ==
    ASSUME RQTypeOK, OwnIsOwn, FreshLine, ConfirmedIsCarried, RQNext
    PROVE  ConfirmedIsCarried'
<1>0. LineTyped
  BY DEF RQTypeOK
<1>1. CASE Begins
  <2>1. (\A i \in DOMAIN outbox' : ~outbox'[i].own) /\ at' # "judge"
    BY <1>1, RqBegins, RqNewCall
  <2> QED
    BY <2>1 DEF ConfirmedIsCarried
<1>2. CASE Keeps
  <2>1. UNCHANGED <<call, outbox, stale, carried>>
    BY <1>2, RqKeeps
  <2>2. at' = "judge" => at = "judge" /\ ack' = ack
    BY <1>2 DEF Keeps, RequestFails, AnswerTimeout, Succeed, Refuse, AskAgain, Fail, ReturnWith,
      ConfigTopic, ObtainRc, SendVirtualRCCmd, RcDisconnect, RcPush, Exited, request, rq_vars
  <2> QED
    BY <2>1, <2>2 DEF ConfirmedIsCarried
<1>3. CASE SendRequest
  BY <1>3 DEF SendRequest, history, ConfirmedIsCarried
<1>4. CASE TakeAnswer
  <2>1. /\ outbox # <<>> /\ outbox' = Tail(outbox) /\ ack' = Head(outbox).val /\ at' = "judge"
        /\ UNCHANGED <<call, stale, carried>>
    BY <1>4 DEF TakeAnswer, history
  <2>2. \A i \in DOMAIN outbox' : outbox'[i].own /\ outbox'[i].val \in Confirms(call) => carried
    BY <1>0, <2>1, RqHeadReply DEF ConfirmedIsCarried
  <2>3. ~stale /\ ack' \in Confirms(call) => carried
    BY <1>0, <2>1, RqHeadReply DEF ConfirmedIsCarried, FreshLine
  <2> QED
    BY <2>1, <2>2, <2>3 DEF ConfirmedIsCarried
<1>5. CASE AnswerLost
  <2>1. /\ outbox # <<>> /\ outbox' = Tail(outbox)
        /\ UNCHANGED <<call, at, ack, stale, carried>>
    BY <1>5 DEF AnswerLost, request, history
  <2> QED
    BY <1>0, <2>1, RqHeadReply DEF ConfirmedIsCarried
<1>6. CASE ReleaseRc
  <2>1. (\A i \in DOMAIN outbox' : ~outbox'[i].own) /\ at' # "judge"
    BY <1>6, RqRelease
  <2> QED
    BY <2>1 DEF ConfirmedIsCarried
<1>7. ASSUME NEW v \in Gives[cmd], Board(v)
      PROVE  ConfirmedIsCarried'
  <2> DEFINE first == Head(inbox)
             answer == [val |-> v, own |-> first.own]
  <2>1. /\ inbox # <<>>
        /\ carried' = (carried \/ (first.own /\ v \in Confirms(first.kind)))
        /\ (outbox' = outbox \/ outbox' = Append(outbox, answer))
        /\ UNCHANGED <<call, at, ack, stale>>
    BY <1>7 DEF Board, request
  <2>2. first.own => first.kind = call
    BY <1>0, <2>1, RqHeadRequest DEF OwnIsOwn
  <2>3. answer.own /\ answer.val \in Confirms(call) => carried'
    BY <2>1, <2>2
  <2>4. carried => carried'
    BY <2>1
  <2>5. ASSUME NEW s \in Seq(Replies), NEW r, NEW i \in DOMAIN Append(s, r)
        PROVE  (i \in DOMAIN s /\ Append(s, r)[i] = s[i]) \/ Append(s, r)[i] = r
    BY <2>5
  <2>6. outbox \in Seq(Replies)
    BY <1>0 DEF LineTyped
  <2> HIDE DEF answer
  <2>7. \A i \in DOMAIN outbox' : outbox'[i].own /\ outbox'[i].val \in Confirms(call) => carried'
    BY <2>1, <2>3, <2>4, <2>5, <2>6 DEF ConfirmedIsCarried
  <2>8. at' = "judge" /\ ~stale' /\ ack' \in Confirms(call') => carried'
    BY <2>1, <2>4 DEF ConfirmedIsCarried
  <2> QED
    BY <2>1, <2>7, <2>8 DEF ConfirmedIsCarried
<1> QED
  BY <1>1, <1>2, <1>3, <1>4, <1>5, <1>6, <1>7, RqCases

\* The counts change only with the message, when it fits.
LEMMA RqCounted ==
    ASSUME RQTypeOK, Counted, RQNext
    PROVE  Counted'
<1>1. CASE Begins
  <2>1. CASE ConfigUpdate
    BY <2>1 DEF ConfigUpdate, Counted
  <2>2. CASE ~ConfigUpdate
    <3>1. sent' = FALSE \/ call' # "ConfigUpdate"
      BY <1>1, <2>2, RqKinds DEF Begins, Begin, SkipWhileIdle, ConfigUpdateTooMuch, ObtainRc, Enter,
        ReturnAtOnce, NewCall
    <3> QED
      BY <3>1 DEF Counted
  <2> QED
    BY <2>1, <2>2
<1>2. CASE Keeps
  BY <1>2, RqKeeps DEF Counted
<1>3. CASE SendRequest \/ TakeAnswer \/ AnswerLost
  BY <1>3 DEF SendRequest, TakeAnswer, AnswerLost, request, topics, Counted
<1>4. CASE ReleaseRc
  BY <1>4, RqRelease DEF Counted
<1>5. ASSUME NEW v \in Gives[cmd], Board(v)
      PROVE  Counted'
  BY <1>5 DEF Board, request, topics, Counted
<1> QED
  BY <1>1, <1>2, <1>3, <1>4, <1>5, RqCases

\* A message of configUpdate that the board carries out sets the rates it names.
LEMMA RqApplied ==
    ASSUME RQTypeOK, OwnIsOwn, FreshLine, Applied, RQNext
    PROVE  Applied'
<1>0. LineTyped /\ TelemetryTyped
  BY DEF RQTypeOK
<1>1. CASE Begins
  BY <1>1, RqBegins DEF NewCall, Applied
<1>2. CASE Keeps
  BY <1>2, RqKeeps DEF Applied
<1>3. CASE SendRequest \/ TakeAnswer \/ AnswerLost
  BY <1>3 DEF SendRequest, TakeAnswer, AnswerLost, request, topics, history, Applied
<1>4. CASE ReleaseRc
  BY <1>4, RqRelease DEF Applied
<1>5. ASSUME NEW v \in Gives[cmd], Board(v)
      PROVE  Applied'
  <2> DEFINE first == Head(inbox)
  <2>1. /\ inbox # <<>>
        /\ carried' = (carried \/ (first.own /\ v \in Confirms(first.kind)))
        /\ rates' = IF first.kind = "ConfigUpdate"
                    THEN [t \in Topics |-> IF first.msg[t] = NoChange THEN rates[t] ELSE first.msg[t]]
                    ELSE rates
        /\ UNCHANGED <<call, sent, stale, msg>>
    BY <1>5 DEF Board, request, topics
  <2>2. SUFFICES ASSUME call = "ConfigUpdate", sent, ~stale, NEW t \in Topics, msg[t] # NoChange
                 PROVE  rates'[t] = msg[t]
    BY <2>1 DEF Applied
  <2>3. first.kind = call /\ first.msg = msg
    BY <1>0, <2>1, <2>2, RqHeadRequest DEF OwnIsOwn, FreshLine
  <2> QED
    BY <2>1, <2>2, <2>3
<1> QED
  BY <1>1, <1>2, <1>3, <1>4, <1>5, RqCases

\* The answer that ends a call's loop is a confirmation.
LEMMA RqUntilConfirms == \A k : Until(k) = Confirms(k)
BY DEF Until, Confirms

\* A call reports success on a confirmation only.
LEMMA RqSuccess ==
    ASSUME RQTypeOK, ConfirmedIsCarried, SuccessMeansCarried, RQNext
    PROVE  SuccessMeansCarried'
<1>0. CallTyped
  BY DEF RQTypeOK
<1>1. CASE Begins
  BY <1>1, RqBegins DEF SuccessMeansCarried
<1>2. CASE Succeed
  <2>1. at = "judge" /\ ack \in Confirms(call) /\ UNCHANGED <<stale, carried>>
    BY <1>2, RqUntilConfirms DEF Succeed, history
  <2> QED
    BY <2>1 DEF ConfirmedIsCarried, SuccessMeansCarried
<1>3. CASE RequestFails \/ AnswerTimeout \/ Refuse
  <2>1. at' = "idle" => returned' # 0
    BY <1>3 DEF RequestFails, AnswerTimeout, Refuse, Fail, ReturnWith
  <2> QED
    BY <2>1 DEF SuccessMeansCarried
<1>4. CASE SendRequest \/ TakeAnswer \/ AskAgain \/ at' = "exited"
  BY <1>4 DEF SendRequest, TakeAnswer, AskAgain, SuccessMeansCarried
<1>5. CASE SendVirtualRCCmd \/ RcDisconnect \/ (\E m \in RcModes : RcPush(m)) \/ AnswerLost
           \/ \E t \in Topics, f \in Rates \cup {NoChange} : ConfigTopic(t, f)
  BY <1>5 DEF SendVirtualRCCmd, RcDisconnect, RcPush, AnswerLost, ConfigTopic, request, history,
     SuccessMeansCarried
<1>6. CASE ReleaseRc
  BY <1>6, RqRelease DEF SuccessMeansCarried
<1>7. ASSUME NEW v \in Gives[cmd], Board(v)
      PROVE  SuccessMeansCarried'
  BY <1>7 DEF Board, request, SuccessMeansCarried
<1>8. CASE Exited
  BY <1>8 DEF Exited, rq_vars, request, history, SuccessMeansCarried
<1> QED
  BY <1>1, <1>2, <1>3, <1>4, <1>5, <1>6, <1>7, <1>8, RqCases DEF Keeps

\* The invariant holds when no call has been made.
LEMMA RqInitIInv == RQInit => RQIInv
<1> SUFFICES ASSUME RQInit
             PROVE  RQIInv
  OBVIOUS
<1>1. CallTyped
  <2>1. cmd \in Ids /\ call = NoKind /\ at = "idle" /\ ack = Unset /\ attempt = 0 /\ returned = 0
        /\ sent \in BOOLEAN
    BY DEF RQInit
  <2> QED
    BY <2>1, RqUnset DEF CallTyped
<1>2. LineTyped
  <2>1. inbox = <<>> /\ outbox = <<>> /\ stale \in BOOLEAN /\ carried \in BOOLEAN
    BY DEF RQInit
  <2> QED
    BY <2>1, FlightAssumption DEF LineTyped
<1>3. TelemetryTyped
  BY RqNoSelection DEF RQInit, TelemetryTyped
<1>4. RcTyped
  <2>1. rc_status = "RELEASED" /\ rc_drop = 0 /\ rc_buffer \in BOOLEAN /\ rc_mode = {}
    BY DEF RQInit
  <2> QED
    BY <2>1, RcAssumption DEF RcTyped
<1>5. OwnIsOwn /\ FreshLine
  BY DEF RQInit, OwnIsOwn, FreshLine
<1>6. ConfirmedIsCarried /\ Counted /\ Applied /\ SuccessMeansCarried
  BY DEF RQInit, ConfirmedIsCarried, Counted, Applied, SuccessMeansCarried, NoKind
<1> QED
  BY <1>1, <1>2, <1>3, <1>4, <1>5, <1>6 DEF RQIInv, RQTypeOK

\* Every step preserves the invariant.
LEMMA RqNextIInv == RQIInv /\ [RQNext]_rq_vars => RQIInv'
<1> SUFFICES ASSUME RQIInv, [RQNext]_rq_vars
             PROVE  RQIInv'
  OBVIOUS
<1>1. CASE RQNext
  BY <1>1, RqCallTyped, RqLineTyped, RqTelemetryTyped, RqRcTyped, RqOwnIsOwn, RqFreshLine,
     RqConfirmedIsCarried, RqCounted, RqApplied, RqSuccess DEF RQIInv, RQTypeOK
<1>2. CASE UNCHANGED rq_vars
  <2> USE <1>2 DEF RQIInv, rq_vars, request, line, history, topics, rc
  <2>1. RQTypeOK'
    BY DEF RQTypeOK, CallTyped, LineTyped, TelemetryTyped, RcTyped
  <2>2. OwnIsOwn' /\ FreshLine' /\ ConfirmedIsCarried'
    BY DEF OwnIsOwn, FreshLine, ConfirmedIsCarried
  <2>3. Counted' /\ Applied' /\ SuccessMeansCarried'
    BY DEF Counted, Applied, SuccessMeansCarried
  <2> QED
    BY <2>1, <2>2, <2>3
<1> QED
  BY <1>1, <1>2

\* The inductive invariant of the board's requests, for every board, all topics, costs and
\* rates and any number of requests on their way.
THEOREM RqInvariant == RQSpec => []RQIInv
<1> QED
  BY RqInitIInv, RqNextIInv, PTL DEF RQSpec

\* A call that reports success has been carried out, if no answer to an earlier call of
\* its id was on its way: every retry, refusal and timeout included.
THEOREM RqSuccessMeansCarried == RQSpec => []SuccessMeansCarried
<1>1. RQIInv => SuccessMeansCarried
  BY DEF RQIInv
<1> QED
  BY <1>1, RqInvariant, PTL

\* After a successful configUpdate the named topics are pushed at the rates accounted for.
THEOREM RqRatesAgree == RQSpec => []RatesAgree
<1>1. ASSUME RQIInv
      PROVE  RatesAgree
  <2>1. SUFFICES ASSUME at = "idle", call = "ConfigUpdate", sent, returned = 0, ~stale
                 PROVE  /\ \A t \in Topics : msg[t] # NoChange => rates[t] = msg[t] /\ bit_r[t] = msg[t]
                        /\ (\A t \in Topics : msg[t] # NoChange) => calculatebitrate(rates) <= Bandwidth
    BY DEF RatesAgree
  <2>2. carried
    BY <1>1, <2>1 DEF RQIInv, SuccessMeansCarried, NoKind
  <2>3. bit_r = Accounted(msg) /\ calculatebitrate(bit_r) <= Bandwidth
    BY <1>1, <2>1 DEF RQIInv, Counted
  <2>4. \A t \in Topics : msg[t] # NoChange => rates[t] = msg[t]
    BY <1>1, <2>1, <2>2 DEF RQIInv, Applied
  <2>5. \A t \in Topics : msg[t] # NoChange => bit_r[t] = msg[t]
    BY <2>3 DEF Accounted
  <2>6. ASSUME \A t \in Topics : msg[t] # NoChange
        PROVE  rates = bit_r
    <3>1. rates \in [Topics -> Rates] /\ bit_r \in [Topics -> Rates]
      BY <1>1 DEF RQIInv, RQTypeOK, TelemetryTyped, Settings
    <3> QED
      BY <2>4, <2>5, <2>6, <3>1
  <2> QED
    BY <2>3, <2>4, <2>5, <2>6
<1> QED
  BY <1>1, RqInvariant, PTL
=============================================================================
