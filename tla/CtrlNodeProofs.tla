---------------------------- MODULE CtrlNodeProofs ----------------------------
(***************************************************************************)
(* Proofs about CtrlNode, for every set of fields and of messages and for  *)
(* every depth of the queue: the types, the single late frame and that an  *)
(* undisturbed heartbeat repeats the last accepted command.                *)
(***************************************************************************)
EXTENDS CtrlNode, TLAPS, SequenceTheorems

\* TypeOK in three parts: the publishers', the callback's and the heartbeat's variables.
QueueTyped ==
    /\ queue \in Seq(Messages) /\ Len(queue) <= QueueDepth
    /\ published \in 0..MaxPublished
    /\ latest \in Messages \cup {Default}
    /\ msg \in Messages \cup {Default}
CallbackTyped ==
    /\ cb \in CallbackPoints
    /\ cbTodo \subseteq Fields
    /\ onSend \in BOOLEAN
    /\ ctrl_msg_ \in MessageType
    /\ ctrl_status \in {"RELEASED", "OBTAINED", "IDLE"}
    /\ accepted \in Messages \cup {Default}
HeartbeatTyped ==
    /\ hb \in HeartbeatPoints
    /\ hbTodo \subseteq Fields
    /\ reg \in (Fields \X Values) \cup {Nothing}
    /\ late \in Nat
    /\ settled \in BOOLEAN
LineTyped ==
    /\ ctrl_data \in Commands
    /\ wire \in Commands \cup {Nothing}

LEMMA TypeParts ==
    /\ TypeOK => QueueTyped /\ CallbackTyped /\ HeartbeatTyped /\ LineTyped
    /\ QueueTyped /\ CallbackTyped /\ HeartbeatTyped /\ LineTyped => TypeOK
    /\ (QueueTyped /\ CallbackTyped /\ HeartbeatTyped /\ LineTyped)' => TypeOK'
BY DEF TypeOK, QueueTyped, CallbackTyped, HeartbeatTyped, LineTyped

\* A message is typed, field by field.
LEMMA MessageTyped ==
    ASSUME NEW m \in Messages \cup {Default}
    PROVE  /\ m \in MessageType
           /\ m.mode_mark \in BOOLEAN
           /\ m.value \in Commands
           /\ \A f \in Fields : m.value[f] \in Values
BY MessagesAssumption DEF MessageType, Commands

\* The heartbeat cannot mistake a loaded field for none.
LEMMA PairNotNothing == \A p \in Fields \X Values : p # Nothing
BY DEF Nothing

\* What the safety properties say beside the types.
Discipline ==
    /\ AtMostOneLateFrame
    /\ Paused
    /\ LateRoundOver
    /\ KeepsAccepted
    /\ SettledCopies
    /\ RegOnlyInCopy
    /\ SettledWhenIdle

\* The whole of ctrl_data has been copied when the heartbeat sends it.
LEMMA CopiedIsAccepted ==
    ASSUME TypeOK, SettledCopies
    PROVE  RepeatsLastAccepted
<1> SUFFICES ASSUME settled, hb = "send"
             PROVE  ctrl_data = accepted.value /\ ~accepted.mode_mark
  BY DEF RepeatsLastAccepted
<1>1. accepted.value \in Commands
  BY MessageTyped DEF TypeOK
<1>2. \A f \in Fields : ctrl_data[f] = accepted.value[f]
  BY DEF SettledCopies
<1>3. ctrl_data = accepted.value
  BY <1>1, <1>2 DEF TypeOK, Commands
<1> QED
  BY <1>3 DEF SettledCopies

LEMMA InvariantParts ==
    /\ IInv => TypeOK /\ Discipline
    /\ TypeOK' /\ Discipline' => IInv'
    /\ TypeOK /\ Discipline => IInv
<1>1. TypeOK' /\ SettledCopies' => RepeatsLastAccepted'
  BY CopiedIsAccepted, PTL
<1> QED
  BY <1>1, CopiedIsAccepted DEF IInv, Discipline

LEMMA NodeInit == Init => IInv
<1> SUFFICES ASSUME Init
             PROVE  IInv
  OBVIOUS
<1> USE DEF Init
<1>1. QueueTyped
  BY QueueAssumption DEF QueueTyped
<1>2. CallbackTyped
  BY MessageTyped DEF CallbackTyped, CallbackPoints
<1>3. HeartbeatTyped
  BY DEF HeartbeatTyped, HeartbeatPoints
<1>4. LineTyped
  BY MessageTyped DEF LineTyped
<1>5. Discipline
  BY DEF Discipline, AtMostOneLateFrame, Paused, LateRoundOver, KeepsAccepted,
         SettledCopies, RegOnlyInCopy, SettledWhenIdle
<1> QED
  BY <1>1, <1>2, <1>3, <1>4, <1>5, TypeParts, InvariantParts

-----------------------------------------------------------------------------
\* Publishing and changes of control touch nothing that the threads share.
LEMMA EnvironmentStep ==
    ASSUME IInv, (\E m \in Messages : Publish(m)) \/ ControlChange
    PROVE  IInv'
<1> TypeOK /\ Discipline
  BY InvariantParts
<1>1. UNCHANGED <<msg, cb, cbTodo, heartbeat, onSend,
                  ctrl_msg_, ctrl_data, history>>
  BY DEF Publish, ControlChange, callback, messages
<1>2. QueueTyped'
  <2>1. ASSUME NEW m \in Messages, Publish(m)
        PROVE  QueueTyped'
    <3>1. queue' \in Seq(Messages) /\ Len(queue') <= QueueDepth
      <4>1. CASE Len(queue) < QueueDepth
        BY <2>1, <4>1, QueueAssumption DEF Publish, TypeOK
      <4>2. CASE ~(Len(queue) < QueueDepth)
        <5>1. queue \in Seq(Messages) /\ Len(queue) = QueueDepth /\ queue # <<>>
          BY <4>2, QueueAssumption DEF TypeOK
        <5>2. Tail(queue) \in Seq(Messages) /\ Len(Tail(queue)) = QueueDepth - 1
          BY <5>1, HeadTailProperties
        <5> QED
          BY <2>1, <4>2, <5>2, QueueAssumption DEF Publish
      <4> QED
        BY <4>1, <4>2
    <3>2. published' \in 0..MaxPublished /\ latest' = m
      BY <2>1, QueueAssumption DEF Publish, TypeOK
    <3> QED
      BY <1>1, <3>1, <3>2 DEF QueueTyped, TypeOK
  <2>2. CASE ControlChange
    BY <2>2 DEF ControlChange, messages, callback, QueueTyped, TypeOK
  <2> QED
    BY <2>1, <2>2
<1>3. CallbackTyped'
  BY <1>1 DEF Publish, ControlChange, CallbackTyped, TypeOK, history
<1>4. HeartbeatTyped' /\ LineTyped'
  BY <1>1 DEF HeartbeatTyped, LineTyped, TypeOK, heartbeat, history
<1>5. Discipline'
  BY <1>1 DEF Discipline, AtMostOneLateFrame, Paused, LateRoundOver, KeepsAccepted,
              SettledCopies, RegOnlyInCopy, SettledWhenIdle, heartbeat, history
<1> QED
  BY <1>2, <1>3, <1>4, <1>5, TypeParts, InvariantParts

\* The callback begins: from here on the heartbeat's round, if one has begun, is late.
LEMMA CallbackStartStep == ASSUME IInv, CallbackStart PROVE IInv'
<1> TypeOK /\ Discipline
  BY InvariantParts
<1> USE DEF CallbackStart
<1>1. QueueTyped'
  <2>1. queue \in Seq(Messages) /\ queue # <<>>
    BY DEF TypeOK
  <2>2. /\ Head(queue) \in Messages
        /\ Tail(queue) \in Seq(Messages)
        /\ Len(Tail(queue)) = Len(queue) - 1
    BY <2>1, HeadTailProperties
  <2>3. Len(queue) \in Nat
    BY <2>1
  <2> QED
    BY <2>2, <2>3, QueueAssumption DEF QueueTyped, TypeOK
<1>2. CallbackTyped'
  BY DEF CallbackTyped, TypeOK, CallbackPoints
<1>3. HeartbeatTyped' /\ LineTyped'
  BY DEF HeartbeatTyped, LineTyped, TypeOK, heartbeat
<1>4. Discipline'
  BY DEF Discipline, AtMostOneLateFrame, Paused, LateRoundOver, KeepsAccepted,
         SettledCopies, RegOnlyInCopy, SettledWhenIdle, heartbeat
<1> QED
  BY <1>1, <1>2, <1>3, <1>4, TypeParts, InvariantParts

\* The callback's other steps.
CallbackWork ==
    \/ ObtainControl
    \/ DropOrKeep
    \/ StoreMark
    \/ \E f \in Fields : StoreValue(f) \/ StoreData(f)
    \/ SendCheck
    \/ Send
    \/ Transform
    \/ ModeRequest

\* They are taken while the heartbeat is asked to pause, so that no round is settled.
LEMMA CallbackWorkFrame ==
    ASSUME IInv, CallbackWork
    PROVE  /\ UNCHANGED <<messages, msg, heartbeat, late, settled>>
           /\ cb # "idle"
           /\ ~settled
<1>1. UNCHANGED <<messages, msg, heartbeat, late, settled>> /\ cb # "idle"
  BY DEF CallbackWork, ObtainControl, DropOrKeep, StoreMark, StoreValue, StoreData, SendCheck,
         Send, Transform, ModeRequest, history, messages, heartbeat
<1> QED
  BY <1>1 DEF IInv, SettledWhenIdle

LEMMA CallbackWorkTyped ==
    ASSUME IInv, CallbackWork
    PROVE  CallbackTyped' /\ LineTyped'
<1> TypeOK
  BY InvariantParts
<1> msg \in Messages \cup {Default}
  BY DEF TypeOK
<1>1. cb' \in CallbackPoints
  BY DEF CallbackWork, ObtainControl, DropOrKeep, StoreMark, StoreValue, StoreData, SendCheck,
         Send, Transform, ModeRequest, Return, CallbackPoints, TypeOK
<1>2. cbTodo' \subseteq Fields
  BY DEF CallbackWork, ObtainControl, DropOrKeep, StoreMark, StoreValue, StoreData, SendCheck,
         Send, Transform, ModeRequest, TypeOK
<1>3. onSend' \in BOOLEAN
  BY DEF CallbackWork, ObtainControl, DropOrKeep, StoreMark, StoreValue, StoreData, SendCheck,
         Send, Transform, ModeRequest, Return, TypeOK
<1>4. ctrl_msg_' \in MessageType
  <2>1. CASE StoreMark
    BY <2>1, MessageTyped DEF StoreMark, TypeOK, MessageType
  <2>2. ASSUME NEW f \in Fields, StoreValue(f)
        PROVE  ctrl_msg_' \in MessageType
    BY <2>2, MessageTyped DEF StoreValue, TypeOK, MessageType, Commands
  <2>3. CASE UNCHANGED ctrl_msg_
    BY <2>3 DEF TypeOK
  <2> QED
    BY <2>1, <2>2, <2>3
       DEF CallbackWork, ObtainControl, DropOrKeep, StoreData, SendCheck, Send, Transform,
           ModeRequest
<1>5. ctrl_status' \in {"RELEASED", "OBTAINED", "IDLE"}
  BY DEF CallbackWork, ObtainControl, DropOrKeep, StoreMark, StoreValue, StoreData, SendCheck,
         Send, Transform, ModeRequest, TypeOK
<1>7. accepted' \in Messages \cup {Default}
  BY DEF CallbackWork, ObtainControl, DropOrKeep, StoreMark, StoreValue, StoreData, SendCheck,
         Send, Transform, ModeRequest, history, TypeOK
<1>8. LineTyped'
  <2>1. ASSUME NEW f \in Fields, StoreData(f)
        PROVE  LineTyped'
    BY <2>1, MessageTyped DEF StoreData, LineTyped, TypeOK, history, Commands
  <2>2. CASE Send
    BY <2>2 DEF Send, LineTyped, TypeOK
  <2>3. CASE UNCHANGED <<ctrl_data, wire>>
    BY <2>3 DEF LineTyped, TypeOK
  <2> QED
    BY <2>1, <2>2, <2>3
       DEF CallbackWork, ObtainControl, DropOrKeep, StoreMark, StoreValue, SendCheck,
           Transform, ModeRequest, history
<1> QED
  BY <1>1, <1>2, <1>3, <1>4, <1>5, <1>7, <1>8 DEF CallbackTyped

\* ctrl_msg_ is a whole message again when its last field has been copied.
LEMMA StoreValueKeeps ==
    ASSUME IInv, NEW f \in Fields, StoreValue(f)
    PROVE  KeepsAccepted'
<1> TypeOK /\ KeepsAccepted
  BY DEF IInv
<1>1. /\ msg \in MessageType /\ ctrl_msg_ \in MessageType
      /\ cb = "value" /\ f \in cbTodo /\ msg' = msg
      /\ ctrl_msg_' = [ctrl_msg_ EXCEPT !.value[f] = msg.value[f]]
  BY MessageTyped DEF StoreValue, TypeOK
<1>2. /\ ctrl_msg_' \in MessageType
      /\ ctrl_msg_'.mode_mark = msg.mode_mark
      /\ \A g \in (Fields \ cbTodo) \cup {f} : ctrl_msg_'.value[g] = msg.value[g]
  BY <1>1, MessageTyped DEF KeepsAccepted, MessageType, Commands, TypeOK
<1>3. CASE cbTodo = {f}
  <2>1. cb' # "value" /\ accepted' = msg
    BY <1>3 DEF StoreValue
  <2>2. \A g \in Fields : ctrl_msg_'.value[g] = msg.value[g]
    BY <1>2, <1>3
  <2>3. ctrl_msg_'.value = msg.value
    BY <1>1, <1>2, <2>2 DEF MessageType, Commands
  <2>4. ctrl_msg_' = msg
    BY <1>1, <1>2, <2>3 DEF MessageType
  <2> QED
    BY <2>1, <2>4 DEF KeepsAccepted
<1>4. CASE cbTodo # {f}
  <2>1. cb' = "value" /\ cbTodo' = cbTodo \ {f}
    BY <1>1, <1>4 DEF StoreValue
  <2> QED
    BY <1>1, <1>2, <2>1 DEF KeepsAccepted
<1> QED
  BY <1>3, <1>4

LEMMA CallbackWorkStep == ASSUME IInv, CallbackWork PROVE IInv'
<1> TypeOK /\ Discipline
  BY InvariantParts
<1>1. /\ UNCHANGED <<messages, msg, heartbeat, late, settled>>
      /\ cb # "idle"
      /\ ~settled
  BY CallbackWorkFrame
<1>2. QueueTyped' /\ HeartbeatTyped'
  BY <1>1 DEF TypeOK, QueueTyped, HeartbeatTyped, messages, heartbeat
<1>3. CallbackTyped' /\ LineTyped'
  BY CallbackWorkTyped
<1>4. Paused'
  BY <1>1 DEF Discipline, Paused, CallbackWork, ObtainControl, DropOrKeep, StoreMark, StoreValue,
              StoreData, SendCheck, Send, Transform, ModeRequest, Return
<1>5. AtMostOneLateFrame' /\ LateRoundOver'
  BY <1>1 DEF Discipline, AtMostOneLateFrame, LateRoundOver, heartbeat
<1>6. KeepsAccepted'
  <2>1. ASSUME NEW f \in Fields, StoreValue(f)
        PROVE  KeepsAccepted'
    BY <2>1, StoreValueKeeps
  <2>2. CASE StoreMark
    BY <2>2, MessageTyped DEF StoreMark, KeepsAccepted, TypeOK, MessageType
  <2>3. CASE ctrl_msg_' = ctrl_msg_ /\ accepted' = accepted /\ cb # "value" /\ cb' # "value"
    BY <2>3 DEF Discipline, KeepsAccepted
  <2>4. CASE ~StoreMark /\ ~\E f \in Fields : StoreValue(f)
    <3>1. ctrl_msg_' = ctrl_msg_ /\ accepted' = accepted /\ cb # "value" /\ cb' # "value"
      BY <2>4 DEF CallbackWork, ObtainControl, DropOrKeep, StoreData, SendCheck, Send,
                  Transform, ModeRequest, Return, history
    <3> QED
      BY <2>3, <3>1
  <2> QED
    BY <2>1, <2>2, <2>4
<1>7. SettledCopies' /\ RegOnlyInCopy' /\ SettledWhenIdle'
  BY <1>1 DEF Discipline, SettledCopies, RegOnlyInCopy, SettledWhenIdle, heartbeat
<1> QED
  BY <1>2, <1>3, <1>4, <1>5, <1>6, <1>7, TypeParts, InvariantParts DEF Discipline

-----------------------------------------------------------------------------
\* What the heartbeat leaves alone.
LEMMA HeartbeatFrame ==
    ASSUME heart_beat_loop
    PROVE  UNCHANGED <<messages, callback, onSend, ctrl_msg_, ctrl_status, accepted>>
BY DEF heart_beat_loop, HbTop, HbControl, HbMark, HbLoad, HbStore, HbCheck, HbSend,
       HbSendFails, history, messages, callback

LEMMA HeartbeatTypes ==
    ASSUME IInv, heart_beat_loop
    PROVE  HeartbeatTyped' /\ LineTyped'
<1> TypeOK
  BY InvariantParts
<1>1. hb' \in HeartbeatPoints
  BY DEF heart_beat_loop, HbTop, HbControl, HbMark, HbLoad, HbStore, HbCheck, HbSend,
         HbSendFails, HeartbeatPoints, TypeOK
<1>2. hbTodo' \subseteq Fields
  BY DEF heart_beat_loop, HbTop, HbControl, HbMark, HbLoad, HbStore, HbCheck, HbSend,
         HbSendFails, TypeOK
<1>3. reg' \in (Fields \X Values) \cup {Nothing}
  <2>1. ASSUME NEW f \in Fields, HbLoad(f)
        PROVE  reg' \in Fields \X Values
    BY <2>1 DEF HbLoad, TypeOK, MessageType, Commands
  <2>2. CASE reg' = reg \/ reg' = Nothing
    BY <2>2 DEF TypeOK
  <2> QED
    BY <2>1, <2>2
       DEF heart_beat_loop, HbTop, HbControl, HbMark, HbStore, HbCheck, HbSend, HbSendFails
<1>4. late' \in Nat
  BY DEF heart_beat_loop, HbTop, HbControl, HbMark, HbLoad, HbStore, HbCheck, HbSend,
         HbSendFails, history, TypeOK
<1>5. settled' \in BOOLEAN
  <2>1. CASE HbTop
    <3>1. settled' = (cb = "idle")
      BY <2>1 DEF HbTop
    <3> QED
      BY <3>1
  <2>2. CASE settled' = settled
    BY <2>2 DEF TypeOK
  <2> QED
    BY <2>1, <2>2 DEF heart_beat_loop, HbControl, HbMark, HbLoad, HbStore, HbCheck, HbSend,
                      HbSendFails, history
<1>6. LineTyped'
  <2>1. CASE HbStore
    <3>1. reg \in Fields \X Values
      BY <2>1 DEF HbStore, TypeOK
    <3> QED
      BY <2>1, <3>1 DEF HbStore, LineTyped, TypeOK, history, Commands
  <2>2. CASE ~HbStore
    BY <2>2 DEF heart_beat_loop, HbTop, HbControl, HbMark, HbLoad, HbCheck, HbSend,
                HbSendFails, history, LineTyped, TypeOK
  <2> QED
    BY <2>1, <2>2
<1> QED
  BY <1>1, <1>2, <1>3, <1>4, <1>5, <1>6 DEF HeartbeatTyped

\* A round sends one frame at most, and it begins only while no callback is at work: so
\* a late frame ends the only round that can be late.
LEMMA HeartbeatLate ==
    ASSUME IInv, heart_beat_loop
    PROVE  AtMostOneLateFrame' /\ LateRoundOver'
<1> TypeOK /\ Discipline
  BY InvariantParts
<1>1. cb' = cb /\ onSend' = onSend
  BY HeartbeatFrame DEF callback
<1>2. CASE HbSend
  <2>1. hb = "send" /\ hb' = "top"
    BY <1>2 DEF HbSend
  <2>2. CASE cb = "idle"
    BY <1>1, <1>2, <2>1, <2>2 DEF HbSend, Discipline, AtMostOneLateFrame, LateRoundOver
  <2>3. CASE cb # "idle"
    <3>1. late \in Nat /\ late # 1 /\ late <= 1
      BY <2>1, <2>3 DEF Discipline, AtMostOneLateFrame, LateRoundOver, TypeOK
    <3>2. late' = 1
      BY <1>2, <2>3, <3>1 DEF HbSend
    <3> QED
      BY <2>1, <3>2 DEF AtMostOneLateFrame, LateRoundOver
  <2> QED
    BY <2>2, <2>3
<1>3. CASE HbTop
  BY <1>1, <1>3 DEF HbTop, Discipline, AtMostOneLateFrame, LateRoundOver, Paused
<1>4. CASE ~HbSend /\ ~HbTop
  <2>1. late' = late /\ (hb = "top" => hb' = "top")
    BY <1>4 DEF heart_beat_loop, HbControl, HbMark, HbLoad, HbStore, HbCheck, HbSendFails,
                history
  <2>2. hb # "top"
    BY <1>4 DEF heart_beat_loop, HbControl, HbMark, HbLoad, HbStore, HbCheck, HbSendFails
  <2> QED
    BY <1>1, <2>1, <2>2 DEF Discipline, AtMostOneLateFrame, LateRoundOver
<1> QED
  BY <1>2, <1>3, <1>4

\* An undisturbed round copies the accepted command, one field after the other.
LEMMA HeartbeatSettled ==
    ASSUME IInv, heart_beat_loop
    PROVE  SettledCopies' /\ RegOnlyInCopy'
<1> TypeOK /\ Discipline
  BY InvariantParts
<1>1. cb' = cb /\ accepted' = accepted /\ ctrl_msg_' = ctrl_msg_
  BY HeartbeatFrame DEF callback
<1>2. CASE HbTop
  BY <1>2 DEF HbTop, Discipline, SettledCopies, RegOnlyInCopy
<1>3. CASE HbControl
  BY <1>3 DEF HbControl, Discipline, SettledCopies, RegOnlyInCopy
<1>4. CASE HbMark
  <2>1. settled /\ hb' # "top" => cb = "idle" /\ ~accepted.mode_mark
    BY <1>4 DEF HbMark, Discipline, SettledWhenIdle, KeepsAccepted, history
  <2>2. reg = Nothing /\ reg' = reg
    BY <1>4 DEF HbMark, Discipline, RegOnlyInCopy
  <2>3. hb' = "top" \/ (hb' = "copy" /\ hbTodo' = Fields)
    BY <1>4 DEF HbMark
  <2> QED
    BY <1>1, <1>4, <2>1, <2>2, <2>3 DEF HbMark, SettledCopies, RegOnlyInCopy, history
<1>5. ASSUME NEW f \in Fields, HbLoad(f)
      PROVE  SettledCopies' /\ RegOnlyInCopy'
  <2>1. settled => ctrl_msg_.value[f] = accepted.value[f]
    BY <1>5 DEF Discipline, SettledWhenIdle, KeepsAccepted
  <2>2. reg'[1] = f /\ reg'[2] = ctrl_msg_.value[f] /\ f \in hbTodo /\ hb = "copy" /\ hb' = hb
    BY <1>5 DEF HbLoad
  <2>3. UNCHANGED <<hbTodo, ctrl_data, settled>>
    BY <1>5 DEF HbLoad, history
  <2> QED
    BY <1>1, <2>1, <2>2, <2>3 DEF Discipline, SettledCopies, RegOnlyInCopy
<1>6. CASE HbStore
  <2>1. reg \in Fields \X Values /\ hb = "copy"
    BY <1>6 DEF HbStore, TypeOK
  <2> DEFINE f == reg[1]
  <2>2. f \in Fields
    BY <2>1
  <2>3. /\ ctrl_data' = [ctrl_data EXCEPT ![f] = reg[2]]
        /\ hbTodo' = hbTodo \ {f}
        /\ reg' = Nothing
        /\ settled' = settled
        /\ hb' = IF hbTodo = {f} THEN "check" ELSE "copy"
    BY <1>6, <2>1 DEF HbStore, history
  <2>4. settled => /\ cb = "idle" /\ ~accepted.mode_mark
                   /\ f \in hbTodo /\ reg[2] = accepted.value[f]
                   /\ \A g \in Fields \ hbTodo : ctrl_data[g] = accepted.value[g]
    BY <1>6, <2>1 DEF HbStore, Discipline, SettledCopies
  <2>5. ctrl_data \in [Fields -> Values]
    BY DEF TypeOK, Commands
  <2> HIDE DEF f
  <2>6. settled => \A g \in Fields \ hbTodo' : ctrl_data'[g] = accepted.value[g]
    BY <2>2, <2>3, <2>4, <2>5
  <2>7. hb' # "copy" => hbTodo' = {}
    BY <2>3
  <2> QED
    BY <1>1, <2>3, <2>4, <2>6, <2>7 DEF SettledCopies, RegOnlyInCopy
<1>7. CASE HbCheck
  BY <1>1, <1>7 DEF HbCheck, Discipline, SettledCopies, RegOnlyInCopy, history
<1>8. CASE HbSend \/ HbSendFails
  BY <1>1, <1>8 DEF HbSend, HbSendFails, Discipline, SettledCopies, RegOnlyInCopy, history
<1> QED
  BY <1>2, <1>3, <1>4, <1>5, <1>6, <1>7, <1>8 DEF heart_beat_loop

LEMMA HeartbeatStep == ASSUME IInv, heart_beat_loop PROVE IInv'
<1> TypeOK /\ Discipline
  BY InvariantParts
<1>1. UNCHANGED <<messages, callback, onSend, ctrl_msg_, ctrl_status, accepted>>
  BY HeartbeatFrame
<1>2. QueueTyped' /\ CallbackTyped'
  BY <1>1 DEF TypeOK, QueueTyped, CallbackTyped, messages, callback
<1>3. Paused' /\ KeepsAccepted'
  BY <1>1 DEF Discipline, Paused, KeepsAccepted, callback
<1>4. SettledWhenIdle'
  BY <1>1 DEF Discipline, SettledWhenIdle, callback, heart_beat_loop, HbTop, HbControl, HbMark,
              HbLoad, HbStore, HbCheck, HbSend, HbSendFails, history
<1> QED
  BY <1>2, <1>3, <1>4, HeartbeatTypes, HeartbeatLate, HeartbeatSettled, TypeParts,
     InvariantParts DEF Discipline

-----------------------------------------------------------------------------
LEMMA NodeStep == IInv /\ [Next]_vars => IInv'
<1> SUFFICES ASSUME IInv, [Next]_vars
             PROVE  IInv'
  OBVIOUS
<1>1. CASE (\E m \in Messages : Publish(m)) \/ ControlChange
  BY <1>1, EnvironmentStep
<1>2. CASE CallbackStart
  BY <1>2, CallbackStartStep
<1>3. CASE CallbackWork
  BY <1>3, CallbackWorkStep
<1>4. CASE heart_beat_loop
  BY <1>4, HeartbeatStep
<1>5. CASE UNCHANGED vars
  <2> TypeOK /\ Discipline
    BY InvariantParts
  <2>1. QueueTyped' /\ CallbackTyped' /\ HeartbeatTyped' /\ LineTyped'
    BY <1>5 DEF TypeOK, QueueTyped, CallbackTyped, HeartbeatTyped, LineTyped, vars, messages,
                callback, heartbeat, history
  <2>2. Discipline'
    BY <1>5 DEF Discipline, AtMostOneLateFrame, Paused, LateRoundOver, KeepsAccepted,
                SettledCopies, RegOnlyInCopy, SettledWhenIdle, vars, messages, callback,
                heartbeat, history
  <2> QED
    BY <2>1, <2>2, TypeParts, InvariantParts
<1> QED
  BY <1>1, <1>2, <1>3, <1>4, <1>5 DEF Next, Motion_callback, CallbackWork

\* The invariant of CtrlNode holds for every set of fields and messages.
THEOREM NodeInvariant == Spec => []IInv
BY NodeInit, NodeStep, PTL DEF Spec

\* Every variable of CtrlNode keeps its type; the queue keeps to its depth.
THEOREM NodeTypeCorrect == Spec => []TypeOK
<1>1. IInv => TypeOK
  BY DEF IInv
<1> QED
  BY <1>1, NodeInvariant, PTL

\* While Motion_callback works on a message heart_beat_loop sends one frame at most.
THEOREM NodeAtMostOneLateFrame == Spec => []AtMostOneLateFrame
<1>1. IInv => AtMostOneLateFrame
  BY DEF IInv
<1> QED
  BY <1>1, NodeInvariant, PTL

\* An undisturbed round of heart_beat_loop repeats the last accepted motion command.
THEOREM NodeRepeatsLastAccepted == Spec => []RepeatsLastAccepted
<1>1. IInv => RepeatsLastAccepted
  BY DEF IInv
<1> QED
  BY <1>1, NodeInvariant, PTL
=============================================================================
