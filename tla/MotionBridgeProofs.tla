------------------------- MODULE MotionBridgeProofs -------------------------
(***************************************************************************)
(* Proofs about MotionBridge.  A robot that moves has an owner: a thread   *)
(* that will still publish zero commands, more of them than can be lost in *)
(* a row.  MotionHasOwner says so, and with it that no call leaves the     *)
(* robot moving, whichever calls overlap.                                  *)
(***************************************************************************)
EXTENDS MotionBridge, TLAPS

LEMMA InitIInv == Init => IInv
<1> SUFFICES ASSUME Init
             PROVE  IInv
  OBVIOUS
<1>1. 0 \in 0..StopRepeat /\ 0 \in 0..MaxLost
  BY RepeatAssumption, LostAssumption
<1>2. TypeOK
  BY <1>1 DEF Init, TypeOK, Commands
<1>3. StopsOwed /\ MotionHasOwner
  BY DEF Init, StopsOwed, MotionHasOwner
<1> QED
  BY <1>2, <1>3 DEF IInv

\* What a publication does to the owner of a motion: a message that arrives with
\* any other command ends the motion, a lost one leaves the other threads' claims.
LEMMA PublishKeepsTypes ==
    ASSUME IInv, NEW command \in Commands, Publish(command)
    PROVE  robot' \in Commands /\ lost' \in 0..MaxLost /\ orphaned' \in BOOLEAN
<1>1. robot' \in Commands /\ orphaned' \in BOOLEAN
  BY DEF IInv, TypeOK, Publish
<1>2. lost' \in 0..MaxLost
  BY LostAssumption DEF IInv, TypeOK, Publish
<1> QED
  BY <1>1, <1>2

\* A step that leaves the robot and the losses alone keeps the owner, if the thread
\* that makes it stays one.
LEMMA OwnerStays ==
    ASSUME IInv, NEW t \in Threads,
           UNCHANGED <<robot, lost, orphaned>>,
           \A u \in Threads \ {t} : pc'[u] = pc[u] /\ left'[u] = left[u],
           WillStop(t) => WillStop(t)'
    PROVE  MotionHasOwner'
BY DEF IInv, MotionHasOwner, WillStop

\* Entering _publish_stop_repeated: all zero commands are still to come.
LEMMA BeginStopKeeps ==
    ASSUME IInv, NEW t \in Threads, BeginStop(t),
           UNCHANGED <<up, closing, robot, lost, orphaned>>
    PROVE  IInv'
<1> USE RepeatAssumption, LostAssumption DEF IInv, BeginStop
<1>1. TypeOK'
  BY DEF TypeOK
<1>2. StopsOwed'
  BY DEF StopsOwed, TypeOK
<1>3. WillStop(t)'
  BY DEF WillStop, TypeOK
<1>4. MotionHasOwner'
  BY <1>3, OwnerStays DEF TypeOK
<1> QED
  BY <1>1, <1>2, <1>4

LEMMA PublishMoveKeeps ==
    ASSUME IInv, NEW t \in Threads, PublishMove(t)
    PROVE  IInv'
<1> USE DEF IInv, PublishMove
<1>1. TypeOK'
  BY PublishKeepsTypes DEF TypeOK, Commands
<1>2. StopsOwed'
  BY DEF StopsOwed, TypeOK
<1>3. WillStop(t)'
  BY DEF WillStop, TypeOK
<1>4. MotionHasOwner'
  BY <1>3 DEF MotionHasOwner
<1> QED
  BY <1>1, <1>2, <1>4

\* One zero command: if it is lost, its thread has another one left, because more
\* of them are published than can be lost in a row.
LEMMA PublishStopKeeps ==
    ASSUME IInv, NEW t \in Threads, PublishStop(t)
    PROVE  IInv'
<1> USE RepeatAssumption, LostAssumption DEF IInv, PublishStop
<1>0. left[t] \in 1..StopRepeat /\ lost \in 0..MaxLost
  BY DEF TypeOK, StopsOwed
<1>1. TypeOK'
  <2>1. left' \in [Threads -> 0..StopRepeat]
    BY <1>0 DEF TypeOK
  <2>2. pc' \in [Threads -> {"idle", "move", "sleep", "stop", "stand_up", "stand_down",
                             "raise", "join", "destroy"}]
    BY DEF TypeOK
  <2>3. robot' \in Commands /\ lost' \in 0..MaxLost /\ orphaned' \in BOOLEAN
    BY PublishKeepsTypes DEF Commands
  <2> QED
    BY <2>1, <2>2, <2>3 DEF TypeOK
<1>2. StopsOwed'
  BY <1>0 DEF StopsOwed, TypeOK
<1>3. MotionHasOwner'
  <2>1. CASE robot' # "go"
    BY <2>1 DEF MotionHasOwner, WillStop
  <2>2. CASE lost < MaxLost /\ lost' = lost + 1 /\ UNCHANGED <<robot, orphaned>>
    <3> SUFFICES ASSUME robot = "go", ~orphaned
                 PROVE  \E u \in Threads : WillStop(u)'
      BY <2>2 DEF MotionHasOwner, WillStop
    <3>1. PICK u \in Threads : WillStop(u)
      BY DEF MotionHasOwner
    <3>2. CASE u # t
      BY <2>2, <3>1, <3>2 DEF WillStop, TypeOK
    <3>3. CASE u = t
      <4>1. StopRepeat - left[t] <= lost
        BY <3>1, <3>3 DEF WillStop
      <4>2. left[t] > 1
        BY <1>0, <2>2, <4>1
      <4>3. pc'[t] = "stop" /\ left'[t] = left[t] - 1
        BY <4>2 DEF TypeOK
      <4>4. WillStop(t)'
        BY <1>0, <2>2, <4>1, <4>3 DEF WillStop
      <4> QED
        BY <4>4
    <3> QED
      BY <3>2, <3>3
  <2> QED
    BY <2>1, <2>2 DEF Publish
<1> QED
  BY <1>1, <1>2, <1>3

LEMMA PublishHeightKeeps ==
    ASSUME IInv, NEW t \in Threads, PublishHeight(t)
    PROVE  IInv'
<1> USE LostAssumption DEF IInv, PublishHeight
<1>1. TypeOK'
  BY PublishKeepsTypes DEF TypeOK, Commands
<1>2. StopsOwed'
  BY DEF StopsOwed, TypeOK
<1>3. MotionHasOwner'
  <2>1. CASE robot' # "go"
    BY <2>1 DEF MotionHasOwner, WillStop
  <2>2. CASE lost' = lost + 1 /\ UNCHANGED <<robot, orphaned>>
    <3>1. ASSUME NEW u \in Threads, WillStop(u) PROVE WillStop(u)'
      <4>1. u # t
        BY <3>1 DEF WillStop
      <4>2. pc'[u] = pc[u] /\ left'[u] = left[u]
        BY <4>1 DEF TypeOK
      <4>3. lost \in Nat /\ left[u] \in Nat
        BY DEF TypeOK
      <4> QED
        BY <2>2, <3>1, <4>2, <4>3, RepeatAssumption DEF WillStop
    <3> QED
      BY <2>2, <3>1 DEF MotionHasOwner
  <2> QED
    BY <2>1, <2>2 DEF Publish
<1> QED
  BY <1>1, <1>2, <1>3

LEMMA ThreadKeeps ==
    ASSUME IInv, NEW t \in Threads, Thread(t)
    PROVE  IInv'
<1>1. ASSUME NEW tool \in Tools, Call(t, tool) PROVE IInv'
  <2>1. CASE tool = "stop"
    BY <1>1, <2>1, BeginStopKeeps DEF Call
  <2>2. CASE tool # "stop"
    <3>1. TypeOK' /\ StopsOwed'
      BY <1>1, <2>2 DEF Call, Tools, IInv, TypeOK, StopsOwed
    <3>2. MotionHasOwner'
      BY <1>1, <2>2, OwnerStays DEF Call, IInv, TypeOK, WillStop
    <3> QED
      BY <3>1, <3>2 DEF IInv
  <2> QED
    BY <2>1, <2>2
<1>2. ASSUME MoveOn(t) PROVE IInv'
  <2>1. TypeOK' /\ StopsOwed'
    BY <1>2 DEF MoveOn, IInv, TypeOK, StopsOwed
  <2>2. MotionHasOwner'
    BY <1>2, OwnerStays DEF MoveOn, IInv, TypeOK, WillStop
  <2> QED
    BY <2>1, <2>2 DEF IInv
<1>3. ASSUME MoveOver(t) PROVE IInv'
  BY <1>3, BeginStopKeeps DEF MoveOver
<1>4. ASSUME PublishMode(t) PROVE IInv'
  <2>1. CASE pc[t] = "stand_down" /\ BeginStop(t)
    BY <1>4, <2>1, BeginStopKeeps DEF PublishMode
  <2>2. CASE pc[t] = "stand_up" /\ pc' = [pc EXCEPT ![t] = "raise"] /\ UNCHANGED left
    <3>1. TypeOK' /\ StopsOwed'
      BY <1>4, <2>2 DEF PublishMode, IInv, TypeOK, StopsOwed
    <3>2. MotionHasOwner'
      BY <1>4, <2>2, OwnerStays DEF PublishMode, IInv, TypeOK, WillStop
    <3> QED
      BY <3>1, <3>2 DEF IInv
  <2> QED
    BY <1>4, <2>1, <2>2 DEF PublishMode
<1> QED
  BY <1>1, <1>2, <1>3, <1>4, PublishMoveKeeps, PublishStopKeeps, PublishHeightKeeps
     DEF Thread

\* A process that ends takes the owner with it: the motion is orphaned.
LEMMA LifeKeeps ==
    ASSUME IInv, Life
    PROVE  IInv'
<1>1. ASSUME ProcessEnds PROVE IInv'
  <2>0. orphaned' \in BOOLEAN
    BY <1>1 DEF ProcessEnds
  <2>1. left' \in [Threads -> 0..StopRepeat]
    BY <1>1, RepeatAssumption DEF ProcessEnds
  <2>2. TypeOK'
    BY <1>1, <2>0, <2>1 DEF ProcessEnds, IInv, TypeOK
  <2>3. StopsOwed'
    BY <1>1 DEF ProcessEnds, StopsOwed
  <2>4. MotionHasOwner'
    BY <1>1 DEF ProcessEnds, IInv, MotionHasOwner, WillStop
  <2> QED
    BY <2>2, <2>3, <2>4 DEF IInv
<1>2. ASSUME StdinEnds PROVE IInv'
  <2> USE DEF Threads
  <2>1. TypeOK' /\ StopsOwed'
    BY <1>2 DEF StdinEnds, IInv, TypeOK, StopsOwed
  <2>2. MotionHasOwner'
    BY <1>2, OwnerStays DEF StdinEnds, IInv, TypeOK, WillStop
  <2> QED
    BY <2>1, <2>2 DEF IInv
<1>3. ASSUME RelayJoined PROVE IInv'
  BY <1>3, BeginStopKeeps DEF RelayJoined, Threads
<1>4. ASSUME Start PROVE IInv'
  BY <1>4 DEF Start, IInv, TypeOK, StopsOwed, MotionHasOwner, WillStop
<1> QED
  BY <1>1, <1>2, <1>3, <1>4 DEF Life, Destroy, Terminate

\* IInv is an inductive invariant of the bridge.
THEOREM BridgeInvariant == Spec => []IInv
<1>1. IInv /\ [Next]_vars => IInv'
  <2> SUFFICES ASSUME IInv, [Next]_vars
               PROVE  IInv'
    OBVIOUS
  <2>1. CASE \E t \in Threads : Thread(t)
    BY <2>1, ThreadKeeps
  <2>2. CASE Life
    BY <2>2, LifeKeeps
  <2>3. CASE UNCHANGED vars
    BY <2>3 DEF vars, IInv, TypeOK, StopsOwed, MotionHasOwner, WillStop
  <2> QED
    BY <2>1, <2>2, <2>3 DEF Next
<1> QED
  BY <1>1, InitIInv, PTL DEF Spec

\* The variables keep their types; a stop sequence never counts below zero.
THEOREM BridgeTypeCorrect == Spec => []TypeOK
BY BridgeInvariant, PTL DEF IInv

\* No call leaves the robot moving, for every length of the stop sequence and every
\* number of losses below it.
THEOREM BridgeStillWhenIdle == Spec => []StillWhenIdle
<1>1. IInv => StillWhenIdle
  BY DEF IInv, MotionHasOwner, WillStop, StillWhenIdle
<1> QED
  BY <1>1, BridgeInvariant, PTL
=============================================================================
