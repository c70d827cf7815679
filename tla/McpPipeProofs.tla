---------------------------- MODULE McpPipeProofs ----------------------------
(***************************************************************************)
(* Proofs about McpPipe: at most one MCP server runs, and none that the    *)
(* runner has known when the pipe has ended, for any number of cycles and  *)
(* of signals, wherever they interrupt the main thread and each other.     *)
(***************************************************************************)
EXTENDS McpPipe, TLAPS

USE CyclesAssumption, SignalsAssumption

LEMMA FrameNumbers == Frames \subseteq Nat /\ 0 \in Frames /\ Handlers = Frames \ {0}
BY DEF Frames, Handlers

LEMMA InitIInv == Init => IInv
<1> SUFFICES ASSUME Init
             PROVE  IInv
  OBVIOUS
<1> USE FrameNumbers
<1>1. pc \in [Frames -> Labels] /\ pc[0] = "loop" /\ \A k \in Handlers : pc[k] = "off"
  BY DEF Init, Labels, MainLabels, HandlerLabels
<1>2. TypeOK
  <2>1. [at |-> "off", on |-> 0] \in ThreadStates({"recv", "ponging"})
    BY DEF ThreadStates
  <2>2. [at |-> "off", on |-> 0] \in ThreadStates({"readline", "sending"})
    BY DEF ThreadStates
  <2>3. 0 \in 0..MaxCycles
    OBVIOUS
  <2> QED
    BY <1>1, <2>1, <2>2, <2>3 DEF Init, TypeOK
<1>3. Children /\ MainState
  BY <1>1 DEF Init, Children, MainState, MainLabels, Alive
<1>4. HandlerState /\ CleanupState
  BY <1>1 DEF HandlerState, CleanupState, HandlerLabels, Closing, Ending
<1> QED
  BY <1>2, <1>3, <1>4 DEF IInv

\* A step of one frame changes its own label only.
LEMMA GoFacts ==
    ASSUME TypeOK, NEW k \in Frames, NEW label \in Labels, Go(k, label)
    PROVE  /\ pc' \in [Frames -> Labels]
           /\ pc'[k] = label
           /\ \A j \in Frames : j # k => pc'[j] = pc[j]
BY DEF TypeOK, Go

\* A thread outside of any object, or inside the object of a cycle.
LEMMA ThreadStatesType ==
    ASSUME NEW inside
    PROVE  /\ \A label \in {"off", "start", "loop", "end"} : [at |-> label, on |-> 0] \in ThreadStates(inside)
           /\ \A label \in inside, w \in Cycles : [at |-> label, on |-> w] \in ThreadStates(inside)
BY DEF ThreadStates

LEMMA ReadType ==
    ASSUME TypeOK, NEW n \in Cycles
    PROVE  /\ \A label \in {"start", "loop", "end"} :
                  Read(n, label, 0) => reader' \in [Cycles -> ThreadStates({"recv", "ponging"})]
           /\ \A label \in {"recv", "ponging"}, w \in Cycles :
                  Read(n, label, w) => reader' \in [Cycles -> ThreadStates({"recv", "ponging"})]
<1> DEFINE S == ThreadStates({"recv", "ponging"})
<1>1. reader \in [Cycles -> S]
  BY DEF TypeOK
<1>2. \A r \in S : [reader EXCEPT ![n] = r] \in [Cycles -> S]
  BY <1>1
<1> QED
  BY <1>2, ThreadStatesType DEF Read

LEMMA WriteType ==
    ASSUME TypeOK, NEW n \in Cycles
    PROVE  /\ \A label \in {"start", "loop", "end"} :
                  Write(n, label, 0) => writer' \in [Cycles -> ThreadStates({"readline", "sending"})]
           /\ \A label \in {"readline", "sending"}, w \in Cycles :
                  Write(n, label, w) => writer' \in [Cycles -> ThreadStates({"readline", "sending"})]
<1> DEFINE S == ThreadStates({"readline", "sending"})
<1>1. writer \in [Cycles -> S]
  BY DEF TypeOK
<1>2. \A r \in S : [writer EXCEPT ![n] = r] \in [Cycles -> S]
  BY <1>1
<1> QED
  BY <1>2, ThreadStatesType DEF Write

\* The daemon threads touch neither the fields of the runner nor the children.
LEMMA QuietKeeps ==
    ASSUME IInv,
           UNCHANGED <<pc, stop, cycle, ws, process, link, child>>,
           failed' \in BOOLEAN,
           lock' \in [Cycles -> {"free", "main", "reader", "writer"}],
           reader' \in [Cycles -> ThreadStates({"recv", "ponging"})],
           writer' \in [Cycles -> ThreadStates({"readline", "sending"})]
    PROVE  IInv'
<1>1. TypeOK'
  BY DEF IInv, TypeOK
<1>2. Children' /\ MainState' /\ HandlerState' /\ CleanupState'
  BY DEF IInv, Children, MainState, HandlerState, CleanupState
<1> QED
  BY <1>1, <1>2 DEF IInv

\* A field that is not None names the current cycle.
LEMMA FieldsAreCycles ==
    ASSUME TypeOK
    PROVE  (ws # 0 => ws \in Cycles) /\ (process # 0 => process \in Cycles)
BY DEF TypeOK, Cycles

LEMMA ReaderKeeps ==
    ASSUME IInv, NEW n \in Cycles, ReaderRuns(n) \/ ReaderReceives(n) \/ ReaderPinged(n)
    PROVE  IInv'
<1>0. TypeOK
  BY DEF IInv
<1>1. UNCHANGED <<pc, stop, cycle, ws, process, link, child, writer>>
  BY DEF ReaderRuns, ReaderStarts, ReaderLoops, ReaderReceives, ReaderPinged, ReaderBreaks, ReaderPongs,
         ReaderFails, MarkFailed, fields
<1>2. failed' = failed \/ failed' = (failed \/ ~stop)
  BY DEF ReaderRuns, ReaderStarts, ReaderLoops, ReaderReceives, ReaderPinged, ReaderBreaks, ReaderPongs,
         ReaderFails, MarkFailed, fields
<1>3. failed' \in BOOLEAN
  BY <1>0, <1>2 DEF TypeOK
<1>4. lock' = lock \/ \E w \in Cycles, h \in {"free", "reader"} : lock' = [lock EXCEPT ![w] = h]
  <2>1. reader[n].at \in {"recv", "ponging"} => reader[n].on \in Cycles
    BY <1>0 DEF TypeOK, ThreadStates
  <2> QED
    BY <2>1 DEF ReaderRuns, ReaderStarts, ReaderLoops, ReaderReceives, ReaderPinged, ReaderBreaks, ReaderPongs
<1>5. lock' \in [Cycles -> {"free", "main", "reader", "writer"}]
  BY <1>0, <1>4 DEF TypeOK
<1>6. \/ \E label \in {"start", "loop", "end"} : Read(n, label, 0)
      \/ \E label \in {"recv", "ponging"}, w \in Cycles : Read(n, label, w)
  <2>1. reader[n].at \in {"recv", "ponging"} => reader[n].on \in Cycles
    BY <1>0 DEF TypeOK, ThreadStates
  <2> QED
    BY <1>0, <2>1, FieldsAreCycles
    DEF ReaderRuns, ReaderStarts, ReaderLoops, ReaderReceives, ReaderPinged, ReaderBreaks, ReaderPongs, ReaderFails
<1>7. reader' \in [Cycles -> ThreadStates({"recv", "ponging"})]
  BY <1>0, <1>6, ReadType
<1>8. writer' \in [Cycles -> ThreadStates({"readline", "sending"})]
  BY <1>0, <1>1 DEF TypeOK
<1> QED
  BY <1>1, <1>3, <1>5, <1>7, <1>8, QuietKeeps

LEMMA WriterKeeps ==
    ASSUME IInv, NEW n \in Cycles, WriterRuns(n) \/ WriterReads(n)
    PROVE  IInv'
<1>0. TypeOK
  BY DEF IInv
<1>1. UNCHANGED <<pc, stop, cycle, ws, process, link, child, reader>>
  BY DEF WriterRuns, WriterStarts, WriterLoops, WriterEnds, WriterReads, WriterSends, WriterFails, MarkFailed, fields
<1>2. failed' = failed \/ failed' = (failed \/ ~stop)
  BY DEF WriterRuns, WriterStarts, WriterLoops, WriterEnds, WriterReads, WriterSends, WriterFails, MarkFailed, fields
<1>3. failed' \in BOOLEAN
  BY <1>0, <1>2 DEF TypeOK
<1>4. lock' = lock \/ \E w \in Cycles, h \in {"free", "writer"} : lock' = [lock EXCEPT ![w] = h]
  <2>1. writer[n].at = "sending" => writer[n].on \in Cycles
    BY <1>0 DEF TypeOK, ThreadStates
  <2> QED
    BY <1>0, <2>1, FieldsAreCycles DEF WriterRuns, WriterStarts, WriterLoops, WriterEnds, WriterReads, WriterSends
<1>5. lock' \in [Cycles -> {"free", "main", "reader", "writer"}]
  BY <1>0, <1>4 DEF TypeOK
<1>6. \/ \E label \in {"start", "loop", "end"} : Write(n, label, 0)
      \/ \E label \in {"readline", "sending"}, w \in Cycles : Write(n, label, w)
  BY <1>0, FieldsAreCycles
  DEF WriterRuns, WriterStarts, WriterLoops, WriterEnds, WriterReads, WriterSends, WriterFails
<1>7. writer' \in [Cycles -> ThreadStates({"readline", "sending"})]
  BY <1>0, <1>6, WriteType
<1>8. reader' \in [Cycles -> ThreadStates({"recv", "ponging"})]
  BY <1>0, <1>1 DEF TypeOK
<1> QED
  BY <1>1, <1>3, <1>5, <1>7, <1>8, QuietKeeps

\* While the main thread's own code runs no handler is active, and outside of a cleanup
\* the handlers' parts of the invariant ask nothing of it.
LEMMA MainMoves ==
    ASSUME IInv, NEW from, At(0, from),
           NEW label \in Body \cup {"clean", "exit"}, Go(0, label), UNCHANGED stop
    PROVE  /\ pc' \in [Frames -> Labels]
           /\ pc'[0] = label /\ label \in MainLabels
           /\ HandlerState'
           /\ CleanupState'
<1> USE FrameNumbers DEF IInv
<1>1. label \in MainLabels /\ label \in Labels
  BY DEF MainLabels, Labels
<1>2. pc' \in [Frames -> Labels] /\ pc'[0] = label /\ \A k \in Handlers : pc'[k] = pc[k]
  BY <1>1, GoFacts
<1>3. \A k \in Handlers : pc[k] \in {"off", "done"}
  BY DEF At, Active
<1>4. HandlerState'
  BY <1>2 DEF HandlerState
<1>5. CleanupState'
  BY <1>2, <1>3 DEF CleanupState, Closing, Ending, Body
<1> QED
  BY <1>1, <1>2, <1>4, <1>5

LEMMA LoopKeeps ==
    ASSUME IInv, Loop \/ Make
    PROVE  IInv'
<1> USE DEF IInv
<1>1. /\ UNCHANGED <<stop, process, failed, link, child, lock, reader, writer>>
      /\ process = 0 /\ ws = 0
  BY DEF Loop, Make, At, MainState, threads
<1>2. \/ At(0, "loop") /\ ~stop /\ cycle < MaxCycles /\ cycle' = cycle + 1 /\ Go(0, "make") /\ UNCHANGED ws
      \/ At(0, "loop") /\ stop /\ Go(0, "exit") /\ UNCHANGED <<cycle, ws>>
      \/ At(0, "make") /\ ws' = cycle /\ Go(0, "dial") /\ UNCHANGED cycle
  BY DEF Loop, Make
<1>3. PICK label \in {"make", "exit", "dial"} : Go(0, label) /\ (At(0, "loop") \/ At(0, "make"))
  BY <1>2
<1>4. /\ pc' \in [Frames -> Labels] /\ pc'[0] = label /\ label \in MainLabels
      /\ HandlerState' /\ CleanupState'
  BY <1>1, <1>3, MainMoves DEF Body
<1>5. cycle' \in 0..MaxCycles /\ ws' \in {0, cycle'} /\ (pc'[0] = "make" => ws' = 0)
  BY <1>1, <1>2, FrameNumbers DEF TypeOK, Go
<1>6. TypeOK'
  BY <1>1, <1>4, <1>5 DEF TypeOK
<1>7. Children'
  <2>1. \A n \in Cycles : child[n] \notin Alive
    BY <1>1, <1>2 DEF Children, Cycles, At
  <2>2. cycle' # cycle => ~stop
    BY <1>2
  <2>3. pc'[0] \in Body => ~stop \/ pc[0] = "make"
    BY <1>2, FrameNumbers DEF Go, TypeOK, Body, At
  <2> QED
    BY <1>1, <2>1, <2>2, <2>3 DEF Children, Body
<1>8. MainState'
  BY <1>1, <1>3, <1>4, <1>5 DEF MainState
<1> QED
  BY <1>4, <1>6, <1>7, <1>8

LEMMA StartKeeps ==
    ASSUME IInv, Spawn \/ Adopt
    PROVE  IInv'
<1> USE DEF IInv
<1>1. /\ UNCHANGED <<stop, cycle, ws, failed, link, lock, reader, writer>>
      /\ process = 0 /\ pc[0] \in Body
  BY DEF Spawn, Adopt, At, MainState, threads, fields, Body
<1>2. \/ /\ At(0, "spawn") /\ Go(0, "adopt") /\ UNCHANGED process
         /\ child' = [child EXCEPT ![cycle] = "alive"]
      \/ /\ At(0, "spawn") /\ (Go(0, "wait") \/ Go(0, "clean")) /\ UNCHANGED <<process, child>>
      \/ /\ At(0, "adopt") /\ Go(0, "start") /\ process' = cycle /\ UNCHANGED child
  BY DEF Spawn, Adopt, Fails, fields
<1>3. PICK label \in {"adopt", "wait", "clean", "start"} : Go(0, label) /\ (At(0, "spawn") \/ At(0, "adopt"))
  BY <1>2
<1>4. /\ pc' \in [Frames -> Labels] /\ pc'[0] = label /\ label \in MainLabels
      /\ HandlerState' /\ CleanupState'
  BY <1>1, <1>3, MainMoves DEF Body
<1>5. TypeOK'
  BY <1>1, <1>2, <1>4 DEF TypeOK
<1>6. Children'
  <2>1. \A n \in Cycles : child[n] # "orphaned"
    BY <1>1 DEF Children
  <2>2. CASE child' = [child EXCEPT ![cycle] = "alive"] /\ Go(0, "adopt") /\ At(0, "spawn")
    <3>1. \A n \in Cycles : child[n] \notin Alive
      BY <1>1, <2>2 DEF Children, Cycles, At
    <3>2. pc'[0] = "adopt"
      BY <2>2, FrameNumbers DEF Go, TypeOK
    <3> QED
      BY <1>1, <2>1, <2>2, <3>1, <3>2 DEF Children, TypeOK
  <2>3. CASE UNCHANGED <<process, child>> /\ At(0, "spawn")
    <3>1. \A n \in Cycles : child[n] \notin Alive
      BY <1>1, <2>3 DEF Children, Cycles, At
    <3> QED
      BY <2>1, <2>3, <3>1 DEF Children
  <2>4. CASE process' = cycle /\ UNCHANGED child
    BY <1>1, <2>1, <2>4 DEF Children, Cycles
  <2> QED
    BY <1>2, <2>2, <2>3, <2>4
<1>7. MainState'
  <2>1. pc'[0] = "adopt" => process' = 0
    BY <1>1, <1>2, FrameNumbers DEF Go, TypeOK
  <2> QED
    BY <1>3, <1>4, <2>1 DEF MainState
<1> QED
  BY <1>4, <1>5, <1>6, <1>7

\* The other steps of a cycle neither begin a cycle nor touch the fields or the child.
LEMMA CycleKeeps ==
    ASSUME IInv, Cycle
    PROVE  IInv'
<1> USE DEF IInv
<1>1. CASE Loop \/ Make
  BY <1>1, LoopKeeps
<1>2. CASE Spawn \/ Adopt
  BY <1>2, StartKeeps
<1>3. CASE Dial \/ Shake \/ StartThreads \/ Poll \/ Wait \/ WaitEnds
  <2>1. UNCHANGED <<stop, cycle, ws, process, child, lock>> /\ failed' \in BOOLEAN
    BY <1>3 DEF Dial, Shake, StartThreads, Poll, Wait, WaitEnds, fields, TypeOK
  <2>2. \/ /\ At(0, "dial") \/ At(0, "shake")
           /\ \E label \in {"shake", "spawn", "wait", "clean"} : Go(0, label)
        \/ /\ At(0, "start") \/ At(0, "poll") \/ At(0, "wait") \/ At(0, "held")
           /\ \E label \in {"poll", "wait", "held", "clean"} : Go(0, label)
    BY <1>3 DEF Dial, Shake, Fails, StartThreads, Poll, Wait, WaitEnds
  <2>3. PICK from \in Body, label \in {"shake", "spawn", "poll", "wait", "held", "clean"} :
            At(0, from) /\ Go(0, label)
    BY <2>2 DEF Body
  <2>4. /\ pc' \in [Frames -> Labels] /\ pc'[0] = label /\ label \in MainLabels
        /\ HandlerState' /\ CleanupState'
    BY <2>1, <2>3, MainMoves DEF Body
  <2>5. link' \in [Cycles -> {"none", "shaking", "open", "broken", "closed"}]
    BY <1>3 DEF Dial, Shake, StartThreads, Poll, Wait, WaitEnds, TypeOK
  <2>6. reader' \in [Cycles -> ThreadStates({"recv", "ponging"})] /\ writer' \in [Cycles -> ThreadStates({"readline", "sending"})]
    BY <1>3, ThreadStatesType DEF Dial, Shake, StartThreads, Poll, Wait, WaitEnds, threads, TypeOK
  <2>7. TypeOK'
    BY <2>1, <2>4, <2>5, <2>6 DEF TypeOK
  <2>8. pc[0] \in Body \ {"adopt"} /\ (pc'[0] \in {"shake", "spawn"} => process = 0)
    BY <2>2, FrameNumbers DEF At, MainState, Body, Go, TypeOK
  <2>9. Children' /\ MainState'
    BY <2>1, <2>3, <2>4, <2>8 DEF Children, MainState
  <2> QED
    BY <2>4, <2>7, <2>9
<1> QED
  BY <1>1, <1>2, <1>3 DEF Cycle

\* A handler before its cleanup.
LEMMA HandlerKeeps ==
    ASSUME IInv, NEW k \in Handlers, Signal(k) \/ Handler(k)
    PROVE  IInv'
<1> USE FrameNumbers DEF IInv
<1>1. UNCHANGED <<cycle, ws, process, failed, link, child, lock, reader, writer>>
  BY DEF Signal, Handler, Set, SetEnds, fields, threads
<1>2. PICK label \in {"set", "flag", "clean"} : Go(k, label) /\ pc[k] \in {"off", "set", "flag"}
  BY DEF Signal, Handler, Set, SetEnds, At
<1>3. (stop => stop') /\ stop' \in BOOLEAN /\ (label # "set" => stop')
  <2>1. CASE Signal(k)
    BY <1>2, <2>1 DEF Signal, fields, Go, TypeOK
  <2>2. CASE Set(k)
    BY <2>2 DEF Set
  <2>3. CASE SetEnds(k)
    BY <2>3 DEF SetEnds, At, fields, HandlerState, TypeOK
  <2> QED
    BY <2>1, <2>2, <2>3 DEF Handler
<1>4. /\ pc' \in [Frames -> Labels] /\ pc'[k] = label
      /\ \A j \in Frames : j # k => pc'[j] = pc[j]
  BY <1>2, GoFacts DEF Labels, HandlerLabels
<1>5. TypeOK'
  BY <1>1, <1>3, <1>4 DEF TypeOK
<1>6. Children' /\ MainState'
  BY <1>1, <1>3, <1>4 DEF Children, MainState
<1>7. HandlerState'
  BY <1>3, <1>4 DEF HandlerState, HandlerLabels
<1>8. CleanupState'
  BY <1>1, <1>2, <1>4 DEF CleanupState, Closing, Ending
<1> QED
  BY <1>5, <1>6, <1>7, <1>8

\* A cleanup's effect on what the invariant speaks of: it forgets the connection, ends
\* the child, and forgets it when it has ended.
CleanupStep(k) ==
    /\ \A j \in Frames : j > k => ~Active(j)
    /\ \/ pc[k] = "clean" /\ ws # 0 /\ Go(k, "close") /\ UNCHANGED <<ws, process, child>>
       \/ pc[k] = "clean" /\ ws = 0 /\ Go(k, "kill") /\ UNCHANGED <<ws, process, child>>
       \/ pc[k] = "close" /\ ws # 0 /\ Go(k, "bye") /\ UNCHANGED <<ws, process, child>>
       \/ pc[k] = "bye" /\ Go(k, "shut") /\ UNCHANGED <<ws, process, child>>
       \/ pc[k] \in {"close", "shut"} /\ ws = 0 /\ ws' = 0 /\ Go(k, "raise") /\ UNCHANGED <<process, child>>
       \/ pc[k] \in {"close", "shut"} /\ ws' = 0 /\ Go(k, "kill") /\ UNCHANGED <<process, child>>
       \/ pc[k] = "kill" /\ process = 0 /\ Return(k) /\ UNCHANGED <<ws, process, child>>
       \/ pc[k] = "kill" /\ process # 0 /\ Go(k, "term") /\ UNCHANGED <<ws, process, child>>
       \/ /\ pc[k] \in {"term", "await"} /\ process = 0 /\ (Go(k, "raise") \/ Return(k))
          /\ process' = 0 /\ UNCHANGED <<ws, child>>
       \/ /\ pc[k] = "term" /\ process # 0 /\ Go(k, "await") /\ UNCHANGED <<ws, process>>
          /\ child' = child \/ child' = [child EXCEPT ![process] = "ending"]
       \/ /\ pc[k] = "await" /\ process # 0 /\ child[process] = "dead" /\ process' = 0
          /\ Return(k) /\ UNCHANGED <<ws, child>>

LEMMA CleanupSteps ==
    ASSUME NEW k \in Frames, Cleanup(k) \/ Close(k)
    PROVE  CleanupStep(k)
BY DEF Cleanup, Close, Clean, CloseUnneeded, Bye, Shut, Kill, Term, Await, CleanupStep, At, Raise, fields

LEMMA CleanupTypes ==
    ASSUME TypeOK, NEW k \in Frames, Cleanup(k) \/ Close(k)
    PROVE  /\ UNCHANGED <<stop, cycle, failed, reader, writer>>
           /\ link' \in [Cycles -> {"none", "shaking", "open", "broken", "closed"}]
           /\ lock' \in [Cycles -> {"free", "main", "reader", "writer"}]
<1>1. UNCHANGED <<stop, cycle, failed, reader, writer>>
  BY DEF Cleanup, Close, Clean, CloseUnneeded, Bye, Shut, Kill, Term, Await, fields, threads
<1>2. link' = link \/ link' = [link EXCEPT ![ws] = "closed"]
  BY DEF Cleanup, Close, Clean, CloseUnneeded, Bye, Shut, Kill, Term, Await
<1>3. lock' = lock \/ lock' = [lock EXCEPT ![ws] = "main"] \/ lock' = [lock EXCEPT ![ws] = "free"]
  BY DEF Cleanup, Close, Clean, CloseUnneeded, Bye, Shut, Kill, Term, Await
<1> QED
  BY <1>1, <1>2, <1>3 DEF TypeOK

LEMMA CleanupKeeps ==
    ASSUME IInv, NEW k \in Frames, Cleanup(k) \/ Close(k)
    PROVE  IInv'
<1> USE FrameNumbers DEF IInv
<1>1. CleanupStep(k)
  BY CleanupSteps
<1>2. /\ UNCHANGED <<stop, cycle, failed, reader, writer>>
      /\ link' \in [Cycles -> {"none", "shaking", "open", "broken", "closed"}]
      /\ lock' \in [Cycles -> {"free", "main", "reader", "writer"}]
  BY CleanupTypes
<1>3. PICK label \in Closing \cup Ending \cup {"loop", "done", "raise"} :
          Go(k, label) /\ (label = "loop" => k = 0) /\ (label = "done" => k # 0)
  BY <1>1 DEF CleanupStep, Return, Closing, Ending
<1>4. label \in Labels
  BY DEF Labels, MainLabels, HandlerLabels
<1>5. /\ pc' \in [Frames -> Labels] /\ pc'[k] = label
      /\ \A j \in Frames : j # k => pc'[j] = pc[j]
  BY <1>3, <1>4, GoFacts
<1>6. pc[k] \in Closing \cup Ending \cup {"clean"} /\ \A j \in Frames : j > k => pc[j] \in {"off", "done"}
  BY <1>1 DEF CleanupStep, Active, Closing, Ending
<1>7. /\ child' \in [Cycles -> {"none", "alive", "ending", "orphaned", "dead"}]
      /\ ws' \in {0, ws} /\ process' \in {0, process}
  BY <1>1 DEF CleanupStep, TypeOK
<1>8. TypeOK'
  BY <1>2, <1>5, <1>7 DEF TypeOK
<1>9. pc'[0] = pc[0] \/ (k = 0 /\ pc'[0] \notin Body /\ pc[0] \notin Body)
  BY <1>3, <1>5, <1>6 DEF Body, Closing, Ending
<1>10. Children'
  <2>1. \A n \in Cycles : child[n] \in Alive => n = process \/ (pc'[0] = "adopt" /\ n = cycle)
    BY <1>9 DEF Children, Body
  <2>2. CASE UNCHANGED <<process, child>>
    BY <1>2, <1>9, <2>1, <2>2 DEF Children
  <2>3. CASE process = 0 /\ process' = 0 /\ child' = child
    BY <1>2, <1>9, <2>1, <2>3 DEF Children
  <2>4. CASE process # 0 /\ UNCHANGED process /\ child' = [child EXCEPT ![process] = "ending"]
    BY <1>2, <1>9, <2>1, <2>4 DEF Children, TypeOK
  <2>5. CASE process # 0 /\ child[process] = "dead" /\ process' = 0 /\ child' = child
    <3>1. pc[0] # "adopt"
      BY <2>5 DEF MainState
    <3>2. \A n \in Cycles : child[n] \notin Alive /\ child[n] # "orphaned"
      BY <2>5, <3>1 DEF Children, Alive
    <3> QED
      BY <2>5, <3>2 DEF Children
  <2> QED
    BY <1>1, <2>2, <2>3, <2>4, <2>5 DEF CleanupStep
<1>11. label \in {"loop", "done"} => ws' = 0 /\ process' = 0
  BY <1>1, <1>3, <1>5 DEF CleanupStep, CleanupState, Return, Go, TypeOK, Ending
<1>12. MainState'
  <2>1. CASE k = 0
    BY <1>3, <1>5, <1>11, <2>1 DEF MainState, MainLabels, Closing, Ending
  <2>2. CASE k # 0
    BY <1>5, <1>7, <2>2 DEF MainState
  <2> QED
    BY <2>1, <2>2
<1>13. HandlerState'
  <2>1. k # 0 => stop
    BY <1>6 DEF HandlerState, Closing, Ending
  <2> QED
    BY <1>2, <1>3, <1>5, <2>1 DEF HandlerState, HandlerLabels
<1>14. CleanupState'
  <2> SUFFICES ASSUME NEW i \in Frames
               PROVE  /\ pc'[i] \in Ending => ws' = 0
                      /\ pc'[i] = "raise" => ws' = 0 /\ process' = 0
                      /\ pc'[i] \in Closing /\ ws' = 0 =>
                             process' = 0 \/ \E j \in Frames : j > i /\ pc'[j] \in Ending
    BY DEF CleanupState
  <2>1. CASE i = k
    <3>1. pc[k] \in Closing /\ ws = 0 => process = 0
      BY <1>6 DEF CleanupState, Ending
    <3>2. pc[k] \in Ending => ws = 0
      BY DEF CleanupState
    <3>3. label \in Ending => ws' = 0
      BY <1>1, <1>5, <3>2 DEF CleanupStep, Return, Go, TypeOK, Ending
    <3>4. label = "raise" => ws' = 0 /\ process' = 0
      BY <1>1, <1>5, <3>1, <3>2 DEF CleanupStep, Return, Go, TypeOK, Ending, Closing
    <3>5. label \in Closing /\ ws' = 0 => process' = 0
      BY <1>1, <1>5, <3>1 DEF CleanupStep, Return, Go, TypeOK, Closing
    <3> QED
      BY <1>5, <2>1, <3>3, <3>4, <3>5
  <2>2. CASE i > k
    BY <1>5, <1>6, <2>2 DEF Closing, Ending
  <2>3. CASE i < k
    <3>1. pc'[i] = pc[i]
      BY <1>5, <2>3
    <3>2. (pc'[i] \in Ending => ws' = 0) /\ (pc'[i] = "raise" => ws' = 0 /\ process' = 0)
      BY <1>7, <3>1 DEF CleanupState
    <3>3. ASSUME pc'[i] \in Closing, ws' = 0
          PROVE  process' = 0 \/ \E j \in Frames : j > i /\ pc'[j] \in Ending
      <4>1. CASE ws # 0
        <5>1. label = "kill"
          BY <1>1, <1>5, <3>3, <4>1 DEF CleanupStep, Go, TypeOK, CleanupState, Ending
        <5> QED
          BY <1>5, <2>3, <5>1 DEF Ending
      <4>2. CASE ws = 0 /\ process # 0
        <5>1. PICK j \in Frames : j > i /\ pc[j] \in Ending
          BY <3>1, <3>3, <4>2 DEF CleanupState
        <5>2. pc[k] \in Ending => process' = 0 \/ label \in Ending
          BY <1>1, <1>5 DEF CleanupStep, Return, Go, TypeOK, Ending
        <5> QED
          BY <1>5, <2>3, <5>1, <5>2
      <4> QED
        BY <1>7, <4>1, <4>2
    <3> QED
      BY <3>2, <3>3
  <2> QED
    BY <2>1, <2>2, <2>3
<1> QED
  BY <1>8, <1>10, <1>12, <1>13, <1>14

\* An exception finds the fields reset, and stop set if it comes from a handler.
LEMMA PropagateKeeps ==
    ASSUME IInv, NEW k \in Frames, Propagate(k)
    PROVE  IInv'
<1> USE FrameNumbers DEF IInv
<1>1. UNCHANGED <<stop, cycle, ws, process, failed, link, lock, reader, writer>>
  BY DEF Propagate, fields, threads
<1>2. pc[k] = "raise" /\ ws = 0 /\ process = 0 /\ \A i \in Frames : i > k => pc[i] \in {"off", "done"}
  BY DEF Propagate, At, Active, CleanupState
<1>3. CASE k = 0
  <2>1. Go(0, "exit") /\ UNCHANGED child
    BY <1>3 DEF Propagate, Under
  <2>2. pc' \in [Frames -> Labels] /\ pc'[0] = "exit" /\ \A i \in Handlers : pc'[i] = pc[i]
    BY <2>1, GoFacts DEF Labels, MainLabels
  <2>3. TypeOK'
    BY <1>1, <2>1, <2>2 DEF TypeOK
  <2>4. Children' /\ MainState'
    BY <1>1, <1>2, <1>3, <2>1, <2>2 DEF Children, MainState, MainLabels, Body
  <2>5. HandlerState' /\ CleanupState'
    BY <1>1, <1>2, <1>3, <2>2 DEF HandlerState, CleanupState, Closing, Ending
  <2> QED
    BY <2>3, <2>4, <2>5
<1>4. CASE k # 0
  <2>1. PICK j \in Frames, label \in {"clean", "raise", "shut"} :
            /\ Under(j, k)
            /\ Lands(j, label)
            /\ pc' = [pc EXCEPT ![k] = "done", ![j] = label]
            /\ IF pc[j] = "adopt" /\ child[cycle] \in Alive
               THEN child' = [child EXCEPT ![cycle] = "orphaned"]
               ELSE UNCHANGED child
    BY <1>4 DEF Propagate
  <2>2. stop
    BY <1>2, <1>4 DEF HandlerState
  <2>3. /\ pc' \in [Frames -> Labels] /\ pc'[k] = "done" /\ pc'[j] = label /\ j < k
        /\ \A i \in Frames : i # j /\ i # k => pc'[i] = pc[i]
    BY <2>1 DEF Under, TypeOK, Labels, MainLabels, HandlerLabels, Closing
  <2>4. child' \in [Cycles -> {"none", "alive", "ending", "orphaned", "dead"}]
    BY <2>1 DEF TypeOK
  <2>5. TypeOK'
    BY <1>1, <2>3, <2>4 DEF TypeOK
  <2>6. pc'[0] = pc[0] \/ (j = 0 /\ pc'[0] = label)
    BY <1>4, <2>3
  <2>7. Children'
    <3>1. CASE pc[j] = "adopt" /\ child[cycle] \in Alive
      <4>1. j = 0 /\ pc'[0] = label
        BY <2>3, <3>1 DEF HandlerState, HandlerLabels, Closing, Ending
      <4>2. \A n \in Cycles : n # cycle => child[n] \notin Alive /\ child[n] # "orphaned"
        BY <1>2 DEF Children, Cycles
      <4> QED
        BY <1>1, <1>2, <2>1, <2>2, <3>1, <4>1, <4>2 DEF Children, TypeOK, Alive, Body
    <3>2. CASE UNCHANGED child /\ ~(pc[j] = "adopt" /\ child[cycle] \in Alive)
      <4>1. \A n \in Cycles : child[n] \in Alive => pc'[0] = "adopt" /\ n = cycle
        <5> SUFFICES ASSUME NEW n \in Cycles, child[n] \in Alive
                     PROVE  pc'[0] = "adopt" /\ n = cycle
          OBVIOUS
        <5>1. pc[0] = "adopt" /\ n = cycle
          BY <1>2 DEF Children, Cycles
        <5>2. j # 0
          BY <3>2, <5>1
        <5> QED
          BY <2>6, <5>1, <5>2
      <4> QED
        BY <1>1, <2>6, <3>2, <4>1 DEF Children, Body
    <3> QED
      BY <2>1, <3>1, <3>2
  <2>8. MainState'
    BY <1>1, <1>2, <2>6 DEF MainState, MainLabels, Closing, Body
  <2>9. HandlerState'
    BY <1>1, <2>2, <2>3 DEF HandlerState, HandlerLabels, Closing
  <2>10. CleanupState'
    BY <1>1, <1>2, <2>3 DEF CleanupState, Closing, Ending
  <2> QED
    BY <2>5, <2>7, <2>8, <2>9, <2>10
<1> QED
  BY <1>3, <1>4

LEMMA WorldKeeps ==
    ASSUME IInv, NEW n \in Cycles, World(n)
    PROVE  IInv'
<1> USE DEF IInv
<1>1. UNCHANGED <<pc, stop, cycle, ws, process, failed, lock, reader, writer>>
  BY DEF World, LinkBreaks, ChildDies, ChildEnds, fields, threads
<1>2. link' \in [Cycles -> {"none", "shaking", "open", "broken", "closed"}]
  BY DEF World, LinkBreaks, ChildDies, ChildEnds, TypeOK
<1>3. /\ child' \in [Cycles -> {"none", "alive", "ending", "orphaned", "dead"}]
      /\ \A m \in Cycles : child'[m] = child[m] \/ child'[m] = "dead"
  BY DEF World, LinkBreaks, ChildDies, ChildEnds, TypeOK
<1>4. TypeOK'
  BY <1>1, <1>2, <1>3 DEF TypeOK
<1>5. Children' /\ MainState' /\ HandlerState' /\ CleanupState'
  BY <1>1, <1>3 DEF Children, MainState, HandlerState, CleanupState, Alive
<1> QED
  BY <1>4, <1>5

LEMMA NextKeeps == IInv /\ [Next]_vars => IInv'
<1> SUFFICES ASSUME IInv, [Next]_vars
             PROVE  IInv'
  OBVIOUS
<1>1. CASE UNCHANGED vars
  BY <1>1 DEF vars, IInv, TypeOK, Children, MainState, HandlerState, CleanupState
<1>2. ASSUME NEW k \in Frames, Cleanup(k) \/ Close(k) \/ Propagate(k)
      PROVE  IInv'
  BY <1>2, CleanupKeeps, PropagateKeeps
<1>3. ASSUME NEW n \in Cycles, ReaderRuns(n) \/ WriterRuns(n) \/ Arrives(n) \/ World(n)
      PROVE  IInv'
  BY <1>3, ReaderKeeps, WriterKeeps, WorldKeeps DEF Arrives
<1> QED
  BY <1>1, <1>2, <1>3, CycleKeeps, HandlerKeeps DEF Next

\* The runner's fields, the children and the frames of the main thread's stack agree in
\* every reachable state, for any number of cycles and of signals, wherever they
\* interrupt the main thread and each other's handlers.
THEOREM PipeInvariant == Spec => []IInv
<1>1. Init => IInv
  BY InitIInv
<1>2. IInv /\ [Next]_vars => IInv'
  BY NextKeeps
<1> QED
  BY <1>1, <1>2, PTL DEF Spec

\* At most one MCP server runs, and none when the pipe has ended, except one whose
\* Popen the exception of an interrupted handler left.
THEOREM PipeOneServer == Spec => []OneServer
<1>1. IInv => OneServer
  <2> SUFFICES ASSUME IInv
               PROVE  OneServer
    OBVIOUS
  <2>1. \A n \in Cycles : child[n] \in Alive \cup {"orphaned"} => n = cycle
    BY DEF IInv, Children, TypeOK, Cycles
  <2>2. pc[0] = "exit" => process = 0
    BY DEF IInv, MainState
  <2> QED
    BY <2>1, <2>2 DEF OneServer, IInv, Children, Cycles
<1> QED
  BY <1>1, PipeInvariant, PTL
=============================================================================
