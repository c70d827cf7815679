------------------------------- MODULE McpPipe -------------------------------
(***************************************************************************)
(* The pipe between the MCP endpoint and the robot's MCP server            *)
(* (xiaozhi_mcp_pipe.py, PipeRunner).                                      *)
(*                                                                         *)
(* A cycle connects to the endpoint, starts the server as a child process  *)
(* and two daemon threads that copy messages: the reader, from the         *)
(* endpoint to the child, and the writer, back.  The main thread polls     *)
(* until the child has ended or a thread has marked the cycle as failed;   *)
(* then it waits, cleans up and begins the next cycle.                     *)
(*                                                                         *)
(* SIGTERM and SIGINT interrupt the main thread anywhere, a handler of an  *)
(* earlier signal included: the unit file signals the whole control group  *)
(* and the start script's trap signals the pipe again.  Each handler runs  *)
(* stop() on the interrupted stack, with a cleanup of its own.  What it    *)
(* has set to None raises an exception in the cleanup under it, and an     *)
(* exception that leaves a handler continues in the code under it.         *)
(*                                                                         *)
(* The threads of a cycle are neither joined nor woken: each reads the     *)
(* runner's fields ws and process again at every step, and finds None, or  *)
(* the objects of a later cycle.  Objects are named by their cycle; 0 is   *)
(* None.  The third thread, which copies stderr, changes nothing here.     *)
(* Messages, the delay between two cycles, and the locks inside Python's   *)
(* subprocess and stderr objects are left out.                             *)
(***************************************************************************)
EXTENDS Naturals

CONSTANTS
    MaxCycles,  \* bound: cycles that are begun
    MaxSignals, \* bound: signals that arrive
    MaxEvents   \* bound: cycles and signals together

ASSUME CyclesAssumption == MaxCycles \in Nat \ {0}
ASSUME SignalsAssumption == MaxSignals \in Nat /\ MaxEvents \in Nat

VARIABLES
    pc,      \* what each frame of the main thread's stack is about to do
    stop,    \* stop_event
    cycle,   \* number of cycles begun
    ws,      \* self.ws
    process, \* self.process
    failed,  \* _cycle_failed
    link,    \* the socket of each ws object
    child,   \* the child process of each cycle
    lock,    \* who holds _send_lock of each ws object
    reader,  \* _endpoint_to_process of each cycle, and the ws object it is inside
    writer   \* _process_to_endpoint of each cycle, likewise

vars == <<pc, stop, cycle, ws, process, failed, link, child, lock, reader, writer>>
threads == <<reader, writer>>
fields == <<stop, cycle, ws, process, failed>>

Cycles == 1..MaxCycles

\* The main thread's own code, and the handler of each signal above it.
Frames == 0..MaxSignals
Handlers == 1..MaxSignals

Alive == {"alive", "ending"}

Init ==
    /\ pc = [k \in Frames |-> IF k = 0 THEN "loop" ELSE "off"]
    /\ stop = FALSE
    /\ cycle = 0
    /\ ws = 0
    /\ process = 0
    /\ failed = FALSE
    /\ link = [n \in Cycles |-> "none"]
    /\ child = [n \in Cycles |-> "none"]
    /\ lock = [n \in Cycles |-> "free"]
    /\ reader = [n \in Cycles |-> [at |-> "off", on |-> 0]]
    /\ writer = [n \in Cycles |-> [at |-> "off", on |-> 0]]

\* A frame goes on when those above it have returned.
Active(k) == pc[k] \notin {"off", "done"}
At(k, label) == pc[k] = label /\ \A j \in Frames : j > k => ~Active(j)
Go(k, label) == pc' = [pc EXCEPT ![k] = label]

\* A socket exists and its object still refers to it.
HasSocket(w) == link[w] \in {"shaking", "open", "broken"}

\* stop_event's own lock is taken, by wait() or by set().
EventHeld == \E k \in Frames : pc[k] \in {"held", "flag"}

-----------------------------------------------------------------------------
(* One cycle: run_forever and _run_once *)

\* Mutant of Loop: while True.
LoopForever ==
    /\ At(0, "loop")
    /\ cycle < MaxCycles
    /\ cycle' = cycle + 1
    /\ Go(0, "make")
    /\ UNCHANGED <<stop, ws, process, failed, link, child, lock, threads>>

Loop ==
    /\ At(0, "loop")
    /\ \/ ~stop /\ cycle < MaxCycles /\ cycle' = cycle + 1 /\ Go(0, "make")
       \/ stop /\ UNCHANGED cycle /\ Go(0, "exit")
    /\ UNCHANGED <<stop, ws, process, failed, link, child, lock, threads>>

\* self.ws is stored, whether or not a handler has set stop since the test.
Make ==
    /\ At(0, "make")
    /\ ws' = cycle
    /\ Go(0, "dial")
    /\ UNCHANGED <<stop, cycle, process, failed, link, child, lock, threads>>

\* An exception in the cycle: the delay and the cleanup, or the cleanup at once.
Fails == Go(0, IF stop THEN "clean" ELSE "wait")

\* create_connection and the TLS handshake.
Dial ==
    /\ At(0, "dial")
    /\ \/ link' = [link EXCEPT ![cycle] = "shaking"] /\ Go(0, "shake")
       \/ UNCHANGED link /\ Fails
    /\ UNCHANGED <<fields, child, lock, threads>>

\* _handshake; it fails when a handler has closed the socket.
Shake ==
    /\ At(0, "shake")
    /\ \/ /\ link[cycle] = "shaking"
          /\ link' = [link EXCEPT ![cycle] = "open"]
          /\ Go(0, "spawn")
       \/ UNCHANGED link /\ Fails
    /\ UNCHANGED <<fields, child, lock, threads>>

\* Popen starts the child ...
Spawn ==
    /\ At(0, "spawn")
    /\ \/ child' = [child EXCEPT ![cycle] = "alive"] /\ Go(0, "adopt")
       \/ UNCHANGED child /\ Fails
    /\ UNCHANGED <<fields, link, lock, threads>>

\* ... and self.process is stored.
Adopt ==
    /\ At(0, "adopt")
    /\ process' = cycle
    /\ Go(0, "start")
    /\ UNCHANGED <<stop, cycle, ws, failed, link, child, lock, threads>>

\* _cycle_failed.clear(), which threads of earlier cycles may undo, and the threads.
StartThreads ==
    /\ At(0, "start")
    /\ failed' = FALSE
    /\ reader' = [reader EXCEPT ![cycle] = [at |-> "start", on |-> 0]]
    /\ writer' = [writer EXCEPT ![cycle] = [at |-> "start", on |-> 0]]
    /\ Go(0, "poll")
    /\ UNCHANGED <<stop, cycle, ws, process, link, child, lock>>

\* Mutant of Poll: only the child is polled.
PollChildOnly ==
    /\ At(0, "poll")
    /\ \/ stop /\ Go(0, "clean")
       \/ ~stop /\ child[process] = "dead" /\ Go(0, "wait")
    /\ UNCHANGED <<fields, link, child, lock, threads>>

\* The loop ends, by an exception unless the pipe is stopped.
Poll ==
    /\ At(0, "poll")
    /\ \/ stop /\ Go(0, "clean")
       \/ ~stop /\ (child[process] = "dead" \/ failed) /\ Go(0, "wait")
    /\ UNCHANGED <<fields, link, child, lock, threads>>

\* stop_event.wait(), which holds the event's lock before and after it sleeps.
Wait ==
    /\ At(0, "wait")
    /\ Go(0, "held")
    /\ UNCHANGED <<fields, link, child, lock, threads>>

WaitEnds ==
    /\ At(0, "held")
    /\ Go(0, "clean")
    /\ UNCHANGED <<fields, link, child, lock, threads>>

-----------------------------------------------------------------------------
(* The signal handlers *)

\* A signal interrupts whatever frame is on top; its handler logs it.
Signal(k) ==
    /\ pc[0] # "exit"
    /\ pc[k] = "off"
    /\ \A j \in Handlers : j < k => pc[j] # "off"
    /\ cycle + k <= MaxEvents
    /\ Go(k, "set")
    /\ UNCHANGED <<fields, link, child, lock, threads>>

\* stop_event.set(), under the event's lock, which is not re-entrant.
Set(k) ==
    /\ At(k, "set")
    /\ ~EventHeld
    /\ stop' = TRUE
    /\ Go(k, "flag")
    /\ UNCHANGED <<cycle, ws, process, failed, link, child, lock, threads>>

SetEnds(k) ==
    /\ At(k, "flag")
    /\ Go(k, "clean")
    /\ UNCHANGED <<fields, link, child, lock, threads>>

\* The frame that k interrupted.
Under(j, k) == j < k /\ Active(j) /\ \A i \in Frames : j < i /\ i < k => ~Active(i)

\* The try statement of run_forever.
Body == {"make", "dial", "shake", "spawn", "adopt", "start", "poll", "wait", "held"}

\* Where an exception from above takes a frame: to the finally clause, out of the
\* frame too, or past the close frame, whose exceptions close() ignores.
Lands(j, label) ==
    \/ pc[j] \in Body /\ label = "clean"
    \/ pc[j] \notin Body /\ label = "raise"
    \/ pc[j] = "close" /\ label = "shut"

\* An exception leaves the frame on top.  A child whose Popen it interrupts is never
\* stored in self.process.
Propagate(k) ==
    /\ At(k, "raise")
    /\ \/ k = 0 /\ Go(0, "exit") /\ UNCHANGED child
       \/ \E j \in Frames, label \in {"clean", "raise", "shut"} :
              /\ Under(j, k)
              /\ Lands(j, label)
              /\ pc' = [pc EXCEPT ![k] = "done", ![j] = label]
              /\ IF pc[j] = "adopt" /\ child[cycle] \in Alive
                 THEN child' = [child EXCEPT ![cycle] = "orphaned"]
                 ELSE UNCHANGED child
    /\ UNCHANGED <<fields, link, lock, threads>>

-----------------------------------------------------------------------------
(* _cleanup, in the main thread's frame or in a handler's *)

\* Back to the loop, or into the code that was interrupted.
Return(k) == Go(k, IF k = 0 THEN "loop" ELSE "done")
Raise(k) == Go(k, "raise")

Clean(k) ==
    /\ At(k, "clean")
    /\ Go(k, IF ws # 0 THEN "close" ELSE "kill")
    /\ UNCHANGED <<fields, link, child, lock, threads>>

\* close() without a socket does nothing.  None has no close().
CloseUnneeded(k) ==
    /\ At(k, "close")
    /\ \/ ws = 0 /\ Raise(k)
       \/ (ws # 0 => ~HasSocket(ws)) /\ Go(k, "kill")
    /\ ws' = 0
    /\ UNCHANGED <<stop, cycle, process, failed, link, child, lock, threads>>

\* With a socket, _send_frame takes the send lock.
Close(k) ==
    /\ At(k, "close")
    /\ ws # 0
    /\ HasSocket(ws)
    /\ lock[ws] = "free"
    /\ lock' = [lock EXCEPT ![ws] = "main"]
    /\ Go(k, "bye")
    /\ UNCHANGED <<fields, link, child, threads>>

\* The close frame is sent, or not, and the lock released.
Bye(k) ==
    /\ At(k, "bye")
    /\ lock' = [lock EXCEPT ![ws] = "free"]
    /\ Go(k, "shut")
    /\ UNCHANGED <<fields, link, child, threads>>

\* Mutant of Shut: self.ws is not reset.
ShutKeepsWs(k) ==
    /\ At(k, "shut")
    /\ ws # 0
    /\ link' = [link EXCEPT ![ws] = "closed"]
    /\ Go(k, "kill")
    /\ UNCHANGED <<fields, child, lock, threads>>

\* sock.close(); sock = None; self.ws = None.  A thread inside recv stays there.
Shut(k) ==
    /\ At(k, "shut")
    /\ \/ ws = 0 /\ (Raise(k) \/ Go(k, "kill")) /\ UNCHANGED link
       \/ ws # 0 /\ Go(k, "kill") /\ link' = [link EXCEPT ![ws] = "closed"]
    /\ ws' = 0
    /\ UNCHANGED <<stop, cycle, process, failed, child, lock, threads>>

Kill(k) ==
    /\ At(k, "kill")
    /\ \/ process = 0 /\ Return(k)
       \/ process # 0 /\ Go(k, "term")
    /\ UNCHANGED <<fields, link, child, lock, threads>>

\* A child that is still there gets SIGTERM, and SIGKILL after five seconds.
Term(k) ==
    /\ At(k, "term")
    /\ \/ process = 0 /\ (Raise(k) \/ Return(k)) /\ UNCHANGED child
       \/ /\ process # 0
          /\ IF child[process] = "alive"
             THEN child' = [child EXCEPT ![process] = "ending"]
             ELSE UNCHANGED child
          /\ Go(k, "await")
    /\ UNCHANGED <<fields, link, lock, threads>>

\* Mutant of Await: the process is not waited for.
AwaitNot(k) ==
    /\ At(k, "await")
    /\ process' = 0
    /\ Return(k)
    /\ UNCHANGED <<stop, cycle, ws, failed, link, child, lock, threads>>

\* process.wait() has returned; self.process = None.
Await(k) ==
    /\ At(k, "await")
    /\ \/ process # 0 /\ child[process] = "dead" /\ Return(k)
       \/ process = 0 /\ (Raise(k) \/ Return(k))
    /\ process' = 0
    /\ UNCHANGED <<stop, cycle, ws, failed, link, child, lock, threads>>

-----------------------------------------------------------------------------
(* The daemon threads, which end with the main thread *)

Running == pc[0] # "exit"

Read(n, label, w) == reader' = [reader EXCEPT ![n] = [at |-> label, on |-> w]]
Write(n, label, w) == writer' = [writer EXCEPT ![n] = [at |-> label, on |-> w]]

\* _mark_cycle_failed, whichever cycle it is by now; the thread ends.
MarkFailed ==
    /\ failed' = (failed \/ ~stop)
    /\ UNCHANGED <<stop, cycle, ws, process>>

ReaderFails(n) == Read(n, "end", 0) /\ MarkFailed
WriterFails(n) == Write(n, "end", 0) /\ MarkFailed

\* The assertions at a thread's start.
ReaderStarts(n) ==
    /\ Running
    /\ reader[n].at = "start"
    /\ \/ (ws = 0 \/ process = 0) /\ ReaderFails(n)
       \/ ws # 0 /\ process # 0 /\ Read(n, "loop", 0) /\ UNCHANGED fields
    /\ UNCHANGED <<pc, link, child, lock, writer>>

\* while not stopped: self.ws.recv_text().
ReaderLoops(n) ==
    /\ Running
    /\ reader[n].at = "loop"
    /\ \/ stop /\ Read(n, "end", 0) /\ UNCHANGED fields
       \/ ~stop /\ ws # 0 /\ HasSocket(ws) /\ Read(n, "recv", ws) /\ UNCHANGED fields
       \/ ~stop /\ (ws # 0 => ~HasSocket(ws)) /\ ReaderFails(n)
    /\ UNCHANGED <<pc, link, child, lock, writer>>

\* A message arrives, on a socket that may have been closed meanwhile, and is written
\* to the child that self.process names now; then the loop goes on.
ReaderReceives(n) ==
    /\ Running
    /\ reader[n].at = "recv"
    /\ link[reader[n].on] # "broken"
    /\ \/ process # 0 /\ child[process] # "dead" /\ Read(n, "loop", 0) /\ UNCHANGED fields
       \/ (process # 0 => child[process] \notin Alive) /\ ReaderFails(n)
    /\ UNCHANGED <<pc, link, child, lock, writer>>

\* A ping arrives: _send_frame answers it under the lock.
ReaderPinged(n) ==
    /\ Running
    /\ reader[n].at = "recv"
    /\ HasSocket(reader[n].on)
    /\ lock[reader[n].on] = "free"
    /\ lock' = [lock EXCEPT ![reader[n].on] = "reader"]
    /\ Read(n, "ponging", reader[n].on)
    /\ UNCHANGED <<pc, fields, link, child, writer>>

\* The connection was reset or closed, at the other end or at this one.
ReaderBreaks(n) ==
    /\ Running
    /\ reader[n].at = "recv"
    /\ link[reader[n].on] \in {"broken", "closed"}
    /\ ReaderFails(n)
    /\ UNCHANGED <<pc, link, child, lock, writer>>

ReaderPongs(n) ==
    /\ Running
    /\ reader[n].at = "ponging"
    /\ lock' = [lock EXCEPT ![reader[n].on] = "free"]
    /\ \/ link[reader[n].on] \in {"open", "shaking"} /\ Read(n, "recv", reader[n].on) /\ UNCHANGED fields
       \/ link[reader[n].on] \notin {"open", "shaking"} /\ ReaderFails(n)
    /\ UNCHANGED <<pc, link, child, writer>>

\* The writer's assertions and loop: self.process.stdout.readline().
WriterStarts(n) ==
    /\ Running
    /\ writer[n].at = "start"
    /\ \/ (ws = 0 \/ process = 0) /\ WriterFails(n)
       \/ ws # 0 /\ process # 0 /\ Write(n, "loop", 0) /\ UNCHANGED fields
    /\ UNCHANGED <<pc, link, child, lock, reader>>

WriterLoops(n) ==
    /\ Running
    /\ writer[n].at = "loop"
    /\ \/ stop /\ Write(n, "end", 0) /\ UNCHANGED fields
       \/ ~stop /\ process # 0 /\ Write(n, "readline", process) /\ UNCHANGED fields
       \/ ~stop /\ process = 0 /\ WriterFails(n)
    /\ UNCHANGED <<pc, link, child, lock, reader>>

\* The end of the child's output.
WriterEnds(n) ==
    /\ Running
    /\ writer[n].at = "readline"
    /\ child[writer[n].on] = "dead"
    /\ WriterFails(n)
    /\ UNCHANGED <<pc, link, child, lock, reader>>

\* A line of the child, which may be dead by now, for the object that self.ws names now.
WriterReads(n) ==
    /\ Running
    /\ writer[n].at = "readline"
    /\ \/ (ws # 0 => ~HasSocket(ws)) /\ WriterFails(n) /\ UNCHANGED lock
       \/ /\ ws # 0
          /\ HasSocket(ws)
          /\ lock[ws] = "free"
          /\ lock' = [lock EXCEPT ![ws] = "writer"]
          /\ Write(n, "sending", ws)
          /\ UNCHANGED fields
    /\ UNCHANGED <<pc, link, child, reader>>

WriterSends(n) ==
    /\ Running
    /\ writer[n].at = "sending"
    /\ lock' = [lock EXCEPT ![writer[n].on] = "free"]
    /\ \/ link[writer[n].on] \in {"open", "shaking"} /\ Write(n, "loop", 0) /\ UNCHANGED fields
       \/ link[writer[n].on] \notin {"open", "shaking"} /\ WriterFails(n)
    /\ UNCHANGED <<pc, link, child, reader>>

-----------------------------------------------------------------------------
(* The connection and the child process *)

LinkBreaks(n) ==
    /\ link[n] = "open"
    /\ link' = [link EXCEPT ![n] = "broken"]
    /\ UNCHANGED <<pc, fields, child, lock, threads>>

\* The child ends by itself.
ChildDies(n) ==
    /\ child[n] \in {"alive", "orphaned"}
    /\ child' = [child EXCEPT ![n] = "dead"]
    /\ UNCHANGED <<pc, fields, link, lock, threads>>

\* It ends on a signal.
ChildEnds(n) ==
    /\ child[n] = "ending"
    /\ child' = [child EXCEPT ![n] = "dead"]
    /\ UNCHANGED <<pc, fields, link, lock, threads>>

-----------------------------------------------------------------------------
Cycle ==
    \/ Loop \/ Make \/ Dial \/ Shake \/ Spawn
    \/ Adopt \/ StartThreads \/ Poll \/ Wait \/ WaitEnds

Handler(k) == Set(k) \/ SetEnds(k)

Cleanup(k) ==
    \/ Clean(k) \/ CloseUnneeded(k) \/ Bye(k) \/ Shut(k)
    \/ Kill(k) \/ Term(k) \/ Await(k)

ReaderRuns(n) ==
    \/ ReaderStarts(n) \/ ReaderLoops(n) \/ ReaderBreaks(n) \/ ReaderPongs(n)

WriterRuns(n) ==
    \/ WriterStarts(n) \/ WriterLoops(n) \/ WriterEnds(n) \/ WriterSends(n)

Arrives(n) == ReaderReceives(n) \/ ReaderPinged(n) \/ WriterReads(n)

World(n) == LinkBreaks(n) \/ ChildDies(n) \/ ChildEnds(n)

Next ==
    \/ Cycle
    \/ \E k \in Handlers : Signal(k) \/ Handler(k)
    \/ \E k \in Frames : Cleanup(k) \/ Close(k) \/ Propagate(k)
    \/ \E n \in Cycles : ReaderRuns(n) \/ WriterRuns(n) \/ Arrives(n) \/ World(n)

Spec == Init /\ [][Next]_vars

\* A thread inside recv does not learn that its socket was closed at this end.
Unaware(n) == reader[n].at = "recv" /\ link[reader[n].on] = "closed"

\* The main thread runs, in the frame on top of its stack, and gets the send lock in
\* the end; of the other threads that can go on some one does; connecting and sending
\* end, one way or the other; a child ends when it is killed.  Nothing is assumed of
\* what arrives, nor of a reader whose socket was closed under it.
Fairness ==
    /\ WF_vars(\/ Cycle
               \/ \E k \in Handlers : Handler(k)
               \/ \E k \in Frames : Cleanup(k) \/ Propagate(k))
    /\ SF_vars(\E k \in Frames : Close(k))
    /\ WF_vars(\E n \in Cycles : (ReaderRuns(n) /\ ~Unaware(n)) \/ WriterRuns(n))
    /\ WF_vars(\E n \in Cycles : ChildEnds(n))

FairSpec == Spec /\ Fairness

-----------------------------------------------------------------------------
(* Properties *)

Closing == {"close", "bye", "shut"}
Ending == {"kill", "term", "await"}

MainLabels == Body \cup Closing \cup Ending \cup {"loop", "clean", "raise", "exit"}
HandlerLabels == Closing \cup Ending \cup {"off", "set", "flag", "clean", "raise", "done"}
Labels == MainLabels \cup HandlerLabels

\* A thread is inside an object only while it receives, reads or sends.
ThreadStates(inside) ==
    [at : {"off", "start", "loop", "end"}, on : {0}] \cup [at : inside, on : Cycles]

TypeOK ==
    /\ pc \in [Frames -> Labels]
    /\ stop \in BOOLEAN
    /\ failed \in BOOLEAN
    /\ cycle \in 0..MaxCycles
    /\ ws \in {0, cycle}
    /\ process \in {0, cycle}
    /\ link \in [Cycles -> {"none", "shaking", "open", "broken", "closed"}]
    /\ child \in [Cycles -> {"none", "alive", "ending", "orphaned", "dead"}]
    /\ lock \in [Cycles -> {"free", "main", "reader", "writer"}]
    /\ reader \in [Cycles -> ThreadStates({"recv", "ponging"})]
    /\ writer \in [Cycles -> ThreadStates({"readline", "sending"})]

\* At most one MCP server runs, wherever signals interrupt the pipe and each other,
\* and none when the pipe has ended, except one whose Popen the exception of an
\* interrupted handler left: a robot never obeys two servers.
OneServer ==
    /\ \A n, m \in Cycles :
           child[n] \in Alive \cup {"orphaned"} /\ child[m] \in Alive \cup {"orphaned"} => n = m
    /\ pc[0] = "exit" => \A n \in Cycles : child[n] \notin Alive

\* A child is known to the runner as soon as Popen has returned; one that the runner
\* never learns of belongs to the last cycle of a pipe that is stopping.
Children ==
    \A n \in Cycles :
        /\ child[n] \in Alive => n = process \/ (pc[0] = "adopt" /\ n = cycle)
        /\ child[n] = "orphaned" =>
               n = cycle /\ process = 0 /\ stop /\ pc[0] \notin Body

\* The main thread has no child before it starts one and after its cleanup.
MainState ==
    /\ pc[0] \in MainLabels
    /\ pc[0] \in {"loop", "make", "dial", "shake", "spawn", "adopt", "exit"} => process = 0
    /\ pc[0] \in {"loop", "make"} => ws = 0

HandlerState ==
    \A k \in Handlers :
        /\ pc[k] \in HandlerLabels
        /\ pc[k] \notin {"off", "set"} => stop

\* The exception of a cleanup leaves nothing behind: whoever has reset the fields under
\* it has also ended the child, or is about to, above it.
CleanupState ==
    \A k \in Frames :
        /\ pc[k] \in Ending => ws = 0
        /\ pc[k] = "raise" => ws = 0 /\ process = 0
        /\ pc[k] \in Closing /\ ws = 0 =>
               process = 0 \/ \E j \in Frames : j > k /\ pc[j] \in Ending

\* Who refers to which child, where the frames of the main thread's stack stand.
IInv == TypeOK /\ Children /\ MainState /\ HandlerState /\ CleanupState

\* A handler waits for a lock that a frame under it holds: a signal has come inside
\* close(), wait() or set().
SelfLocked ==
    \E j, k \in Frames :
        /\ j < k
        /\ \/ pc[j] = "bye" /\ At(k, "close")
           \/ pc[j] \in {"held", "flag"} /\ At(k, "set")

\* A reset connection or a dead child ends the cycle, whatever the threads of an
\* earlier cycle still do with its connection and its child, unless a signal's handler
\* locks itself out.
BreakIsNoticed ==
    (pc[0] = "poll" /\ (link[cycle] = "broken" \/ child[cycle] = "dead"))
        ~> pc[0] # "poll" \/ SelfLocked

\* A signal ends the pipe, unless it or another one meets the pipe inside close(), or
\* inside wait() or set() of the stop event.
StopReturns == (\E k \in Handlers : pc[k] # "off") ~> pc[0] = "exit" \/ SelfLocked
=============================================================================
