------------------------ MODULE ClusterDispatchProofs ------------------------
(***************************************************************************)
(* Proofs about ClusterDispatch: the inductive invariant, and that the     *)
(* dispatcher keeps its contract.  The contract speaks of the reports and  *)
(* of what the robots have carried out; the invariant adds where a command *)
(* can be between the two: on its way, inside a relay, in an answer, or in *)
(* a thread's result.                                                      *)
(***************************************************************************)
EXTENDS ClusterDispatch, TLAPS

USE SelfAssumption, RetryAssumption, BoundAssumption

LEMMA TriesType == \A p \in Phases : Tries(p) \in Nat \ {0}
BY DEF Tries, Phases

LEMMA InitIInv == Init => IInv
<1> SUFFICES ASSUME Init
             PROVE  IInv
  OBVIOUS
<1> USE DEF Init
<1>1. TypeOK
  <2>1. 1 <= Tries("prestart")
    BY DEF Tries
  <2>2. runs \in [Targets -> [Calls -> [Attempts -> Nat]]] /\ dup \in 0..MaxDup /\ call \in 0..MaxCalls
    OBVIOUS
  <2> QED
    BY <2>1, <2>2 DEF TypeOK, Phases, Calls
<1>2. ThreadsOfPhase /\ ReportOfPhase
  BY DEF ThreadsOfPhase, ReportOfPhase, Calls
<1>3. SentForCause /\ RelayHasRun /\ ResultHasRun
  BY DEF SentForCause, RelayHasRun, ResultHasRun
<1>4. MovedForCause /\ UnmadeIsUnsent /\ OncePerCopy
  BY DEF MovedForCause, NobodyMoved, UnmadeIsUnsent, OncePerCopy, Ran, Requests
<1> QED
  BY <1>1, <1>2, <1>3, <1>4 DEF IInv

\* The end of an attempt: the thread has another one, or has ended.
LEMMA AttemptFailsKeeps ==
    ASSUME TypeOK, NEW t \in Targets, phase \in Phases, AttemptFails(t),
           UNCHANGED phase
    PROVE  /\ try' \in [Targets -> Nat \ {0}]
           /\ \A u \in Targets : try'[u] <= Tries(phase)
           /\ th'[t] \in {"go", "error"}
           /\ th' = [th EXCEPT ![t] = th'[t]]
           /\ \A u \in Targets : u # t => try'[u] = try[u]
           /\ th'[t] = "go" => try'[t] = try[t] + 1
           /\ th'[t] # "go" => try'[t] = try[t]
           /\ stray' = [stray EXCEPT ![t] = FALSE]
<1>1. Tries(phase) \in Nat \ {0} /\ \A u \in Targets : try[u] \in Nat \ {0} /\ try[u] <= Tries(phase)
  BY TriesType DEF TypeOK
<1>2. CASE /\ try[t] < Tries(phase) /\ try' = [try EXCEPT ![t] = @ + 1] /\ th' = [th EXCEPT ![t] = "go"]
           /\ CloseSocket(t)
  <2>1. try' = [try EXCEPT ![t] = try[t] + 1] /\ try[t] + 1 \in Nat \ {0} /\ try[t] + 1 <= Tries(phase)
    BY <1>1, <1>2
  <2>2. try' \in [Targets -> Nat \ {0}]
    BY <2>1 DEF TypeOK
  <2>3. \A u \in Targets : u # t => try'[u] = try[u]
    BY <2>1 DEF TypeOK
  <2>4. try'[t] = try[t] + 1
    BY <2>1 DEF TypeOK
  <2>5. \A u \in Targets : try'[u] <= Tries(phase)
    BY <1>1, <2>1, <2>3, <2>4
  <2>6. th'[t] = "go" /\ th' = [th EXCEPT ![t] = th'[t]]
    BY <1>2 DEF TypeOK
  <2> QED
    BY <1>2, <2>2, <2>3, <2>4, <2>5, <2>6 DEF CloseSocket
<1>3. CASE ThreadEnds(t, "error")
  <2>1. try' = try /\ th' = [th EXCEPT ![t] = "error"] /\ stray' = [stray EXCEPT ![t] = FALSE]
    BY <1>3 DEF ThreadEnds, CloseSocket
  <2>2. th'[t] = "error" /\ th' = [th EXCEPT ![t] = th'[t]]
    BY <2>1 DEF TypeOK
  <2> QED
    BY <1>1, <2>1, <2>2 DEF TypeOK
<1> QED
  BY <1>2, <1>3 DEF AttemptFails

\* A step that only ends an attempt or a thread: nothing is sent, begun or reported.
ThreadStep(t) ==
    /\ phase \in Phases
    /\ th[t] \in {"go", "wait", "busy"}
    /\ AttemptFails(t) \/ \E result \in {"result", "error"} : ThreadEnds(t, result)
    /\ UNCHANGED <<kind, phase, call, flying, dup, doing, report, runs>>
    /\ answers' \in [Targets -> SUBSET [request : Requests, ok : BOOLEAN]]
    /\ \A u \in Targets : answers'[u] \subseteq answers[u]

LEMMA ThreadStepFacts ==
    ASSUME TypeOK, NEW t \in Targets, ThreadStep(t)
    PROVE  /\ try' \in [Targets -> Nat \ {0}]
           /\ \A u \in Targets : try'[u] <= Tries(phase)
           /\ th'[t] \in {"go", "result", "error"}
           /\ th' = [th EXCEPT ![t] = th'[t]]
           /\ \A u \in Targets : u # t => try'[u] = try[u]
           /\ th'[t] = "go" => try'[t] = try[t] + 1
           /\ th'[t] # "go" => try'[t] = try[t]
           /\ stray' = [stray EXCEPT ![t] = FALSE]
<1>1. CASE AttemptFails(t)
  BY <1>1, AttemptFailsKeeps DEF ThreadStep
<1>2. CASE \E result \in {"result", "error"} : ThreadEnds(t, result)
  <2>1. PICK result \in {"result", "error"} :
            th' = [th EXCEPT ![t] = result] /\ try' = try /\ stray' = [stray EXCEPT ![t] = FALSE]
    BY <1>2 DEF ThreadEnds, CloseSocket
  <2>2. th'[t] = result /\ th' = [th EXCEPT ![t] = th'[t]]
    BY <2>1 DEF TypeOK
  <2> QED
    BY <2>1, <2>2 DEF TypeOK, ThreadStep
<1> QED
  BY <1>1, <1>2 DEF ThreadStep

LEMMA ThreadStepKeeps ==
    ASSUME IInv, NEW t \in Targets, ThreadStep(t),
           phase = "command" /\ th'[t] = "result" => \E a \in Attempts : runs[t][call][a] > 0
    PROVE  IInv'
<1> USE DEF IInv
<1>1. /\ try' \in [Targets -> Nat \ {0}]
      /\ \A u \in Targets : try'[u] <= Tries(phase)
      /\ th'[t] \in {"go", "result", "error"}
      /\ th' = [th EXCEPT ![t] = th'[t]]
      /\ \A u \in Targets : u # t => try'[u] = try[u]
      /\ th'[t] = "go" => try'[t] = try[t] + 1
      /\ th'[t] # "go" => try'[t] = try[t]
      /\ stray' = [stray EXCEPT ![t] = FALSE]
  BY ThreadStepFacts
<1>2. UNCHANGED <<kind, phase, call, flying, dup, doing, report, runs>> /\ th[t] \in {"go", "wait", "busy"}
  BY DEF ThreadStep
<1>3. \A u \in Targets : u # t => th'[u] = th[u]
  BY <1>1 DEF TypeOK
<1>4. \A u \in Targets : answers'[u] \subseteq answers[u]
  BY DEF ThreadStep
<1>5. TypeOK'
  <2>1. th' \in [Targets -> {"off", "go", "wait", "busy", "result", "error"}]
    BY <1>1 DEF TypeOK
  <2>2. answers' \in [Targets -> SUBSET [request : Requests, ok : BOOLEAN]]
    BY DEF ThreadStep
  <2>3. Tries(phase)' = Tries(phase)
    BY <1>2 DEF Tries
  <2> QED
    BY <1>1, <1>2, <2>1, <2>2, <2>3 DEF TypeOK
<1>6. ThreadsOfPhase'
  <2>1. stray'[t] = FALSE /\ \A u \in Targets : u # t => stray'[u] = stray[u]
    BY <1>1 DEF TypeOK
  <2> QED
    BY <1>1, <1>2, <1>3, <2>1 DEF ThreadsOfPhase, TypeOK, Waits, Remote
<1>7. ReportOfPhase'
  BY <1>2 DEF ReportOfPhase
<1>8. SentForCause'
  BY <1>2, <1>4 DEF SentForCause, CommandOfCall
<1>9. RelayHasRun'
  BY <1>2, <1>4 DEF RelayHasRun, Ran
<1>10. ResultHasRun'
  BY <1>1, <1>2, <1>3 DEF ResultHasRun
<1>11. MovedForCause'
  BY <1>2 DEF MovedForCause, NobodyMoved
<1>12. UnmadeIsUnsent'
  <2> SUFFICES ASSUME NEW u \in Targets, NEW request \in Requests, Unmade(u, request.call, request.try)'
               PROVE  ~Ran(u, request) /\ request \notin flying[u]
    BY <1>2 DEF UnmadeIsUnsent, Ran
  <2>1. request.call \in Calls /\ request.try \in Nat /\ try[u] \in Nat /\ try'[u] \in Nat
    BY <1>1 DEF Requests, Attempts, TypeOK
  <2>2. Unmade(u, request.call, request.try)
    <3>1. CASE u = t
      BY <1>1, <1>2, <2>1, <3>1 DEF Unmade
    <3>2. CASE u # t
      BY <1>1, <1>2, <1>3, <2>1, <3>2 DEF Unmade
    <3> QED
      BY <3>1, <3>2
  <2> QED
    BY <2>2 DEF UnmadeIsUnsent
<1>13. OncePerCopy'
  BY <1>2 DEF OncePerCopy
<1> QED
  BY <1>5, <1>6, <1>7, <1>8, <1>9, <1>10, <1>11, <1>12, <1>13

\* The thread steps without an effect of their own are ThreadSteps; a result comes
\* from the robot that has carried the command out.
LEMMA QuietThread ==
    ASSUME IInv, NEW t \in Targets,
           \/ LocalReady(t) \/ LocalReturns(t) \/ Ping(t) \/ SendFails(t)
           \/ Receive(t) \/ Garbled(t) \/ Timeout(t)
    PROVE  IInv'
<1> USE DEF IInv, network
<1>1. th[t] # "off" /\ phase \in Phases
  BY DEF LocalReady, LocalReturns, Ping, SendFails, Receive, Garbled, Timeout, Waits,
         ThreadsOfPhase, TypeOK
<1>2. CASE LocalReady(t) \/ Ping(t)
  <2>1. ThreadStep(t)
    BY <1>1, <1>2 DEF LocalReady, Ping, ThreadStep, TypeOK
  <2>2. phase # "command"
    BY <1>2 DEF LocalReady, Ping
  <2> QED
    BY <2>1, <2>2, ThreadStepKeeps
<1>3. CASE LocalReturns(t)
  <2>1. ThreadStep(t)
    BY <1>1, <1>3 DEF LocalReturns, ThreadStep, TypeOK
  <2>2. phase = "command" => \E a \in Attempts : runs[t][call][a] > 0
    BY <1>3 DEF LocalReturns, ResultHasRun
  <2> QED
    BY <2>1, <2>2, ThreadStepKeeps
<1>4. CASE SendFails(t) \/ Garbled(t) \/ Timeout(t)
  <2>1. ThreadStep(t) /\ AttemptFails(t) /\ UNCHANGED phase
    BY <1>1, <1>4 DEF SendFails, Garbled, Timeout, Waits, ThreadStep, TypeOK
  <2>2. th'[t] # "result"
    BY <1>1, <2>1, AttemptFailsKeeps
  <2> QED
    BY <2>1, <2>2, ThreadStepKeeps
<1>5. CASE Receive(t)
  <2>1. PICK answer \in answers[t] :
            /\ answer.request = Current(t)
            /\ answers' = [answers EXCEPT ![t] = answers[t] \ {answer}]
            /\ \/ answer.ok /\ ThreadEnds(t, "result")
               \/ ~answer.ok /\ AttemptFails(t)
    BY <1>5 DEF Receive
  <2>2. answers' \in [Targets -> SUBSET [request : Requests, ok : BOOLEAN]]
    BY <2>1 DEF TypeOK
  <2>3. \A u \in Targets : answers'[u] \subseteq answers[u]
    BY <2>1 DEF TypeOK
  <2>4. ThreadStep(t)
    BY <1>1, <1>5, <2>1, <2>2, <2>3 DEF Receive, ThreadStep
  <2>5. CASE answer.ok
    <3>1. answer \in [request : Requests, ok : BOOLEAN]
      BY DEF TypeOK
    <3>2. Current(t) \in Requests /\ Ran(t, Current(t))
      BY <2>1, <2>5, <3>1 DEF RelayHasRun
    <3>3. runs[t][call][try[t]] > 0 /\ try[t] \in Attempts
      BY <3>2 DEF Ran, Current, Requests
    <3> QED
      BY <2>4, <3>3, ThreadStepKeeps
  <2>6. CASE AttemptFails(t)
    <3>1. th'[t] # "result"
      BY <1>1, <2>6, AttemptFailsKeeps, <1>5 DEF Receive
    <3> QED
      BY <2>4, <3>1, ThreadStepKeeps
  <2> QED
    BY <2>1, <2>5, <2>6
<1> QED
  BY <1>2, <1>3, <1>4, <1>5

\* A datagram that answers nothing comes, or is read and skipped: only the sockets
\* change.
LEMMA SocketKeeps ==
    ASSUME IInv, NEW t \in Targets, Skip(t) \/ StrayArrives(t)
    PROVE  IInv'
<1> USE DEF IInv
<1>1. UNCHANGED <<kind, phase, call, th, try, flying, dup, doing, report, runs>> /\ Waits(t)
  BY DEF Skip, StrayArrives, network
<1>2. /\ answers' \in [Targets -> SUBSET [request : Requests, ok : BOOLEAN]]
      /\ \A u \in Targets : answers'[u] \subseteq answers[u]
  BY DEF Skip, StrayArrives, network, TypeOK
<1>3. stray' \in [Targets -> BOOLEAN] /\ \A u \in Targets : u # t => stray'[u] = stray[u]
  BY DEF Skip, StrayArrives, CloseSocket, TypeOK
<1>4. TypeOK'
  <2>1. Tries(phase)' = Tries(phase)
    BY <1>1 DEF Tries
  <2> QED
    BY <1>1, <1>2, <1>3, <2>1 DEF TypeOK
<1>5. ThreadsOfPhase'
  BY <1>1, <1>3 DEF ThreadsOfPhase, Waits, Remote
<1>6. ReportOfPhase' /\ ResultHasRun' /\ MovedForCause'
  BY <1>1 DEF ReportOfPhase, ResultHasRun, MovedForCause, NobodyMoved
<1>7. SentForCause' /\ RelayHasRun'
  BY <1>1, <1>2 DEF SentForCause, CommandOfCall, RelayHasRun, Ran
<1>8. UnmadeIsUnsent' /\ OncePerCopy'
  BY <1>1 DEF UnmadeIsUnsent, Unmade, OncePerCopy, Ran
<1> QED
  BY <1>4, <1>5, <1>6, <1>7, <1>8

\* What is still to be made for another robot, or another request of this one, is not
\* touched when a thread sends or begins its own.
LEMMA MadeNow ==
    ASSUME IInv, NEW t \in Targets, th[t] = "go", phase = "command"
    PROVE  /\ Current(t) \in Requests
           /\ runs[t][call][try[t]] = 0
           /\ Current(t) \notin flying[t]
           /\ call \in Calls /\ try[t] \in Attempts
<1>1. call \in Calls
  BY DEF IInv, TypeOK, ReportOfPhase, Calls
<1>2. try[t] \in Attempts
  BY DEF IInv, TypeOK, Attempts, Tries, Phases
<1>3. Current(t) \in Requests /\ Current(t).call = call /\ Current(t).try = try[t]
  BY <1>1, <1>2 DEF Current, Requests
<1>4. Unmade(t, Current(t).call, Current(t).try)
  BY <1>3 DEF Unmade
<1>5. ~Ran(t, Current(t)) /\ Current(t) \notin flying[t]
  BY <1>3, <1>4 DEF IInv, UnmadeIsUnsent
<1>6. runs[t][call][try[t]] \in Nat
  BY <1>1, <1>2 DEF IInv, TypeOK
<1> QED
  BY <1>1, <1>2, <1>3, <1>5, <1>6 DEF Ran

LEMMA SendKeeps ==
    ASSUME IInv, NEW t \in Targets, Send(t)
    PROVE  IInv'
<1> USE DEF IInv
<1>1. th[t] = "go" /\ phase = "command" /\ UNCHANGED <<kind, phase, call, try, stray, dup, doing, answers, report, runs>>
  BY DEF Send
<1>2. /\ Current(t) \in Requests
      /\ runs[t][call][try[t]] = 0
      /\ call \in Calls /\ try[t] \in Attempts
      /\ Current(t).call = call /\ Current(t).try = try[t]
  BY <1>1, MadeNow DEF Current
<1>3. flying' \in [Targets -> SUBSET Requests] /\ \A u \in Targets : u # t => flying'[u] = flying[u]
  BY <1>2 DEF Send, TypeOK
<1>4. flying'[t] = flying[t] \cup {Current(t)}
  BY DEF Send, TypeOK
<1>5. th'[t] = "wait" /\ th' \in [Targets -> {"off", "go", "wait", "busy", "result", "error"}] /\ \A u \in Targets : u # t => th'[u] = th[u]
  BY DEF Send, TypeOK
<1>6. TypeOK'
  <2>1. Tries(phase)' = Tries(phase)
    BY <1>1 DEF Tries
  <2> QED
    BY <1>1, <1>3, <1>5, <2>1 DEF TypeOK
<1>7. ThreadsOfPhase' /\ ReportOfPhase'
  BY <1>1, <1>5 DEF ThreadsOfPhase, Waits, Remote, ReportOfPhase
<1>8. SentForCause'
  <2>1. CommandOfCall(Current(t))
    BY <1>1, <1>2 DEF CommandOfCall, ReportOfPhase, TypeOK
  <2>2. \A request : CommandOfCall(request)' = CommandOfCall(request)
    BY <1>1 DEF CommandOfCall
  <2> QED
    BY <1>1, <1>3, <1>4, <2>1, <2>2 DEF SentForCause
<1>9. RelayHasRun' /\ MovedForCause'
  BY <1>1 DEF RelayHasRun, Ran, MovedForCause, NobodyMoved
<1>10. ResultHasRun'
  BY <1>1, <1>5 DEF ResultHasRun
<1>11. UnmadeIsUnsent'
  <2> SUFFICES ASSUME NEW u \in Targets, NEW request \in Requests, Unmade(u, request.call, request.try)'
               PROVE  ~Ran(u, request) /\ request \notin flying'[u]
    BY <1>1 DEF UnmadeIsUnsent, Ran
  <2>1. Unmade(u, request.call, request.try)
    BY <1>1, <1>5 DEF Unmade
  <2>2. ~Ran(u, request) /\ request \notin flying[u]
    BY <2>1 DEF UnmadeIsUnsent
  <2>3. u = t => request # Current(t)
    BY <1>1, <1>2, <1>5 DEF Unmade, TypeOK
  <2> QED
    BY <1>3, <1>4, <2>2, <2>3
<1>12. OncePerCopy'
  <2> SUFFICES ASSUME NEW u \in Targets, NEW request \in Requests, request \in flying'[u]
               PROVE  runs[u][request.call][request.try] <= dup
    BY <1>1 DEF OncePerCopy
  <2>1. CASE u = t /\ request = Current(t)
    BY <1>2, <2>1 DEF TypeOK
  <2>2. CASE request \in flying[u]
    BY <2>2 DEF OncePerCopy
  <2> QED
    BY <1>3, <1>4, <2>1, <2>2
<1> QED
  BY <1>6, <1>7, <1>8, <1>9, <1>10, <1>11, <1>12

\* One command is begun: the count of its attempt goes up by one, no other changes.
LEMMA BeginFacts ==
    ASSUME TypeOK, NEW t \in Targets, NEW c \in Calls, NEW a \in Attempts,
           runs' = [runs EXCEPT ![t][c][a] = @ + 1]
    PROVE  /\ runs' \in [Targets -> [Calls -> [Attempts -> Nat]]]
           /\ runs'[t][c][a] = runs[t][c][a] + 1
           /\ \A u \in Targets, d \in Calls, b \in Attempts :
                  u # t \/ d # c \/ b # a => runs'[u][d][b] = runs[u][d][b]
           /\ \A u \in Targets, d \in Calls, b \in Attempts : runs'[u][d][b] >= runs[u][d][b]
BY DEF TypeOK

LEMMA LocalCallKeeps ==
    ASSUME IInv, NEW t \in Targets, LocalCall(t)
    PROVE  IInv'
<1> USE DEF IInv
<1>1. th[t] = "go" /\ phase = "command" /\ UNCHANGED <<kind, phase, call, try, stray, flying, dup, doing, answers, report>>
  BY DEF LocalCall, network
<1>2. /\ Current(t) \in Requests
      /\ runs[t][call][try[t]] = 0
      /\ call \in Calls /\ try[t] \in Attempts
      /\ Current(t).call = call /\ Current(t).try = try[t]
      /\ Current(t) \notin flying[t]
  BY <1>1, MadeNow DEF Current
<1>3. runs' = [runs EXCEPT ![t][call][try[t]] = @ + 1]
  BY DEF LocalCall, Begin
<1>4. /\ runs' \in [Targets -> [Calls -> [Attempts -> Nat]]]
      /\ runs'[t][call][try[t]] = 1
      /\ \A u \in Targets, d \in Calls, b \in Attempts :
             u # t \/ d # call \/ b # try[t] => runs'[u][d][b] = runs[u][d][b]
      /\ \A u \in Targets, d \in Calls, b \in Attempts : runs'[u][d][b] >= runs[u][d][b]
  <2>1. call \in Calls /\ try[t] \in Attempts /\ TypeOK
    BY <1>2
  <2>2. /\ runs' \in [Targets -> [Calls -> [Attempts -> Nat]]]
        /\ runs'[t][call][try[t]] = runs[t][call][try[t]] + 1
        /\ \A u \in Targets, d \in Calls, b \in Attempts :
               u # t \/ d # call \/ b # try[t] => runs'[u][d][b] = runs[u][d][b]
        /\ \A u \in Targets, d \in Calls, b \in Attempts : runs'[u][d][b] >= runs[u][d][b]
    BY <1>3, <2>1, BeginFacts
  <2>3. runs'[t][call][try[t]] = 1
    BY <1>2, <2>2
  <2> QED
    BY <2>2, <2>3
<1>5. th'[t] = "busy" /\ th' \in [Targets -> {"off", "go", "wait", "busy", "result", "error"}] /\ \A u \in Targets : u # t => th'[u] = th[u]
  BY DEF LocalCall, TypeOK
<1>6. TypeOK'
  <2>1. Tries(phase)' = Tries(phase)
    BY <1>1 DEF Tries
  <2> QED
    BY <1>1, <1>4, <1>5, <2>1 DEF TypeOK
<1>7. ThreadsOfPhase' /\ ReportOfPhase' /\ SentForCause'
  BY <1>1, <1>5 DEF ThreadsOfPhase, Waits, Remote, ReportOfPhase, SentForCause, CommandOfCall
<1>8. RelayHasRun'
  <2>1. \A u \in Targets, request \in Requests : Ran(u, request) => Ran(u, request)'
    BY <1>4, <1>6 DEF Ran, Requests, TypeOK
  <2> QED
    BY <1>1, <2>1 DEF RelayHasRun, TypeOK
<1>9. ResultHasRun'
  <2> SUFFICES ASSUME NEW u \in Targets, th'[u] \in {"result", "busy"}
               PROVE  \E a \in Attempts : runs'[u][call][a] > 0
    BY <1>1 DEF ResultHasRun
  <2>1. CASE u = t
    BY <1>2, <1>4, <2>1
  <2>2. CASE u # t
    <3>1. PICK a \in Attempts : runs[u][call][a] > 0
      BY <1>1, <1>5, <2>2 DEF ResultHasRun
    <3>2. runs'[u][call][a] = runs[u][call][a]
      BY <1>2, <1>4, <2>2, <3>1
    <3> QED
      BY <3>1, <3>2
  <2> QED
    BY <2>1, <2>2
<1>10. MovedForCause'
  <2>1. \A c \in Calls : report[c] \in {"idle", "aborted"} => c # call
    BY <1>1 DEF ReportOfPhase
  <2> SUFFICES ASSUME NEW c \in Calls, report[c] \in {"idle", "aborted"} \/ (c = call /\ phase = "ready")
               PROVE  NobodyMoved(c)'
    BY <1>1 DEF MovedForCause
  <2>2. c # call /\ NobodyMoved(c)
    BY <1>1, <2>1 DEF MovedForCause
  <2>3. \A u \in Targets, b \in Attempts : runs'[u][c][b] = runs[u][c][b]
    BY <1>4, <2>2
  <2> QED
    BY <2>2, <2>3 DEF NobodyMoved
<1>11. UnmadeIsUnsent'
  <2> SUFFICES ASSUME NEW u \in Targets, NEW request \in Requests, Unmade(u, request.call, request.try)'
               PROVE  ~Ran(u, request)' /\ request \notin flying[u]
    BY <1>1 DEF UnmadeIsUnsent, Ran
  <2>1. Unmade(u, request.call, request.try)
    BY <1>1, <1>5 DEF Unmade
  <2>2. ~Ran(u, request) /\ request \notin flying[u]
    BY <2>1 DEF UnmadeIsUnsent
  <2>3. /\ request.call \in Calls /\ request.try \in Attempts
        /\ request.call \in Nat /\ call \in Nat /\ try[t] \in Nat /\ request.try \in Nat
    BY <1>2 DEF Requests, Attempts, Calls
  <2>4. u # t \/ request.call # call \/ request.try # try[t]
    BY <1>1, <1>2, <1>5, <2>3 DEF Unmade
  <2>5. runs'[u][request.call][request.try] = runs[u][request.call][request.try]
    BY <1>4, <2>3, <2>4
  <2> QED
    BY <2>2, <2>5 DEF Ran
<1>12. OncePerCopy'
  <2> SUFFICES ASSUME NEW u \in Targets, NEW request \in Requests
               PROVE  /\ runs'[u][request.call][request.try] <= 1 + dup
                      /\ request \in flying[u] => runs'[u][request.call][request.try] <= dup
    BY <1>1 DEF OncePerCopy
  <2>1. request.call \in Calls /\ request.try \in Attempts
    BY DEF Requests
  <2>2. CASE u = t /\ request.call = call /\ request.try = try[t]
    <3>1. request = Current(t)
      BY <2>2 DEF Requests, Current
    <3> QED
      BY <1>2, <1>4, <2>2, <3>1 DEF TypeOK
  <2>3. CASE u # t \/ request.call # call \/ request.try # try[t]
    BY <1>4, <2>1, <2>3 DEF OncePerCopy
  <2> QED
    BY <2>2, <2>3
<1> QED
  BY <1>6, <1>7, <1>8, <1>9, <1>10, <1>11, <1>12

\* A relay reads one command: the network forgets it, or keeps one of its copies.
LEMMA ReadFacts ==
    ASSUME TypeOK, NEW t \in Targets, NEW q \in flying[t], Read(t, q)
    PROVE  /\ flying' \in [Targets -> SUBSET Requests]
           /\ \A u \in Targets : flying'[u] \subseteq flying[u]
           /\ dup' \in 0..MaxDup /\ dup <= dup'
           /\ q \in flying'[t] => dup' = dup + 1
<1>1. CASE flying' = [flying EXCEPT ![t] = @ \ {q}] /\ dup' = dup
  BY <1>1 DEF TypeOK
<1>2. CASE dup < MaxDup /\ dup' = dup + 1 /\ flying' = flying
  BY <1>2 DEF TypeOK
<1> QED
  BY <1>1, <1>2 DEF Read

\* A relay that begins nothing: it refuses, ends or crashes.  Fewer commands are on
\* their way or under way, and an answer that says `ok' is for one that has run.
LEMMA QuietRelay ==
    ASSUME IInv, NEW t \in Targets,
           RelayRefuses(t) \/ RelayEnds(t) \/ RelayCrash(t)
    PROVE  IInv'
<1> USE DEF IInv
<1>1. UNCHANGED <<kind, phase, call, th, try, stray, report, runs>>
  BY DEF RelayRefuses, RelayEnds, RelayCrash, dispatcher
<1>2. /\ flying' \in [Targets -> SUBSET Requests]
      /\ \A u \in Targets : flying'[u] \subseteq flying[u]
      /\ dup' \in 0..MaxDup /\ dup <= dup'
  <2>1. CASE flying' = flying /\ dup' = dup
    BY <2>1 DEF TypeOK
  <2>2. CASE \E request \in flying[t] : Read(t, request)
    BY <2>2, ReadFacts
  <2> QED
    BY <2>1, <2>2 DEF RelayRefuses, RelayEnds, RelayCrash
<1>3. /\ doing' \in [Targets -> SUBSET Requests]
      /\ \A u \in Targets : doing'[u] \subseteq doing[u]
  BY DEF RelayRefuses, RelayEnds, RelayCrash, TypeOK
<1>4. /\ answers' \in [Targets -> SUBSET [request : Requests, ok : BOOLEAN]]
      /\ \A u \in Targets : \A answer \in answers'[u] :
             \/ answer \in answers[u]
             \/ answer.request \in flying[u] /\ ~answer.ok
             \/ answer.request \in doing[u]
  <2>1. CASE RelayRefuses(t)
    <3>1. PICK request \in flying[t] : answers' = [answers EXCEPT ![t] = answers[t] \cup {[request |-> request, ok |-> FALSE]}]
      BY <2>1 DEF RelayRefuses, Answer
    <3>2. [request |-> request, ok |-> FALSE] \in [request : Requests, ok : BOOLEAN]
      BY DEF TypeOK
    <3>3. answers'[t] = answers[t] \cup {[request |-> request, ok |-> FALSE]} /\ \A u \in Targets : u # t => answers'[u] = answers[u]
      BY <3>1 DEF TypeOK
    <3>4. answers' \in [Targets -> SUBSET [request : Requests, ok : BOOLEAN]]
      BY <3>1, <3>2 DEF TypeOK
    <3>5. \A u \in Targets : \A answer \in answers'[u] :
              answer \in answers[u] \/ (u = t /\ answer.request = request /\ ~answer.ok)
      BY <3>3
    <3> QED
      BY <3>4, <3>5
  <2>2. CASE RelayEnds(t)
    <3>1. PICK request \in doing[t], ok \in BOOLEAN : answers' = [answers EXCEPT ![t] = answers[t] \cup {[request |-> request, ok |-> ok]}]
      BY <2>2 DEF RelayEnds, Answer
    <3>2. [request |-> request, ok |-> ok] \in [request : Requests, ok : BOOLEAN]
      BY DEF TypeOK
    <3>3. answers'[t] = answers[t] \cup {[request |-> request, ok |-> ok]} /\ \A u \in Targets : u # t => answers'[u] = answers[u]
      BY <3>1 DEF TypeOK
    <3>4. answers' \in [Targets -> SUBSET [request : Requests, ok : BOOLEAN]]
      BY <3>1, <3>2 DEF TypeOK
    <3>5. \A u \in Targets : \A answer \in answers'[u] : answer \in answers[u] \/ (u = t /\ answer.request = request)
      BY <3>3
    <3> QED
      BY <3>4, <3>5
  <2>3. CASE RelayCrash(t)
    BY <2>3 DEF RelayCrash, TypeOK
  <2> QED
    BY <2>1, <2>2, <2>3
<1>5. TypeOK'
  <2>1. Tries(phase)' = Tries(phase)
    BY <1>1 DEF Tries
  <2> QED
    BY <1>1, <1>2, <1>3, <1>4, <2>1 DEF TypeOK
<1>6. ThreadsOfPhase' /\ ReportOfPhase' /\ ResultHasRun' /\ MovedForCause'
  BY <1>1 DEF ThreadsOfPhase, Waits, Remote, ReportOfPhase, ResultHasRun, MovedForCause, NobodyMoved
<1>7. SentForCause'
  <2>1. \A request : CommandOfCall(request)' = CommandOfCall(request)
    BY <1>1 DEF CommandOfCall
  <2> QED
    BY <1>2, <1>3, <1>4, <2>1 DEF SentForCause
<1>8. RelayHasRun'
  <2>1. \A u \in Targets, request \in Requests : Ran(u, request)' = Ran(u, request)
    BY <1>1 DEF Ran
  <2> QED
    BY <1>3, <1>4, <1>5, <2>1 DEF RelayHasRun, TypeOK
<1>9. UnmadeIsUnsent'
  BY <1>1, <1>2 DEF UnmadeIsUnsent, Unmade, Ran
<1>10. OncePerCopy'
  <2> SUFFICES ASSUME NEW u \in Targets, NEW request \in Requests
               PROVE  /\ runs[u][request.call][request.try] <= 1 + dup'
                      /\ request \in flying'[u] => runs[u][request.call][request.try] <= dup'
    BY <1>1 DEF OncePerCopy
  <2>1. runs[u][request.call][request.try] \in Nat /\ dup \in Nat /\ dup' \in Nat
    BY <1>2 DEF TypeOK, Requests
  <2>2. runs[u][request.call][request.try] <= 1 + dup
    BY DEF OncePerCopy
  <2>3. request \in flying'[u] => runs[u][request.call][request.try] <= dup
    BY <1>2 DEF OncePerCopy
  <2> QED
    BY <1>2, <2>1, <2>2, <2>3
<1> QED
  BY <1>5, <1>6, <1>7, <1>8, <1>9, <1>10

LEMMA RelayBeginsKeeps ==
    ASSUME IInv, NEW t \in Targets, RelayBegins(t)
    PROVE  IInv'
<1> USE DEF IInv
<1>1. UNCHANGED <<kind, phase, call, th, try, stray, report, answers>>
  BY DEF RelayBegins, dispatcher
<1>2. PICK q \in flying[t] :
          /\ Read(t, q)
          /\ doing' = [doing EXCEPT ![t] = {q}]
          /\ runs' = [runs EXCEPT ![t][q.call][q.try] = @ + 1]
  BY DEF RelayBegins
<1>3. q \in Requests /\ q.call \in Calls /\ q.try \in Attempts /\ CommandOfCall(q)
  BY DEF TypeOK, Requests, SentForCause
<1>4. /\ runs' \in [Targets -> [Calls -> [Attempts -> Nat]]]
      /\ runs'[t][q.call][q.try] = runs[t][q.call][q.try] + 1
      /\ \A u \in Targets, d \in Calls, b \in Attempts :
             u # t \/ d # q.call \/ b # q.try => runs'[u][d][b] = runs[u][d][b]
      /\ \A u \in Targets, d \in Calls, b \in Attempts : runs'[u][d][b] >= runs[u][d][b]
  BY <1>2, <1>3, BeginFacts
<1>5. /\ flying' \in [Targets -> SUBSET Requests]
      /\ \A u \in Targets : flying'[u] \subseteq flying[u]
      /\ dup' \in 0..MaxDup /\ dup <= dup'
      /\ q \in flying'[t] => dup' = dup + 1
  BY <1>2, ReadFacts
<1>6. doing' \in [Targets -> SUBSET Requests] /\ doing'[t] = {q} /\ \A u \in Targets : u # t => doing'[u] = doing[u]
  BY <1>2, <1>3 DEF TypeOK
<1>7. TypeOK'
  <2>1. Tries(phase)' = Tries(phase)
    BY <1>1 DEF Tries
  <2> QED
    BY <1>1, <1>4, <1>5, <1>6, <2>1 DEF TypeOK
<1>8. ThreadsOfPhase' /\ ReportOfPhase'
  BY <1>1 DEF ThreadsOfPhase, Waits, Remote, ReportOfPhase
<1>9. SentForCause'
  <2>1. \A request : CommandOfCall(request)' = CommandOfCall(request)
    BY <1>1 DEF CommandOfCall
  <2> QED
    BY <1>1, <1>3, <1>5, <1>6, <2>1 DEF SentForCause
<1>10. \A u \in Targets, request \in Requests : Ran(u, request) => Ran(u, request)'
  BY <1>4, <1>7 DEF Ran, Requests, TypeOK
<1>11. RelayHasRun'
  <2>1. Ran(t, q)'
    BY <1>3, <1>4 DEF Ran, TypeOK
  <2>2. \A u \in Targets : \A request \in doing'[u] : Ran(u, request)'
    <3>1. \A u \in Targets : doing[u] \subseteq Requests
      BY DEF TypeOK
    <3> QED
      BY <1>6, <1>10, <2>1, <3>1 DEF RelayHasRun
  <2>3. \A u \in Targets : \A answer \in answers[u] : answer.ok => Ran(u, answer.request)'
    <3>1. \A u \in Targets : \A answer \in answers[u] : answer.request \in Requests
      BY DEF TypeOK
    <3> QED
      BY <1>10, <3>1 DEF RelayHasRun
  <2> QED
    BY <1>1, <2>2, <2>3 DEF RelayHasRun
<1>12. ResultHasRun'
  <2> SUFFICES ASSUME phase = "command", NEW u \in Targets, th[u] \in {"result", "busy"}
               PROVE  \E a \in Attempts : runs'[u][call][a] > 0
    BY <1>1 DEF ResultHasRun
  <2>1. PICK a \in Attempts : runs[u][call][a] > 0
    BY DEF ResultHasRun
  <2>2. call \in Calls
    BY DEF TypeOK, ReportOfPhase, Calls
  <2>3. runs'[u][call][a] >= runs[u][call][a] /\ runs[u][call][a] \in Nat /\ runs'[u][call][a] \in Nat
    BY <1>4, <2>2 DEF TypeOK
  <2> QED
    BY <2>1, <2>3
<1>13. MovedForCause'
  <2> SUFFICES ASSUME NEW c \in Calls, report[c] \in {"idle", "aborted"} \/ (c = call /\ phase = "ready")
               PROVE  NobodyMoved(c)'
    BY <1>1 DEF MovedForCause
  <2>1. NobodyMoved(c)
    BY DEF MovedForCause
  <2>2. q.call \in Nat /\ call \in Nat
    BY <1>3 DEF TypeOK, Calls
  <2>3. q.call # c
    BY <1>3, <2>2 DEF CommandOfCall, ReportOfPhase
  <2> QED
    BY <1>4, <2>1, <2>3 DEF NobodyMoved
<1>14. UnmadeIsUnsent'
  <2> SUFFICES ASSUME NEW u \in Targets, NEW request \in Requests, Unmade(u, request.call, request.try)'
               PROVE  ~Ran(u, request)' /\ request \notin flying'[u]
    BY DEF UnmadeIsUnsent
  <2>1. Unmade(u, request.call, request.try)
    BY <1>1 DEF Unmade
  <2>2. ~Ran(u, request) /\ request \notin flying[u]
    BY <2>1 DEF UnmadeIsUnsent
  <2>3. u # t \/ request # q
    BY <2>2
  <2>4. u # t \/ request.call # q.call \/ request.try # q.try
    BY <1>3, <2>3 DEF Requests
  <2>5. request.call \in Calls /\ request.try \in Attempts
    BY DEF Requests
  <2>6. runs'[u][request.call][request.try] = runs[u][request.call][request.try]
    BY <1>4, <2>4, <2>5
  <2> QED
    BY <1>5, <2>2, <2>6 DEF Ran
<1>15. OncePerCopy'
  <2> SUFFICES ASSUME NEW u \in Targets, NEW request \in Requests
               PROVE  /\ runs'[u][request.call][request.try] <= 1 + dup'
                      /\ request \in flying'[u] => runs'[u][request.call][request.try] <= dup'
    BY DEF OncePerCopy
  <2>1. /\ request.call \in Calls /\ request.try \in Attempts
        /\ runs[u][request.call][request.try] \in Nat /\ dup \in Nat /\ dup' \in Nat
    BY <1>5 DEF TypeOK, Requests
  <2>2. /\ runs[u][request.call][request.try] <= 1 + dup
        /\ request \in flying[u] => runs[u][request.call][request.try] <= dup
    BY DEF OncePerCopy
  <2>3. CASE u = t /\ request.call = q.call /\ request.try = q.try
    <3>1. request = q
      BY <1>3, <2>3 DEF Requests
    <3>2. runs'[u][request.call][request.try] = runs[u][request.call][request.try] + 1
      BY <1>4, <2>3
    <3> QED
      BY <1>5, <2>1, <2>2, <2>3, <3>1, <3>2
  <2>4. CASE u # t \/ request.call # q.call \/ request.try # q.try
    <3>1. runs'[u][request.call][request.try] = runs[u][request.call][request.try]
      BY <1>4, <2>1, <2>4
    <3>2. request \in flying'[u] => request \in flying[u]
      BY <1>5
    <3> QED
      BY <1>5, <2>1, <2>2, <3>1, <3>2
  <2> QED
    BY <2>3, <2>4
<1> QED
  BY <1>7, <1>8, <1>9, <1>11, <1>12, <1>13, <1>14, <1>15

\* The steps of the main thread send and begin nothing.
LEMMA MainKeeps ==
    ASSUME IInv, Main
    PROVE  IInv'
<1> USE DEF IInv
<1>1. UNCHANGED <<kind, stray, flying, dup, doing, answers, runs>>
  BY DEF Main, CallTool, Prestarted, NotReady, AllReady, Report, network
<1>2. /\ try' = [t \in Targets |-> 1]
      /\ \/ phase' = "idle" /\ th' = [t \in Targets |-> "off"]
         \/ phase' \in {"ready", "command"} /\ th' = [t \in Targets |-> "go"]
  BY DEF Main, CallTool, Prestarted, NotReady, AllReady, Report, Idle, StartThreads
<1>3. /\ call' \in 0..MaxCalls
      /\ report' \in [Calls -> {"idle", "open", "ok", "failed", "aborted"}]
      /\ ReportOfPhase'
      /\ \A c \in Calls : report'[c] \in {"idle", "aborted"} \/ (c = call' /\ phase' = "ready") => NobodyMoved(c)
      /\ \A request \in Requests : CommandOfCall(request) => CommandOfCall(request)'
      /\ phase' = "command" => call' # call \/ (phase = "ready" /\ call' = call)
      /\ call' = call \/ call' = call + 1
  <2>1. CASE CallTool
    <3>1. /\ call' = call + 1 /\ call < MaxCalls /\ phase = "idle"
          /\ report' = [report EXCEPT ![call + 1] = "open"] /\ phase' \in {"ready", "command"}
      BY <2>1 DEF CallTool
    <3>2. call + 1 \in Calls /\ call' \in 0..MaxCalls /\ call \in Nat
      BY <3>1 DEF TypeOK, Calls
    <3>3. /\ report' \in [Calls -> {"idle", "open", "ok", "failed", "aborted"}]
          /\ report'[call + 1] = "open" /\ \A c \in Calls : c # call + 1 => report'[c] = report[c]
      BY <3>1, <3>2 DEF TypeOK
    <3>4. ReportOfPhase'
      <4>1. call' > 0
        BY <3>1, <3>2
      <4>2. ASSUME NEW c \in Calls
            PROVE  (report'[c] = "idle" <=> c > call') /\ (report'[c] = "open" <=> c = call')
        <5>1. c \in Nat /\ (report[c] = "idle" <=> c > call) /\ report[c] # "open"
          BY <3>1 DEF ReportOfPhase, Calls
        <5>2. CASE c = call + 1
          BY <3>1, <3>2, <3>3, <5>2
        <5>3. CASE c # call + 1
          BY <3>1, <3>2, <3>3, <5>1, <5>3
        <5> QED
          BY <5>2, <5>3
      <4> QED
        BY <3>1, <4>1, <4>2 DEF ReportOfPhase
    <3>5. NobodyMoved(call + 1)
      BY <3>2 DEF MovedForCause, ReportOfPhase
    <3>6. \A c \in Calls : report'[c] \in {"idle", "aborted"} \/ (c = call' /\ phase' = "ready") => NobodyMoved(c)
      BY <3>1, <3>3, <3>5 DEF MovedForCause
    <3>7. ASSUME NEW request \in Requests, CommandOfCall(request)
          PROVE  CommandOfCall(request)'
      <4>1. request.call \in Calls /\ request.call \in Nat /\ request.call <= call /\ report[request.call] # "aborted"
        BY <3>7 DEF CommandOfCall, Requests, Calls
      <4> QED
        BY <3>1, <3>2, <3>3, <4>1 DEF CommandOfCall
    <3> QED
      BY <3>1, <3>2, <3>3, <3>4, <3>6, <3>7
  <2>2. CASE Prestarted
    <3>1. phase = "prestart" /\ phase' = "idle" /\ UNCHANGED <<call, report>>
      BY <2>2 DEF Prestarted, Idle
    <3> QED
      BY <3>1 DEF TypeOK, ReportOfPhase, MovedForCause, CommandOfCall
  <2>3. CASE AllReady
    <3>1. phase = "ready" /\ phase' = "command" /\ UNCHANGED <<call, report>>
      BY <2>3 DEF AllReady
    <3> QED
      BY <3>1 DEF TypeOK, ReportOfPhase, MovedForCause, CommandOfCall
  <2>4. CASE NotReady \/ Report
    <3>1. PICK r \in {"ok", "failed", "aborted"} :
              /\ report' = [report EXCEPT ![call] = r]
              /\ r = "aborted" => phase = "ready"
      BY <2>4 DEF NotReady, Report
    <3>2. phase \in {"ready", "command"} /\ phase' = "idle" /\ call' = call
      BY <2>4 DEF NotReady, Report, Idle
    <3>3. call \in Calls /\ call \in Nat
      BY <3>2 DEF TypeOK, ReportOfPhase, Calls
    <3>4. /\ report' \in [Calls -> {"idle", "open", "ok", "failed", "aborted"}]
          /\ report'[call] = r /\ \A c \in Calls : c # call => report'[c] = report[c]
      BY <3>1, <3>3 DEF TypeOK
    <3>5. ReportOfPhase'
      <4>1. ASSUME NEW c \in Calls
            PROVE  (report'[c] = "idle" <=> c > call) /\ report'[c] # "open"
        <5>1. c \in Nat /\ (report[c] = "idle" <=> c > call) /\ (report[c] = "open" <=> c = call)
          BY <3>2 DEF ReportOfPhase, Calls
        <5> QED
          BY <3>1, <3>3, <3>4, <5>1
      <4> QED
        BY <3>2, <4>1 DEF ReportOfPhase
    <3>6. \A c \in Calls : report'[c] \in {"idle", "aborted"} \/ (c = call' /\ phase' = "ready") => NobodyMoved(c)
      BY <3>1, <3>2, <3>4 DEF MovedForCause
    <3>7. ASSUME NEW request \in Requests, CommandOfCall(request)
          PROVE  CommandOfCall(request)'
      <4>1. /\ request.call \in Calls /\ request.call <= call /\ report[request.call] # "aborted"
            /\ request.call = call => phase # "ready"
        BY <3>7 DEF CommandOfCall, Requests
      <4> QED
        BY <3>1, <3>2, <3>4, <4>1 DEF CommandOfCall
    <3> QED
      BY <3>2, <3>3, <3>4, <3>5, <3>6, <3>7 DEF TypeOK
  <2> QED
    BY <2>1, <2>2, <2>3, <2>4 DEF Main
<1>4. TypeOK'
  <2>1. /\ th' \in [Targets -> {"off", "go", "wait", "busy", "result", "error"}]
        /\ try' \in [Targets -> Nat \ {0}] /\ phase' \in Phases \cup {"idle"}
    BY <1>2 DEF Phases
  <2>2. phase' \in Phases => \A t \in Targets : try'[t] <= Tries(phase)'
    BY <1>2, RetryAssumption DEF Tries, Phases
  <2> QED
    BY <1>1, <1>3, <2>1, <2>2 DEF TypeOK
<1>5. ThreadsOfPhase' /\ ResultHasRun'
  <2>1. \A t \in Targets : th[t] \in {"off", "result", "error"}
    BY DEF Main, CallTool, Prestarted, NotReady, AllReady, Report, Joined, AllResults, ThreadsOfPhase
  <2>2. \A t \in Targets : ~stray'[t]
    BY <1>1, <2>1 DEF ThreadsOfPhase, Waits
  <2>3. \A t \in Targets : phase' = "idle" <=> th'[t] = "off"
    BY <1>2
  <2>4. \A t \in Targets : th'[t] \in {"off", "go"}
    BY <1>2
  <2> QED
    BY <2>2, <2>3, <2>4 DEF ThreadsOfPhase, ResultHasRun
<1>6. SentForCause'
  <2>1. \A t \in Targets : flying[t] \cup doing[t] \subseteq Requests
    BY DEF TypeOK
  <2>2. \A t \in Targets : \A answer \in answers[t] : answer.request \in Requests
    BY DEF TypeOK
  <2> QED
    BY <1>1, <1>3, <2>1, <2>2 DEF SentForCause
<1>7. RelayHasRun' /\ OncePerCopy'
  BY <1>1 DEF RelayHasRun, OncePerCopy, Ran
<1>8. MovedForCause'
  BY <1>1, <1>3 DEF MovedForCause, NobodyMoved
<1>9. UnmadeIsUnsent'
  <2> SUFFICES ASSUME NEW t \in Targets, NEW request \in Requests, Unmade(t, request.call, request.try)'
               PROVE  ~Ran(t, request) /\ request \notin flying[t]
    BY <1>1 DEF UnmadeIsUnsent, Ran
  <2>1. /\ request.call \in Nat /\ call \in Nat /\ request.try \in Nat \ {0}
        /\ request.call \in Calls /\ request.try \in Attempts
    <3>1. request.call \in Calls /\ request.try \in Attempts
      BY DEF Requests
    <3>2. call \in Nat
      BY DEF TypeOK
    <3> QED
      BY <3>1, <3>2 DEF Calls, Attempts
  <2>2. request.call > call \/ (request.call = call /\ phase = "ready") \/ (request.call = call' /\ phase' = "ready")
    BY <1>2, <1>3, <2>1 DEF Unmade
  <2>3. Unmade(t, request.call, request.try)
    BY <1>2, <1>3, <2>1, <2>2 DEF Unmade, ReportOfPhase, Main, CallTool, Prestarted, NotReady, AllReady, Report, Idle
  <2> QED
    BY <2>3 DEF UnmadeIsUnsent
<1> QED
  BY <1>3, <1>4, <1>5, <1>6, <1>7, <1>8, <1>9

LEMMA NextKeeps == IInv /\ [Next]_vars => IInv'
<1> SUFFICES ASSUME IInv, [Next]_vars
             PROVE  IInv'
  OBVIOUS
<1>1. CASE Main
  BY <1>1, MainKeeps
<1>2. ASSUME NEW t \in Targets, Thread(t)
      PROVE  IInv'
  BY <1>2, QuietThread, SocketKeeps, SendKeeps, LocalCallKeeps DEF Thread
<1>3. ASSUME NEW t \in Targets, Relay(t)
      PROVE  IInv'
  BY <1>3, QuietRelay, RelayBeginsKeeps DEF Relay
<1>4. CASE UNCHANGED vars
  <2> USE <1>4 DEF vars, IInv
  <2>1. TypeOK'
    <3>1. Tries(phase)' = Tries(phase)
      BY DEF Tries
    <3> QED
      BY <3>1 DEF TypeOK
  <2>2. ThreadsOfPhase' /\ ReportOfPhase' /\ ResultHasRun' /\ MovedForCause'
    BY DEF ThreadsOfPhase, Waits, Remote, ReportOfPhase, ResultHasRun, MovedForCause, NobodyMoved
  <2>3. SentForCause' /\ RelayHasRun'
    BY DEF SentForCause, CommandOfCall, RelayHasRun, Ran
  <2>4. UnmadeIsUnsent' /\ OncePerCopy'
    BY DEF UnmadeIsUnsent, Unmade, OncePerCopy, Ran
  <2> QED
    BY <2>1, <2>2, <2>3, <2>4
<1>5. ASSUME NEW t \in Targets, StrayArrives(t)
      PROVE  IInv'
  BY <1>5, SocketKeeps
<1> QED
  BY <1>1, <1>2, <1>3, <1>4, <1>5 DEF Next

\* Readiness, commands, relays and reports agree in every reachable state, for any
\* number of robots, attempts, copies and calls.
THEOREM DispatchInvariant == Spec => []IInv
<1>1. Init => IInv
  BY InitIInv
<1>2. IInv /\ [Next]_vars => IInv'
  BY NextKeeps
<1> QED
  BY <1>1, <1>2, PTL DEF Spec

\* Every variable of the dispatcher, the network and the relays has its type; a thread
\* never makes more attempts than its phase allows.
THEOREM DispatchTypeCorrect == Spec => []TypeOK
<1>1. IInv => TypeOK
  BY DEF IInv
<1> QED
  BY <1>1, DispatchInvariant, PTL

-----------------------------------------------------------------------------
(* The contract *)

LEMMA InitContract == Init => Contract!Init
BY DEF Init, Contract!Init, Calls, Attempts, Contract!Calls, Contract!Attempts

\* The dispatcher opens a call, or closes it with a report that is true.
LEMMA MainContract ==
    ASSUME IInv, Main
    PROVE  Contract!Next \/ UNCHANGED <<report, runs>>
<1> USE DEF IInv
<1>0. Contract!Calls = Calls /\ Contract!Attempts = Attempts
  BY DEF Calls, Attempts, Contract!Calls, Contract!Attempts
<1>1. CASE CallTool
  <2>1. call + 1 \in Calls /\ call \in Nat
    BY <1>1 DEF CallTool, Calls, TypeOK
  <2>2. \A d \in Calls : d \in Nat /\ (report[d] = "idle" <=> d > call) /\ report[d] # "open"
    BY <1>1 DEF CallTool, ReportOfPhase, Calls
  <2>3. report[call + 1] = "idle" /\ \A d \in Calls : d < call + 1 => report[d] \notin {"idle", "open"}
    BY <2>1, <2>2
  <2>4. Contract!Open(call + 1)
    BY <1>0, <1>1, <2>3 DEF CallTool, Contract!Open
  <2> QED
    BY <1>0, <2>1, <2>4 DEF Contract!Next
<1>2. CASE NotReady
  <2>1. call \in Calls /\ report[call] = "open" /\ NobodyMoved(call)
    BY <1>2 DEF NotReady, ReportOfPhase, MovedForCause, TypeOK, Calls
  <2>2. Contract!Close(call, "aborted")
    BY <1>0, <1>2, <2>1 DEF NotReady, Contract!Close, NobodyMoved
  <2> QED
    BY <1>0, <2>1, <2>2 DEF Contract!Next
<1>3. CASE Report
  <2>1. call \in Calls /\ report[call] = "open"
    BY <1>3 DEF Report, ReportOfPhase, TypeOK, Calls
  <2>2. AllResults => \A t \in Targets : \E a \in Attempts : runs[t][call][a] > 0
    BY <1>3 DEF Report, AllResults, ResultHasRun
  <2>3. Contract!Close(call, IF AllResults THEN "ok" ELSE "failed")
    BY <1>0, <1>3, <2>1, <2>2 DEF Report, Contract!Close
  <2>4. (IF AllResults THEN "ok" ELSE "failed") \in {"ok", "failed", "aborted"}
    OBVIOUS
  <2> QED
    BY <1>0, <2>1, <2>3, <2>4 DEF Contract!Next
<1>4. CASE Prestarted \/ AllReady
  BY <1>4 DEF Prestarted, AllReady
<1> QED
  BY <1>1, <1>2, <1>3, <1>4 DEF Main

\* A robot carries out an attempt that was let go, once per copy of its request.
LEMMA RunContract ==
    ASSUME IInv, NEW t \in Targets, Thread(t) \/ Relay(t) \/ StrayArrives(t)
    PROVE  Contract!Next \/ UNCHANGED <<report, runs>>
<1> USE DEF IInv
<1>0. Contract!Calls = Calls /\ Contract!Attempts = Attempts
  BY DEF Calls, Attempts, Contract!Calls, Contract!Attempts
<1>1. CASE LocalCall(t)
  <2>1. /\ runs' = [runs EXCEPT ![t][call][try[t]] = @ + 1] /\ UNCHANGED report
        /\ phase = "command" /\ th[t] = "go"
    BY <1>1 DEF LocalCall, Begin
  <2>2. call \in Calls /\ try[t] \in Attempts /\ runs[t][call][try[t]] = 0
    BY <2>1, MadeNow
  <2>3. report[call] = "open"
    BY <2>1, <2>2 DEF ReportOfPhase
  <2>4. Contract!Run(t, call, try[t])
    BY <2>1, <2>2, <2>3 DEF Contract!Run
  <2> QED
    BY <1>0, <2>2, <2>4 DEF Contract!Next
<1>2. CASE RelayBegins(t)
  <2>1. PICK q \in flying[t] :
            runs' = [runs EXCEPT ![t][q.call][q.try] = @ + 1] /\ UNCHANGED report
    BY <1>2 DEF RelayBegins, dispatcher
  <2>2. q \in Requests /\ q.call \in Calls /\ q.try \in Attempts /\ CommandOfCall(q)
    BY DEF TypeOK, Requests, SentForCause
  <2>3. report[q.call] \in {"open", "ok", "failed"}
    <3>1. q.call \in Nat /\ call \in Nat /\ q.call <= call
      BY <2>2 DEF CommandOfCall, Calls, TypeOK
    <3>2. report[q.call] # "idle"
      BY <2>2, <3>1 DEF ReportOfPhase
    <3> QED
      BY <2>2, <3>2 DEF CommandOfCall, TypeOK
  <2>4. runs[t][q.call][q.try] < 1 + MaxDup
    BY <2>2 DEF OncePerCopy, TypeOK
  <2>5. Contract!Run(t, q.call, q.try)
    BY <2>1, <2>3, <2>4 DEF Contract!Run
  <2> QED
    BY <1>0, <2>2, <2>5 DEF Contract!Next
<1>3. CASE Thread(t) /\ ~LocalCall(t)
  BY <1>3 DEF Thread, LocalReady, LocalReturns, Ping, Send, SendFails, Receive, Skip, Garbled, Timeout
<1>4. CASE Relay(t) /\ ~RelayBegins(t)
  BY <1>4 DEF Relay, RelayRefuses, RelayEnds, RelayCrash, dispatcher
<1>5. CASE StrayArrives(t)
  BY <1>5 DEF StrayArrives
<1> QED
  BY <1>1, <1>2, <1>3, <1>4, <1>5

\* The dispatcher, its threads, the network and the relays implement ClusterCall: a
\* call reported ok was carried out by every robot, an aborted one by none, then or
\* later, and no robot repeats an attempt more often than its request is copied.
THEOREM DispatchKeepsContract == Spec => KeepsContract
<1>1. Init => Contract!Init
  BY InitContract
<1>2. IInv /\ [Next]_vars => [Contract!Next]_(Contract!vars)
  <2> SUFFICES ASSUME IInv, [Next]_vars
               PROVE  Contract!Next \/ UNCHANGED <<report, runs>>
    BY DEF Contract!vars
  <2>1. CASE UNCHANGED vars
    BY <2>1 DEF vars
  <2> QED
    BY <2>1, MainContract, RunContract DEF Next
<1> QED
  BY <1>1, <1>2, DispatchInvariant, PTL DEF Spec, KeepsContract, Contract!Spec
=============================================================================
