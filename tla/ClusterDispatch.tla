--------------------------- MODULE ClusterDispatch ---------------------------
(***************************************************************************)
(* The cluster tools of the MCP server (robot_mcp_server.py): the          *)
(* dispatcher on one robot (ClusterToolDispatcher), its targets, and the   *)
(* UDP relays of the other robots.                                         *)
(*                                                                         *)
(* A call runs one thread per target, first to ask whether the robot is    *)
(* ready and then to send the command, and joins them.  A thread makes a   *)
(* bounded number of attempts; each attempt sends one datagram from a      *)
(* socket of its own under a new request id and waits for the answer with  *)
(* that id until its timeout.  The relay of a robot handles one datagram   *)
(* at a time and knows nothing of earlier ones.                            *)
(*                                                                         *)
(* The network loses, delays, reorders and copies datagrams: a command     *)
(* that was sent can arrive at any later time, once or more often, or      *)
(* never.  So can an answer; the answer to an earlier request meets a      *)
(* later one if the new socket got the port of the old.  A request id is   *)
(* represented by the call and the attempt it was made for, one to one.    *)
(* Datagrams of others reach the sockets too; each that is read starts the *)
(* socket's timeout anew.  A ping changes nothing at the relay: but for    *)
(* such datagrams its exchange is one step.                                *)
(* Arguments, results, signatures and sleeps are left out.                 *)
(***************************************************************************)
EXTENDS Naturals

CONSTANTS
    Targets,    \* the robots of the cluster, by label (labels are distinct)
    Self,       \* the robot the dispatcher runs on
    Retry,      \* DIABLO_CLUSTER_CALL_RETRY_COUNT
    ReadyRetry, \* DIABLO_CLUSTER_READY_RETRY_COUNT
    MaxDup,     \* bound: requests the network delivers a second time
    MaxCalls    \* bound: cluster calls made

ASSUME SelfAssumption == Self \in Targets
ASSUME RetryAssumption == Retry \in Nat \ {0} /\ ReadyRetry \in Nat \ {0}
ASSUME BoundAssumption == MaxDup \in Nat /\ MaxCalls \in Nat

VARIABLES
    kind,    \* what each target is: this robot, another one that is reached by its UDP
             \* relay, one whose relay refuses the commands (it has another key, or
             \* does not offer the tool), or one that is not configured
    phase,   \* what the main thread waits for
    call,    \* number of cluster calls made
    th,      \* the thread of each target in this phase
    try,     \* the attempt it makes
    stray,   \* a datagram that answers nothing lies in its socket
    flying,  \* the requests on their way to each robot
    dup,     \* requests that were delivered and are still on their way
    doing,   \* the request the relay of each robot executes, if any, as a set
    answers, \* the answers each robot has sent
    report,  \* history: what each call has returned
    runs     \* history: how often each robot has begun an attempt's command

vars == <<kind, phase, call, th, try, stray, flying, dup, doing, answers, report, runs>>
network == <<flying, dup, doing, answers>>
dispatcher == <<kind, phase, call, th, try, stray, report>>

Calls == 1..MaxCalls
Attempts == 1..Retry
Kinds == {"local", "udp", "refusing", "missing"}
Remote(t) == kind[t] \in {"udp", "refusing"}
Phases == {"prestart", "ready", "command"}

\* How many attempts a thread has: prestart() warms a target once.
Tries(p) ==
    CASE p = "prestart" -> 1 [] p = "ready" -> ReadyRetry [] p = "command" -> Retry

Requests == [call : Calls, try : Attempts]
Current(t) == [call |-> call, try |-> try[t]]

\* The threads of a phase start, all at their first attempt.
StartThreads ==
    /\ th' = [t \in Targets |-> "go"]
    /\ try' = [t \in Targets |-> 1]

\* __init__ looks every label up in the environment; from_env calls prestart(), unless
\* the configuration says otherwise.
Init ==
    /\ kind \in [Targets -> Kinds]
    /\ \A t \in Targets : kind[t] = "local" <=> t = Self
    /\ phase = "prestart"
    /\ call = 0
    /\ th = [t \in Targets |-> "go"]
    /\ try = [t \in Targets |-> 1]
    /\ stray = [t \in Targets |-> FALSE]
    /\ flying = [t \in Targets |-> {}]
    /\ dup = 0
    /\ doing = [t \in Targets |-> {}]
    /\ answers = [t \in Targets |-> {}]
    /\ report = [c \in Calls |-> "idle"]
    /\ runs = [t \in Targets |-> [c \in Calls |-> [a \in Attempts |-> 0]]]

-----------------------------------------------------------------------------
(* The thread of one target *)

\* The socket is closed with what lies in it.
CloseSocket(t) == stray' = [stray EXCEPT ![t] = FALSE]

ThreadEnds(t, result) ==
    /\ th' = [th EXCEPT ![t] = result]
    /\ CloseSocket(t)
    /\ UNCHANGED try

\* An exception ends the attempt, the last one the thread.
AttemptFails(t) ==
    \/ /\ try[t] < Tries(phase)
       /\ try' = [try EXCEPT ![t] = @ + 1]
       /\ th' = [th EXCEPT ![t] = "go"]
       /\ CloseSocket(t)
    \/ /\ try[t] >= Tries(phase)
       /\ ThreadEnds(t, "error")

Begin(t) == runs' = [runs EXCEPT ![t][call][try[t]] = @ + 1]

\* LocalClusterTarget.ready, which always succeeds.
LocalReady(t) ==
    /\ kind[t] = "local"
    /\ th[t] = "go"
    /\ phase # "command"
    /\ ThreadEnds(t, "result")
    /\ UNCHANGED <<kind, phase, call, network, report, runs>>

\* LocalClusterTarget.call_tool executes the tool in this thread.
LocalCall(t) ==
    /\ kind[t] = "local"
    /\ th[t] = "go"
    /\ phase = "command"
    /\ Begin(t)
    /\ th' = [th EXCEPT ![t] = "busy"]
    /\ UNCHANGED <<kind, phase, call, try, stray, network, report>>

\* The tool has returned or raised an exception.
LocalReturns(t) ==
    /\ th[t] = "busy"
    /\ ThreadEnds(t, "result") \/ AttemptFails(t)
    /\ UNCHANGED <<kind, phase, call, network, report, runs>>

\* A thread waits for a datagram: for the answer to its command, or to its ping.
Waits(t) == th[t] = "wait" \/ (Remote(t) /\ th[t] = "go" /\ phase # "command")

\* UdpClusterTarget.ready and warm: the relay answers unless it is inside a command,
\* with an error if it has another key.  Either datagram may be lost.
Ping(t) ==
    /\ Remote(t)
    /\ th[t] = "go"
    /\ phase # "command"
    /\ ~stray[t]
    /\ \/ doing[t] = {} /\ ThreadEnds(t, "result")
       \/ AttemptFails(t)
    /\ UNCHANGED <<kind, phase, call, network, report, runs>>

\* _request: a new id, a new socket, one datagram with the command.
Send(t) ==
    /\ Remote(t)
    /\ th[t] = "go"
    /\ phase = "command"
    /\ flying' = [flying EXCEPT ![t] = @ \cup {Current(t)}]
    /\ th' = [th EXCEPT ![t] = "wait"]
    /\ UNCHANGED <<kind, phase, call, try, stray, dup, doing, answers, report, runs>>

\* A target that is not configured raises at once; so does _request without a key,
\* or when the datagram cannot be sent.
SendFails(t) ==
    /\ kind[t] # "local"
    /\ th[t] = "go"
    /\ ~stray[t]
    /\ AttemptFails(t)
    /\ UNCHANGED <<kind, phase, call, network, report, runs>>

\* Mutant of Receive: the answer's id is not compared.
ReceiveAny(t) ==
    /\ th[t] = "wait"
    /\ \E answer \in answers[t] :
           /\ answers' = [answers EXCEPT ![t] = @ \ {answer}]
           /\ \/ answer.ok /\ ThreadEnds(t, "result")
              \/ ~answer.ok /\ AttemptFails(t)
    /\ UNCHANGED <<kind, phase, call, flying, dup, doing, report, runs>>

\* The answer with the request's id arrives.
Receive(t) ==
    /\ th[t] = "wait"
    /\ \E answer \in answers[t] :
           /\ answer.request = Current(t)
           /\ answers' = [answers EXCEPT ![t] = @ \ {answer}]
           /\ \/ answer.ok /\ ThreadEnds(t, "result")
              \/ ~answer.ok /\ AttemptFails(t)
    /\ UNCHANGED <<kind, phase, call, flying, dup, doing, report, runs>>

\* A datagram with another id, be it a late answer or something else, is skipped, and
\* the wait begins anew.
Skip(t) ==
    /\ Waits(t)
    /\ \/ stray[t] /\ CloseSocket(t) /\ UNCHANGED answers
       \/ /\ th[t] = "wait"
          /\ \E answer \in answers[t] :
                 /\ answer.request # Current(t)
                 /\ answers' = [answers EXCEPT ![t] = @ \ {answer}]
          /\ UNCHANGED stray
    /\ UNCHANGED <<kind, phase, call, th, try, flying, dup, doing, report, runs>>

\* What was read is no JSON object, which raises.
Garbled(t) ==
    /\ Waits(t)
    /\ stray[t]
    /\ AttemptFails(t)
    /\ UNCHANGED <<kind, phase, call, network, report, runs>>

\* Mutant of Timeout: recvfrom without a timeout.
TimeoutNever(t) ==
    /\ FALSE
    /\ th[t] = "wait"
    /\ AttemptFails(t)
    /\ UNCHANGED <<kind, phase, call, network, report, runs>>

\* recvfrom has waited for timeout_s and nothing came.
Timeout(t) ==
    /\ th[t] = "wait"
    /\ ~stray[t]
    /\ AttemptFails(t)
    /\ UNCHANGED <<kind, phase, call, network, report, runs>>

-----------------------------------------------------------------------------
(* The main thread *)

\* A cluster tool is called.  Stopping and reading the status do not ask for
\* readiness, nor does any tool when the configuration says so.
CallTool ==
    /\ phase = "idle"
    /\ call < MaxCalls
    /\ call' = call + 1
    /\ report' = [report EXCEPT ![call + 1] = "open"]
    /\ phase' \in {"ready", "command"}
    /\ StartThreads
    /\ UNCHANGED <<kind, stray, network, runs>>

Joined == \A t \in Targets : th[t] \in {"result", "error"}
AllResults == \A t \in Targets : th[t] = "result"

\* The main thread is back in its loop; the threads of the phase are gone.
Idle ==
    /\ phase' = "idle"
    /\ th' = [t \in Targets |-> "off"]
    /\ try' = [t \in Targets |-> 1]

\* Errors of the first contact are only logged.
Prestarted ==
    /\ phase = "prestart"
    /\ Joined
    /\ Idle
    /\ UNCHANGED <<kind, call, stray, network, report, runs>>

\* Mutant of NotReady: the command is sent to the others all the same, and the call
\* returned as aborted afterwards.
NotReadyContinues ==
    /\ phase = "ready"
    /\ Joined
    /\ ~AllResults
    /\ phase' = "command"
    /\ StartThreads
    /\ report' = [report EXCEPT ![call] = "aborted"]
    /\ UNCHANGED <<kind, call, stray, network, runs>>

\* A target is not ready: the call returns without a command.
NotReady ==
    /\ phase = "ready"
    /\ Joined
    /\ ~AllResults
    /\ Idle
    /\ report' = [report EXCEPT ![call] = "aborted"]
    /\ UNCHANGED <<kind, call, stray, network, runs>>

AllReady ==
    /\ phase = "ready"
    /\ AllResults
    /\ phase' = "command"
    /\ StartThreads
    /\ UNCHANGED <<kind, call, stray, network, report, runs>>

\* The call returns the results and errors of all targets.
Report ==
    /\ phase = "command"
    /\ Joined
    /\ Idle
    /\ report' = [report EXCEPT ![call] = IF AllResults THEN "ok" ELSE "failed"]
    /\ UNCHANGED <<kind, call, stray, network, runs>>

-----------------------------------------------------------------------------
(* The relay of another robot *)

\* The relay's thread reads one of the commands on their way, of which the network
\* may have kept a copy.
Read(t, request) ==
    /\ doing[t] = {}
    /\ request \in flying[t]
    /\ \/ flying' = [flying EXCEPT ![t] = @ \ {request}] /\ UNCHANGED dup
       \/ dup < MaxDup /\ dup' = dup + 1 /\ UNCHANGED flying

Answer(t, request, ok) ==
    answers' = [answers EXCEPT ![t] = @ \cup {[request |-> request, ok |-> ok]}]

\* The relay has another key, or does not offer the tool: an error without a command.
RelayRefuses(t) ==
    /\ kind[t] = "refusing"
    /\ \E request \in flying[t] : Read(t, request) /\ Answer(t, request, FALSE)
    /\ UNCHANGED <<dispatcher, doing, runs>>

\* A command is executed in the relay's thread.
RelayBegins(t) ==
    /\ kind[t] = "udp"
    /\ \E request \in flying[t] :
           /\ Read(t, request)
           /\ doing' = [doing EXCEPT ![t] = {request}]
           /\ runs' = [runs EXCEPT ![t][request.call][request.try] = @ + 1]
    /\ UNCHANGED <<dispatcher, answers>>

\* It has returned or raised an exception.
RelayEnds(t) ==
    /\ \E request \in doing[t], ok \in BOOLEAN : Answer(t, request, ok)
    /\ doing' = [doing EXCEPT ![t] = {}]
    /\ UNCHANGED <<dispatcher, flying, dup, runs>>

\* The process of the relay is terminated inside a command and started again; what
\* arrives before it listens again is lost.
RelayCrash(t) ==
    /\ doing[t] # {}
    /\ doing' = [doing EXCEPT ![t] = {}]
    /\ UNCHANGED <<dispatcher, flying, dup, answers, runs>>

\* Somebody else's datagram reaches the socket of a thread that waits.
StrayArrives(t) ==
    /\ Waits(t)
    /\ ~stray[t]
    /\ stray' = [stray EXCEPT ![t] = TRUE]
    /\ UNCHANGED <<kind, phase, call, th, try, network, report, runs>>

-----------------------------------------------------------------------------
Thread(t) ==
    \/ LocalReady(t)
    \/ LocalCall(t)
    \/ LocalReturns(t)
    \/ Ping(t)
    \/ Send(t)
    \/ SendFails(t)
    \/ Receive(t)
    \/ Skip(t)
    \/ Garbled(t)
    \/ Timeout(t)

Main == CallTool \/ Prestarted \/ NotReady \/ AllReady \/ Report

Relay(t) ==
    /\ Remote(t)
    /\ \/ RelayRefuses(t)
       \/ RelayBegins(t)
       \/ RelayEnds(t)
       \/ RelayCrash(t)

Next == Main \/ \E t \in Targets : Thread(t) \/ Relay(t) \/ StrayArrives(t)

Spec == Init /\ [][Next]_vars

\* The dispatcher's threads run, a socket's timeout passes, and the tool of this
\* robot returns.  Nothing is assumed of relays and datagrams: a thread that waits may
\* be kept reading what others send.
Fairness ==
    /\ WF_vars(Prestarted \/ NotReady \/ AllReady \/ Report)
    /\ \A t \in Targets : WF_vars(Thread(t))

FairSpec == Spec /\ Fairness

-----------------------------------------------------------------------------
(* Properties *)

TypeOK ==
    /\ kind \in [Targets -> Kinds]
    /\ phase \in Phases \cup {"idle"}
    /\ call \in 0..MaxCalls
    /\ th \in [Targets -> {"off", "go", "wait", "busy", "result", "error"}]
    /\ try \in [Targets -> Nat \ {0}]
    /\ phase \in Phases => \A t \in Targets : try[t] <= Tries(phase)
    /\ stray \in [Targets -> BOOLEAN]
    /\ flying \in [Targets -> SUBSET Requests]
    /\ dup \in 0..MaxDup
    /\ doing \in [Targets -> SUBSET Requests]
    /\ answers \in [Targets -> SUBSET [request : Requests, ok : BOOLEAN]]
    /\ report \in [Calls -> {"idle", "open", "ok", "failed", "aborted"}]
    /\ runs \in [Targets -> [Calls -> [Attempts -> Nat]]]

\* Threads exist during a phase, and carry a command out in its own phase only; a
\* datagram lies in the socket of a thread only while it waits.
ThreadsOfPhase ==
    \A t \in Targets :
        /\ phase = "idle" <=> th[t] = "off"
        /\ th[t] \in {"wait", "busy"} => phase = "command"
        /\ stray[t] => Waits(t)

\* A call is open while its threads run; the calls after it are not made yet.
ReportOfPhase ==
    /\ phase \in {"ready", "command"} => call > 0
    /\ \A c \in Calls :
           /\ report[c] = "idle" <=> c > call
           /\ report[c] = "open" <=> c = call /\ phase \in {"ready", "command"}

\* A command is on its way only for a call that was let go, and only for attempts
\* that were made.
CommandOfCall(request) ==
    /\ request.call <= call
    /\ report[request.call] # "aborted"
    /\ request.call = call => phase # "ready"

SentForCause ==
    \A t \in Targets :
        /\ \A request \in flying[t] \cup doing[t] : CommandOfCall(request)
        /\ \A answer \in answers[t] : CommandOfCall(answer.request)

Ran(t, request) == runs[t][request.call][request.try] > 0

\* What a relay executes, and what it has answered with a result, has been begun.
RelayHasRun ==
    \A t \in Targets :
        /\ \A request \in doing[t] : Ran(t, request)
        /\ \A answer \in answers[t] : answer.ok => Ran(t, answer.request)

\* A thread that has a result has seen its robot carry the command out.
ResultHasRun ==
    phase = "command" =>
        \A t \in Targets :
            th[t] \in {"result", "busy"} => \E a \in Attempts : runs[t][call][a] > 0

\* A call that waits for readiness, or was aborted, or is not made yet, moved nobody.
NobodyMoved(c) == \A t \in Targets, a \in Attempts : runs[t][c][a] = 0

MovedForCause ==
    \A c \in Calls :
        report[c] \in {"idle", "aborted"} \/ (c = call /\ phase = "ready") => NobodyMoved(c)

\* An attempt that is still to be made has no request and was carried out by nobody.
Unmade(t, c, a) ==
    \/ c > call
    \/ c = call /\ phase = "ready"
    \/ c = call /\ phase = "command" /\ (a > try[t] \/ (a = try[t] /\ th[t] = "go"))

UnmadeIsUnsent ==
    \A t \in Targets, request \in Requests :
        Unmade(t, request.call, request.try) => ~Ran(t, request) /\ request \notin flying[t]

\* A robot begins an attempt once, and once more for every copy of its request.
OncePerCopy ==
    \A t \in Targets, request \in Requests :
        /\ runs[t][request.call][request.try] <= 1 + dup
        /\ request \in flying[t] => runs[t][request.call][request.try] <= dup

\* Readiness, commands, relays and reports agree: the inductive form of what the
\* contract below says of the reports.
IInv ==
    /\ TypeOK
    /\ ThreadsOfPhase
    /\ ReportOfPhase
    /\ SentForCause
    /\ RelayHasRun
    /\ ResultHasRun
    /\ MovedForCause
    /\ UnmadeIsUnsent
    /\ OncePerCopy

Contract == INSTANCE ClusterCall WITH MaxCopies <- 1 + MaxDup

\* The cluster tools keep their contract (ClusterCall): a call reported ok was
\* carried out by every robot, one that was aborted by none, then or later, and no
\* robot repeats an attempt more often than the network copies its request.
KeepsContract == Contract!Spec

\* A cluster call returns, whatever the relays do and whatever is lost, late or copied,
\* unless datagrams that answer nothing reach its sockets for ever: each one restarts the
\* socket's timeout (robot_mcp_server.py 206-212), so nothing else bounds the wait.
CallReturns == (\A t \in Targets : <>[]~stray[t]) => []<>(phase = "idle")
=============================================================================
