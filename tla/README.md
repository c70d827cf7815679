# diablo_ros2 in TLA+

A verification project for the DIABLO ROS 2 packages: TLA+ models of the parts of
the program whose correctness depends on the order in which threads, frames and
answers come, TLC runs that check them on small instances, and TLAPS proofs of
their safety properties for every value of the constants.

Paths are relative to the repository. `T/` stands for
`diablo_common/diablo_utils/src/diablo_tools/`, `H/` for
`diablo_common/diablo_utils/include/diablo_utils/diablo_tools/`.

## 1. Inventory

| Part | State | Operations | Talks to |
|---|---|---|---|
| HAL, transmit (`T/osdk_hal.cpp` 61-82, 107-141) | `serial_tx_idle`, `serial_tx_duration`, `serial_seq`, `serial_txbuf`; `serial_tx_mtx`, `serial_tx_cond` | `serialSend` (any thread), `TXMonitorProcess` (own thread) | the tty; called by every command |
| HAL, receive (`T/osdk_hal.cpp` 23-59, 143-229) | `serial_rxbuf` (one frame); `serial_rx_mtx`, `serial_rx_ack_cond`, `serial_rx_data_cond` | `RXMonitorProcess` (own thread), `serialSend_ack`, `serialWaitRXDataS` | the tty; wakes the callers and `SerialHandle` |
| `Movement_Ctrl` (`T/osdk_movement.cpp`) | `ctrl_status`, `dropCtrlCnt`, `idle_buffer`, `ctrl_data`, `ctrl_mode_data`, `transform_data` | `obtain_control`, `release_control`, `CtrlStatusMonitorHandle`, the `Send...Cmd` family, emergency brake | HAL; written by Telemetry's threads |
| `Telemetry` (`T/osdk_telemetry.cpp`) | `status` and the other topics, `newcome`, `bit_r`, `frequency_flag`, `id` | `SerialHandle` and `SDKConnectMonitor` (own threads), `connection_check`, `activate`, `configTopic`, `configUpdate` | HAL, `Movement_Ctrl`, `Virtual_RC`, publishers |
| `Virtual_RC` (`T/osdk_virtual_rc.cpp`) | as `Movement_Ctrl`, and the channel values | as `Movement_Ctrl` | HAL, Telemetry |
| `Vehicle` (`T/osdk_vehicle.cpp`) | pointers to the three | construction, destruction | all |
| `diabloCtrlNode` (`diablo_interaction/diablo_ctrl/src/diablo_ctrl.cpp`) | `onSend`, `ctrl_msg_`, `thd_loop_mark_` | `Motion_callback` (executor thread), `heart_beat_loop` (own thread), start and shutdown | `Movement_Ctrl`; subscribed to `diablo/MotionCmd` |
| Sensor publishers (`diablo_ception/diablo_body/src`) | messages; share `newcome` | one timer callback each | Telemetry |
| Robot MCP server (`xiaozhi_robot_control/xiaozhi_robot_control/robot_mcp_server.py`) | latest status, relay socket and stop event, cluster targets | the motion, stop and posture tools, from two threads; cluster dispatch with retries; relay loop; shutdown | publishes `MotionCmd`; started and terminated by the pipe |
| MCP pipe (`xiaozhi_robot_control/scripts/xiaozhi_mcp_pipe.py`) | connection, child process, cycle flags | connect, two copy threads, cleanup, back-off | cloud endpoint, MCP server |
| Teleoperation (`diablo_interaction/diablo_teleop`) | last message, votes | keyboard, MQTT replay, mode vote | publish `MotionCmd` |
| CRC, header, PID, log, serial port driver | none that others race on | pure or I/O | |

What is hard, per part:

* **Transmit.** Any of five threads sends; a frame is handed over byte by byte with
  the mutex held; a monitor thread that may or may not be waiting paces the line by a
  computed sleep; writes fail in the middle. *Correct if* the line is declared idle only
  when it is, always becomes idle again, and every call returns.
* **Receive.** One slot, two condition variables and waiters that recognise their
  frame by command only; answers come late, damaged or twice. *Correct if* no waiter
  sleeps on its answer, no frame is handed out twice, a timeout is reported only when
  there is no answer, and damaged data is not handed out.
* **Requests.** A call repeats its request until the board gives the answer it knows, may
  leave a request or an answer on the line when it gives up, and takes whatever answer
  carries its id. *Correct if* a reported success was one, the telemetry's accounts follow the
  board's rates, and calls end.
* **Authority.** Four threads write `ctrl_status` without a lock, from answers, pushes
  and timeouts that describe different moments of the board. *Correct if* control is
  never lost without a cause, and the node's belief follows the board in the end.
* **Control node.** Callback and heartbeat share the command field by field and a
  boolean without a lock. *Correct if* what the heartbeat repeats is the last accepted
  command, and what it sends beside the callback is bounded.
* **Publishers.** Flags raised and erased by different threads. *Correct if* a sample whose
  flag is up is published, in a bounded number of callbacks, and a flag goes down only when its
  sample has been taken.
* **MCP server.** Two threads execute tool calls at the same time, the control node repeats
  what it last got, and the process may end anywhere. *Correct if* every motion ends with
  a stop.
* **Cluster.** One call runs a thread per robot with retries over datagrams that are lost, late,
  copied or reordered, and asks for readiness before it commands. *Correct if* a call reported as
  carried out was carried out by every robot, an aborted one moves nobody, then or later, no
  attempt is repeated but by the network, and calls return.
* **Pipe.** Threads outlive the connection cycle they belong to and go on with the next one's
  objects; a signal runs a cleanup on the stack of whatever the main thread was doing, another
  signal's cleanup included, under locks that are not re-entrant.
  *Correct if* one MCP server runs at a time and none when the pipe has ended, a broken
  cycle ends, and a signal ends the pipe.

`PROJECT.json` lists the components with their status, and every hazard at its line,
with the properties that cover it or the reason why none does.

## 2. Modules

    SerialTx ---- SerialTxProofs             AnswerSlot (contract)
       |                                        | INSTANCE ... WITH
    MCSerialTx                               SerialRx ------+-- SerialRxProofs
                                                |           |
                                             MCSerialRx     |
                                                            |
                         MCBoardRequests --- BoardRequests -+

    ControlAuthority ---- ControlAuthorityProofs     CtrlNode ---- CtrlNodeProofs
       |                                               |
    MCControlAuthority                              MCCtrlNode

    MotionBridge ---- MotionBridgeProofs     NewcomeFlags ---- NewcomeFlagsProofs
       |                                        |
    MCMotionBridge                           MCNewcomeFlags

    ClusterCall (contract)                   McpPipe ---- McpPipeProofs
       | INSTANCE ... WITH                      |
    ClusterDispatch -- ClusterDispatchProofs   MCMcpPipe
       |
    MCClusterDispatch

The modules are composed by assumption: each leaves open what its neighbour decides,
and the neighbour shows what it decides. `CtrlNode` lets `ctrl_status` change at any
time, which includes everything `ControlAuthority` does. `ControlAuthority` lets pushes
and answers be lost and answers be stale, which includes what `SerialRx` does to them.
`BoardRequests` and `ControlAuthority` take a call of `serialSend_ack` for a request that is sent or
not, followed by one step that takes an answer or gives up: the contract `AnswerSlot`, which
`SerialRx` is proved to implement. `CtrlNode` takes an exchange of a mode request for one that ends;
`BoardRequests` details it.
`SerialRx` lets a request fail, which is what `SerialTx`'s timeout and write error are.
`MotionBridge` takes from `CtrlNode` that the last accepted command is repeated, and lets
messages be lost, which includes those that find no control. `ClusterDispatch` takes one
robot's tool as a step that begins and ends, which `MotionBridge` details; `McpPipe` starts and
terminates the process whose inside `MotionBridge` is, at any point of it.

### SerialTx

State and actions follow `serialSend` and `TXMonitorProcess` statement by statement
between the points where the mutex is released: `Call`, `Pack`, `Wait`, `WaitDone`,
`WaitAgain`, `WaitTimeout` are the way to the line, `WriteChar`, `WriteDone` and
`WriteFail` the byte loop, and `MonitorWait`, `MonitorIdle`, `MonitorSleep`,
`MonitorRelease` the monitor. A condition variable is a set `notified` of threads whose
wakeup is due. `Tick` is one character time: the UART takes a character out of the tty
and the monitor's sleep counts down; `serial_tx_duration`, `size*10/br + 2e-4` s, is the
frame's length plus `Margin` in that unit. That a sleep never ends early is what
`sleep_for` promises. Left out: the frame's bytes and `serial_seq`.

### SerialRx

The slot is its command (`rx_cmd`; the set and the id are one value), with two history
variables: whether the frame passed `verify_crc16`, and whether it has been handed out.
`RXMonitorProcess` holds `serial_rx_mtx` from a body's first byte to the notification,
so a frame is received in one step: `RxSound` fills the slot and wakes, `RxCorrupt`
fills it with possibly damaged command bytes and does not wake, `RxLost` leaves it alone,
`RxBodyReadFails` is the path that unlocks the mutex twice and so terminates the
process. Between the two unlocks the loop writes the slot without the mutex; the
model ends the process at once. A caller of `serialSend_ack` is `idle`, `sent` or in `wait`; each
time it holds the mutex it looks at the slot and takes or leaves it (`AckWait`,
`AckWoken`, `AckTimeout`). `SerialHandle` does the same for pushes and keeps the mutex
while it processes one. The board is external and may owe up to `MaxOwed` answers to
each command.

`AnswerSlot` is what its users rely on: a slot in which a frame arrives, a call takes its answer or gives
up at a slot without it, and a push is taken, each in one step, and which is left alone while
`SerialHandle` reads the push in it. It has no mutex, condition variable or wakeup. `Contract` maps its
slot to `rx_cmd`, `handling` to `tele = "process"` and `asked` to `want`.

### BoardRequests

The calls that wait for an answer are loops around `serialSend_ack`, which differ in the answers that end
them (`Until`), in those that are refusals (`Refusal`) and in the attempts they make of an unanswered
request (`Attempts`). Requests of different ids share neither answers nor data, so a behaviour is
about one id, `cmd`, and the calls with that id (`KindsOf`); transform up, transform down, jump and dance
share theirs. `Begin` or `SkipWhileIdle` is the head of a posture, brake, mode, calibration or activation
call, `SendRequest`, `RequestFails`, `TakeAnswer`, `AnswerTimeout` one `serialSend_ack`, and `Succeed`,
`Refuse`, `AskAgain` the rest of the loop's body. `ConfigTopic`, `ConfigUpdate` and `ConfigUpdateTooMuch` are
the topics' rates; a rate is its pushes per second, and of `bit_r` the low half, the high half being
the value to go back to. `ObtainRc`, `ReleaseRc`, `SendVirtualRCCmd`, `RcPush` and `RcDisconnect` are
`Virtual_RC` with its status monitor. The board takes requests in order, carries each out and confirms
it or answers something else (`Board`); which answers it gives to an id is the constant `Gives`.
`inbox` and `outbox` are the line, which loses both. History: which of their items are the
current call's (`own`), whether something was on its way when it began (`stale`) and whether the board has
carried a request of it out (`carried`).

What the model shows and no property can claim:

* With something of an earlier call on its way `SuccessMeansCarried` is false. A
  `SendTransformDownCmd` that follows a `SendTransformUpCmd` which timed out takes the late refusal
  (0) of the transform up for its own success, where `H/osdk_movement.hpp` 130 says "0: Transform down
  successfully".
* A topic that `configUpdate` leaves alone keeps its rate on the board and counts as nothing in
  `bit_r`. A successful update can so exceed three quarters of the line, which the comment at
  `T/osdk_telemetry.cpp` 167 means to exclude. The constructor's `memset(bit_r, 0, 6)` clears six bytes
  of 28, so the first accounts are partly whatever the memory held (`RQInit`).
* A failed `configUpdate` leaves its accounts in place although the rates may not have changed, or may.
* The results 1 and 2 of `Calibration` and the 1 of `configUpdate` are also those of `serialSend_ack`:
  a low battery cannot be told from a frame that was not sent.
* `Virtual_RC` counts silent pushes also while it is not in control, so that control obtained after more
  than ten of them is dropped at the first push that does not show it yet.

### ControlAuthority

`ctrl_mode` is the set of bits the code tests. `obtain_control` is `ObtainControl` (with
its `exit(0)`), `AuthorizeRequest`, `AuthorizeAnswer`, `AuthorizeTimeout` and, after its
5 ms, `Obtained`. `connection_check` runs in any thread: `CheckAnswered`,
`CheckMisanswered`, `CheckUnanswered` are its attempts and `Disconnect` the second half
of `SerialDisconnectHandle`. `SerialHandle` is two steps, because `CtrlStatusMonitorHandle` reads
`ctrl_mode` again from the shared status: `SerialHandleCopy` copies a push there and
`SerialHandleMonitor` evaluates what is there then, which is the push or, after a failed check in
another thread (the `memset` in `SerialDisconnectHandle`), nothing (`CopyOrCleared`). `ReleaseControl` is the destructor's call at shutdown. `misses`
is a history variable, the pushes in a row that carried no bit of ours or whose copy was cleared before it was
evaluated, capped just above what the properties look at; of the silent pushes alone `dropCtrlCnt` may
count too many. The SDK's id is taken as assigned (0 or 1).

### CtrlNode

`Motion_callback` is `CallbackStart`, `ObtainControl`, `DropOrKeep`, `StoreMark`,
`StoreValue`, `StoreData`, `SendCheck`, `Send`, and for a mode message `Transform` and
`ModeRequest`; `heart_beat_loop` is `HbTop` to `HbSend`. Every read or write of shared
data is a step of its own; the heartbeat's copy loads a field and stores it later. The
subscription is a queue that drops its oldest message. History variables: the last frame on
the line (`wire`), the last message that was not dropped (`accepted`), heartbeat frames
since the callback began (`late`) and whether a callback has run since the heartbeat's
round began (`settled`).

### MotionBridge

A tool call runs in the main thread (from stdin) or in the relay thread (from a datagram).
`Call` begins one; `PublishMove`, `MoveOn`, `MoveOver` are the loop of `_move` and its
finally clause, `PublishStop` one round of `_publish_stop_repeated`, `PublishMode` and
`PublishHeight` `stand`. A cluster call that reaches the local robot runs in a thread of its own
while the main thread waits for it, which is the main thread's call here. `Publish` is one message on the
motion topic: it becomes `robot`, the command the control node repeats, or it is lost, at most
`MaxLost` times in a row. `StdinEnds`, `RelayJoined`, the stop sequence and `Destroy` are
`shutdown()`; `Terminate` is the pipe's SIGTERM, after which no message is published (the
context is shut down or the interpreter ends). `Start` is the next cycle of the pipe. The
history variable `orphaned` remembers that a process ended inside a call while the robot
moved. Waiting for a subscriber only delays and is left out.

### NewcomeFlags

`Push`, `Store`, `SetNewcomeFlag` are `SerialHandle`, part by part. All timers run in one
executor thread: `TimerFires` begins a callback, `Check`, `Copy`, `EraseNewcomeFlag` treat one
topic, and `CallbackEnds` publishes what the callback has copied. A publisher in `Eager` also
publishes each copy at once, before it erases the flag (`PublishAtOnce`): the battery's, which
so publishes a sample twice in a callback. The IMU's message is published once, but again for any later
flag of the IMU, with whatever members it has. `Kept` is the argument of `eraseNewcomeFlag`, which for the body
state is its own bit and not the complement. `copies` counts how often the stored
sample has been copied and `sent` how often it has been published; `sent` is bounded for topics that have a publisher
of their own, the IMU's being republished for ever. `mark` are the topics copied in this
callback. Samples torn by the unsynchronised copy are left out.

### ClusterCall and ClusterDispatch

`ClusterCall` is the contract: calls are opened and closed one after the other, robots carry
attempts out, also after the report; a report `ok` needs every robot, `aborted` excludes all of them.
It knows no thread, datagram, relay or timeout.

`ClusterDispatch` is `ClusterToolDispatcher` with its targets and the relays. A phase (`prestart`,
`ready`, `command`) has a thread per target: `LocalReady`, `LocalCall`, `LocalReturns` are
`LocalClusterTarget`, `Ping`, `Send`, `Receive`, `Timeout` are `UdpClusterTarget`, `SendFails` is
`MissingClusterTarget` and a request that cannot be sent, `AttemptFails` the loop over the attempts.
`CallTool`, `Prestarted`, `NotReady`, `AllReady`, `Report` are the main thread. `RelayRefuses`,
`RelayBegins`, `RelayEnds` are `_handle_udp_relay_request`, and `RelayCrash` the end of that robot's
process inside a command. A command that was sent stays in `flying` until it is read, at any later
time or never; `MaxDup` reads leave a copy there. Answers stay as well and meet whichever
socket listens, so only the comparison of ids keeps an old one from being taken. The id is
represented by call and attempt, one to one. A ping changes nothing at the relay, so
its exchange is one step. The dispatcher's process does not restart in the model: a new
dispatcher counts its ids from one again, and what it would make of an answer to its predecessor
is left open. A datagram that answers nothing of the call (`StrayArrives`, `stray`) is skipped (`Skip`) and
starts the socket's timeout anew, so `Timeout` asks for a socket without one, and a garbled one
(`Garbled`) ends the attempt. `Contract` maps the contract's variables to `report` and `runs`, and one attempt may
be carried out `1 + MaxDup` times.

### McpPipe

`Loop`, `Make`, `Dial`, `Shake`, `Spawn`, `Adopt`, `StartThreads`, `Poll`, `Wait`, `WaitEnds` are `run_forever` with
`_run_once`; `self.ws` and `self.process` are stored in steps of their own (`Make`, `Adopt`), after the
test of `stop` and after the child has started. `Clean` to `Await` are `_cleanup` with `close()` and
`_terminate_process_group`, in any frame of the main thread's stack: frame 0 is the thread's own code and frame
`k` the handler of the `k`-th signal. `Signal` puts a handler on top of whatever is there, an earlier signal's
handler included: systemd signals the whole control group (`KillMode=control-group`) and the trap of
`start_xiaozhi_diablo.sh` signals the pipe again. `At` keeps a frame still until those above it have returned.
`Set` and `SetEnds` are `stop_event.set()` under the event's own lock, which `wait()` holds as well
(`EventHeld`). Objects are named by their cycle and 0 is None, so `ws` and `process` are the fields as any
thread finds them when it reads them again: `ReaderLoops`, `ReaderReceives`, `WriterLoops`, `WriterReads` take
the object of that moment and not of their own cycle. `lock` is `_send_lock` of each object.

A field that a handler has set to None raises an exception in a cleanup under it (`Raise`), at the attribute that is
read next; where the code has read it already, the cleanup goes on. An exception that leaves a
handler continues in the frame under it (`Propagate`, `Lands`): inside the `try` of `run_forever` it leads to the
`finally` clause, inside the close frame it is ignored, elsewhere it leaves that frame too. If it interrupts
`Popen` the child is `orphaned`: no field ever names it. Two signals are needed for that, and the child
ends when its input does.

The child is the leader of its process group because `run_robot_mcp_stdio.sh` ends in `exec`; that SIGKILL
ends it is assumed. The locks inside Python's own subprocess and stderr objects are left out: a
handler that interrupts a write to stderr may fail in its own `log()`, before `stop` is set, and that signal is then
lost.

## 3. Runs

| Run | Specification, bounds | Shows |
|---|---|---|
| `serial_tx` | `FairSpec`; 2 senders, frames of 1 and 3 characters, margin 1, tty of 3 | `PacedLine`, `SleepCoversOneFrame`, `IInv`, `LineFreed`, `SendReturns` |
| `serial_rx` | `FairSpec`; 2 callers, 2 commands, 2 answers owed | `NoLostWakeup`, `HandedOutOnce`, `IInv`, `CallReturns`, `KeepsContract` (refinement of `AnswerSlot`) |
| `serial_rx_crc` | `Spec`, as above | *violated*: `PushesAreSound` |
| `authority` | `FairSpec`; the callback sends, 3 values of `ctrl_mode`, drop limit 0, 2 requests for control, connection checks of 1 attempt | `IInv`, `CountedMisses`, `AuthorityLostForCause`, `BelievedLossNoticed`, `OwnControlSeen`, `ObtainReturns` |
| `board_requests` | `RQFairSpec`; every id, 2 topics, 2 rates, 2 frames each way, 4 values of `ctrl_mode`, drop limit 0 | `RQIInv`, `SuccessMeansCarried`, `RatesAgree`, `RequestsEnd` |
| `ctrl_node` | `FairSpec`; 2 fields, go, stop and a mode message, queue of 1, 3 messages | `AtMostOneLateFrame`, `RepeatsLastAccepted`, `IInv`, `LatestWins` |
| `motion_bridge` | `FairSpec`; 3 zero commands per stop, 2 losses in a row | `IInv`, `StillWhenIdle`, `MotionEnds` |
| `motion_bridge_always` | `Spec`; no losses | *violated*: `AlwaysStopsAfterwards` |
| `newcome` | `FairSpec`; IMU with 2 topics, battery | `IInv`, `SentBounded`, `LostOnlyIfOvertaken`, `FlaggedIsTaken` |
| `newcome_status` | `Spec`; the same and the body state | *violated*: `ResetBySender` |
| `cluster` | `FairSpec`; the dispatcher's robot and one other, 2 attempts each, 1 readiness check, 1 copy, 2 calls | `IInv`, `KeepsContract` (refinement of `ClusterCall`), `CallReturns` |
| `mcp_pipe` | `FairSpec`; 2 cycles and 1 signal, or 1 cycle and 2 signals (`MaxEvents` = 3) | `IInv`, `OneServer`, `BreakIsNoticed`, `StopReturns` |

Each `IInv` contains the module's type invariant `TypeOK` (`RQTypeOK` in `RQIInv`).

Why the bounds are enough:

* Two senders compete for the line in every way more could (`notify_all` wakes all, the
  mutex admits one); lengths 1 and 3 make a short frame follow a long one and a tty of 3
  makes a sender block behind what a failed write left.
* Two callers can ask for the same command and for different ones; two owed answers let a
  late answer meet a new request while the new one's answer is still to come.
* The drop limit only lengthens a run of silent pushes; 0 is the least for which control is
  dropped, and not at once. `ctrl_mode` shows us, nobody, and the virtual RC while we idle, which takes each
  case of `CtrlStatusMonitorHandle` but one (our idle bit and no other) and of `obtain_control`. Two requests for
  control let one be tried again. A connection check has one attempt: those before the last one change nothing but
  their own count and take time, which the model has of any length. A heartbeat that sends as well runs the same
  check as the callback. The three safety properties are proved for every limit, number of attempts, sender and
  value of `ctrl_mode`.
* One call at a time runs in `BoardRequests`: the calls of one id are made by one thread. Two requests
  and two answers on their way let one of an earlier call meet one of this call on either side of the board.
  For every id the board gives each answer its calls tell apart and one they do not know. Two topics
  at a cost of 1 fit a line of 15 one at a time at a rate of 10. The safety properties are proved for
  all of these.
* Two fields are enough for a frame to mix two commands, and three messages for an accepted
  one, one that is dropped from the full queue and one after it.
* The bridge has exactly two threads. Its stop sequence is longer than the losses in a row by
  one, the least for which it can work: an outage that outlasts the whole sequence (30
  messages, 20 ms apart) leaves the robot moving. The proof holds for all lengths.
* A publisher with two topics and one with one, which is eager: bits are erased beside bits of the same and
  of another publisher. `newcome` leaves the body state out, because with a subscriber of it
  `LostOnlyIfOvertaken` and `FlaggedIsTaken` fail (`newcome_status`); `SentBounded` is proved with it.
* Two calls let datagrams of the first meet the second, and two attempts those of the first
  attempt the second; the one other robot is in turn reachable, refusing and not configured. Robots
  share nothing but the dispatcher's joins, which two of them exercise. A readiness check is an exchange like
  an attempt that moves nobody, so one is enough. `IInv` and the refinement are proved for all clusters and numbers.
* Two cycles are the least for which threads of one live on in another. A stale thread acts on
  the current cycle's objects only, so a third would meet what the second does. Two signals are the least for which
  a handler interrupts a handler, and its exception the main thread. `MaxEvents` bounds both together: a
  handler clears the same two fields in any cycle, and after the first handler has set `stop` no further cycle
  begins. `PipeOneServer` is proved for every number of both.

The violated properties are what the repository's own text says:

* `T/osdk_hal.cpp` 26: `serialWaitRXDataS` returns NULL if "the received packet does not
  pass CRC16 verification". The frame is in the slot before it is verified and stays
  there: a `SerialHandle` that looks at the slot next (before it waits, or when its second is
  over) takes it.
* `robot_mcp_server.py` 1166: "The server always stops the robot afterwards." It does not when
  the process is terminated, nor when an orderly shutdown destroys the node under a relay
  thread that is still moving the robot; the control node repeats the motion.
* `H/osdk_telemetry.hpp` 120: "Reset the flag after bridge sends the received data." With a
  subscriber of the body state, `diablo_body_state.cpp` 28 resets the other topics' flags and
  keeps its own.

Two more disagreements are no runs of their own:

* The same line of `osdk_telemetry.hpp`: every publisher loses a sample that is stored and flagged between the copy of
  the one before it and the reset. `LostOnlyIfOvertaken` says that, without a subscriber of the body state, no
  publisher loses one in any other way.
* `H/onboard_sdk_uart_protocol.h` 248: the status' frequency "cannot be set below 100Hz".
  `configTopic` accepts 10 Hz (`StatusFloor` in the model), and `diablo_body_state.cpp` 11 selects it.

## 4. Fairness

* `SerialTx`: time passes and a sender in its byte loop goes on (weak). A thread that asks for
  the mutex again and again gets it (strong, `Acquire`): nobody keeps it longer than a frame
  takes. It need not get it while the line is idle, so a sender may be overtaken at every frame;
  what saves it is that its 100 ms end (strong, `WaitTimeout`). Nothing is assumed of writes.
* `SerialRx`: the same for `serial_rx_mtx`; nothing of the board. A process that
  `RxBodyReadFails` has terminated need not return from its calls.
* `ControlAuthority`: a thread inside a call goes on, `SDKConnectMonitor` wakes up, and what was copied is
  evaluated, all weak. Strong fairness for `BoardPush` and `SerialHandleCopy`: a board that is connected again
  and again pushes its status (10 Hz by default) and not every push is lost. And strong fairness for the evaluation of
  an uncleared copy: the failed checks, seconds apart, do not hit the gap between two statements every time. Link and
  mode changes, losses and answers are unfair: the line may flap for ever.
* `BoardRequests`: a thread inside a call goes on, and 300 ms pass (weak). Nothing is assumed of the board or
  the line, so `RequestsEnd` names its exception: a board that for ever gives answers the call does not
  know keeps the call for ever (the loops have no limit; `obtain_control` of `Virtual_RC` is one of them).
* `CtrlNode`: both threads run (weak), which includes that an exchange of a mode request
  ends; and not every heartbeat frame fails (strong, `HbSend`).
* `MotionBridge`: a thread inside a call goes on (weak), a move reaches its deadline and a thread
  that publishes zero commands for ever gets one through (strong). Calls, losses and the
  end of the process are not fair.
* `NewcomeFlags`: the executor finishes its callbacks (weak) and starves no timer (strong). Pushes
  and subscriptions are not fair.
* `ClusterDispatch`: the main thread and each target's thread run (weak), which includes that a
  socket's timeout passes while no datagram comes and that the tool of this robot returns (`MotionEnds`). Nothing
  is assumed of relays and datagrams: `CallReturns` holds although no answer ever comes. Its premise is that no
  socket gets datagrams that answer nothing for ever: each that is skipped starts the socket's
  timeout anew, the call has no deadline of its own, and with such datagrams it may not return.
* `McpPipe`: the main thread runs, in the frame on top of its stack (weak), with `create_connection`, the
  handshake and `sendall` ending one way or the other; it gets `_send_lock` in the end (strong: the
  others hold it for one frame at a time); of the copy threads that can go on some one does (weak);
  a killed child ends (weak). Messages, resets, child deaths and signals are not fair, nor is a
  reader that sits in `recv` on a socket its own process has closed (`Unaware`).
  `BreakIsNoticed` rests on the reader, which sits in `recv` and gets the reset. A connection that
  goes silent without one is not noticed, because the socket blocks without a limit. `StopReturns` and
  `BreakIsNoticed` name their exception, `SelfLocked`: a signal that meets the main thread or another handler inside
  `close()`, or inside `wait()` or `set()` of the stop event, where its handler waits for the lock its
  own thread holds.

## 5. Proofs

Each `...Proofs` module proves `Spec => []IInv` by `Init => IInv` and
`IInv /\ [Next]_vars => IInv'`, one lemma per action or group of actions, and derives
the properties from it. TLC checks the same `IInv` first.

| Module | Theorems | The idea of the invariant |
|---|---|---|
| `SerialTxProofs` | `TxInvariant`, `TxTypeCorrect`, `TxPaced`, `TxSleepCoversOneFrame` | `PacedLine` alone is not inductive. While a frame is written the tty holds at most what was written of it (`WriterOwnsLine`), and from then on at most what the monitor is going to sleep or still sleeps (`MonitorOutlastsTty`). |
| `SerialRxProofs` | `RxInvariant`, `RxTypeCorrect`, `RxNoLostWakeup`, `RxHandedOutOnce`, `RxKeepsContract` | A caller inside `serialSend_ack`, and no other, wants a real command (`WaitingWants`), so that an emptied slot matches nobody. |
| `SerialRxProofs`, second part (`BoardRequests`) | `RqInvariant`, `RqSuccessMeansCarried`, `RqRatesAgree` | What is marked as the call's is its request with its message (`OwnIsOwn`); a call that found the line clear meets only its own (`FreshLine`); a confirmation of it, on the line or taken, has been earned (`ConfirmedIsCarried`), and with it the board has the message's rates (`Applied`), which are those accounted for (`Counted`). |
| `ControlAuthorityProofs` | `AuthorityInvariant`, `AuthorityTypeCorrect`, `AuthorityCountedMisses`, `AuthorityNeverLostSilently` | While a push is evaluated the shared status holds it or is cleared (`CopyOrCleared`), and the program's counter never exceeds the pushes that were silent or cleared (`CountedMisses`). A drop needs a full counter, so so many pushes were silent or cleared; every other step that ends control is one of the causes. |
| `CtrlNodeProofs` | `NodeInvariant`, `NodeTypeCorrect`, `NodeAtMostOneLateFrame`, `NodeRepeatsLastAccepted` | `onSend` is down while the callback works (`Paused`), so a late frame ends the last round (`LateRoundOver`). `ctrl_msg_` is the accepted message except while it is copied (`KeepsAccepted`), and in an undisturbed round the fields copied so far are those of the accepted command (`SettledCopies`). |
| `MotionBridgeProofs` | `BridgeInvariant`, `BridgeTypeCorrect`, `BridgeStillWhenIdle` | A moving robot has an owner (`MotionHasOwner`): a thread inside a move, or one whose zero commands so far were all lost, so that the losses in a row count at least as many and it has one left. |
| `NewcomeFlagsProofs` | `FlagsInvariant`, `FlagsTypeCorrect`, `FlagsSentBounded`, `FlagsLostForCause`, `FlagsLostOnlyIfOvertaken` | A raised bit and a raise that is due are good for one copy each (`CopiesBounded`), and a copy for one callback's publications (`SentForCopies`). A publisher works on its own topics and erases after it has copied (`TakenByOwner`), so a bit goes down untaken only if its sample overtook its own publisher or the status publisher's mask takes it along. |
| `ClusterDispatchProofs` | `DispatchInvariant`, `DispatchTypeCorrect`, `DispatchKeepsContract` | What the network keeps belongs to a call that was let go (`SentForCause`) and to an attempt that was made (`UnmadeIsUnsent`); an answer with a result, and a thread that took one, has an attempt that was begun (`RelayHasRun`, `ResultHasRun`); a request has been begun at most once, and once more for each copy (`OncePerCopy`). |
| `McpPipeProofs` | `PipeInvariant`, `PipeOneServer` | A child that lives is the one `process` names, or has just been started (`Children`); a handler past `set()` has set `stop` (`HandlerState`); and whoever reset the fields under an interrupted cleanup has also ended the child, or is about to, above it (`CleanupState`), so an exception leaves nothing behind. |

Two theorems are refinements. In `RxKeepsContract` a look at the slot that finds the answer is `Take`, the
last look that does not is `GiveUp`, and every other step of a caller is invisible; the invariant shows that a
caller is inside a call of the contract exactly while it is inside `serialSend_ack`.
`FlagsLostOnlyIfOvertaken` has a hypothesis, that no publisher with subscribers looks for the status, which is the
case the run `newcome` checks; `newcome_status` shows that it is needed, and `FlagsLostForCause` says for the
case without it who is to blame.

In `DispatchKeepsContract` `Init` implies the contract's, and with `IInv` each step of
`Next` is `Open`, `Run` or `Close` of the contract or leaves `report` and `runs` alone. `CallTool`
opens, `LocalCall` and `RelayBegins` run, `NotReady` and `Report` close; the invariant supplies the
contract's guards, which the code never tests: that a robot which reads a request late is not part
of an aborted call, and that the results of a call mean what its report says.

Assumptions are the `ASSUME`s on the constants: senders are not the value for nobody, a
push is not an answer, limits are naturals, messages are typed, fewer messages in a row are lost than a stop sequence
has, the parts of a push have an order, the dispatcher is one of its targets, attempts are at least
one (the code takes the maximum with 1), answers are 16 bits, rates are naturals that include 0 and the status's
floor. No others are used.

Only model-checked: all liveness (`LineFreed`, `SendReturns`, `CallReturns`,
`BelievedLossNoticed`, `OwnControlSeen`, `ObtainReturns`, `LatestWins`, `MotionEnds`,
`FlaggedIsTaken`, the cluster's `CallReturns`, `BreakIsNoticed`, `StopReturns`, `RequestsEnd`), which needs
fairness and `ENABLED`. Every safety property that a passing run checks is proved.

## 6. Not modelled

Bytes of frames, formatting and log output; floating-point conversions and the PID code;
the termios set-up of the serial port; the tool
schemas of the MCP server; installation scripts. Hoisting of the unsynchronised flags out of
their loops is not modelled: the build sets no optimisation level, and the heartbeat's
loop calls functions the compiler cannot see through.

Whole parts, with the reason:

* Construction and destruction of `Vehicle` and the node: a null or a deleted object is used in an
  interval of one statement; the hazards list names both places.
* Teleoperation: `teleop.py` is a publisher, which `CtrlNode` has as its environment; `mqttop.py` and
  `statuslock.py` replay a file and count votes over MQTT and are demonstrations.
* CRC and header: pure functions of bytes, which `SerialRx` abstracts to sound and damaged frames.
* The start script and the service unit: a restart is an initial state of `McpPipe`.

## 7. What could follow

* A line that carries one frame at a time as the contract of `SerialTx`, and a register whose last accepted
  value is repeated as that of `CtrlNode`, as `AnswerSlot` and `ClusterCall` are for the receive side and the
  dispatcher; with the second, `MotionBridge` would be composed with `CtrlNode` instead of assuming it.
* A call that is carried out, refused or unknown as the contract of `BoardRequests`, from which `CtrlNode`
  would take its exchanges.
* A dispatcher that restarts with its request ids, together with `MotionBridge`'s process cycle.
