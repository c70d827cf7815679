----------------------------- MODULE AnswerSlot -----------------------------
(***************************************************************************)
(* What the receive side promises to the threads that use it, without the  *)
(* mutex, the condition variables and the wakeups that bring it about: a   *)
(* slot for one frame, in which every operation is one step.               *)
(*                                                                         *)
(* A call of serialSend_ack (osdk_hal.cpp) asks for a command and ends in  *)
(* one of three ways: its request could not be sent, it takes the frame    *)
(* out of a slot that holds its answer, or it gives up at a slot that does *)
(* not.  SerialHandle takes pushes out of the same slot, and while it has  *)
(* one at hand, which it reads where it lies, the slot is left alone.      *)
(* A frame may be lost before anybody has taken it: the next one           *)
(* overwrites it.                                                          *)
(***************************************************************************)
EXTENDS Naturals

CONSTANTS
    Callers,   \* threads that call serialSend_ack
    Cmds,      \* commands that are answered
    Push,      \* a push, as what the slot holds
    NoCmd      \* nothing that anybody asks for

VARIABLES
    slot,      \* what the slot holds
    handling,  \* SerialHandle reads a push in it
    asked,     \* the command each caller has asked for, NoCmd outside a call
    result     \* how each caller's last call ended

vars == <<slot, handling, asked, result>>

Init ==
    /\ slot = NoCmd
    /\ handling = FALSE
    /\ asked = [c \in Callers |-> NoCmd]
    /\ result = [c \in Callers |-> 0]

\* A frame arrives, in the place of whatever was there.
Arrive(k) ==
    /\ ~handling
    /\ slot' = k
    /\ UNCHANGED <<handling, asked, result>>

\* A call begins.
Ask(c, k) ==
    /\ asked[c] = NoCmd
    /\ asked' = [asked EXCEPT ![c] = k]
    /\ result' = [result EXCEPT ![c] = 0]
    /\ UNCHANGED <<slot, handling>>

\* Its request could not be sent.
CannotAsk(c) ==
    /\ asked[c] = NoCmd
    /\ result' = [result EXCEPT ![c] = 1]
    /\ UNCHANGED <<slot, handling, asked>>

End(c, r) ==
    /\ asked[c] # NoCmd
    /\ asked' = [asked EXCEPT ![c] = NoCmd]
    /\ result' = [result EXCEPT ![c] = r]

\* It takes its answer, which is then nobody else's.
Take(c) ==
    /\ ~handling
    /\ slot = asked[c]
    /\ slot' = NoCmd
    /\ End(c, 0)
    /\ UNCHANGED handling

\* It gives up; there is no answer to it in the slot.
GiveUp(c) ==
    /\ slot # asked[c]
    /\ End(c, 2)
    /\ UNCHANGED <<slot, handling>>

TakePush ==
    /\ ~handling
    /\ slot = Push
    /\ slot' = NoCmd
    /\ handling' = TRUE
    /\ UNCHANGED <<asked, result>>

Handled ==
    /\ handling
    /\ handling' = FALSE
    /\ UNCHANGED <<slot, asked, result>>

Next ==
    \/ \E k \in Cmds \cup {Push, NoCmd} : Arrive(k)
    \/ \E c \in Callers :
        \/ \E k \in Cmds : Ask(c, k)
        \/ CannotAsk(c)
        \/ Take(c)
        \/ GiveUp(c)
    \/ TakePush
    \/ Handled

Spec == Init /\ [][Next]_vars
=============================================================================
