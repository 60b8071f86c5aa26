---------------------------- MODULE MessageEvents ----------------------------
(***************************************************************************)
(* What a client of the Messages API relies on when it reads a stream: one *)
(* message, made of blocks that are numbered from 0, opened one at a time, *)
(* extended while they are open and closed in order, then one              *)
(* message_delta and one message_stop.  An error may end it at any place.  *)
(* This is the sequence the head of services/messages_v2/emit.py promises. *)
(***************************************************************************)
EXTENDS Integers

VARIABLES
    phase,  \* of the message
    open,   \* the index of the open block, or -1
    next    \* the index of the next block

vars == <<phase, open, next>>

Init == phase = "fresh" /\ open = -1 /\ next = 0

Start == phase = "fresh" /\ phase' = "started" /\ UNCHANGED <<open, next>>

StartBlock ==
    /\ phase = "started" /\ open = -1
    /\ open' = next /\ next' = next + 1
    /\ UNCHANGED phase

StopBlock ==
    /\ phase = "started" /\ open # -1
    /\ open' = -1
    /\ UNCHANGED <<phase, next>>

\* Every block is closed before the message is concluded.
Conclude ==
    /\ phase = "started" /\ open = -1
    /\ phase' = "concluded"
    /\ UNCHANGED <<open, next>>

Stop == phase = "concluded" /\ phase' = "stopped" /\ UNCHANGED <<open, next>>

Fail ==
    /\ phase \in {"fresh", "started", "concluded"}
    /\ phase' = "error"
    /\ UNCHANGED <<open, next>>

Next == Start \/ StartBlock \/ StopBlock \/ Conclude \/ Stop \/ Fail

Spec == Init /\ [][Next]_vars
==============================================================================
