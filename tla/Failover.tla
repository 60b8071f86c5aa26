------------------------------ MODULE Failover ------------------------------
(***************************************************************************)
(* What the failover of /v1/chat/completions and of /v1/messages promises  *)
(* a client, whatever backends and fallback models it goes through:        *)
(* attempts are made one after the other, a new one only while nothing of  *)
(* an answer has been sent, so that an answer always comes from one        *)
(* attempt.  ChatRequest and MessagesRequest implement it.                 *)
(***************************************************************************)
EXTENDS Naturals

CONSTANT Limit   \* attempts there can be at most

VARIABLES
    turn,     \* the attempt being made
    source,   \* the attempts that have sent something
    over      \* the request has ended

vars == <<turn, source, over>>

Init == turn = 1 /\ source = {} /\ over = FALSE

\* Nothing has been sent: the request moves to a later attempt.
MoveOn ==
    /\ ~over
    /\ source = {}
    /\ turn' \in (turn + 1)..Limit
    /\ UNCHANGED <<source, over>>

\* The current attempt sends a part of its answer.
Send ==
    /\ ~over
    /\ source \subseteq {turn}
    /\ source' = {turn}
    /\ over' \in BOOLEAN
    /\ UNCHANGED turn

End ==
    /\ ~over
    /\ over' = TRUE
    /\ UNCHANGED <<turn, source>>

Next == MoveOn \/ Send \/ End

Spec == Init /\ [][Next]_vars
=============================================================================
