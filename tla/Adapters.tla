------------------------------ MODULE Adapters ------------------------------
(***************************************************************************)
(* What the adapters make of a provider, and the services around them of    *)
(* an adapter: a conversation on its way out (Conversation), a streamed     *)
(* answer on its way back (AnswerStream), and images, speech,               *)
(* transcriptions and embeddings with their bill (Media).  An adapter keeps *)
(* nothing between calls, so the three share no state and a behaviour       *)
(* follows one of them while the others stand still.                        *)
(***************************************************************************)
EXTENDS Conversation, AnswerStream, Media

VARIABLE followed   \* "conversation", "stream" or "media"

vars == <<followed, talkVars, streamVars, mediaVars>>

AtRest(part, choices) == followed # part => choices

Init ==
    /\ followed \in {"conversation", "stream", "media"}
    /\ TalkInit
    /\ StreamInit
    /\ MediaInit
    /\ AtRest("conversation", surface = "chat")
    /\ AtRest("stream", streamed = "gemini" /\ ~opening.cached)
    /\ AtRest("media", queue # {})

Next ==
    /\ UNCHANGED followed
    /\ \/ followed = "conversation" /\ TalkNext /\ UNCHANGED <<streamVars, mediaVars>>
       \/ followed = "stream" /\ StreamNext /\ UNCHANGED <<talkVars, mediaVars>>
       \/ followed = "media" /\ MediaNext /\ UNCHANGED <<talkVars, streamVars>>

Spec == Init /\ [][Next]_vars

\* Every variable of the conversation and of the stream ranges over what its
\* part says.
TypeOK == TalkTypeOK /\ StreamTypeOK
=============================================================================
