----------------------------- MODULE AnswerStream -----------------------------
(***************************************************************************)
(* One streamed answer on its way from a provider to a client of           *)
(* /v1/messages: the provider's events, the adapter that assembles text,   *)
(* tool calls and usage from them (chat_stream of the five wires in        *)
(* adapters/), and the emitter that turns the adapter's chunks into the    *)
(* events of the Messages API (services/messages_v2/emit.py), watched by   *)
(* the edge (translating_edge.py) for usage.                               *)
(*                                                                         *)
(* The three are generators that pull on each other: the emitter asks the  *)
(* adapter for a chunk, the adapter asks the provider for an event.  Every *)
(* event the emitter yields is a step of its own, since the client may     *)
(* leave at any of them.                                                   *)
(*                                                                         *)
(* A piece of text is its number, the arguments of a tool call are the     *)
(* number of fragments they came in, a tool call is known by its place in  *)
(* the answer, and an amount of usage is the number of pieces it covers.   *)
(***************************************************************************)
EXTENDS Integers, Sequences, FiniteSets, SequencesExt

CONSTANTS
    StreamWires,        \* the wires to look at
    MaxPieces,    \* bound: pieces of thought and text, tool calls and fragments
    MaxTools      \* bound: tool calls of an answer

AllWires == {"responses", "completions", "gemini", "converse", "anthropic"}

ASSUME AnswerAssumption ==
    /\ StreamWires \subseteq AllWires
    /\ MaxPieces \in Nat /\ MaxTools \in Nat

VARIABLES
    streamed,      \* the wire of the serving backend
    opening,      \* the call that opens the stream: what it still has to settle
    source,    \* the provider: "unopened", "open", "over"
    said,      \* what the provider has said so far
    adapter,   \* the locals of chat_stream
    chunks,    \* what chat_stream has yielded and the emitter has not read
    chunk,     \* the chunk the emitter is at
    em,        \* the locals of stream_anthropic_sse
    at,        \* where the emitter is
    view,      \* what the client has read
    reported,  \* the usage last reported to the request's context
    ended      \* how it ended: "no", "clean", "error" or "left"

streamVars == <<streamed, opening, source, said, adapter, chunks, chunk, em, at, view,
          reported, ended>>

NoUsage == -1    \* usage is None
Silence == 0     \* an empty string, an absent thought

\* A StreamChunk with nothing in it.
Chunk ==
    [think |-> Silence, text |-> Silence, tools |-> <<>>, usage |-> NoUsage,
     finish |-> "none", done |-> FALSE]

TextChunk(t) == [Chunk EXCEPT !.text = t]
ThinkChunk(t) == [Chunk EXCEPT !.think = t]
ToolChunk(ts) == [Chunk EXCEPT !.tools = ts]
UsageChunk(u) == [Chunk EXCEPT !.usage = u]
LastChunk(u, f) == [Chunk EXCEPT !.usage = u, !.finish = f, !.done = TRUE]

Tool(i, a) == [id |-> i, args |-> a]

------------------------------------------------------------------------------
(* The provider's side: what an answer may be.                              *)

\* Pieces said so far: tokens, tool calls and fragments of their arguments.
Pieces == said.pieces

OpenTools == {i \in DOMAIN said.tools : ~said.tools[i].closed}

\* The next token of text or thought: tokens are numbered through.
Token == Pieces + 1

\* Usage so far: one unit for the prompt and one for each piece.
Used == 1 + Pieces

\* Wires on which a tool call is a block of its own and closed before anything
\* else is said; on chat completions fragments of several may mix, and so may
\* the items of the Responses API.
Sequential == {"gemini", "converse", "anthropic"}

------------------------------------------------------------------------------
(* Opening the stream.                                                      *)

Sampling == {"max_tokens", "temperature", "top_p"}

\* What the call carries: the optional parameters a custom endpoint may refuse,
\* the rewrites made so far, and whether a cached prefix is referenced.
StreamInit ==
    /\ streamed \in StreamWires
    /\ opening \in [params : {IF streamed = "completions" THEN Sampling ELSE {}},
                 refused : IF streamed = "completions" THEN SUBSET Sampling ELSE {{}},
                 tries : {0},
                 cached : IF streamed = "gemini" THEN BOOLEAN ELSE {FALSE}]
    /\ source = "unopened"
    /\ said = [thoughts |-> <<>>, text |-> <<>>, tools |-> <<>>, pieces |-> 0,
               usage |-> NoUsage, reason |-> "none"]
    /\ adapter = [calls |-> {}, input |-> 0, current |-> 0, pending |-> <<>>,
                  usage |-> 0, surfaced |-> FALSE]
    /\ chunks = <<>> /\ chunk = Chunk
    /\ em = [thinking |-> FALSE, thinkingAt |-> -1, text |-> FALSE, textAt |-> -1,
             tool |-> FALSE, visible |-> FALSE, next |-> 0, usage |-> NoUsage,
             finish |-> "none"]
    /\ at = "begin"
    /\ view = [phase |-> "fresh", open |-> -1, kind |-> "none", next |-> 0,
               thoughts |-> <<>>, text |-> <<>>, tools |-> <<>>,
               reason |-> "none", usage |-> NoUsage]
    /\ reported = NoUsage
    /\ ended = "no"

MayOpen == source = "unopened" /\ at = "fetch" /\ ended = "no"

\* The body is accepted: nothing in it is refused.
Opens ==
    /\ MayOpen
    /\ opening.params \cap opening.refused = {}
    /\ source' = "open"
    /\ UNCHANGED <<streamed, opening, said, adapter, chunks, chunk, em, at, view,
                   reported, ended>>

\* A chat-completions server names the parameter it refuses.  max_tokens is
\* renamed and the two sampling parameters are dropped, at most three times;
\* after that the body goes out once more as it is.
Rewrites ==
    /\ MayOpen
    /\ opening.tries < 3
    /\ \E p \in opening.params \cap opening.refused :
         opening' = [opening EXCEPT !.params = @ \ {p}, !.tries = @ + 1]
    /\ UNCHANGED <<streamed, source, said, adapter, chunks, chunk, em, at, view,
                   reported, ended>>

\* The cached prefix the call refers to is gone: its mapping is dropped, the
\* prefix restored in line and the call made once more.  Nothing was yielded.
CacheGone ==
    /\ MayOpen
    /\ opening.cached
    /\ opening' = [opening EXCEPT !.cached = FALSE]
    /\ UNCHANGED <<streamed, source, said, adapter, chunks, chunk, em, at, view,
                   reported, ended>>

------------------------------------------------------------------------------
(* The client reads one event.                                              *)

Broken(v) == [v EXCEPT !.phase = "broken"]

ReadStart(v) ==
    IF v.phase = "fresh" THEN [v EXCEPT !.phase = "started"] ELSE Broken(v)

ReadBlockStart(v, i, kind, id) ==
    IF v.phase = "started" /\ v.open = -1 /\ i = v.next
    THEN [v EXCEPT !.open = i, !.kind = kind, !.next = i + 1,
                   !.tools = IF kind = "tool" THEN Append(@, Tool(id, 0)) ELSE @]
    ELSE Broken(v)

ReadDelta(v, i, kind, x) ==
    IF v.phase = "started" /\ v.open = i /\ v.kind = kind
    THEN CASE kind = "thinking" -> [v EXCEPT !.thoughts = Append(@, x)]
           [] kind = "text" -> [v EXCEPT !.text = Append(@, x)]
           [] kind = "tool" -> [v EXCEPT !.tools[Len(v.tools)].args = @ + x]
    ELSE Broken(v)

ReadBlockStop(v, i) ==
    IF v.phase = "started" /\ v.open = i
    THEN [v EXCEPT !.open = -1, !.kind = "none"] ELSE Broken(v)

ReadConclusion(v, reason, usage) ==
    IF v.phase = "started" /\ v.open = -1
    THEN [v EXCEPT !.phase = "concluded", !.reason = reason, !.usage = usage]
    ELSE Broken(v)

ReadStop(v) ==
    IF v.phase = "concluded" THEN [v EXCEPT !.phase = "stopped"] ELSE Broken(v)

------------------------------------------------------------------------------
(* The adapters: what chat_stream makes of one event, wire by wire.  "head" *)
(* is an event ahead of the answer, "call", "args" and "stop" are the begin, *)
(* a fragment and the end of a tool call, "end" concludes the answer and    *)
(* "cut" is a stream exhausted without that.                                *)

Yields(a, out) == [adapter |-> a, chunks |-> out]

\* Finish reasons are named differently on the five wires and mapped to these.
Reasons == {"stop", "length"}

\* The reasons whose event the adapter heeds: of the events that end a stream of
\* the Responses API it knows response.completed alone.
Noticed == IF streamed = "responses" THEN {"stop"} ELSE Reasons

Finish(reason) == IF reason = "stop" /\ said.tools # <<>> THEN "tool_calls" ELSE reason

\* The Responses API: a call's id and name come when its item is added, and its
\* arguments whole at the end, under the item's id.  Usage comes at the end.
OnResponses(a, e) ==
    CASE e.kind = "text" -> Yields(a, <<TextChunk(e.token)>>)
      [] e.kind = "call" -> Yields([a EXCEPT !.calls = @ \cup {e.tool}], <<>>)
      [] e.kind = "stop" ->
           Yields(a, <<ToolChunk(<<Tool(IF e.tool \in a.calls THEN e.tool ELSE 0, e.args)>>)>>)
      [] e.kind = "think" -> Yields(a, <<ThinkChunk(e.token)>>)
      [] e.kind = "head" -> Yields(a, <<Chunk>>)
      [] e.kind = "end" -> Yields(a, <<LastChunk(e.usage, Finish(e.reason))>>)
      [] OTHER -> Yields(a, <<>>)

\* Chat completions: fragments are gathered by index, and the calls, the reason
\* and the usage, if any came, are yielded once the stream is exhausted.
CompletionsLast(a, usage, finish) ==
    Yields(a, <<[LastChunk(usage, finish) EXCEPT !.tools = a.pending]>>)

\* Mistake: fragments go to the call begun last, whatever index they carry.
OnCompletionsUnindexed(a, e) ==
    CASE e.kind = "text" -> Yields(a, <<TextChunk(e.token)>>)
      [] e.kind = "call" -> Yields([a EXCEPT !.pending = Append(@, Tool(e.tool, 0))], <<>>)
      [] e.kind = "args" -> Yields([a EXCEPT !.pending[Len(a.pending)].args = @ + 1], <<>>)
      [] e.kind = "end" -> CompletionsLast(a, e.usage, Finish(e.reason))
      [] e.kind = "cut" -> CompletionsLast(a, 0, "stop")
      [] OTHER -> Yields(a, <<>>)

OnCompletions(a, e) ==
    CASE e.kind = "text" -> Yields(a, <<TextChunk(e.token)>>)
      [] e.kind = "call" -> Yields([a EXCEPT !.pending = Append(@, Tool(e.tool, 0))], <<>>)
      [] e.kind = "args" -> Yields([a EXCEPT !.pending[e.tool].args = @ + 1], <<>>)
      [] e.kind = "end" -> CompletionsLast(a, e.usage, Finish(e.reason))
      [] e.kind = "cut" -> CompletionsLast(a, 0, "stop")
      [] OTHER -> Yields(a, <<>>)

\* Gemini: any chunk may carry usage, the first of which is yielded ahead of the
\* chunk's parts.  Calls come whole and without an id, are numbered, and yielded
\* at the end.  The last chunk says "stop" whatever the reason was.
GeminiLast(a) ==
    (IF a.pending # <<>> THEN <<ToolChunk(a.pending)>> ELSE <<>>)
      \o <<LastChunk(a.usage, "stop")>>

OnGemini(a, e) ==
    LET metered == IF e.usage = NoUsage THEN a
                   ELSE [a EXCEPT !.surfaced = TRUE, !.usage = e.usage]
        first == IF e.usage # NoUsage /\ ~a.surfaced THEN <<UsageChunk(e.usage)>> ELSE <<>>
    IN CASE e.kind = "text" -> Yields(metered, first \o <<TextChunk(e.token)>>)
         [] e.kind = "think" -> Yields(metered, first \o <<ThinkChunk(e.token)>>)
         [] e.kind = "call" ->
              Yields([metered EXCEPT !.pending = Append(@, Tool(Len(@) + 1, 1))], first)
         [] OTHER -> Yields(metered, first \o GeminiLast(metered))

\* Converse: the input of the open block is gathered and the calls are yielded at
\* the end, with the usage of the metadata event and the reason of messageStop.
ConverseLast(a, usage, finish) ==
    Yields(a, (IF a.pending # <<>> THEN <<ToolChunk(a.pending)>> ELSE <<>>)
                \o <<LastChunk(usage, finish)>>)

OnConverse(a, e) ==
    CASE e.kind = "text" -> Yields(a, <<TextChunk(e.token)>>)
      [] e.kind = "call" -> Yields([a EXCEPT !.current = e.tool, !.input = 0], <<>>)
      [] e.kind = "args" -> Yields([a EXCEPT !.input = @ + 1], <<>>)
      [] e.kind = "stop" ->
           Yields([a EXCEPT !.pending = Append(@, Tool(a.current, a.input)),
                            !.current = 0, !.input = 0], <<>>)
      [] e.kind = "end" -> ConverseLast(a, e.usage, Finish(e.reason))
      [] e.kind = "cut" -> ConverseLast(a, 0, "stop")
      [] OTHER -> Yields(a, <<>>)

\* Anthropic: the prompt's usage comes first, a call is yielded when its block
\* stops, and the SDK's final message has the usage and the reason.
OnAnthropic(a, e) ==
    CASE e.kind = "head" -> Yields([a EXCEPT !.surfaced = TRUE], <<UsageChunk(e.usage)>>)
      [] e.kind = "text" -> Yields(a, <<TextChunk(e.token)>>)
      [] e.kind = "call" -> Yields([a EXCEPT !.current = e.tool, !.input = 0], <<>>)
      [] e.kind = "args" -> Yields([a EXCEPT !.input = @ + 1], <<>>)
      [] e.kind = "stop" ->
           Yields([a EXCEPT !.current = 0, !.input = 0],
                  <<ToolChunk(<<Tool(a.current, a.input)>>)>>)
      [] e.kind = "end" -> Yields(a, <<LastChunk(e.usage, Finish(e.reason))>>)
      [] OTHER -> Yields(a, <<>>)

OnEvent(a, e) ==
    CASE streamed = "responses" -> OnResponses(a, e)
      [] streamed = "completions" -> OnCompletions(a, e)
      [] streamed = "gemini" -> OnGemini(a, e)
      [] streamed = "converse" -> OnConverse(a, e)
      [] streamed = "anthropic" -> OnAnthropic(a, e)

------------------------------------------------------------------------------
(* What a provider may send, in the order its wire allows.                  *)

Requested == source = "open" /\ at = "fetch" /\ chunks = <<>> /\ ended = "no"

\* The adapter takes an event and the answer has grown by it.
Sends(e, grown) ==
    /\ Requested
    /\ LET r == OnEvent(adapter, e) IN adapter' = r.adapter /\ chunks' = r.chunks
    /\ said' = grown
    /\ source' = IF e.kind \in {"end", "cut"} THEN "over" ELSE source
    /\ UNCHANGED <<streamed, opening, chunk, em, at, view, reported, ended>>

Event(kind) ==
    [kind |-> kind, token |-> Silence, tool |-> 0, args |-> 0, reason |-> "none",
     usage |-> NoUsage]

\* Usage may come with any Gemini chunk; Anthropic starts with it.
Meta == IF streamed = "gemini" THEN {NoUsage, Used} ELSE {NoUsage}

Started == streamed = "anthropic" => adapter.surfaced

\* message_start, or an event of a reasoning phase that has no text.
SendsHead ==
    /\ \/ streamed = "anthropic" /\ ~adapter.surfaced
       \/ streamed = "responses" /\ said.text = <<>> /\ said.tools = <<>>
    /\ Sends([Event("head") EXCEPT !.usage = 1], said)

\* Gemini and the Responses API have a channel for thoughts.
SendsThought ==
    /\ Pieces < MaxPieces /\ OpenTools = {}
    /\ streamed \in {"responses", "gemini"}
    /\ \E usage \in Meta :
         Sends([Event("think") EXCEPT !.token = Token, !.usage = usage],
               [said EXCEPT !.thoughts = Append(@, Token), !.pieces = @ + 1])

SendsText ==
    /\ Pieces < MaxPieces /\ Started
    /\ streamed \in Sequential => OpenTools = {}
    /\ \E usage \in Meta :
         Sends([Event("text") EXCEPT !.token = Token, !.usage = usage],
               [said EXCEPT !.text = Append(@, Token), !.pieces = @ + 1])

SendsCall ==
    /\ Pieces < MaxPieces /\ Len(said.tools) < MaxTools /\ Started
    /\ streamed \in Sequential => OpenTools = {}
    /\ \E usage \in Meta :
         Sends([Event("call") EXCEPT !.tool = Len(said.tools) + 1, !.usage = usage],
               [said EXCEPT !.tools =
                  Append(@, IF streamed = "gemini" THEN [args |-> 1, closed |-> TRUE]
                            ELSE [args |-> 0, closed |-> FALSE]),
                            !.pieces = @ + (IF streamed = "gemini" THEN 2 ELSE 1)])

SendsArguments ==
    /\ Pieces < MaxPieces
    /\ \E i \in OpenTools :
         Sends([Event("args") EXCEPT !.tool = i], [said EXCEPT !.tools[i].args = @ + 1, !.pieces = @ + 1])

EndsCall ==
    /\ streamed \in {"responses", "converse", "anthropic"}
    /\ \E i \in OpenTools :
         Sends([Event("stop") EXCEPT !.tool = i, !.args = said.tools[i].args],
               [said EXCEPT !.tools[i].closed = TRUE])

\* The answer is concluded, with its usage; a chat-completions server need not
\* heed include_usage, and all is 0 then.
Concludes ==
    /\ Started
    /\ streamed # "completions" => OpenTools = {}
    /\ \E reason \in Noticed, usage \in {Used} \cup (IF streamed = "completions" THEN {0} ELSE {}) :
         Sends([Event("end") EXCEPT !.reason = reason, !.usage = usage],
               [said EXCEPT !.reason = reason, !.usage = usage])

\* response.incomplete, of an answer cut short, or response.failed: the Responses
\* API tells the reason and the usage, and the adapter passes over the event.
EndsIgnored ==
    /\ streamed = "responses"
    /\ \E reason \in {"length", "failed"} :
         Sends(Event("cut"), [said EXCEPT !.reason = reason, !.usage = Used])

\* The connection ends without the event that concludes an answer.
EndsUnsaid == Sends(Event("cut"), [said EXCEPT !.reason = "unsaid"])

\* The call or the stream raises.  The message has begun, so the edge tells the
\* client by an event and reports the request without usage.
ProviderRaises ==
    /\ source \in {"unopened", "open"} /\ at = "fetch" /\ chunks = <<>> /\ ended = "no"
    /\ source' = "over"
    /\ view' = [view EXCEPT !.phase = "error"]
    /\ reported' = NoUsage
    /\ ended' = "error"
    /\ UNCHANGED <<streamed, opening, said, adapter, chunks, chunk, em, at>>

------------------------------------------------------------------------------
(* The emitter: one event at a time.                                        *)

Flowing == ended = "no"
Emitted == UNCHANGED <<streamed, opening, source, said, adapter, ended>>

\* message_start goes out before the provider is asked for anything.
Begin ==
    /\ Flowing /\ at = "begin"
    /\ view' = ReadStart(view)
    /\ at' = "fetch"
    /\ UNCHANGED <<chunks, chunk, em, reported>> /\ Emitted

\* Mistake: usage is looked at only in the last chunk.
FetchUnobserved ==
    /\ Flowing /\ at = "fetch" /\ chunks # <<>>
    /\ chunk' = Head(chunks) /\ chunks' = Tail(chunks)
    /\ at' = "think"
    /\ UNCHANGED <<em, view, reported>> /\ Emitted

\* The next chunk.  The edge reports usage that arrives before the last chunk, so
\* that a stream the client abandons is metered.
Fetch ==
    /\ Flowing /\ at = "fetch" /\ chunks # <<>>
    /\ chunk' = Head(chunks) /\ chunks' = Tail(chunks)
    /\ reported' = IF Head(chunks).usage # NoUsage /\ ~Head(chunks).done
                   THEN Head(chunks).usage ELSE reported
    /\ at' = "think"
    /\ UNCHANGED <<em, view>> /\ Emitted

\* Thoughts are shown only ahead of the answer.
ShowsThought == chunk.think # Silence /\ ~em.text /\ ~em.tool

OpenThinking ==
    /\ Flowing /\ at = "think" /\ ShowsThought /\ ~em.thinking
    /\ em' = [em EXCEPT !.thinking = TRUE, !.thinkingAt = em.next, !.next = @ + 1]
    /\ view' = ReadBlockStart(view, em.next, "thinking", 0)
    /\ UNCHANGED <<chunks, chunk, at, reported>> /\ Emitted

ThinkDelta ==
    /\ Flowing /\ at = "think" /\ ShowsThought /\ em.thinking
    /\ view' = ReadDelta(view, em.thinkingAt, "thinking", chunk.think)
    /\ at' = "text"
    /\ UNCHANGED <<chunks, chunk, em, reported>> /\ Emitted

NoThought ==
    /\ Flowing /\ at = "think" /\ ~ShowsThought
    /\ at' = "text"
    /\ UNCHANGED <<chunks, chunk, em, view, reported>> /\ Emitted

\* Text and tool calls, and the end, close a block of thoughts that is open.
NeedsThinkingClosed ==
    \/ at = "text" /\ chunk.text # Silence
    \/ at = "tools" /\ chunk.tools # <<>>
    \/ at = "fetch" /\ source = "over" /\ chunks = <<>>

CloseThinking ==
    /\ Flowing /\ em.thinking /\ NeedsThinkingClosed
    /\ em' = [em EXCEPT !.thinking = FALSE]
    /\ view' = ReadBlockStop(view, em.thinkingAt)
    /\ UNCHANGED <<chunks, chunk, at, reported>> /\ Emitted

OpenText ==
    /\ Flowing /\ at = "text" /\ chunk.text # Silence /\ ~em.thinking /\ ~em.text
    /\ em' = [em EXCEPT !.text = TRUE, !.textAt = em.next, !.next = @ + 1,
                        !.visible = TRUE]
    /\ view' = ReadBlockStart(view, em.next, "text", 0)
    /\ UNCHANGED <<chunks, chunk, at, reported>> /\ Emitted

TextDelta ==
    /\ Flowing /\ at = "text" /\ chunk.text # Silence /\ ~em.thinking /\ em.text
    /\ view' = ReadDelta(view, em.textAt, "text", chunk.text)
    /\ at' = "tools"
    /\ UNCHANGED <<chunks, chunk, em, reported>> /\ Emitted

NoText ==
    /\ Flowing /\ at = "text" /\ chunk.text = Silence
    /\ at' = "tools"
    /\ UNCHANGED <<chunks, chunk, em, view, reported>> /\ Emitted

\* A tool call and the end close the block of text.
CloseText ==
    /\ Flowing /\ em.text /\ ~em.thinking
    /\ \/ at = "tools" /\ chunk.tools # <<>>
       \/ at = "fetch" /\ source = "over" /\ chunks = <<>>
    /\ em' = [em EXCEPT !.text = FALSE]
    /\ view' = ReadBlockStop(view, em.textAt)
    /\ UNCHANGED <<chunks, chunk, at, reported>> /\ Emitted

\* Mistake: a tool call is opened inside a block of text.
OpenToolInText ==
    /\ Flowing /\ at = "tools" /\ chunk.tools # <<>> /\ ~em.thinking
    /\ em' = [em EXCEPT !.tool = TRUE, !.visible = TRUE, !.next = @ + 1]
    /\ view' = ReadBlockStart(view, em.next, "tool", Head(chunk.tools).id)
    /\ at' = "input"
    /\ UNCHANGED <<chunks, chunk, reported>> /\ Emitted

OpenTool ==
    /\ Flowing /\ at = "tools" /\ chunk.tools # <<>> /\ ~em.thinking /\ ~em.text
    /\ em' = [em EXCEPT !.tool = TRUE, !.visible = TRUE, !.next = @ + 1]
    /\ view' = ReadBlockStart(view, em.next, "tool", Head(chunk.tools).id)
    /\ at' = "input"
    /\ UNCHANGED <<chunks, chunk, reported>> /\ Emitted

ToolDelta ==
    /\ Flowing /\ at = "input"
    /\ view' = ReadDelta(view, em.next - 1, "tool", Head(chunk.tools).args)
    /\ at' = "close"
    /\ UNCHANGED <<chunks, chunk, em, reported>> /\ Emitted

CloseTool ==
    /\ Flowing /\ at = "close"
    /\ view' = ReadBlockStop(view, em.next - 1)
    /\ chunk' = [chunk EXCEPT !.tools = Tail(@)]
    /\ at' = "tools"
    /\ UNCHANGED <<chunks, em, reported>> /\ Emitted

\* The chunk is done with: its usage and its reason are remembered.
Take ==
    /\ Flowing /\ at = "tools" /\ chunk.tools = <<>>
    /\ em' = [em EXCEPT !.usage = IF chunk.usage # NoUsage THEN chunk.usage ELSE @,
                        !.finish = IF chunk.finish # "none" THEN chunk.finish ELSE @]
    /\ at' = "fetch"
    /\ UNCHANGED <<chunks, chunk, view, reported>> /\ Emitted

\* The reason told to the client: calls decide it, whatever the provider said.
StopReason(tool, finish) ==
    IF tool THEN "tool_use"
    ELSE CASE finish = "length" -> "max_tokens"
           [] finish = "tool_calls" -> "tool_use"
           [] OTHER -> "end_turn"

\* The stream is exhausted and no block is open: the edge is told the usage, then
\* the client the reason and the usage.
Conclude ==
    /\ Flowing /\ at = "fetch" /\ source = "over" /\ chunks = <<>>
    /\ ~em.thinking /\ ~em.text
    /\ reported' = em.usage
    /\ view' = ReadConclusion(view, StopReason(em.tool, em.finish), em.usage)
    /\ at' = "stop"
    /\ UNCHANGED <<chunks, chunk, em>> /\ Emitted

Stop ==
    /\ Flowing /\ at = "stop"
    /\ view' = ReadStop(view)
    /\ at' = "done"
    /\ ended' = "clean"
    /\ UNCHANGED <<streamed, opening, source, said, adapter, chunks, chunk, em, reported>>

\* The client hangs up: the generators are closed where they are.
Leave ==
    /\ Flowing /\ at # "begin"
    /\ ended' = "left"
    /\ UNCHANGED <<streamed, opening, source, said, adapter, chunks, chunk, em, at, view,
                   reported>>

------------------------------------------------------------------------------
Provider ==
    \/ Opens \/ Rewrites \/ CacheGone
    \/ SendsHead \/ SendsThought \/ SendsText \/ SendsCall \/ SendsArguments
    \/ EndsCall \/ Concludes \/ EndsIgnored \/ EndsUnsaid \/ ProviderRaises

Emitter ==
    \/ Begin \/ Fetch \/ OpenThinking \/ ThinkDelta \/ NoThought \/ CloseThinking
    \/ OpenText \/ TextDelta \/ NoText \/ CloseText \/ OpenTool \/ ToolDelta
    \/ CloseTool \/ Take \/ Conclude \/ Stop

StreamNext == Provider \/ Emitter \/ Leave


------------------------------------------------------------------------------
(* The answer as the not streaming chat() of each adapter assembles it from *)
(* the whole response, and message_json words it.                           *)

Assembled(tools, reason, usage) ==
    [text |-> said.text, tools |-> tools, usage |-> usage,
     reason |-> StopReason(tools # <<>>, reason)]

\* The calls as the provider numbered them, and as the adapter numbers them.
SaidTools == [i \in DOMAIN said.tools |-> Tool(i, said.tools[i].args)]

ResponsesAnswer == Assembled(SaidTools, Finish(said.reason), said.usage)
CompletionsAnswer == Assembled(SaidTools, Finish(said.reason), said.usage)
GeminiAnswer == Assembled([i \in DOMAIN said.tools |-> Tool(i, 1)], said.reason, said.usage)
ConverseAnswer == Assembled(SaidTools, Finish(said.reason), said.usage)
AnthropicAnswer == Assembled(SaidTools, Finish(said.reason), said.usage)

ChatAnswer ==
    CASE streamed = "responses" -> ResponsesAnswer
      [] streamed = "completions" -> CompletionsAnswer
      [] streamed = "gemini" -> GeminiAnswer
      [] streamed = "converse" -> ConverseAnswer
      [] streamed = "anthropic" -> AnthropicAnswer

\* The sequence of events is one the Messages API promises: emit.py, whatever
\* the order of thoughts, text and tool calls in the chunks.
Protocol == INSTANCE MessageEvents WITH
    phase <- view.phase, open <- view.open, next <- view.next
EventsInOrder == Protocol!Spec

\* A client that has read a stream to its end has the text, the tool calls with
\* their whole arguments, the usage and the stop reason that the not streaming
\* call would have answered with.  (Items of the Responses API may be completed in
\* another order than they began, and Gemini's stream does not keep the reason:
\* google.py:945.)  Where the adapter heeds no event that concludes the answer,
\* for the connection ended or the Responses API sent response.incomplete or
\* response.failed, the client still has the text, but reads "end_turn" (or
\* "tool_use" after a call) without usage, and a call that was open is lost.
AnswerWhole ==
    ended = "clean" =>
      /\ view.text = ChatAnswer.text
      /\ said.reason \in Noticed =>
            /\ ToSet(view.tools) = ToSet(ChatAnswer.tools)
            /\ Len(view.tools) = Len(ChatAnswer.tools)
            /\ streamed # "responses" => view.tools = ChatAnswer.tools
            /\ view.usage = ChatAnswer.usage
            /\ streamed # "gemini" => view.reason = ChatAnswer.reason

\* What is reported is what is billed.  A stream read to its end reports the
\* provider's own total if an event the adapter heeds concluded it (after
\* response.incomplete or response.failed nothing is reported, although the event
\* has the total), and one the client abandons at least the prompt, as soon as
\* the provider has told it.
UsageReported ==
    /\ ended = "clean" /\ said.reason \in Noticed => reported = said.usage
    /\ ended = "left" /\ adapter.surfaced /\ chunks = <<>> => reported >= 1

\* Everything has its type, and the emitter's view of what is open is the
\* client's.
StreamTypeOK ==
    /\ streamed \in StreamWires
    /\ source \in {"unopened", "open", "over"}
    /\ at \in {"begin", "fetch", "think", "text", "tools", "input", "close", "stop", "done"}
    /\ ended \in {"no", "clean", "error", "left"}
    /\ reported \in Int
    /\ em.next \in Nat /\ view.next \in Nat
    /\ ~(em.thinking /\ em.text)

==============================================================================
