---------------------------- MODULE Conversation ----------------------------
(***************************************************************************)
(* What a conversation becomes on its way to a provider: the client's      *)
(* turns, kept by the client and sent whole with every request, are        *)
(* translated into the gateway's common messages (translate_in.to_common   *)
(* on /v2/messages, ChatService._convert_messages on /v1/chat) and then    *)
(* rewritten by the serving adapter into its provider's wire format.  The  *)
(* agent loop closes on itself: the ids and signatures a provider gave its *)
(* tool calls come back with the results, perhaps to another provider.     *)
(*                                                                         *)
(* Texts, arguments and files are tags saying where they entered the       *)
(* conversation, so that what is lost, repeated or moved can be seen.      *)
(***************************************************************************)
EXTENDS Naturals, Sequences, FiniteSets, SequencesExt

CONSTANTS
    Tools,       \* the tools the client declares
    Types,       \* the types of the files a client attaches
    MaxCalls,    \* bound: tools one answer calls
    MaxFiles,    \* bound: files in one conversation
    MaxTurns     \* bound: turns of one conversation

ASSUME ConversationAssumption ==
    /\ Types \subseteq {"image", "pdf", "audio", "video", "text"}
    /\ MaxCalls \in Nat /\ MaxFiles \in Nat /\ MaxTurns \in Nat

VARIABLES
    surface,   \* "messages" or "chat": the API the client speaks
    turns,     \* the conversation as the client keeps it
    move,     \* "client": the client's move; "sent": the provider's
    wire,      \* the wire the last request went out on
    sent,      \* that request: its system prompt and provider messages
    outcome    \* "", "sent", "refused" (a 400), "failed" (a provider error)

talkVars == <<surface, turns, move, wire, sent, outcome>>

(***************************************************************************)
(* The wires a request may be served on.  (An Anthropic model on           *)
(* /v2/messages is translated only when no native backend serves it.)      *)
(***************************************************************************)
Wires == {"responses", "completions", "gemini", "converse", "anthropic"}

NoName    == "none"
Nothing == [system |-> <<>>, messages |-> <<>>]
NoFile  == [type |-> NoName, source |-> NoName]
NoSig   == <<>>
NotOurs == <<0>>   \* the sentinel Gemini accepts for a signature it did not give

(***************************************************************************)
(* Blocks of a turn.  A tag is <<turn, place>>.                            *)
(***************************************************************************)
Text(t)          == [kind |-> "text", tag |-> t]
Thinking(t)      == [kind |-> "thinking", tag |-> t]
File(t, f)       == [kind |-> "file", tag |-> t, type |-> f.type, source |-> f.source]
Call(t, i, n, s) == [kind |-> "tool_use", tag |-> t, id |-> i, name |-> n, sig |-> s]
Result(t, c, s)  == [kind |-> "tool_result", tag |-> t, id |-> c.id, sig |-> c.sig,
                     name |-> c.name, of |-> c.tag, shown |-> s]

\* What each element of s gives, one after the other.
Each(s, Gives(_)) == FlattenSeq([i \in DOMAIN s |-> Gives(s[i])])

OfKind(bs, k) == Each(bs, LAMBDA b : IF b.kind = k THEN <<b>> ELSE <<>>)
Tags(bs)      == [i \in DOMAIN bs |-> bs[i].tag]

(***************************************************************************)
(* The id of the i-th call of turn t.  Gemini gives calls no id: the       *)
(* adapter numbers them within the answer, from call_0 each time.          *)
(***************************************************************************)
AnswerCalls == UNION {[1 .. k -> Tools] : k \in 0 .. MaxCalls}

\* /v2/messages has blocks for images and documents only, /v1/chat no file ids.
Attachments(s) ==
    IF s = "messages"
    THEN [type : Types \cap {"image", "pdf"}, source : {"base64", "url", "file_id"}]
    ELSE [type : Types, source : {"base64", "url"}]

GeminiId(t, i) == [turn |-> 0, nth |-> i]
ProviderId(t, i) == [turn |-> t, nth |-> i]
SameId(w, t, i) == ProviderId(t, 0)
Issued(w, t, i) == IF w = "gemini" THEN GeminiId(t, i) ELSE ProviderId(t, i)

(***************************************************************************)
(* translate_in: one /v2/messages turn to common messages.  The signature  *)
(* rides on the id between emit and here, and is split off again.          *)
(***************************************************************************)
SigDropped(b) == NoSig
SplitSig(b) == b.sig

CommonMessage(r, text, calls, fs) == [role |-> r, text |-> text, calls |-> calls, files |-> fs]
SystemMessage == CommonMessage("system", <<<<0, 0>>>>, <<>>, <<>>)
ToolMessage(b, n) == [role |-> "tool", id |-> b.id, name |-> n, tag |-> b.tag, of |-> b.of]

\* The name of the last call with that id, over the whole conversation.
NameOf(ts, id) ==
    LET calls == SelectSeq(Each(ts, LAMBDA turn : OfKind(turn.blocks, "tool_use")),
                           LAMBDA c : c.id = id)
    IN IF calls = <<>> THEN NoName ELSE Last(calls).name

CommonCalls(bs) ==
    [i \in DOMAIN bs |-> [id |-> bs[i].id, name |-> bs[i].name, sig |-> SplitSig(bs[i]),
                          tag |-> bs[i].tag]]

\* The message for everything but the results: calls leave no room for files,
\* and a turn of results alone gets none.
TurnMessage(r, text, calls, fs, alone) ==
    IF calls # <<>> THEN <<CommonMessage(r, text, calls, <<>>)>>
    ELSE IF fs # <<>> THEN <<CommonMessage(r, text, <<>>, fs)>>
    ELSE IF text # <<>> \/ alone THEN <<CommonMessage(r, text, <<>>, <<>>)>>
    ELSE <<>>

\* The head goes in front of the results, whatever the order in the turn.
TranslateMessage(turn, ts) ==
    LET bs      == turn.blocks
        results == OfKind(bs, "tool_result")
    IN  TurnMessage(turn.role, Tags(OfKind(bs, "text")), CommonCalls(OfKind(bs, "tool_use")),
              OfKind(bs, "file"), results = <<>>)
        \o [i \in DOMAIN results |-> ToolMessage(results[i], NameOf(ts, results[i].id))]

ToCommon(ts) == <<SystemMessage>> \o Each(ts, LAMBDA turn : TranslateMessage(turn, ts))

(***************************************************************************)
(* /v1/chat: the client writes one message per result itself, ahead of     *)
(* what its user says, and seldom gives the results a name.                *)
(***************************************************************************)
ConvertMessage(turn) ==
    LET bs      == turn.blocks
        results == OfKind(bs, "tool_result")
        text    == Tags(OfKind(bs, "text"))
        calls   == CommonCalls(OfKind(bs, "tool_use"))
        fs      == OfKind(bs, "file")
    IN  [i \in DOMAIN results |-> ToolMessage(results[i], NoName)]
        \o (IF text = <<>> /\ calls = <<>> /\ fs = <<>> THEN <<>>
            ELSE <<CommonMessage(turn.role, text, calls, fs)>>)

ConvertMessages(ts) == <<SystemMessage>> \o Each(ts, ConvertMessage)

Common == IF surface = "messages" THEN ToCommon(turns) ELSE ConvertMessages(turns)

(***************************************************************************)
(* What the models of each adapter's capability table can be shown: each   *)
(* set is that of some model of the table, or of the default.              *)
(***************************************************************************)
OpenAIModels    == {{}, {"image"}, {"pdf"}, {"image", "pdf"}, {"image", "pdf", "audio"}}
GeminiModels    == {{"image"}, {"image", "pdf", "audio", "video"}}
ConverseModels  == {{}, {"image"}, {"image", "pdf"}}
AnthropicModels == {{"image"}, {"image", "pdf"}}

Models(w) ==
    CASE w = "gemini"    -> GeminiModels
      [] w = "converse"  -> ConverseModels
      [] w = "anthropic" -> AnthropicModels
      [] OTHER           -> OpenAIModels

(***************************************************************************)
(* Files.  FilePart is the adapters' _process_file_attachment: the part,   *)
(* nothing ("skip", with a warning in the log) or an exception ("raise").  *)
(* A url is fetched by the gateway for Gemini and Bedrock only; the fetch  *)
(* may work, fail, or be refused by the egress policy.                     *)
(***************************************************************************)
Fetches == {"ok", "fails", "refused"}

Fetched(fetch) == CASE fetch = "ok" -> "part" [] fetch = "fails" -> "skip" [] OTHER -> "refused"

OpenAIImage(f) == IF f.source \in {"url", "base64"} THEN "part" ELSE "raise"
OpenAIAudio(f) == IF f.source = "base64" THEN "part" ELSE "raise"
OpenAIFile(f) ==
    CASE f.type = "image"            -> OpenAIImage(f)
      [] f.type = "audio"            -> OpenAIAudio(f)
      [] f.type \in {"pdf", "text"}  -> "part"
      [] OTHER                       -> "skip"

GeminiMedia(f, fetch) == IF f.source = "url" THEN Fetched(fetch) ELSE "part"
GeminiFile(f, fetch) == IF f.type = "text" THEN "part" ELSE GeminiMedia(f, fetch)

ConverseImage(f, fetch) ==
    CASE f.source = "base64" -> "part"
      [] f.source = "url"    -> Fetched(fetch)
      [] OTHER               -> "skip"
ConverseDocument(f, fetch) ==
    CASE f.source = "base64" -> "part"
      [] f.source = "url"    -> Fetched(fetch)
      [] OTHER               -> "skip"
ConverseFile(f, fetch) ==
    CASE f.type = "text"  -> "part"
      [] f.type = "image" -> ConverseImage(f, fetch)
      [] f.type = "pdf"   -> ConverseDocument(f, fetch)
      [] OTHER            -> "skip"

AnthropicImage(f) == IF f.source \in {"url", "base64"} THEN "part" ELSE "raise"
AnthropicDocument(f) == IF f.source \in {"url", "base64"} THEN "part" ELSE "raise"
AnthropicFile(f) ==
    CASE f.type = "text"  -> "part"
      [] f.type = "image" -> AnthropicImage(f)
      [] f.type = "pdf"   -> AnthropicDocument(f)
      [] OTHER            -> "skip"

FilePart(w, f, fetch) ==
    CASE w = "responses" -> OpenAIFile(f)
      [] w = "gemini"    -> GeminiFile(f, fetch)
      [] w = "converse"  -> ConverseFile(f, fetch)
      [] w = "anthropic" -> AnthropicFile(f)
      [] OTHER           -> "skip"

FileParts(w, fs, fetch) ==
    Each(fs, LAMBDA f : IF FilePart(w, f, fetch) = "part"
                        THEN <<[kind |-> "file", tag |-> f.tag]>> ELSE <<>>)

(***************************************************************************)
(* Parts of a provider message.  Gemini sees names and signatures, every   *)
(* other wire ids.                                                         *)
(***************************************************************************)
TextParts(text)  == [i \in DOMAIN text |-> [kind |-> "text", tag |-> text[i]]]
IdCall(c)        == [kind |-> "call", tag |-> c.tag, key |-> c.id, sig |-> NoSig]
IdResult(m)      == [kind |-> "result", tag |-> m.tag, of |-> m.of, key |-> m.id]
GeminiCall(c)    == [kind |-> "call", tag |-> c.tag, key |-> c.name,
                     sig |-> IF c.sig # NoSig THEN c.sig ELSE NotOurs]
GeminiResult(m)  == [kind |-> "result", tag |-> m.tag, of |-> m.of,
                     key |-> IF m.name # NoName THEN m.name ELSE "unknown"]

IdCalls(m) == [i \in DOMAIN m.calls |-> IdCall(m.calls[i])]

\* One input item per text, call and result; a message of parts otherwise.
ResponsesItems(m, fetch) ==
    IF m.role = "tool" THEN <<[role |-> "none", parts |-> <<IdResult(m)>>]>>
    ELSE IF m.calls # <<>> THEN
        (IF m.text = <<>> THEN <<>> ELSE <<[role |-> "assistant", parts |-> TextParts(m.text)]>>)
        \o [i \in DOMAIN m.calls |-> [role |-> "none", parts |-> <<IdCall(m.calls[i])>>]]
    ELSE <<[role |-> m.role, parts |-> TextParts(m.text) \o FileParts("responses", m.files, fetch)]>>

\* The common shape is this wire's shape: only the gateway's own keys go,
\* "files" among them.
CompletionsMessage(m) ==
    IF m.role = "tool" THEN [role |-> "tool", parts |-> <<IdResult(m)>>]
    ELSE [role |-> m.role, parts |-> TextParts(m.text) \o IdCalls(m)]

GeminiRole(r) == IF r = "assistant" THEN "model" ELSE "user"
GeminiContents(m, fetch) ==
    IF m.role = "tool" THEN <<[role |-> "user", parts |-> <<GeminiResult(m)>>]>>
    ELSE LET parts == TextParts(m.text) \o [i \in DOMAIN m.calls |-> GeminiCall(m.calls[i])]
                      \o FileParts("gemini", m.files, fetch)
         IN IF parts = <<>> THEN <<>> ELSE <<[role |-> GeminiRole(m.role), parts |-> parts]>>

ConverseSilent(m, fetch) ==
    IF m.role = "tool" THEN <<[role |-> "user", parts |-> <<IdResult(m)>>]>>
    ELSE LET parts == IF m.calls # <<>> THEN IdCalls(m)
                      ELSE TextParts(m.text) \o FileParts("converse", m.files, fetch)
         IN IF parts = <<>> THEN <<>> ELSE <<[role |-> m.role, parts |-> parts]>>
ConverseMessages(m, fetch) ==
    IF m.role = "tool" THEN <<[role |-> "user", parts |-> <<IdResult(m)>>]>>
    ELSE LET parts == TextParts(m.text) \o IdCalls(m)
                      \o FileParts("converse", m.files, fetch)
         IN IF parts = <<>> THEN <<>> ELSE <<[role |-> m.role, parts |-> parts]>>

AnthropicTurn(m, fetch) ==
    IF m.role = "tool" THEN [role |-> "user", parts |-> <<IdResult(m)>>]
    ELSE [role |-> m.role, parts |-> TextParts(m.text) \o IdCalls(m)
                                     \o FileParts("anthropic", m.files, fetch)]

(***************************************************************************)
(* The request each adapter's chat builds: the system prompt, joined and   *)
(* apart from the messages where the wire has a place for it.              *)
(***************************************************************************)
SystemOf(ms) == Each(ms, LAMBDA m : IF m.role = "system" THEN m.text ELSE <<>>)
Spoken(ms)   == Each(ms, LAMBDA m : IF m.role = "system" THEN <<>> ELSE <<m>>)

ResponsesRequest(ms, fetch) ==
    [system |-> SystemOf(ms),
     messages |-> Each(Spoken(ms), LAMBDA m : ResponsesItems(m, fetch))]

CompletionsRequest(ms) ==
    [system |-> <<>>, messages |-> [i \in DOMAIN ms |-> CompletionsMessage(ms[i])]]

GeminiRequest(ms, fetch) ==
    [system |-> SystemOf(ms),
     messages |-> Each(Spoken(ms), LAMBDA m : GeminiContents(m, fetch))]

ConverseRequest(ms, fetch) ==
    [system |-> SystemOf(ms),
     messages |-> Each(Spoken(ms), LAMBDA m : ConverseMessages(m, fetch))]

AnthropicRequest(ms, fetch) ==
    LET ts == Spoken(ms) IN
    [system |-> SystemOf(ms),
     messages |-> [i \in DOMAIN ts |-> AnthropicTurn(ts[i], fetch)]]

Request(w, ms, fetch) ==
    CASE w = "responses"   -> ResponsesRequest(ms, fetch)
      [] w = "completions" -> CompletionsRequest(ms)
      [] w = "gemini"      -> GeminiRequest(ms, fetch)
      [] w = "converse"    -> ConverseRequest(ms, fetch)
      [] OTHER             -> AnthropicRequest(ms, fetch)

(***************************************************************************)
(* The client's moves.                                                     *)
(***************************************************************************)
TalkInit ==
    /\ surface \in {"messages", "chat"}
    /\ turns = <<>>
    /\ move = "client"
    /\ wire = NoName
    /\ sent = Nothing
    /\ outcome = ""

NextTurn == Len(turns) + 1
FileCount(ts) == Len(Each(ts, LAMBDA turn :
    SelectSeq(turn.blocks, LAMBDA b : b.kind = "file" \/ (b.kind = "tool_result" /\ b.shown))))
UserMove == move = "client" /\ Len(turns) < MaxTurns

\* The user says something, with a file or without.
Ask(says, f) ==
    /\ UserMove
    /\ turns # <<>> => /\ Last(turns).role = "assistant"
                       /\ OfKind(Last(turns).blocks, "tool_use") = <<>>
    /\ says \/ f # NoFile
    /\ turns' = Append(turns,
          [role |-> "user",
           blocks |-> (IF f = NoFile THEN <<>> ELSE <<File(<<NextTurn, 0>>, f)>>)
                      \o (IF says THEN <<Text(<<NextTurn, 1>>)>> ELSE <<>>)])
    /\ FileCount(turns') <= MaxFiles
    /\ outcome' = ""
    /\ UNCHANGED <<surface, move, wire, sent>>

\* The client runs the tools and returns every result, the first perhaps with
\* a picture in it, then perhaps a remark of the user and a file.
Return(shown, says, f) ==
    /\ UserMove
    /\ turns # <<>> /\ Last(turns).role = "assistant"
    /\ LET calls == OfKind(Last(turns).blocks, "tool_use") IN
       /\ calls # <<>>
       /\ turns' = Append(turns,
             [role |-> "user",
              blocks |-> [i \in DOMAIN calls |-> Result(<<NextTurn, i>>, calls[i], i = 1 /\ shown)]
                         \o (IF says THEN <<Text(<<NextTurn, Len(calls) + 1>>)>> ELSE <<>>)
                         \o (IF f = NoFile THEN <<>> ELSE <<File(<<NextTurn, Len(calls) + 2>>, f)>>)])
    /\ FileCount(turns') <= MaxFiles
    /\ outcome' = ""
    /\ UNCHANGED <<surface, move, wire, sent>>

(***************************************************************************)
(* A request: files are checked against the model first (but not when the  *)
(* completions wire streams), then the messages are rewritten, and a file  *)
(* the adapter cannot place fails or refuses it there.                     *)
(***************************************************************************)
AllFiles(ms) == UNION {Range(ms[i].files) : i \in {j \in DOMAIN ms : ms[j].role # "tool"}}

Validates(w, stream) == ~(w = "completions" /\ stream)
Unsupported(fs, a) == \E f \in fs : f.type # "text" /\ f.type \notin a

Verdict(w, stream, a, fs, fetch) ==
    IF Validates(w, stream) /\ Unsupported(fs, a) THEN "refused"
    ELSE IF \E f \in fs : FilePart(w, f, fetch) = "raise" THEN "failed"
    ELSE IF \E f \in fs : FilePart(w, f, fetch) = "refused" THEN "refused"
    ELSE "sent"

\* What of a request makes a difference to Send: whether it streams on the
\* completions wire, the model's abilities among the types attached, and a fetch
\* where a wire makes one.
Modes(w)         == IF w = "completions" THEN BOOLEAN ELSE {TRUE}
Shown(w, fs)     == {a \cap {f.type : f \in fs} : a \in Models(w)}
FetchesBy(w, fs) == IF w \in {"gemini", "converse"} /\ \E f \in fs : f.source = "url"
                    THEN Fetches ELSE {"ok"}

Send(ms, w, stream, a, fetch) ==
    /\ LET verdict == Verdict(w, stream, a, AllFiles(ms), fetch) IN
       /\ outcome' = verdict
       /\ move' = IF verdict = "sent" THEN "sent" ELSE "client"
       /\ sent' = IF verdict = "sent" THEN Request(w, ms, fetch) ELSE Nothing
       /\ wire' = IF verdict = "sent" THEN w ELSE NoName
    /\ UNCHANGED <<surface, turns>>

Requesting ==
    /\ move = "client" /\ outcome = ""
    /\ turns # <<>> /\ Last(turns).role = "user"
    /\ LET ms == Common
           fs == AllFiles(ms)
       IN \E w \in Wires : \E stream \in Modes(w), a \in Shown(w, fs), fetch \in FetchesBy(w, fs) :
             Send(ms, w, stream, a, fetch)

(***************************************************************************)
(* The provider's move: an error, after which the client sends again as it *)
(* likes, or an answer that becomes the next turn.                         *)
(***************************************************************************)
Fail ==
    /\ move = "sent"
    /\ move' = "client"
    /\ outcome' = ""
    /\ sent' = Nothing
    /\ wire' = NoName
    /\ UNCHANGED <<surface, turns>>

\* On /v2/messages an answer always shows its thinking first.
Answer(says, names, signed) ==
    /\ move = "sent" /\ Len(turns) < MaxTurns
    /\ says \/ names # <<>>
    /\ signed => wire = "gemini" /\ names # <<>>
    /\ turns' = Append(turns,
          [role |-> "assistant",
           blocks |-> (IF surface = "messages" THEN <<Thinking(<<NextTurn, 0>>)>> ELSE <<>>)
                      \o (IF says THEN <<Text(<<NextTurn, 1>>)>> ELSE <<>>)
                      \o [i \in DOMAIN names |->
                            Call(<<NextTurn, 1 + i>>, Issued(wire, NextTurn, i), names[i],
                                 IF signed /\ i = 1 THEN <<NextTurn, 1 + i>> ELSE NoSig)]])
    /\ move' = "client"
    /\ outcome' = ""
    /\ sent' = Nothing
    /\ wire' = NoName
    /\ UNCHANGED surface

TalkNext ==
    \/ \E says \in BOOLEAN, f \in Attachments(surface) \cup {NoFile} : Ask(says, f)
    \/ \E says \in BOOLEAN, f \in Attachments(surface) \cup {NoFile},
          shown \in BOOLEAN : Return(shown, says, f)
    \/ Requesting
    \/ Fail
    \/ \E says, signed \in BOOLEAN, names \in AnswerCalls : Answer(says, names, signed)


TalkTypeOK ==
    /\ surface \in {"messages", "chat"}
    /\ Len(turns) <= MaxTurns
    /\ move \in {"client", "sent"}
    /\ wire \in Wires \cup {NoName}
    /\ outcome \in {"", "sent", "refused", "failed"}
    /\ move = "sent" => outcome = "sent"

-----------------------------------------------------------------------------
SystemParts == Each(sent.messages, LAMBDA m : IF m.role = "system" THEN m.parts ELSE <<>>)
SentParts == Each(sent.messages, LAMBDA m : IF m.role = "system" THEN <<>> ELSE m.parts)
Instructions == sent.system \o Tags(SystemParts)
TagsOf(k) == Tags(OfKind(SentParts, k))
Said(k) == Each(turns, LAMBDA turn : Tags(OfKind(turn.blocks, k)))
AllBlocks == Each(turns, LAMBDA turn : turn.blocks)
Out == move = "sent"

(***************************************************************************)
(* Every text of the client and of earlier answers reaches the provider    *)
(* once, in the order it was said, and so do every tool call and result    *)
(* and the system prompt: no wire loses the words around a call, repeats   *)
(* them, or has the system prompt both apart and among the messages.       *)
(***************************************************************************)
WordsKept ==
    Out => /\ Instructions = SystemMessage.text
           /\ TagsOf("text") = Said("text")
           /\ TagsOf("call") = Said("tool_use")
           /\ TagsOf("result") = Said("tool_result")

(***************************************************************************)
(* On the wires that pair by id, the first result after a call that        *)
(* carries its id is the result of that very call, for every call of the   *)
(* conversation, even when Gemini answered earlier turns and its call_0    *)
(* comes back several times.                                               *)
(***************************************************************************)
ResultsMeetCalls ==
    Out /\ wire # "gemini" =>
        LET ps == SentParts IN
        \A i \in DOMAIN ps : ps[i].kind = "call" =>
            \E j \in DOMAIN ps :
                /\ j > i /\ ps[j].kind = "result"
                /\ ps[j].key = ps[i].key /\ ps[j].of = ps[i].tag
                /\ \A k \in i + 1 .. j - 1 : ps[k].kind = "result" => ps[k].key # ps[i].key

(***************************************************************************)
(* A call Gemini signed goes back to Gemini with its own signature, though *)
(* the client only ever held it inside an id it may not read; a call       *)
(* without one carries the sentinel, never another call's signature.       *)
(***************************************************************************)
OwnSignature ==
    Out /\ wire = "gemini" =>
        LET ps == SentParts IN
        \A b \in Range(OfKind(AllBlocks, "tool_use")) :
            \A i \in DOMAIN ps : ps[i].tag = b.tag =>
                ps[i].sig = IF b.sig # NoSig THEN b.sig ELSE NotOurs

(***************************************************************************)
(* A file the user attached inline reaches the provider exactly once or    *)
(* the request is refused, on every wire but the completions wire, which   *)
(* has no place for files.                                                 *)
(***************************************************************************)
InlineFilesReach ==
    Out /\ wire # "completions" =>
        LET ps == SentParts IN
        \A b \in Range(OfKind(AllBlocks, "file")) :
            b.source = "base64" => Cardinality({i \in DOMAIN ps : ps[i].tag = b.tag}) = 1

(***************************************************************************)
(* What was said, called, returned and attached is what the provider is    *)
(* shown, whichever wire and however the turns were cut.                   *)
(***************************************************************************)
ContentKept == WordsKept /\ InlineFilesReach
=============================================================================
