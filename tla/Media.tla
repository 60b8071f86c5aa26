------------------------------- MODULE Media --------------------------------
(***************************************************************************)
(* Images, speech, transcriptions and embeddings (services/image.py,       *)
(* audio.py, embedding.py): a request is admitted, calls its adapter, is   *)
(* priced, is charged by a background task and then answered, with the     *)
(* data uploaded first when there is a store.  A request that fails leaves *)
(* a record too, of the same trace, through the queue of usage records     *)
(* when there is one; every pod consumes that queue (main.py).             *)
(*                                                                         *)
(* What admission asks (rate, wallet, key, budgets, breaker) is a choice   *)
(* here: Limits, WalletGate, KeyAccess and CircuitBreaker say how it is    *)
(* made.  A crash of the pod that serves ends requests and tasks alike.    *)
(***************************************************************************)
EXTENDS ImageSizes, Pricing, FiniteSets

CONSTANTS
    First, Second,  \* two requests
    Consumers,      \* the consumer loops of the pods
    BatchSize,      \* messages one receive returns at most
    Edges,          \* the edges of pixel sizes that are asked for
    MaxCopies       \* bound: rows stored of one message

Alien == "alien"  \* a message that is no record

ASSUME MediaAssumption ==
    /\ First # Second
    /\ Alien \notin {First, Second}
    /\ BatchSize \in Nat \ {0}
    /\ Edges \subseteq Nat
    /\ MaxCopies \in Nat \ {0}

Requests == {First, Second}

VARIABLES
    config,   \* what the deployment has: a queue, a store, debits
    request,  \* what each request asks
    phase,    \* where it is
    call,     \* what its provider was sent and answered
    bill,     \* what it costs
    task,     \* its background tasks: one that charges, one that notes a failure
    table,    \* its rows in the usage log and the debit they tell of
    copies,   \* how often its failure is in the usage log
    debits,   \* times the wallet was debited for it
    queue,    \* messages the queue holds
    visible,  \* those a receive may return
    consumer  \* the consumer loops

serving  == <<request, phase, call, bill>>
ledger   == <<task, table, copies, debits>>
messages == <<queue, visible, consumer>>
mediaVars == <<config, serving, ledger, messages>>

NoCall == [images |-> 0, blank |-> FALSE, usage |-> FALSE, vectors |-> <<>>,
           model |-> "", pixels |-> AutoSize, tier |-> "", quality |-> ""]
NoBill == [dollars |-> None, counts |-> Counts]
-----------------------------------------------------------------------------
(***************************************************************************)
(* What the adapters answer: the set of possible answers to a request `q`; *)
(* the empty set when the adapter always raises.                           *)
(***************************************************************************)
Texts == 1 .. 2

OpenAIEmbed(q) == {[NoCall EXCEPT !.vectors = <<1, 2>>]}

\* One call per text; a text without an embedding is skipped, and those after
\* it move up.
GoogleEmbed(q) == {[NoCall EXCEPT !.vectors = v] : v \in {<<>>, <<1>>, <<2>>, <<1, 2>>}}

BedrockEmbed(q) ==
    IF q.model \in {"amazon.titan-embed", "cohere.embed"} THEN OpenAIEmbed(q) ELSE {}

\* A height of zero ends in a division that raises.
Sendable(calls) == {c \in calls : c.pixels # Raises}

\* gpt-image reports usage, dall-e does not.
OpenAIImageOf(q, model, images, quality) ==
    Sendable({[NoCall EXCEPT !.images = images, !.usage = (model # "dall-e-3"), !.model = model,
                             !.pixels = ToPixelsOpenAI(q.size, model), !.quality = quality]})

OpenAIFromText(q) ==
    OpenAIImageOf(q, q.model, IF q.model = "dall-e-3" THEN 1 ELSE q.n,
                  OpenAIQuality(q.model, q.quality))

\* Edits have an endpoint in the gpt-image family alone, and ask for one image.
OpenAIEdit(q) ==
    OpenAIImageOf(q, IF q.model = "dall-e-3" THEN "gpt-image-2" ELSE q.model, 1,
                  EditQuality(q.quality))

OpenAIImages(q) == IF q.refs THEN OpenAIEdit(q) ELSE OpenAIFromText(q)

\* One image a call, or none when the answer was held back; its data may be missing.
GoogleImages(q) ==
    Sendable({[NoCall EXCEPT !.images = got[1], !.blank = got[2], !.model = q.model,
                             !.pixels = ToAspectGoogle(q.size),
                             !.tier = ToTierGoogle(q.size, q.quality, q.model)] :
                 got \in {<<0, FALSE>>, <<1, FALSE>>, <<1, TRUE>>}})

BedrockImages(q) ==
    IF q.model \in {"stability", "amazon.titan-image"}
      THEN Sendable({[NoCall EXCEPT !.images = q.n, !.model = q.model,
                                    !.pixels = ToPixelsOpenAI(q.size, q.model)]})
      ELSE {}

OpenAISpeech(q)     == {NoCall}
OpenAITranscribe(q) == {NoCall}
GoogleSpeech(q)     == {NoCall}
GoogleTranscribe(q) == {NoCall}

\* Neither Bedrock nor Anthropic speaks or listens; Anthropic neither draws nor embeds.
BedrockSpeech(q) == {}
BedrockTranscribe(q) == {}
AnthropicUnsupported(q) == {}

Answers(q) ==
    CASE q.provider = "anthropic" -> AnthropicUnsupported(q)
      [] q.op = "image"     /\ q.provider = "openai"  -> OpenAIImages(q)
      [] q.op = "image"     /\ q.provider = "google"  -> GoogleImages(q)
      [] q.op = "image"     /\ q.provider = "bedrock" -> BedrockImages(q)
      [] q.op = "embedding" /\ q.provider = "openai"  -> OpenAIEmbed(q)
      [] q.op = "embedding" /\ q.provider = "google"  -> GoogleEmbed(q)
      [] q.op = "embedding" /\ q.provider = "bedrock" -> BedrockEmbed(q)
      [] q.op = "speech"    /\ q.provider = "openai"  -> OpenAISpeech(q)
      [] q.op = "speech"    /\ q.provider = "google"  -> GoogleSpeech(q)
      [] q.op = "speech"    /\ q.provider = "bedrock" -> BedrockSpeech(q)
      [] q.op = "transcription" /\ q.provider = "openai"  -> OpenAITranscribe(q)
      [] q.op = "transcription" /\ q.provider = "google"  -> GoogleTranscribe(q)
      [] q.op = "transcription" /\ q.provider = "bedrock" -> BedrockTranscribe(q)
-----------------------------------------------------------------------------
(***************************************************************************)
(* What is asked.                                                          *)
(***************************************************************************)
PerImage == NewRow("per_image", 3, 3, 1)
PerToken == [NewRow("per_1m_tokens", 5, 40, 1) EXCEPT !.imageInput = 8]

Asked == [op |-> "image", provider |-> "openai", model |-> "gpt-image-2", n |-> 1, refs |-> FALSE,
          size |-> Preset("square"), quality |-> "standard", row |-> PerToken,
          known |-> "found", counts |-> Counts]

ImageRequests ==
    {[Asked EXCEPT !.n = ask[1], !.refs = ask[2]] : ask \in {1, 2} \X BOOLEAN}
    \cup {[Asked EXCEPT !.model = "dall-e-3", !.row = PerImage, !.n = 2, !.refs = refs] :
            refs \in BOOLEAN}
    \cup {[Asked EXCEPT !.provider = use[1], !.model = use[2], !.row = PerImage, !.n = use[3]] :
            use \in {<<"google", Flash, 1>>, <<"google", Flash, 2>>,
                     <<"bedrock", "stability", 2>>, <<"bedrock", "nova", 1>>,
                     <<"anthropic", "claude", 1>>}}

OtherRequests ==
    {[Asked EXCEPT !.op = ask[1], !.provider = ask[2][1], !.model = ask[2][2],
                   !.row = NewRow("per_1m_tokens", 1, 0, 1)] :
        ask \in {"speech", "transcription", "embedding"}
               \X {<<"openai", "m">>, <<"google", "m">>, <<"bedrock", "amazon.titan-embed">>,
                   <<"bedrock", "m">>}}
    \cup {[Asked EXCEPT !.op = "speech", !.known = k] : k \in {"missing", "unavailable"}}

\* Every size on a model of each family, in both qualities that matter to Gemini.
Sizes ==
    {Preset(p) : p \in Wide \cup Tall \cup {"square", "standard", "classic", "auto"}}
    \cup {Ratio(a[1], a[2]) : a \in KnownAspects \cup {<<2, 1>>}}
    \cup {Tier(t) : t \in {"512px", "1K", "2K", "4K"}}
    \cup {Pixels(w, h) : w \in Edges, h \in Edges}

SizeRequests ==
    {[Asked EXCEPT !.provider = ask[1][1], !.model = ask[1][2], !.quality = ask[1][3],
                   !.size = ask[2]] :
        ask \in ({<<"openai", "gpt-image-2", "max">>, <<"openai", "gpt-image-1", "hd">>,
                 <<"openai", "dall-e-3", "hd">>, <<"bedrock", "stability", "standard">>}
                \cup {"google"} \X {"gemini-3-pro-image", Flash, Lite} \X {"standard", "hd"})
               \X Sizes}

\* Rows of a chat model, with and without rates of their own.
ChatRow(unit, markup, own, threshold) ==
    [NewRow(unit, 2, 3, markup) EXCEPT !.cacheRead = own, !.threshold = threshold,
                                       !.longInput = IF threshold = None THEN None ELSE 4,
                                       !.longOutput = IF threshold = None THEN None ELSE 6,
                                       !.longCache = IF threshold = None THEN None ELSE own]

ChatRows ==
    {ChatRow(of[1], of[2], of[3], of[4]) :
        of \in {"per_1k_tokens", "per_1m_tokens"} \X {1, 3} \X {None, 1} \X {None, 2, 4}}

ChatCounts ==
    [input : {0, 1, 3}, output : {0, 1}, cached : {0, 2}, write5m : {0, 1}, write1h : {0, 1},
     image : {0}]

\* A chat request's tokens against its model's row, or none.
PriceRequests ==
    {[Asked EXCEPT !.op = "chat", !.row = ask[1], !.counts = ask[2]] :
        ask \in (ChatRows \cup {NoRow}) \X ChatCounts}

\* One request is made, the other is not.
Only(q) == [r \in Requests |-> IF r = First THEN q ELSE Asked]

NoTask == [success |-> "none", error |-> "none"]
NoRows == [success |-> "none", error |-> "none"]

\* One of four: a single request of any kind in any deployment, two failing
\* requests whose records go through the queue beside a message that is no
\* record, a size, or a price.
MediaInit ==
    /\ \/ /\ config \in [sqs : {FALSE}, store : BOOLEAN, debits : BOOLEAN]
          /\ \E q \in ImageRequests \cup OtherRequests : request = Only(q)
          /\ phase = [r \in Requests |-> IF r = First THEN "new" ELSE "done"]
          /\ queue = {}
       \/ /\ config = [sqs |-> TRUE, store |-> TRUE, debits |-> TRUE]
          /\ request = [r \in Requests |-> [Asked EXCEPT !.known = "missing"]]
          /\ phase = [r \in Requests |-> "new"]
          /\ queue = {Alien}
       \/ /\ config = [sqs |-> FALSE, store |-> FALSE, debits |-> FALSE]
          /\ \E q \in SizeRequests \cup PriceRequests : request = Only(q)
          /\ phase = [r \in Requests |->
                        IF r = Second THEN "done"
                        ELSE IF request[r].op = "chat" THEN "price" ELSE "new"]
          /\ queue = {}
    /\ call = [r \in Requests |-> NoCall]
    /\ bill = [r \in Requests |-> NoBill]
    /\ task = [r \in Requests |-> NoTask]
    /\ table = [r \in Requests |-> NoRows]
    /\ copies = [r \in Requests |-> 0]
    /\ debits = [r \in Requests |-> 0]
    /\ visible = queue
    /\ consumer = [c \in Consumers |-> [pc |-> "idle", batch |-> {}]]
-----------------------------------------------------------------------------
(***************************************************************************)
(* One request.                                                            *)
(***************************************************************************)
Is(r, op) == request[r].op = op

Go(r, at) == phase' = [phase EXCEPT ![r] = at]

\* An exception in the service: its handler records the failure.
Raise(r) == Go(r, "raised")

Fire(r, kind) == task' = [task EXCEPT ![r][kind] = "fired"]

\* The route: over the rate or without the permission the request ends unrecorded.
Posted(r, op) ==
    /\ phase[r] = "new"
    /\ Is(r, op)
    /\ \/ Go(r, "refused")
       \/ Go(r, "gate")
    /\ UNCHANGED <<config, request, call, bill, ledger, messages>>

PostImage(r)         == Posted(r, "image")
PostSpeech(r)        == Posted(r, "speech")
PostTranscription(r) == Posted(r, "transcription")

\* Embeddings meet the rate limiter inside the service: see Admit.
PostEmbedding(r) == Posted(r, "embedding")

\* The model, its adapter and its breaker; a model that is unknown, paused or
\* not configured raises.
Resolved(r) == request[r].known = "found"

\* Wallet, model, policy, budgets and breaker, in that order, any of which raises.
Admit(r) ==
    /\ phase[r] = "gate"
    /\ \/ Raise(r)
       \/ Resolved(r) /\ Go(r, "call")
    /\ UNCHANGED <<config, request, call, bill, ledger, messages>>

\* The provider answers, or the adapter raises.
CallProvider(r) ==
    /\ phase[r] = "call"
    /\ \/ Raise(r) /\ UNCHANGED call
       \/ \E a \in Answers(request[r]) :
             /\ call' = [call EXCEPT ![r] = a]
             /\ Go(r, "price")
    /\ UNCHANGED <<config, request, bill, ledger, messages>>

\* The row for the model, from the table or as Redis holds it.
RowRead(r) == {request[r].row, DictToPricing(PricingToDict(request[r].row))}

\* The price is known, the task that charges it starts, and the request goes on.
Charged(r, counts, next) ==
    /\ phase[r] = "price"
    /\ \/ /\ \E row \in RowRead(r) :
               bill' = [bill EXCEPT ![r] = [dollars |-> ComputeUnits(row, counts, TRUE),
                                            counts |-> counts]]
          /\ Fire(r, "success")
          /\ Go(r, next)
       \/ Raise(r) /\ UNCHANGED <<bill, task>>
    /\ UNCHANGED <<config, request, call, table, copies, debits, messages>>

\* What an image request is billed by: the tokens its provider reported when
\* its row is priced in tokens, else the images that were asked for.
ImageCounts(r) ==
    IF call[r].usage /\ request[r].row.unit \in {"per_1m_tokens", "per_1k_tokens"}
      THEN [Counts EXCEPT !.input = 1, !.output = 2, !.image = IF request[r].refs THEN 1 ELSE 0]
      ELSE [Counts EXCEPT !.input = request[r].n]

ChargeImage(r)         == Is(r, "image") /\ Charged(r, ImageCounts(r), "upload")
ChargeSpeech(r)        == Is(r, "speech") /\ Charged(r, [Counts EXCEPT !.input = 2], "upload")
ChargeTranscription(r) == Is(r, "transcription") /\ Charged(r, [Counts EXCEPT !.input = 1], "done")
ChargeEmbedding(r)     == Is(r, "embedding") /\ Charged(r, [Counts EXCEPT !.input = 3], "done")

\* BUG (mutant): a failed upload is not caught.
UploadImageOrRaise(r, stored) == stored /\ ~call[r].blank

\* One image of the answer: a store that fails, or none, degrades to the data
\* itself; only an image without data raises.
UploadImage(r, stored) == ~call[r].blank

\* The images go up together.
DeliverImages(r) ==
    /\ phase[r] = "upload"
    /\ Is(r, "image")
    /\ \E stored \in {s \in BOOLEAN : s => config.store} :
          IF UploadImage(r, stored) THEN Go(r, "done") ELSE Raise(r)
    /\ UNCHANGED <<config, request, call, bill, ledger, messages>>

\* Speech must reach the store: a failed upload raises, and so does the
\* warning that is logged when there is no store.
DeliverSpeech(r) ==
    /\ phase[r] = "upload"
    /\ Is(r, "speech")
    /\ \/ config.store /\ Go(r, "done")
       \/ Raise(r)
    /\ UNCHANGED <<config, request, call, bill, ledger, messages>>

\* The handler looks the model up again for the record: an unknown model will
\* do, one that cannot be served raises here too and nothing is recorded.
RecordFailure(r) ==
    /\ phase[r] = "raised"
    /\ Go(r, "failed")
    /\ IF request[r].known = "unavailable" THEN UNCHANGED task ELSE Fire(r, "error")
    /\ UNCHANGED <<config, request, call, bill, table, copies, debits, messages>>

\* Each service's method, from the gate to the answer.
Generate(r) ==
    /\ Is(r, "image")
    /\ Admit(r) \/ CallProvider(r) \/ ChargeImage(r) \/ DeliverImages(r) \/ RecordFailure(r)

TextToSpeech(r) ==
    /\ Is(r, "speech")
    /\ Admit(r) \/ CallProvider(r) \/ ChargeSpeech(r) \/ DeliverSpeech(r) \/ RecordFailure(r)

Transcribe(r) ==
    /\ Is(r, "transcription")
    /\ Admit(r) \/ CallProvider(r) \/ ChargeTranscription(r) \/ RecordFailure(r)

Embed(r) ==
    /\ Is(r, "embedding")
    /\ Admit(r) \/ CallProvider(r) \/ ChargeEmbedding(r) \/ RecordFailure(r)

\* A chat or messages request is priced by what its provider reported: the
\* cached and written tokens are part of the input on one wire, beside it on
\* the other.
PriceTokens(r) ==
    /\ phase[r] = "price"
    /\ Is(r, "chat")
    /\ \E included \in BOOLEAN, row \in RowRead(r) :
          LET n == request[r].counts
              reported == IF included
                            THEN [n EXCEPT !.input = @ + n.cached + n.write5m + n.write1h]
                            ELSE n
          IN  bill' = [bill EXCEPT ![r] = [dollars |-> ComputeUnits(row, reported, included),
                                           counts |-> n]]
    /\ Go(r, "done")
    /\ UNCHANGED <<config, request, call, ledger, messages>>
-----------------------------------------------------------------------------
(***************************************************************************)
(* The background tasks of one request.                                    *)
(***************************************************************************)
Step(r, kind, from, to) ==
    /\ task[r][kind] = from
    /\ task' = [task EXCEPT ![r][kind] = to]

\* The row is written, pending, inside the task's transaction.
WriteSuccess(r) ==
    /\ Step(r, "success", "fired", "written")
    /\ UNCHANGED <<config, serving, table, copies, debits, messages>>

\* The wallet is debited, unless debits are off, or the debit fails.
Debit(r) ==
    /\ task[r].success = "written"
    /\ \E outcome \in IF config.debits THEN {"debited", "failed"} ELSE {"not_applicable"} :
          /\ task' = [task EXCEPT ![r].success = outcome]
          /\ debits' = [debits EXCEPT ![r] = @ + (IF outcome = "debited" THEN 1 ELSE 0)]
    /\ UNCHANGED <<config, serving, table, copies, messages>>

Outcomes == {"debited", "failed", "not_applicable"}

\* The outcome goes on one row of the trace, whichever the database finds,
\* and the transaction commits.
MarkAndCommit(r) ==
    /\ task[r].success \in Outcomes
    /\ \E row \in {"success"} \cup (IF table[r].error = "none" THEN {} ELSE {"error"}) :
          table' = [table EXCEPT ![r] = [@ EXCEPT !.success = "pending", ![row] = task[r].success]]
    /\ task' = [task EXCEPT ![r].success = "done"]
    /\ UNCHANGED <<config, serving, copies, debits, messages>>

\* What a task is at before its transaction ends.
Running == {"fired", "written"} \cup Outcomes

\* A task that meets an error gives up: its transaction is rolled back.
GiveUp(r) ==
    /\ \E kind \in {"success", "error"} :
          /\ task[r][kind] \in Running
          /\ task' = [task EXCEPT ![r][kind] = "lost"]
    /\ UNCHANGED <<config, serving, table, copies, debits, messages>>

\* A failure's record goes to the queue when there is one.  A send that fails
\* logs a warning that raises, so the write that would follow is never made.
WriteError(r) ==
    /\ task[r].error = "fired"
    /\ \/ /\ config.sqs
          /\ queue' = queue \cup {r}
          /\ visible' = visible \cup {r}
          /\ task' = [task EXCEPT ![r].error = "sent"]
          /\ UNCHANGED <<table, copies>>
       \/ /\ config.sqs
          /\ task' = [task EXCEPT ![r].error = "unsent"]
          /\ UNCHANGED <<table, copies, queue, visible>>
       \/ /\ ~config.sqs
          /\ table' = [table EXCEPT ![r].error = "not_applicable"]
          /\ copies' = [copies EXCEPT ![r] = 1]
          /\ task' = [task EXCEPT ![r].error = "stored"]
          /\ UNCHANGED <<queue, visible>>
    /\ UNCHANGED <<config, serving, debits, consumer>>

BackgroundTask(r) ==
    WriteSuccess(r) \/ Debit(r) \/ MarkAndCommit(r) \/ GiveUp(r) \/ WriteError(r)

ImageTask(r)     == Is(r, "image") /\ BackgroundTask(r)
AudioTask(r)     == request[r].op \in {"speech", "transcription"} /\ BackgroundTask(r)
EmbeddingTask(r) == Is(r, "embedding") /\ BackgroundTask(r)

Ended == {"refused", "failed", "done", "dead"}

\* The pod dies with the requests and the tasks it had.
Die ==
    /\ \E r \in Requests :
          phase[r] \notin Ended \/ task[r].success \in Running \/ task[r].error \in Running
    /\ phase' = [r \in Requests |-> IF phase[r] \in Ended THEN phase[r] ELSE "dead"]
    /\ task' = [r \in Requests |->
                  [kind \in {"success", "error"} |->
                     IF task[r][kind] \in Running THEN "lost" ELSE task[r][kind]]]
    /\ UNCHANGED <<config, request, call, bill, table, copies, debits, messages>>
-----------------------------------------------------------------------------
(***************************************************************************)
(* The consumers of the queue.                                             *)
(***************************************************************************)
\* BUG (mutant): what is received is deleted at once.
ReceiveDeleting(c) ==
    /\ consumer[c].pc = "idle"
    /\ \E batch \in (SUBSET visible) \ {{}} :
          /\ Cardinality(batch) <= BatchSize
          /\ visible' = visible \ batch
          /\ queue' = queue \ batch
          /\ consumer' = [consumer EXCEPT ![c] = [pc |-> "received", batch |-> batch]]
    /\ UNCHANGED <<config, serving, ledger>>

\* A batch is received and invisible to others for a while.
Receive(c) ==
    /\ consumer[c].pc = "idle"
    /\ \E batch \in (SUBSET visible) \ {{}} :
          /\ Cardinality(batch) <= BatchSize
          /\ visible' = visible \ batch
          /\ consumer' = [consumer EXCEPT ![c] = [pc |-> "received", batch |-> batch]]
    /\ UNCHANGED <<config, serving, ledger, queue>>

Idle(c) == consumer' = [consumer EXCEPT ![c] = [pc |-> "idle", batch |-> {}]]

\* The records of the batch are stored in one commit, what is no record is
\* passed over; a commit that fails stores nothing.
Store(c) ==
    /\ consumer[c].pc = "received"
    /\ LET records == consumer[c].batch \ {Alien}
       IN  \/ /\ records # {}
              /\ \A r \in records : copies[r] < MaxCopies
              /\ copies' = [r \in Requests |-> copies[r] + (IF r \in records THEN 1 ELSE 0)]
              /\ table' = [r \in Requests |->
                             IF r \in records /\ table[r].error = "none"
                               THEN [table[r] EXCEPT !.error = "not_applicable"] ELSE table[r]]
              /\ consumer' = [consumer EXCEPT ![c] = [pc |-> "stored", batch |-> records]]
           \/ Idle(c) /\ UNCHANGED <<table, copies>>
    /\ UNCHANGED <<config, serving, task, debits, queue, visible>>

\* Stored messages are deleted one by one; the first delete that fails leaves
\* the rest.  A handle that is not the latest deletes nothing.
Delete(c) ==
    /\ consumer[c].pc = "stored"
    /\ \/ \E m \in consumer[c].batch :
             /\ consumer' = [consumer EXCEPT ![c].batch = @ \ {m},
                                             ![c].pc = IF consumer[c].batch = {m} THEN "idle" ELSE @]
             /\ \/ /\ queue' = queue \ {m}
                   /\ visible' = visible \ {m}
                \/ /\ m \in visible \/ \E d \in Consumers \ {c} : m \in consumer[d].batch
                   /\ UNCHANGED <<queue, visible>>
       \/ Idle(c) /\ UNCHANGED <<queue, visible>>
    /\ UNCHANGED <<config, serving, ledger>>

\* A message nobody deleted in time is visible again.
Reappear ==
    /\ \E m \in queue \ visible : visible' = visible \cup {m}
    /\ UNCHANGED <<config, serving, ledger, queue, consumer>>

\* The pod of a consumer dies.
ConsumerDies(c) ==
    /\ consumer[c].pc # "idle"
    /\ Idle(c)
    /\ UNCHANGED <<config, serving, ledger, queue, visible>>

Consume(c) == Receive(c) \/ Store(c) \/ Delete(c)

MediaNext ==
    \/ \E r \in Requests :
          \/ PostImage(r) \/ PostSpeech(r) \/ PostTranscription(r) \/ PostEmbedding(r)
          \/ Generate(r) \/ TextToSpeech(r) \/ Transcribe(r) \/ Embed(r)
          \/ PriceTokens(r)
          \/ ImageTask(r) \/ AudioTask(r) \/ EmbeddingTask(r)
    \/ Die
    \/ \E c \in Consumers : Consume(c) \/ ConsumerDies(c)
    \/ Reappear

-----------------------------------------------------------------------------
(***************************************************************************)
(* Properties.                                                             *)
(***************************************************************************)
\* Once the task that charges an image, a transcription or an embedding is
\* through, the row of the request tells of the debit, no more and no less,
\* and no other row of the trace exists: a store that fails cannot turn what
\* was billed into a failure (image.py, _upload_single_image).  Speech is not
\* among them: see DeliverSpeech.  Nor is an image without data.
LedgerTellsCharge ==
    \A r \in Requests :
        /\ task[r].success = "done"
        /\ ~Is(r, "speech")
        /\ ~call[r].blank
        => /\ table[r].success \in Outcomes
           /\ (debits[r] = 1) <=> (table[r].success = "debited")
           /\ task[r].error = "none"
           /\ copies[r] = 0

\* A record the queue took is in the queue or in the usage log, whatever dies,
\* fails or is delivered twice (main.py, the consumer loop).
RecordsKept ==
    \A r \in Requests : task[r].error = "sent" => r \in queue \/ copies[r] > 0

\* Every unit is billed once and at the list rate of its kind, on either wire,
\* above and below the long-context threshold, with a row from the table or
\* from Redis, whatever its markup (without a row the wire that counts cached
\* tokens beside the input gets them free); the quote for a request without cached
\* tokens below the threshold is its bill (pricing.py).
BilledAtCost ==
    \A r \in Requests :
        LET n == bill[r].counts
            row == request[r].row
            plain == n.cached + n.write5m + n.write1h + n.image = 0
        IN  bill[r].dollars # None =>
                /\ row # NoRow => bill[r].dollars = AtCost(row, n)
                /\ plain /\ ~LongTierApplies(row, n.input) => CostBreakdown(row, n) = bill[r].dollars

\* What is sent for a size is what the provider takes, is not turned on its
\* side, is left alone when it was fit already, and hd never draws less
\* (adapters/base.py, ImageSizeResolver).
SizesFit ==
    \A r \in Requests :
        LET q == request[r]
        IN  call[r].model # "" =>
              /\ PixelsRight(call[r].pixels, q.size, call[r].model)
              /\ q.provider = "google" =>
                    /\ call[r].pixels \in KnownAspects
                    /\ TierRight(call[r].tier, q.size, q.quality, q.model)

\* usage.py logs "SQS send failed, falling back to DB write": a record whose
\* send failed is in the usage log.
FallsBackToTable ==
    \A r \in Requests : task[r].error = "unsent" => copies[r] > 0
=============================================================================
