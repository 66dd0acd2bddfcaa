-------------------------------- MODULE Wire ---------------------------------
(***************************************************************************)
(* The provider adapters of ratchet-providers/src/adapters: what a request *)
(* looks like on the wire, how a reply, a stream or an error comes back.   *)
(* "openai" stands for openai_compatible, deepseek and mimo, which share   *)
(* openai_types.rs.  Texts, tool outputs and arguments are sequences of    *)
(* pieces; the empty sequence is the empty string.                         *)
(***************************************************************************)
EXTENDS Naturals, Sequences, SequencesExt

Adapters == {"openai", "anthropic", "ollama"}

\* types.rs: a Message of the conversation.
Say(role, text) == [role |-> role, text |-> text, calls |-> <<>>, results |-> <<>>]

Joined(seq, Text(_)) == FlattenSeq([k \in DOMAIN seq |-> Text(seq[k])])
-----------------------------------------------------------------------------
(***************************************************************************)
(* Requests.                                                               *)
(***************************************************************************)
\* Mutant: only the first result of a turn is sent.
OpenAiFirstResult(m) ==
    IF m.role = "tool" /\ m.results # <<>>
    THEN << [role |-> "tool", text |-> m.results[1].text, calls |-> <<>>,
             answers |-> m.results[1].id] >>
    ELSE << [role |-> m.role, text |-> m.text, calls |-> m.calls, answers |-> <<>>] >>

\* from_chat_request: one tool message per result.
OpenAiMessages(m) ==
    IF m.role = "tool" /\ m.results # <<>>
    THEN [k \in DOMAIN m.results |->
            [role |-> "tool", text |-> m.results[k].text, calls |-> <<>>,
             answers |-> m.results[k].id]]
    ELSE << [role |-> m.role, text |-> m.text, calls |-> m.calls, answers |-> <<>>] >>

OpenAiRequest(messages) == Joined(messages, OpenAiMessages)

TextBlock(text) == [type |-> "text", text |-> text]
ToolUse(call)   == [type |-> "tool_use", call |-> call]
ToolResult(r)   == [type |-> "tool_result", id |-> r.id, text |-> r.text]

Unless(blank, blocks) == IF blank THEN <<>> ELSE blocks

Blocks(m) ==
    CASE m.role = "assistant" -> Unless(m.text = <<>>, <<TextBlock(m.text)>>)
                                   \o [k \in DOMAIN m.calls |-> ToolUse(m.calls[k])]
      [] m.role = "tool"   -> IF m.results # <<>>
                              THEN [k \in DOMAIN m.results |-> ToolResult(m.results[k])]
                              ELSE Unless(m.text = <<>>, <<TextBlock(m.text)>>)
      [] m.role = "user"   -> <<TextBlock(m.text)>>
      [] m.role = "system" -> <<>>

\* Results travel as the user's, and a message without blocks is left out.
Turns(m) ==
    Unless(Blocks(m) = <<>>,
           << [role |-> IF m.role = "tool" THEN "user" ELSE m.role, blocks |-> Blocks(m)] >>)

\* System messages go to a field of their own.
SystemText(m) == IF m.role = "system" THEN m.text ELSE <<>>

AnthropicRequest(messages) ==
    [system   |-> Joined(messages, SystemText),
     messages |-> Joined(messages, Turns)]

\* Calls are left out; results stand in for the text they come without.
OllamaText(m) ==
    IF m.text = <<>> THEN Joined(m.results, LAMBDA r : r.text) ELSE m.text

OllamaRequest(messages) ==
    [k \in DOMAIN messages |-> [role |-> messages[k].role, text |-> OllamaText(messages[k])]]
-----------------------------------------------------------------------------
(***************************************************************************)
(* Replies.  A server's message is a sequence of blocks, in Anthropic's    *)
(* form; the others send its texts and its calls apart.                    *)
(***************************************************************************)
TextIn(b)  == IF b.type = "text" THEN b.text ELSE <<>>
CallsIn(b) == IF b.type = "tool_use" THEN <<b.call>> ELSE <<>>

\* "Ollama does not issue call ids; synthesise stable ones".
OllamaId(i) == <<"call", i - 1>>

\* A JSON value stands for its text.
Null == <<"null">>
IsJson(args) == args # <<>> /\ \A k \in DOMAIN args : args[k] # "broken"

\* from_str(..).unwrap_or_default(): no text, or a text that is no JSON, is Null.
Decoded(args) == IF IsJson(args) THEN args ELSE Null

\* OpenAI sends the arguments as a text, the others as a value.
Received(adapter, call, i) ==
    CASE adapter = "openai"    -> [call EXCEPT !.args = Decoded(@)]
      [] adapter = "anthropic" -> call
      [] adapter = "ollama"    -> [call EXCEPT !.id = OllamaId(i)]

\* complete: the text, and the calls in the order they were made.
Response(adapter, blocks) ==
    LET calls == Joined(blocks, CallsIn)
    IN  [text  |-> Joined(blocks, TextIn),
         calls |-> [i \in DOMAIN calls |-> Received(adapter, calls[i], i)]]

(* A reply that is no success, and what complete makes of it. *)

\* parse_completion_response reads the status before the body.
OpenAiError(status) ==
    CASE status \in {401, 403} -> [kind |-> "auth", status |-> status]
      [] status = 429 -> [kind |-> "rate_limited", status |-> 429]
      [] OTHER -> [kind |-> "api", status |-> status]

\* Two statuses are known; any other body is read as a message, which fails as of status 200.
AnthropicError(status) ==
    CASE status = 429 -> [kind |-> "rate_limited", status |-> 429]
      [] status = 401 -> [kind |-> "auth", status |-> 401]
      [] OTHER -> [kind |-> "api", status |-> 200]

OllamaError(status) == [kind |-> "api", status |-> status]

StatusError(adapter, status) ==
    CASE adapter = "openai"    -> OpenAiError(status)
      [] adapter = "anthropic" -> AnthropicError(status)
      [] adapter = "ollama"    -> OllamaError(status)

\* Mutant: a request timeout is not retried.
RetryableServer(error) ==
    \/ error.kind = "rate_limited"
    \/ error.kind = "api" /\ (error.status >= 500 \/ error.status = 429)

\* ProviderError::is_retryable of those errors.
IsRetryable(error) ==
    \/ error.kind = "rate_limited"
    \/ error.kind = "api" /\ (error.status >= 500 \/ error.status \in {408, 429})
-----------------------------------------------------------------------------
(***************************************************************************)
(* Streams.  Events(adapter, blocks) is what the server sends (external),  *)
(* one piece of text or arguments at a time.                               *)
(***************************************************************************)
\* Chunks of a ChatStream; NoId: the delta carries neither id nor name.
NoId == <<>>
Chunk(text, deltas) == [text |-> text, deltas |-> deltas]
Delta(index, id, tool, args) == [index |-> index, id |-> id, tool |-> tool, args |-> args]

\* The k-th block: its start, its text or arguments in pieces, its stop.
BlockEvents(block, k) ==
    LET Pieces == IF block.type = "text" THEN block.text ELSE block.call.args
        Kind   == IF block.type = "text" THEN "text_delta" ELSE "input_json_delta"
    IN  <<[type |-> "content_block_start", index |-> k - 1, block |-> block]>>
        \o [i \in DOMAIN Pieces |->
              [type  |-> "content_block_delta", index |-> k - 1, kind |-> Kind,
               piece |-> Pieces[i]]]
        \o <<[type |-> "content_block_stop"]>>

AnthropicEvents(blocks) ==
    <<[type |-> "message_start"], [type |-> "ping"]>>
    \o FlattenSeq([k \in DOMAIN blocks |-> BlockEvents(blocks[k], k)])
    \o <<[type |-> "message_delta"], [type |-> "message_stop"]>>

\* Mutant: an argument delta is put down to the first block.
AnthropicSseFirst(e) ==
    CASE e.type = "content_block_start" ->
           <<Chunk(<<>>, IF e.block.type = "tool_use"
                         THEN <<Delta(e.index, e.block.call.id, e.block.call.tool, <<>>)>>
                         ELSE <<>>)>>
      [] e.type = "content_block_delta" ->
           <<IF e.kind = "text_delta" THEN Chunk(<<e.piece>>, <<>>)
             ELSE Chunk(<<>>, <<Delta(0, NoId, NoId, <<e.piece>>)>>)>>
      [] e.type \in {"message_start", "message_delta"} -> <<Chunk(<<>>, <<>>)>>
      [] OTHER -> <<>>

\* parse_anthropic_sse: a block's index is the call's.
AnthropicSse(e) ==
    CASE e.type = "content_block_start" ->
           <<Chunk(<<>>, IF e.block.type = "tool_use"
                         THEN <<Delta(e.index, e.block.call.id, e.block.call.tool, <<>>)>>
                         ELSE <<>>)>>
      [] e.type = "content_block_delta" ->
           <<IF e.kind = "text_delta" THEN Chunk(<<e.piece>>, <<>>)
             ELSE Chunk(<<>>, <<Delta(e.index, NoId, NoId, <<e.piece>>)>>)>>
      [] e.type \in {"message_start", "message_delta"} -> <<Chunk(<<>>, <<>>)>>
      [] OTHER -> <<>>

Event(choices) == [done |-> FALSE, choices |-> choices]
Choice(content, deltas) == Event(<<[content |-> content, deltas |-> deltas]>>)

\* The i-th call.
CallEvents(call, i) ==
    <<Choice(<<>>, <<Delta(i - 1, call.id, call.tool, <<>>)>>)>>
    \o [k \in DOMAIN call.args |-> Choice(<<>>, <<Delta(i - 1, NoId, NoId, <<call.args[k]>>)>>)]

\* Calls are numbered on their own; the last chunk has usage and no choice, and
\* [DONE] ends the stream.
OpenAiEvents(blocks) ==
    LET text  == Joined(blocks, TextIn)
        calls == Joined(blocks, CallsIn)
    IN  [k \in DOMAIN text |-> Choice(<<text[k]>>, <<>>)]
        \o FlattenSeq([i \in DOMAIN calls |-> CallEvents(calls[i], i)])
        \o <<Choice(<<>>, <<>>), Event(<<>>), [done |-> TRUE, choices |-> <<>>]>>

\* parse_openai_sse: the first choice, if there is one.
OpenAiSse(e) ==
    IF e.done THEN <<>>
    ELSE <<IF e.choices = <<>> THEN Chunk(<<>>, <<>>)
           ELSE Chunk(e.choices[1].content, e.choices[1].deltas)>>

ChunksOf(adapter, blocks) ==
    IF adapter = "anthropic" THEN Joined(AnthropicEvents(blocks), AnthropicSse)
    ELSE Joined(OpenAiEvents(blocks), OpenAiSse)

\* "The consumer concatenates arguments_delta" (external: nothing in the
\* repository reads a stream yet): a delta with an id opens a call, the others
\* of its index add to it.
Opening(d) == IF d.id # NoId THEN <<d>> ELSE <<>>
ArgsAt(index, d) == IF d.index = index THEN d.args ELSE <<>>

Assembled(deltas) ==
    LET opened == Joined(deltas, Opening)
    IN  [i \in DOMAIN opened |->
           [id |-> opened[i].id, tool |-> opened[i].tool,
            args |-> Joined(deltas, LAMBDA d : ArgsAt(opened[i].index, d))]]

Consumed(chunks) ==
    [text  |-> Joined(chunks, LAMBDA c : c.text),
     calls |-> Assembled(Joined(chunks, LAMBDA c : c.deltas))]
=============================================================================
