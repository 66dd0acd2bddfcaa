---------------------------- MODULE Conversation -----------------------------
(***************************************************************************)
(* The messages of one run_agent_loop (ratchet-core/src/task_executor.rs): *)
(* the model is asked, its calls -- native, or recovered from its text by  *)
(* recover_tool_calls -- are executed, and calls and results go back to    *)
(* whichever provider serves the next turn.  ModelCall says who is asked,  *)
(* TaskExecutor what becomes of the outcome, ToolCalls what a call does.   *)
(* The names of the specification's parts say Conversation, and the        *)
(* program counter is loop: its theorems stand beside those of ModelCall.  *)
(***************************************************************************)
EXTENDS Wire

CONSTANTS
    Tools,          \* names of the offered tools
    MaxTurns,       \* MAX_TURNS
    MaxCalls        \* bound: calls of one reply

ASSUME ConversationAssumption ==
    /\ Tools # {}
    /\ MaxTurns \in Nat \ {0}
    /\ MaxCalls \in Nat \ {0}

VARIABLES
    messages,   \* the conversation
    turns,
    loop,       \* "ask", "asked", "done" or "failed"
    server,     \* the adapter whose provider serves this turn
    reply,      \* history: the blocks of the last reply
    ids,        \* ids the servers have given out
    executed,   \* history: number of calls executed
    status      \* HTTP status of the last reply

conversationVars == <<messages, turns, loop, server, reply, ids, executed, status>>

Statuses  == {200, 401, 403, 408, 429, 500}

\* Texts are sequences of pieces; a tool's output is one piece, its number.
Words   == {"prompt", "task", "issues", "prose", "json", "json_call", "object", "rest",
            "broken", "null"}
CallIds == {"native", "recovered", "call"} \X Nat
Calls   == [id : CallIds, tool : Tools, args : Seq(Words)]
ReplyBlocks == [type : {"text"}, text : Seq(Words)] \cup [type : {"tool_use"}, call : Calls]
Messages ==
    [role : {"system", "user", "assistant", "tool"}, text : Seq(Words), calls : Seq(Calls),
     results : Seq([id : CallIds, text : Seq(Nat)])]

ConversationTypeOK ==
    /\ turns \in 0 .. MaxTurns
    /\ loop \in {"ask", "asked", "done", "failed"}
    /\ server \in Adapters
    /\ status \in Statuses
    /\ ids \in Nat
    /\ reply \in Seq(ReplyBlocks)
    /\ messages \in Seq(Messages)
    /\ executed \in Nat
    /\ \A k \in DOMAIN messages :
         /\ messages[k].calls # <<>> <=> messages[k].role = "assistant"
         /\ messages[k].results # <<>> <=> messages[k].role = "tool"

FirstMessages == <<Say("system", <<"prompt">>), Say("user", <<"task">>)>>

\* A revision starts afresh, with what the reviewer said.
ConversationInit ==
    /\ messages \in {FirstMessages, Append(FirstMessages, Say("user", <<"issues">>))}
    /\ turns = 0 /\ loop = "ask"
    /\ server = "openai"
    /\ reply = <<>> /\ ids = 0 /\ executed = 0
    /\ status = 200
-----------------------------------------------------------------------------
\* Any provider may serve a turn: those before it have failed over.
Ask ==
    /\ loop = "ask"
    /\ turns' = turns + 1
    /\ server' \in Adapters
    /\ loop' = "asked"
    /\ UNCHANGED <<messages, reply, ids, executed, status>>

\* No provider is left; the error of the last one comes back.
Fails ==
    /\ loop = "asked"
    /\ status' \in Statuses \ {200}
    /\ loop' = "failed"
    /\ UNCHANGED <<messages, turns, server, reply, ids, executed>>

\* Two pieces, for a stream to cut.
Arguments == <<"object", "rest">>

\* Arguments sent as a text may be missing, or end in the middle.
LastArguments ==
    {Arguments} \cup (IF server = "openai" THEN {<<>>, <<"object", "broken">>} ELSE {})

\* A server's reply: texts around its calls, each with an id of its own that
\* Ollama leaves out.  last: the arguments of the last call.
Reply(before, tools, last, after) ==
    Unless(before = <<>>, <<TextBlock(before)>>)
    \o [i \in DOMAIN tools |->
          ToolUse([id |-> <<"native", ids + i>>, tool |-> tools[i],
                   args |-> IF i = Len(tools) THEN last ELSE Arguments])]
    \o Unless(after = <<>>, <<TextBlock(after)>>)

\* The text behind the calls: pieces of prose, of JSON that is no call of an
\* offered tool, and of calls written out.
Endings == {<<>>, <<"prose">>, <<"json", "json_call">>, <<"json_call", "json_call">>}

Replies ==
    {Reply(b, t, l, a) : b \in {<<>>, <<"prose">>}, t \in BoundedSeq(Tools, MaxCalls),
                         l \in LastArguments, a \in Endings}

\* Calls a model emitted as text, if they name an offered tool.
Recovered(text) ==
    LET found == Joined(text, LAMBDA w : IF w = "json_call" THEN <<w>> ELSE <<>>)
    IN  [i \in DOMAIN found |->
           [id |-> <<"recovered", i - 1>>, tool |-> CHOOSE x \in Tools : TRUE,
            args |-> Arguments]]

\* Text is searched only if there is no native call.
CallsOf(response) == IF response.calls = <<>> THEN Recovered(response.text) ELSE response.calls

Assistant(text, calls) == [Say("assistant", text) EXCEPT !.calls = calls]
ToolMessage(results)   == [Say("tool", <<>>) EXCEPT !.results = results]

\* run_tool, once per call; outputs are numbered.
Executed(calls) ==
    [i \in DOMAIN calls |-> [id |-> calls[i].id, text |-> <<executed + i>>]]

LastTurn == turns >= MaxTurns

\* One turn of run_agent_loop.
Take ==
    /\ loop = "asked"
    /\ \E blocks \in Replies :
         LET response == Response(server, blocks)
             calls    == CallsOf(response)
         IN  /\ reply' = blocks
             /\ ids' = ids + Len(Joined(blocks, CallsIn))
             /\ IF calls = <<>> THEN loop' = "done" /\ UNCHANGED <<messages, executed>>
                ELSE /\ messages' = messages \o <<Assistant(response.text, calls),
                                                  ToolMessage(Executed(calls))>>
                     /\ executed' = executed + Len(calls)
                     /\ loop' = IF LastTurn THEN "done" ELSE "ask"
    /\ status' = 200
    /\ UNCHANGED <<turns, server>>

ConversationNext == Ask \/ Fails \/ Take

ConversationSpec == ConversationInit /\ [][ConversationNext]_conversationVars
-----------------------------------------------------------------------------
(***************************************************************************)
(* Properties.                                                             *)
(***************************************************************************)
IdsOf(seq) == [k \in DOMAIN seq |-> seq[k].id]

\* "OpenAI expects one tool message per tool result": right behind a message
\* with calls come their results, each once and in order, and nowhere else.
OpenAiPairs(wire) ==
    \A k \in DOMAIN wire :
        /\ wire[k].calls # <<>> => \A i \in DOMAIN wire[k].calls :
              k + i \in DOMAIN wire /\ wire[k + i].answers = wire[k].calls[i].id
        /\ wire[k].role = "tool" => \E j \in 1 .. k - 1 :
              k - j \in DOMAIN wire[j].calls /\ wire[k].answers = wire[j].calls[k - j].id

UseIds(t) == Joined(t.blocks, LAMBDA b : IF b.type = "tool_use" THEN <<b.call.id>> ELSE <<>>)
ResultIds(t) == Joined(t.blocks, LAMBDA b : IF b.type = "tool_result" THEN <<b.id>> ELSE <<>>)

AnthropicPairs(wire) ==
    \A k \in DOMAIN wire :
        /\ UseIds(wire[k]) # <<>> =>
              k + 1 \in DOMAIN wire /\ ResultIds(wire[k + 1]) = UseIds(wire[k])
        /\ ResultIds(wire[k]) # <<>> =>
              k > 1 /\ ResultIds(wire[k]) = UseIds(wire[k - 1])

\* The ids made up here repeat from turn to turn, and turns of several
\* providers and of both kinds mix.  Still a request, whoever gets it, pairs
\* every call with its one result, no id is used twice between a call and its
\* result, and every output is on the wire.
ResultsAnswerCalls ==
    /\ \A k \in DOMAIN messages : IsInjective(IdsOf(messages[k].calls))
    /\ OpenAiPairs(OpenAiRequest(messages))
    /\ AnthropicPairs(AnthropicRequest(messages).messages)
    /\ LET wire == OllamaRequest(messages)
       IN  \A n \in 1 .. executed : \E k \in DOMAIN wire :
              wire[k].role = "tool" /\ \E i \in DOMAIN wire[k].text : wire[k].text[i] = n

\* What a reply adds up to when it is streamed, next to what complete returns.
StreamAgrees(adapter, blocks) ==
    LET streamed == Consumed(ChunksOf(adapter, blocks))
        whole    == Response(adapter, blocks)
        Same(s, w) ==
            /\ s.id = w.id /\ s.tool = w.tool
            /\ w.args = IF adapter = "openai" /\ ~ IsJson(s.args) THEN Null ELSE s.args
    IN  /\ streamed.text = whole.text
        /\ Len(streamed.calls) = Len(whole.calls)
        /\ \A i \in DOMAIN whole.calls : Same(streamed.calls[i], whole.calls[i])

\* A reply that is streamed adds up to the reply that complete returns: the same
\* text, and the same calls with the same arguments, in the same order, however
\* the pieces are cut -- but for OpenAI's arguments that are no JSON, which a
\* stream hands on as they are and complete replaces by Null.
StreamsAgree == \A adapter \in {"openai", "anthropic"} : StreamAgrees(adapter, reply)

\* configuration.md: "Transient failures (429, 5xx, timeouts, connection errors)
\* are retried".
TransientStatus == {408, 429, 500}
TransientIsRetried ==
    loop = "failed" /\ status \in TransientStatus => IsRetryable(StatusError(server, status))

\* That is so of every status and adapter but Anthropic's complete, which knows
\* a rate limit only; and no other status is retried.
OnlyTransientIsRetried ==
    loop = "failed" =>
        (IsRetryable(StatusError(server, status)) <=>
           /\ status \in TransientStatus
           /\ server = "anthropic" => status = 429)
=============================================================================
