---------------------------- MODULE ModelClients ----------------------------
(***************************************************************************)
(* The model clients: one call of stream_complete or complete, the         *)
(* requests it makes of the provider, and what the caller is shown.  The   *)
(* provider answers every request afresh, so two attempts may say          *)
(* different things.  A reply is the sequence of its server-sent events; a *)
(* request that does not stream returns the same reply in one piece.       *)
(* Header, URL and body layout are left out.                               *)
(***************************************************************************)
EXTENDS Integers, Sequences, FiniteSets, SequencesExt, Subsequences

CONSTANTS
    Replies,     \* what the provider may answer, each a sequence of events
    Documents,   \* the sequences of argument pieces that are a JSON object
    MaxRetries   \* model.max_retries

ASSUME ModelClientsAssumption ==
    /\ MaxRetries \in Nat
    /\ \A reply \in Replies : /\ reply \in Seq(Range(reply))
                             /\ \A event \in Range(reply) : event.index \in Int

VARIABLES
    protocol,    \* the protocol of the configured provider
    streaming,   \* whether the caller asked for tokens as they come
    phase,       \* where the call is
    attempt,     \* attempt of the loop it is in, from 0
    modelRequests,    \* requests made so far
    incoming,    \* events of the open stream not read yet
    emitted,     \* whether the stream has yielded an event
    content,     \* text of the reply under assembly
    pending,     \* tool calls under assembly, by index
    shown,       \* parts passed to on_token, each with its request
    result,      \* what the call returned
    said,        \* what the provider said in answer to the last request
    whole        \* whether every event it said was read

modelClientsVars == <<protocol, streaming, phase, attempt, modelRequests, incoming, emitted,
                      content, pending, shown, result, said, whole>>

streamVars == <<incoming, emitted, content, pending, shown, said, whole>>

\* The protocols create_model_client knows a client for.
Protocols == {"local", "openai-compatible", "anthropic", "gemini", "ollama", "bedrock"}

\* An event carries text, or a part of the tool call with this index.
Text(part) == [index |-> 0, name |-> "", part |-> part]
CallPart(index, name, part) == [index |-> index, name |-> name, part |-> part]
IsText(event) == event.index = 0

NoCalls == [i \in {} |-> [name |-> "", args |-> <<>>]]

\* A faulty AddPart: every part is added to the call begun last.
AddToLatest(calls, event) ==
    LET latest == IF DOMAIN calls = {} \/ event.name # ""
                  THEN event.index ELSE CHOOSE i \in DOMAIN calls : \A j \in DOMAIN calls : j <= i
        old == IF latest \in DOMAIN calls
               THEN calls[latest] ELSE [name |-> "", args |-> <<>>]
        new == [name |-> IF event.name = "" THEN old.name ELSE event.name,
                args |-> IF event.part = "" THEN old.args ELSE Append(old.args, event.part)]
    IN [i \in (DOMAIN calls) \cup {latest} |-> IF i = latest THEN new ELSE calls[i]]

\* One event added to the calls under assembly: parts of one call share an index.
AddPart(calls, event) ==
    LET old == IF event.index \in DOMAIN calls
               THEN calls[event.index] ELSE [name |-> "", args |-> <<>>]
        new == [name |-> IF event.name = "" THEN old.name ELSE event.name,
                args |-> IF event.part = "" THEN old.args ELSE Append(old.args, event.part)]
    IN [i \in (DOMAIN calls) \cup {event.index} |-> IF i = event.index THEN new ELSE calls[i]]

\* The events of a message read in order: stream_complete joins them.
Gather(calls, event) == IF IsText(event) THEN calls ELSE AddPart(calls, event)

\* The tool calls of a whole reply.
CallsOf(events) ==
    LET Calls[k \in 0..Len(events)] ==
            IF k = 0 THEN NoCalls ELSE Gather(Calls[k - 1], events[k])
    IN  Calls[Len(events)]

\* The place of an index among the indices of some calls.
Place(indices, i) == Cardinality({j \in indices : j <= i})

\* Tool calls in the order of their indices.
InOrder(calls) ==
    LET indices == DOMAIN calls
    IN  [k \in 1..Cardinality(indices) |->
            calls[CHOOSE i \in indices : Place(indices, i) = k]]

TextOf(events) == Filtered(events, {k \in DOMAIN events : IsText(events[k])})

\* A tool call needs a name, and arguments that are an object or missing.
Parses(call) == call.name # "" /\ call.args \in Documents \cup {<<>>}

-----------------------------------------------------------------------------

ModelClientsInit ==
    /\ protocol \in Protocols
    /\ streaming \in BOOLEAN
    /\ phase = "ready"
    /\ attempt = 0 /\ modelRequests = 0
    /\ incoming = <<>> /\ emitted = FALSE /\ content = <<>> /\ pending = NoCalls
    /\ shown = <<>> /\ result = <<>> /\ said = <<>> /\ whole = TRUE

\* Two clients read a stream of events; the others always ask for the whole reply.
Ask ==
    /\ phase = "ready" /\ protocol # "local"
    /\ phase' = IF streaming /\ protocol \in {"openai-compatible", "anthropic"}
                THEN "connect" ELSE "send"
    /\ UNCHANGED <<protocol, streaming, attempt, modelRequests, result, streamVars>>

\* build_request refuses a base URL outside the allowlist, a placeholder or an
\* unreadable vault; the offline provider answers by itself.
AnswerHere ==
    /\ phase = "ready"
    /\ IF protocol = "local"
       THEN /\ phase' = "done"
            /\ result' = [content |-> <<Text("demo")>>, calls |-> <<>>]
            /\ shown' = IF streaming THEN <<[request |-> 0, event |-> Text("demo")]>> ELSE <<>>
       ELSE phase' = "failed" /\ UNCHANGED <<result, shown>>
    /\ UNCHANGED <<protocol, streaming, attempt, modelRequests, incoming, emitted, content,
                   pending, said, whole>>

\* Open the stream: one POST of the attempt.
Connect(reply) ==
    /\ phase = "connect"
    /\ phase' = "stream"
    /\ modelRequests' = modelRequests + 1
    /\ incoming' = reply /\ said' = reply /\ whole' = TRUE
    /\ UNCHANGED <<protocol, streaming, attempt, emitted, content, pending, shown, result>>

\* Read the next event; tokens reach the caller at once.
ReadEvent ==
    /\ phase = "stream" /\ incoming # <<>>
    /\ incoming' = Tail(incoming) /\ emitted' = TRUE
    /\ IF IsText(Head(incoming))
       THEN /\ content' = Append(content, Head(incoming))
            /\ shown' = Append(shown, [request |-> modelRequests, event |-> Head(incoming)])
            /\ UNCHANGED pending
       ELSE pending' = AddPart(pending, Head(incoming)) /\ UNCHANGED <<content, shown>>
    /\ UNCHANGED <<protocol, streaming, phase, attempt, modelRequests, result, said, whole>>

\* A data line that is not JSON is skipped without a word.
SkipEvent ==
    /\ phase = "stream" /\ incoming # <<>>
    /\ incoming' = Tail(incoming) /\ whole' = FALSE
    /\ UNCHANGED <<protocol, streaming, phase, attempt, modelRequests, emitted, content, pending,
                   shown, result, said>>

\* A faulty StreamBreaks: a broken stream is always tried again.
StreamRestarts ==
    /\ phase \in {"connect", "stream"}
    /\ IF attempt < MaxRetries
       THEN phase' = "connect" /\ attempt' = attempt + 1
       ELSE IF emitted THEN phase' = "failed" /\ UNCHANGED attempt
                       ELSE phase' = "send" /\ attempt' = 0
    /\ modelRequests' = modelRequests + IF phase = "connect" THEN 1 ELSE 0
    /\ incoming' = <<>>
    /\ UNCHANGED <<protocol, streaming, emitted, content, pending, shown, result, said, whole>>

\* The connection or the status fails: tried again only while no event was
\* emitted, and with the attempts used up the reply is asked for in one piece.
StreamBreaks ==
    /\ phase \in {"connect", "stream"}
    /\ IF emitted
       THEN phase' = "failed" /\ UNCHANGED attempt
       ELSE IF attempt < MaxRetries
            THEN phase' = "connect" /\ attempt' = attempt + 1
            ELSE phase' = "send" /\ attempt' = 0
    /\ modelRequests' = modelRequests + IF phase = "connect" THEN 1 ELSE 0
    /\ incoming' = <<>>
    /\ UNCHANGED <<protocol, streaming, emitted, content, pending, shown, result, said, whole>>

\* The stream closes: at the end of the reply, or early, which looks the same.
StreamEnds ==
    /\ phase = "stream"
    /\ whole' = (whole /\ incoming = <<>>)
    /\ incoming' = <<>>
    /\ IF ~emitted
       THEN phase' = "send" /\ attempt' = 0 /\ UNCHANGED result
       ELSE /\ UNCHANGED attempt
            /\ IF \A i \in DOMAIN pending : Parses(pending[i])
               THEN /\ phase' = "done"
                    /\ result' = [content |-> content, calls |-> InOrder(pending)]
               ELSE phase' = "failed" /\ UNCHANGED result
    /\ UNCHANGED <<protocol, streaming, modelRequests, emitted, content, pending, shown, said>>

\* Streamed tool calls that are not a list end the call.
StreamMalformed ==
    /\ phase = "stream" /\ incoming # <<>>
    /\ phase' = "failed"
    /\ UNCHANGED <<protocol, streaming, attempt, modelRequests, result, streamVars>>

\* complete(): the whole reply of one request; only three protocols read tool
\* calls from it beside OpenAI's, and a malformed reply is an error.
SendWhole(reply) ==
    /\ phase = "send"
    /\ modelRequests' = modelRequests + 1
    /\ said' = reply /\ whole' = TRUE
    /\ LET calls == IF protocol = "ollama" THEN NoCalls ELSE CallsOf(reply)
           text == TextOf(reply)
       IN IF \A i \in DOMAIN calls : Parses(calls[i])
          THEN /\ phase' = "done"
               /\ result' = [content |-> text, calls |-> InOrder(calls)]
               /\ shown' = shown \o (IF streaming
                                     THEN [i \in DOMAIN text |->
                                              [request |-> modelRequests', event |-> text[i]]]
                                     ELSE <<>>)
          ELSE phase' = "failed" /\ UNCHANGED <<result, shown>>
    /\ UNCHANGED <<protocol, streaming, attempt, incoming, emitted, content, pending>>

\* A timeout, a lost connection, HTTP 429 or 5xx is tried again after a pause;
\* the Bedrock library retries by itself.
SendBreaks ==
    /\ phase = "send"
    /\ modelRequests' = modelRequests + 1
    /\ IF attempt < MaxRetries /\ protocol # "bedrock"
       THEN attempt' = attempt + 1 /\ UNCHANGED phase
       ELSE phase' = "failed" /\ UNCHANGED attempt
    /\ UNCHANGED <<protocol, streaming, result, streamVars>>

\* Any other status, malformed JSON or an unexpected shape ends the call.
SendRefused ==
    /\ phase = "send"
    /\ modelRequests' = modelRequests + 1
    /\ phase' = "failed"
    /\ UNCHANGED <<protocol, streaming, attempt, result, streamVars>>

ModelClientsNext ==
    \/ Ask \/ AnswerHere \/ ReadEvent \/ SkipEvent \/ StreamBreaks \/ StreamEnds
    \/ StreamMalformed
    \/ SendBreaks \/ SendRefused
    \/ \E reply \in Replies : Connect(reply) \/ SendWhole(reply)

ModelClientsSpec == ModelClientsInit /\ [][ModelClientsNext]_modelClientsVars

-----------------------------------------------------------------------------

\* The tokens a caller was shown come from one answer of the provider, in its
\* order and none twice, however often the request was repeated; and the text
\* returned at the end is what was shown ("retrying could duplicate model
\* output and tool calls", BaseModelClient._stream_events).
TokensOnce ==
    /\ \A i \in DOMAIN shown : shown[i].request = modelRequests
    /\ shown # <<>> /\ modelRequests > 0 =>
          LET parts == [i \in DOMAIN shown |-> shown[i].event] IN
          /\ whole => IsPrefix(parts, TextOf(said))
          /\ phase = "done" => result.content = parts

\* These are the calls of the events, in the order of their indices, and the
\* arguments of each are the parts with its index.
CallsSaid(calls, events) ==
    LET sent == {e.index : e \in {e \in Range(events) : ~IsText(e)}}
        PartsOf(i) == Filtered(events, {k \in DOMAIN events : /\ events[k].index = i
                                                             /\ events[k].part # ""})
    IN /\ Len(calls) = Cardinality(sent)
       /\ \A i \in sent : LET args == calls[Place(sent, i)].args IN
             /\ Len(args) = Len(PartsOf(i))
             /\ \A k \in DOMAIN PartsOf(i) : args[k] = PartsOf(i)[k].part

\* Tool calls whose parts arrive interleaved are each put together from their
\* own parts: if every event was read, the calls returned are the provider's.
ToolCallsWhole ==
    phase = "done" /\ whole /\ protocol \notin {"local", "ollama"} =>
        CallsSaid(result.calls, said)

\* A reply that was streamed is the provider's: its text and its tool calls.
ReplyWhole == TokensOnce /\ ToolCallsWhole
=============================================================================
