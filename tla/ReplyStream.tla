----------------------------- MODULE ReplyStream -----------------------------
(* One reply of the gateway, from the events of the agent to the messages in   *)
(* the user's chat: a backend (HTTP, Codex, a command line program, echo)      *)
(* yields events, the pipeline (pipeline.rs, pipeline/streaming.rs) turns them *)
(* into calls of a sink, and the sink of WeChat or Telegram cuts the text into *)
(* messages and sends them, each of which may fail.                            *)
(*                                                                             *)
(* A text is a sequence of characters: Break stands for a paragraph break,     *)
(* Stop for the end of a sentence, the members of Wide take three bytes.  The  *)
(* steps of one reply follow each other in one task, so that an action is one  *)
(* event, or one call of the chat.                                             *)
EXTENDS Integers, SequencesExt

CONSTANTS
  Routes,       \* "wechat", "telegram" and the two with streaming switched on
  Sources,      \* the backends: "http", "codex", "cli", "echo"
  Texts,        \* the texts an agent can finish
  Deltas,       \* what it can say at a time while it writes one
  Wide,         \* the characters of three bytes
  Prefix,       \* bot_prefix, a text
  MaxChars,     \* WECHAT_TEXT_CHUNK_CHARS
  MaxBytes,     \* SEND_CHUNK_SIZE
  MaxMessage,   \* MAX_MESSAGE_LENGTH
  MaxOutput,    \* max_output_kb, in bytes
  MaxEvents,    \* bound: events of one reply
  MaxTroubles   \* bound: calls that fail

Break == "br"
Stop  == "."
Placeholder == <<"*">>
Ellipsis    == <<"_", "_", "_">>
NoResponse  == <<"?">>
Denied      == <<"!">>
Question    == <<"q">>
TimedOut    == <<"t">>
Ids   == {1, 2}      \* the ids of messages an agent announces
NoId  == 0
Fresh == 3           \* an id nothing was announced with

ASSUME ReplyAssumption ==
  /\ Routes \subseteq {"wechat", "wechat stream", "telegram", "telegram stream"}
  /\ Sources \subseteq {"http", "codex", "cli", "echo"}
  /\ <<>> \notin Texts
  /\ \A t \in Texts \cup Deltas \cup {Prefix} : t \in Seq(Range(t))
  /\ Range(Ellipsis) \cap Wide = {}
  /\ {MaxChars, MaxBytes, MaxMessage, MaxOutput} \subseteq Nat \ {0}
  /\ MaxBytes <= MaxMessage /\ MaxMessage > 4
  /\ MaxEvents \in Nat /\ MaxTroubles \in Nat

VARIABLES
  route, source,
  agent,      \* the backend: the messages it is writing, its end, a question
              \* that waits, the number of events
  coming,     \* events yielded and not handled
  typed,      \* msg_id_to_type: ids with deltas to come
  buffers,    \* the text of each message under way
  segments,   \* pending_segments; every text completed
  spoken,     \* history: what on_stream_end was called with
  last,       \* last_text of process_native
  parts,      \* the texts of the parts; only the last message has to be known
  sink,       \* the fields of the sink in use
  outbox,     \* calls the handler of the last event still has to make
  chat,       \* the messages the user sees, <<>> for a deleted one
  stage,      \* "reading", "closing", then "ok", "error" or "panicked"
  troubles,   \* calls that failed
  hidden      \* a failed call that the code takes for a success

vars == <<route, source, agent, coming, typed, buffers, segments, spoken, last,
          parts, sink, outbox, chat, stage, troubles, hidden>>
agentVars == <<agent, coming>>
pipeVars  == <<typed, buffers, segments, spoken, last, parts>>
sinkVars  == <<sink, outbox>>
chatVars  == <<chat, troubles, hidden>>
fixed     == <<route, source>>

Streaming == route \in {"wechat stream", "telegram stream"}
WeChat    == route \in {"wechat", "wechat stream"}
-----------------------------------------------------------------------------
(* Texts.                                                                      *)

Bytes(t) == Len(t) + 2 * Cardinality({i \in DOMAIN t : t[i] \in Wide})

\* str::trim: Break is the only white space.
Trim(t) ==
  LET ink == {i \in DOMAIN t : t[i] # Break}
  IN  IF ink = {} THEN <<>> ELSE SubSeq(t, Min(ink), Max(ink))

\* The texts joined by paragraph breaks.
Joined(texts) ==
  FlattenSeq([i \in DOMAIN texts |-> IF i = 1 THEN texts[i] ELSE <<Break>> \o texts[i]])

\* Slip: takes a chunk as full when one more character came.
SplitEndOver(t, i) ==
  LET window == i..(i + MaxChars)
      breaks == {j \in window \cap DOMAIN t : t[j] = Break}
  IN  IF Len(t) - i <= MaxChars THEN Len(t)
      ELSE IF breaks # {} THEN Max(breaks) ELSE i + MaxChars

\* find_split_end: where the chunk that starts at i ends.  The last break in
\* the window, else a sentence that ends near the limit, else the limit.
SplitEnd(t, i) ==
  LET window == i..(i + MaxChars - 1)
      near   == Max({MaxChars - 150, (2 * MaxChars) \div 3})
      breaks == {j \in window : t[j] = Break}
      stops  == {j \in window : t[j] = Stop /\ j - i + 1 >= near}
  IN  CASE Len(t) - i + 1 <= MaxChars -> Len(t)
        [] Len(t) - i + 1 > MaxChars ->
             IF breaks # {} THEN Max(breaks)
             ELSE IF stops # {} THEN Max(stops) ELSE i + MaxChars - 1

\* The chunks of a text, as long as `least` characters are left of it.
Chunks(t, least) ==
  LET from[i \in 1..(Len(t) + 1)] ==
        IF Len(t) - i + 1 < least THEN <<>>
        ELSE <<SubSeq(t, i, SplitEnd(t, i))>> \o from[SplitEnd(t, i) + 1]
  IN  from[1]

\* split_text_chars.
SplitChars(t) == IF t = <<>> THEN <<t>> ELSE Chunks(t, 1)

\* take_full_chunks: the chunks of a buffer and what is left in it.
FullChunks(t) ==
  LET chunks == Chunks(t, MaxChars)
  IN  [chunks |-> chunks, rest |-> SubSeq(t, Len(FlattenSeq(chunks)) + 1, Len(t))]

\* split_text cuts at bytes: Torn stands for a cut inside a character, where
\* the slice panics.
Torn == <<"torn">>
SplitBytes(t) ==
  LET upTo(i, j) == Bytes(SubSeq(t, i, j))
      from[i \in 1..(Len(t) + 1)] ==
        LET fits   == {j \in i..Len(t) : upTo(i, j) <= MaxBytes}
            full   == {j \in fits : upTo(i, j) = MaxBytes}
            breaks == {j \in fits : t[j] = Break}
            end    == IF breaks # {} THEN Max(breaks) ELSE Max(full)
        IN  IF i > Len(t) THEN <<>>
            ELSE IF upTo(i, Len(t)) <= MaxBytes THEN <<SubSeq(t, i, Len(t))>>
            ELSE IF full = {} THEN <<Torn>>
            ELSE <<SubSeq(t, i, end)>> \o from[end + 1]
  IN  IF Bytes(t) <= MaxBytes THEN <<t>> ELSE from[1]

\* on_stream_delta shows the end of a long text behind an ellipsis.
Shown(t) ==
  LET room  == MaxMessage - 4
      whole == {i \in DOMAIN t : Bytes(SubSeq(t, i, Len(t))) = room}
  IN  IF Bytes(t) <= MaxMessage THEN t
      ELSE IF whole = {} THEN Torn
      ELSE Ellipsis \o SubSeq(t, Max(whole), Len(t))
-----------------------------------------------------------------------------
(* The start of a reply.                                                       *)

Call(op, text, at) == [op |-> op, text |-> text, at |-> at]
Event(kind, id, text, content) ==
  [kind |-> kind, id |-> id, text |-> text, content |-> content]

\* WeChatStreamSink and TelegramStreamSink: "sent" is message_streamed (and
\* prefix_sent), "bubble" the message of message_ids, 0 for none.
EmptySink == [seen |-> {}, buffer |-> <<>>, sent |-> FALSE, failed |-> 0,
              bubble |-> 0]

\* What check_blocked_with_flags looks at: the switches for private chats and
\* groups, whether the channel has lists, and whether they name the sender.
Senders == [group : BOOLEAN, dmAcl : BOOLEAN, groupAcl : BOOLEAN,
            listed : BOOLEAN, black : BOOLEAN, white : BOOLEAN]

\* check_blocked_with_flags: a black list outweighs a white list, and who is on
\* neither may not ask.
Blocked(sender) ==
  /\ IF sender.group THEN sender.groupAcl ELSE sender.dmAcl
  /\ sender.listed
  /\ sender.black \/ ~sender.white

\* The reply to a blocked sender is the refusal, and no backend is asked.
Init ==
  \E blocked \in {Blocked(sender) : sender \in Senders} :
    /\ route \in Routes /\ source \in Sources
    /\ agent = [open |-> {}, over |-> blocked, asking |-> FALSE, asked |-> FALSE,
                n |-> 0]
    /\ coming = <<>> /\ typed = {} /\ buffers = <<>>
    /\ segments = IF blocked THEN <<Denied>> ELSE <<>>
    /\ last = IF blocked THEN Denied ELSE <<>>
    /\ parts = segments
    /\ spoken = <<>>
    /\ sink = EmptySink /\ outbox = <<>>
    /\ chat = <<>> /\ stage = "reading" /\ troubles = 0 /\ hidden = FALSE
-----------------------------------------------------------------------------
(* The backends.  An event is asked for when the last one is handled.          *)

Polled ==
  /\ stage = "reading" /\ ~agent.over /\ ~agent.asking
  /\ coming = <<>> /\ outbox = <<>>
  /\ UNCHANGED <<fixed, pipeVars, sinkVars, chatVars, stage>>

Talks(backend) == source = backend /\ agent.n < MaxEvents /\ Polled
Yield(event) == coming' = <<event>>
Counted(a) == [a EXCEPT !.n = @ + 1]
Without(f, k) == [i \in DOMAIN f \ {k} |-> f[i]]
With(f, k, v) == [i \in DOMAIN f \cup {k} |-> IF i = k THEN v ELSE f[i]]

\* A message in progress; what it holds is not looked at.
HttpAnnounces ==
  /\ Talks("http")
  /\ \E id \in (Ids \cup {NoId}) \ agent.open :
       /\ agent' = Counted([agent EXCEPT !.open = @ \cup {id}])
       /\ Yield(Event("announced", id, <<>>, FALSE))

\* What is said next of a message; a delta without msg_id has nowhere to go.
HttpStreams ==
  /\ Talks("http")
  /\ agent' = Counted(agent)
  /\ \E id \in agent.open, t \in Deltas : Yield(Event("delta", id, t, FALSE))

\* The text of a message and whether it has content: a text has, and so has a
\* message whose text block is empty.
Messages == {m \in [text : Texts \cup {<<>>}, content : BOOLEAN] :
               m.text # <<>> => m.content}

\* A message that was announced is completed, or failed; nothing binds its text
\* to its deltas.
HttpCompletes ==
  /\ Talks("http")
  /\ \E id \in agent.open, kind \in {"completed", "failed"}, m \in Messages :
       /\ agent' = Counted([agent EXCEPT !.open = @ \ {id}])
       /\ Yield(Event(kind, id, m.text, m.content))

\* parts_from_output: the output of the response, or a message that was not
\* announced.
HttpSpeaks ==
  /\ Talks("http")
  /\ agent' = Counted(agent)
  /\ \E kind \in {"completed", "failed"}, m \in Messages :
       Yield(Event(kind, Fresh, m.text, m.content))

\* A status that is no success, a line that is no JSON, a connection that broke.
HttpFails ==
  /\ Talks("http")
  /\ agent' = Counted(agent)
  /\ Yield(Event("error", Fresh, <<>>, FALSE))

StreamEnds(backend) ==
  /\ source = backend /\ Polled
  /\ agent' = [agent EXCEPT !.over = TRUE]
  /\ UNCHANGED coming

\* sse_json_stream: the lines of the response are over.
HttpEnds == StreamEnds("http")

\* item/completed of an agent message, or the notice that ends a failed turn.
CodexSpeaks ==
  /\ Talks("codex")
  /\ \E t \in Texts, notice \in BOOLEAN :
       /\ agent' = Counted([agent EXCEPT !.over = notice])
       /\ Yield(Event("completed", Fresh, t, notice))

\* server_request_handler: the question goes into the stream, and the turn
\* waits for the answer.
CodexAsks ==
  /\ Talks("codex")
  /\ agent' = Counted([agent EXCEPT !.asking = TRUE, !.asked = TRUE])
  /\ Yield(Event("completed", Fresh, Question, TRUE))

\* The question is handled and nothing has answered it.
Waits ==
  agent.asking /\ coming = <<>> /\ outbox = <<>> /\ stage = "reading"
QuestionSeen == \E m \in Range(chat) : Contains(m, Question[1])

\* The user answers a question that can be read in the chat, or the deadline
\* of the turn ends the wait.
AnswerOrDeadline ==
  /\ Waits
  /\ \/ /\ QuestionSeen
        /\ agent' = [agent EXCEPT !.asking = FALSE]
        /\ UNCHANGED coming
     \/ /\ agent' = [agent EXCEPT !.asking = FALSE, !.over = TRUE]
        /\ Yield(Event("completed", Fresh, TimedOut, TRUE))
  /\ UNCHANGED <<fixed, pipeVars, sinkVars, chatVars, stage>>

\* append_output: what fits of the output; a cut inside a character panics.
Output(t) ==
  LET cut == {i \in 0..Len(t) : Bytes(SubSeq(t, 1, i)) = MaxOutput}
  IN  IF Bytes(t) < MaxOutput THEN t
      ELSE IF cut = {} THEN Torn ELSE SubSeq(t, 1, Max(cut))

\* A request of a command line program has one answer.
CliAnswers ==
  /\ Talks("cli")
  /\ agent' = Counted([agent EXCEPT !.over = TRUE])

\* parse_command finds no prompt: the help, the runners, or what is wrong.
CliHelps ==
  CliAnswers /\ \E t \in Texts : Yield(Event("completed", Fresh, t, TRUE))

\* handle_request: a sender who may not run programs, a runner that is not
\* configured, or an error that kept the program from running.
CliRefuses ==
  CliAnswers /\ Yield(Event("completed", Fresh, Denied, TRUE))

\* execute_process: the whole output once the program has ended, as a failed
\* message when its exit status says so; no output is no message.
CliPrints ==
  /\ CliAnswers
  /\ \/ \E t \in Texts, kind \in {"completed", "failed"} :
          Yield(Event(kind, NoId, Output(t), FALSE))
     \/ coming' = <<>>

\* run_cli_agent: the program has used up its time.
CliTimesOut ==
  CliAnswers /\ Yield(Event("failed", NoId, TimedOut, FALSE))

\* The echo announces a message without an id and completes one with an id.
Echoes ==
  /\ Talks("echo")
  /\ agent' = Counted([agent EXCEPT !.over = TRUE])
  /\ \E t \in Texts :
       coming' = <<Event("announced", NoId, <<>>, FALSE),
                   Event("completed", Fresh, t, TRUE)>>

\* on_turn_completed.
CodexEnds == StreamEnds("codex")
-----------------------------------------------------------------------------
(* The pipeline.                                                               *)

\* Slip: a text is sent although it was sent before.
AppendAgain(s, text) ==
  LET t == Trim(text)
      f == FullChunks(IF s.buffer = <<>> THEN t ELSE s.buffer \o <<Break>> \o t)
  IN  [sink |-> [s EXCEPT !.seen = @ \cup {t}, !.buffer = f.rest],
       calls |-> [i \in DOMAIN f.chunks |-> Call("send", f.chunks[i], 0)]]

\* append_segment and flush_full_chunks: a text not seen before joins the
\* buffer, and full chunks leave it.
AppendSegment(s, text) ==
  LET t == Trim(text)
      f == FullChunks(IF s.buffer = <<>> THEN t ELSE s.buffer \o <<Break>> \o t)
  IN  IF t = <<>> \/ t \in s.seen THEN [sink |-> s, calls |-> <<>>]
      ELSE [sink |-> [s EXCEPT !.seen = @ \cup {t}, !.buffer = f.rest],
            calls |-> [i \in DOMAIN f.chunks |-> Call("send", f.chunks[i], 0)]]

\* Slip: the placeholder of a long text is deleted, the text not sent.
LongEndMute(text, at) == <<Call("delete", <<>>, at)>>

\* A text too long for an edit takes the place of its placeholder.
LongEnd(text, at) == <<Call("delete", <<>>, at), Call("send", text, 0)>>

\* on_stream_end of Telegram: the text replaces the placeholder, if there is one.
TelegramEnd(s, text) ==
  IF s.bubble = 0 THEN [sink |-> s, calls |-> <<Call("send", text, 0)>>]
  ELSE [sink |-> [s EXCEPT !.bubble = 0, !.sent = TRUE],
        calls |-> IF Bytes(text) <= MaxBytes
                  THEN <<Call("final", text, s.bubble)>>
                  ELSE LongEnd(text, s.bubble)]

OnStreamEnd(text) ==
  IF WeChat THEN AppendSegment(sink, text) ELSE TelegramEnd(sink, text)

Do(made) == sink' = made.sink /\ outbox' = made.calls
Nothing  == [sink |-> sink, calls |-> <<>>]

\* The next event of the stream.
Taken(kind) ==
  /\ stage = "reading" /\ coming # <<>> /\ outbox = <<>>
  /\ coming[1].kind = kind /\ coming[1].text # Torn
  /\ coming' = Tail(coming)
  /\ UNCHANGED <<fixed, agent, chatVars>>

\* on_stream_start: Telegram shows a placeholder.
OnStreamStart ==
  [sink  |-> sink,
   calls |-> IF WeChat THEN <<>> ELSE <<Call("place", Placeholder, 0)>>]

\* on_stream_delta: Telegram shows the text so far, unless it did so a moment
\* ago; a text sliced inside a character takes the task down.
OnStreamDelta(text) ==
  \/ UNCHANGED <<sinkVars, stage>>
  \/ /\ ~WeChat /\ sink.bubble # 0 /\ sink' = sink
     /\ IF Shown(text) = Torn
        THEN stage' = "panicked" /\ outbox' = <<>>
        ELSE /\ outbox' = <<Call("edit", Shown(text), sink.bubble)>>
             /\ UNCHANGED stage

\* A message in progress opens its buffer.
TakeAnnounced ==
  /\ Taken("announced")
  /\ LET id == coming[1].id
     IN  IF Streaming
         THEN /\ buffers' = With(buffers, id, <<>>)
              /\ typed' = typed \cup ({id} \ {NoId})
              /\ Do(OnStreamStart)
         ELSE UNCHANGED <<buffers, typed, sinkVars>>
  /\ UNCHANGED <<segments, spoken, last, parts, stage>>

\* A delta joins the buffer of its message.
TakeDelta ==
  /\ Taken("delta")
  /\ LET id   == coming[1].id
         text == buffers[id] \o coming[1].text
     IN  IF ~Streaming \/ id \notin typed \cap DOMAIN buffers
         THEN UNCHANGED <<buffers, sinkVars, stage>>
         ELSE /\ buffers' = [buffers EXCEPT ![id] = text]
              /\ OnStreamDelta(text)
  /\ UNCHANGED <<typed, segments, spoken, last, parts>>

\* A completed message ends its buffer.  What its deltas said counts, else its
\* own text; that is also kept for the reply at the end.
TakeCompleted ==
  /\ Taken("completed")
  /\ LET e     == coming[1]
         said  == IF e.id \in DOMAIN buffers THEN buffers[e.id] ELSE <<>>
         final == IF said # <<>> THEN said ELSE e.text
     IN  /\ IF Streaming
            THEN /\ buffers' = Without(buffers, e.id)
                 /\ typed' = typed \ {e.id}
                 /\ spoken' = IF final = <<>> THEN spoken ELSE Append(spoken, final)
                 /\ Do(IF final = <<>> THEN Nothing ELSE OnStreamEnd(final))
                 /\ segments' = IF e.text = <<>> THEN segments
                                ELSE Append(segments, e.text)
                 /\ parts' = IF e.content \/ e.text # <<>> THEN <<e.text>> ELSE parts
                 /\ UNCHANGED last
            ELSE /\ last' = IF e.text = <<>> THEN last ELSE e.text
                 /\ parts' = IF e.content THEN <<e.text>> ELSE parts
                 /\ UNCHANGED <<buffers, typed, spoken, segments, sinkVars>>
  /\ UNCHANGED stage

\* A failed message: process_native takes it, process_with_sink does not.
TakeFailed ==
  /\ Taken("failed")
  /\ IF Streaming THEN UNCHANGED <<last, parts>>
     ELSE /\ last' = IF coming[1].text = <<>> THEN last ELSE coming[1].text
          /\ parts' = IF coming[1].content THEN <<coming[1].text>> ELSE parts
  /\ UNCHANGED <<typed, buffers, segments, spoken, sinkVars, stage>>

\* A failed response, or no event at all, ends the reply where it is.
TakeError ==
  /\ Taken("error")
  /\ stage' = "error"
  /\ UNCHANGED <<pipeVars, sinkVars>>

\* The output of a program that was cut inside a character takes the task down
\* before an event exists.
AgentPanics ==
  /\ coming # <<>> /\ coming[1].text = Torn /\ stage = "reading"
  /\ stage' = "panicked" /\ coming' = <<>>
  /\ UNCHANGED <<fixed, agent, pipeVars, sinkVars, chatVars>>

\* flush_remainder.
Rest(s) == IF s.buffer = <<>> THEN <<>> ELSE <<Call("send", s.buffer, 0)>>

\* on_completed: WeChat sends the whole reply when nothing was sent and nothing
\* waits, and then the rest of its buffer; Telegram when no text took the place
\* of a placeholder.
OnCompleted(text) ==
  IF WeChat
  THEN LET more == IF ~sink.sent /\ sink.buffer = <<>>
                   THEN AppendSegment(sink, text) ELSE Nothing
       IN  [sink  |-> [more.sink EXCEPT !.buffer = <<>>],
            calls |-> more.calls \o Rest(more.sink)]
  ELSE [sink |-> sink,
        calls |-> IF sink.sent \/ text = <<>> THEN <<>> ELSE <<Call("send", text, 0)>>]

\* Neither a text nor a part came, not even an empty one.
Silent == last = <<>> /\ segments = <<>> /\ parts = <<>>

\* The text of the reply: a notice stands for silence.
Whole  == IF Silent THEN NoResponse ELSE Joined(segments)
Answer == IF Silent THEN NoResponse ELSE last

\* send_reply of the reply of process_native: WeChat its text, be it empty,
\* Telegram the text of its parts, or its text when they have none.
PlainReply == IF WeChat \/ parts \in {<<>>, <<<<>>>>} THEN Answer ELSE parts[1]
SendReply ==
  [sink  |-> sink,
   calls |-> IF ~WeChat /\ PlainReply = <<>> THEN <<>>
             ELSE <<Call("send", PlainReply, 0)>>]

\* The stream is over.  Without streaming, WeChat takes silence for an error.
StreamOver ==
  /\ stage = "reading" /\ agent.over /\ coming = <<>> /\ outbox = <<>>
  /\ IF ~Streaming /\ WeChat /\ Silent
     THEN stage' = "error" /\ UNCHANGED sinkVars
     ELSE stage' = "closing" /\ Do(IF Streaming THEN OnCompleted(Whole) ELSE SendReply)
  /\ UNCHANGED <<fixed, agent, coming, pipeVars, chatVars>>

Finish(result) ==
  /\ stage = "closing" /\ outbox = <<>>
  /\ stage' = result
  /\ UNCHANGED <<fixed, agentVars, pipeVars, sinkVars, chatVars>>

\* process_wechat_message reports the sends that failed.
FinishWeChat == WeChat /\ Finish(IF sink.failed > 0 THEN "error" ELSE "ok")

\* process_telegram_message: only a send that succeeds comes this far.
FinishTelegram == ~WeChat /\ Finish("ok")
-----------------------------------------------------------------------------
(* The calls of the chat.                                                      *)

Calling(op) ==
  /\ stage \in {"reading", "closing"} /\ outbox # <<>>
  /\ outbox[1].op = op
  /\ UNCHANGED <<fixed, agentVars, pipeVars>>

Goes  == UNCHANGED troubles
Fails == troubles < MaxTroubles /\ troubles' = troubles + 1

\* The parts of a text: the first n arrive.
Sent(pieces, n) ==
  /\ chat' = chat \o SubSeq(pieces, 1, n)
  /\ IF n = Len(pieces) THEN Goes ELSE Fails

\* dispatch_send and send_reply of WeChat: the prefix goes in front of the
\* first text sent.  The streaming sink passes over an empty text, counts a
\* failure and goes on.
SendWeChat ==
  /\ WeChat /\ Calling("send")
  /\ LET text == IF Streaming THEN Trim(outbox[1].text) ELSE outbox[1].text
         body == IF sink.sent THEN text ELSE Prefix \o text
         pieces == IF Streaming /\ text = <<>> THEN <<>> ELSE SplitChars(body)
     IN  \E n \in 0..Len(pieces) :
           /\ Sent(pieces, n)
           /\ outbox' = Tail(outbox)
           /\ sink' = IF n < Len(pieces) THEN [sink EXCEPT !.failed = @ + 1]
                      ELSE [sink EXCEPT !.sent = @ \/ pieces # <<>>]
  /\ UNCHANGED <<stage, hidden>>

\* send_text of Telegram: a send that fails is the end of the reply, a text
\* split inside a character of the task.
SendTelegram ==
  /\ ~WeChat /\ Calling("send")
  /\ LET pieces == SplitBytes(Prefix \o outbox[1].text)
     IN  IF Torn \in Range(pieces)
         THEN stage' = "panicked" /\ outbox' = <<>> /\ UNCHANGED <<chat, troubles>>
         ELSE \E n \in 0..Len(pieces) :
                /\ Sent(pieces, n)
                /\ IF n = Len(pieces) THEN outbox' = Tail(outbox) /\ UNCHANGED stage
                   ELSE outbox' = <<>> /\ stage' = "error"
  /\ UNCHANGED <<sink, hidden>>

\* send_placeholder: one that fails leaves the message without.
Place ==
  /\ Calling("place")
  /\ outbox' = Tail(outbox)
  /\ \/ Goes /\ chat' = Append(chat, Placeholder)
             /\ sink' = [sink EXCEPT !.bubble = Len(chat) + 1]
     \/ Fails /\ UNCHANGED <<chat, sink>>
  /\ UNCHANGED <<stage, hidden>>

\* edit_stream_message_inner shows the placeholder for a text that is blank.
EditBody(text) == IF Trim(text) = <<>> THEN Placeholder ELSE text

\* edit_stream_message, edit_stream_message_final and delete_message: whether
\* they fail is never looked at.
Change ==
  /\ \E op \in {"edit", "final", "delete"} : Calling(op)
  /\ outbox' = Tail(outbox)
  /\ \/ Goes /\ chat' = [chat EXCEPT ![outbox[1].at] =
                            IF outbox[1].op = "delete" THEN <<>>
                            ELSE EditBody(outbox[1].text)]
             /\ UNCHANGED hidden
     \/ Fails /\ UNCHANGED chat
              /\ hidden' = (hidden \/ outbox[1].op = "final")
  /\ UNCHANGED <<sink, stage>>
-----------------------------------------------------------------------------
Next ==
  \/ HttpAnnounces \/ HttpStreams \/ HttpCompletes \/ HttpSpeaks
  \/ HttpFails \/ HttpEnds
  \/ CodexSpeaks \/ CodexAsks \/ AnswerOrDeadline \/ CodexEnds
  \/ CliHelps \/ CliRefuses \/ CliPrints \/ CliTimesOut \/ Echoes \/ AgentPanics
  \/ TakeAnnounced \/ TakeDelta \/ TakeCompleted \/ TakeFailed \/ TakeError
  \/ StreamOver \/ FinishWeChat \/ FinishTelegram
  \/ SendWeChat \/ SendTelegram \/ Place \/ Change

Spec == Init /\ [][Next]_vars
-----------------------------------------------------------------------------
(* Properties.                                                                 *)

\* What of a text can be read: all but the breaks.
Ink(t) == FlattenSeq([i \in DOMAIN t |-> IF t[i] = Break THEN <<>> ELSE <<t[i]>>])
Read == Ink(FlattenSeq(chat))

\* Each text once, where it came first.
Distinct(texts) ==
  FlattenSeq([i \in DOMAIN texts |->
    IF \E j \in 1..(i - 1) : Trim(texts[j]) = Trim(texts[i]) THEN <<>>
    ELSE texts[i]])

\* What the agent said, or the notice that it said nothing.
Said ==
  IF ~Streaming THEN Answer
  ELSE IF \A t \in Range(spoken) : Trim(t) = <<>> THEN Whole
  ELSE Distinct(spoken)

(* A WeChat reply that ends without an error is, message after message, the    *)
(* prefix and what the agent said: each text once, in the order in which the   *)
(* agent finished them, however often they were repeated and wherever they     *)
(* were cut, the prefix in front of the first message that came and of no      *)
(* other, and nothing that failed to be sent is passed over (WeChatStreamSink, *)
(* process_native, send_reply).                                                *)
WeChatSaysItOnce ==
  (WeChat /\ stage = "ok") =>
    Read = Ink(IF chat = <<>> THEN Said ELSE Prefix \o Said)

(* A Telegram reply that ends without an error holds every text the agent      *)
(* finished, whatever placeholders, edits and unannounced messages were mixed, *)
(* unless the last edit of a message failed (TelegramStreamSink, send.rs).     *)
(* Without streaming it holds the last text, except after a question of Codex, *)
(* whose parts take its place.  With streaming the question of a turn that     *)
(* waits for its answer can be read; the other ways to the chat show it only   *)
(* when the turn is over.                                                      *)
TelegramKeepsItAll ==
  /\ (~WeChat /\ stage = "ok" /\ ~hidden) =>
       \A t \in (IF Streaming THEN Range(spoken)
                ELSE IF agent.asked THEN {} ELSE {Answer}) :
         \E i \in 0..Len(Read) : IsPrefix(Ink(t), SubSeq(Read, i + 1, Len(Read)))
  /\ (route = "telegram stream" /\ Waits) => QuestionSeen

(* No message is longer than its platform takes, wherever a text is cut, and   *)
(* what the streaming sink of WeChat sends is never empty (split_text_chars,   *)
(* take_full_chunks, dispatch_send, split_text, on_stream_delta).              *)
FitsTheChat ==
  \A i \in DOMAIN chat :
    IF WeChat THEN Len(chat[i]) <= MaxChars /\ (Streaming => chat[i] # <<>>)
    ELSE Bytes(chat[i]) <= MaxMessage

=============================================================================
