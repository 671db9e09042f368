---------------------------- MODULE AnswerStream ----------------------------
(***************************************************************************)
(* A cloud answer from the bytes of the response: collected into the       *)
(* events of a turn, which are spoken and remembered (anthropic.rs,        *)
(* collect_messages; daemon.rs, the single-client end of handle_turn_user  *)
(* and publish_partial_sentences), or streamed as they arrive              *)
(* (stream_messages, EventStream, SseDecoder), which the daemon does not   *)
(* do yet.                                                                 *)
(*                                                                         *)
(* A byte is one of the bytes of a two-byte character ("lead", "cont"), a  *)
(* byte no UTF-8 text has ("bad"), an end of line or a token of the event  *)
(* stream; a payload is the kind of its event and, for a text delta, the   *)
(* characters of its text.                                                 *)
(***************************************************************************)
EXTENDS SentenceSplitter, SequencesExt

CONSTANTS
  Bodies,      \* the response bodies a server may send
  MaxChunk     \* bound: a chunk has as many bytes at most, or all that are left

Byte == Character \cup {"lead", "cont", "bad"}

ASSUME StreamAssumption ==
  Bodies \subseteq Seq(Byte) /\ {"uc", "rep", "lf"} \subseteq Character
ASSUME ChunkAssumption == MaxChunk \in Nat \ {0}

VARIABLES
  body,        \* the bytes of the response
  way,         \* collect_messages or stream_messages
  received,    \* how many of them have arrived
  undecoded,   \* SseDecoder.incomplete_utf8
  text,        \* SseDecoder.text
  events,      \* what the decoder returned, in order
  stage,       \* what the turn is at
  uttered,     \* how many events went through the splitter
  buf,         \* SentenceSplitter.buf
  partials,    \* the sentences published as wm.brain.reply.partial
  reply,       \* the text published as wm.brain.reply, if any
  stored       \* the text pushed to the history, if any

decoder == <<body, way, received, undecoded, text, events>>
streamVars == <<decoder, stage, uttered, buf, partials, reply, stored>>

None == <<"none">>

(***************************************************************************)
(* The decoder.                                                            *)
(***************************************************************************)
(* The bytes no character can start, end or hold. *)
Broken(bytes) ==
  {i \in DOMAIN bytes :
     \/ bytes[i] = "bad"
     \/ bytes[i] = "lead" /\ CharAt(bytes, i + 1) # "cont"
     \/ bytes[i] = "cont" /\ CharAt(bytes, i - 1) # "lead"}
ValidUpTo(bytes) == IF Broken(bytes) = {} THEN Len(bytes) ELSE Min(Broken(bytes)) - 1

(* The characters of valid bytes. *)
CharOf(b) == IF b = "cont" THEN <<>> ELSE IF b = "lead" THEN <<"uc">> ELSE <<b>>
Chars(bytes) == FlattenSeq([i \in DOMAIN bytes |-> CharOf(bytes[i])])

(* Response::text puts a replacement character for what is no character. *)
Replaced(bytes) ==
  [i \in DOMAIN bytes |-> IF i \in Broken(bytes) THEN "rep" ELSE bytes[i]]

(* Variant of Feed: what is not yet a character is dropped. *)
FeedDropping(held, chars, chunk) ==
  LET n == ValidUpTo(chunk) IN [text |-> chars \o Chars(SubSeq(chunk, 1, n)), held |-> <<>>]

(* feed: what becomes of the two buffers.  Bytes behind the valid prefix   *)
(* are kept for the next chunk, whether they can still be completed or not.*)
Feed(held, chars, chunk) ==
  LET all == held \o chunk
      n == ValidUpTo(all) IN
  [text |-> chars \o Chars(SubSeq(all, 1, n)), held |-> SubSeq(all, n + 1, Len(all))]

(* find_block_boundary: where the first block ends and how long its end is. *)
EndsAt(s, i) ==
  \/ CharAt(s, i) = "lf" /\ CharAt(s, i + 1) = "lf"
  \/ /\ CharAt(s, i) = "cr" /\ CharAt(s, i + 1) = "lf"
     /\ CharAt(s, i + 2) = "cr" /\ CharAt(s, i + 3) = "lf"
BlockEnds(s) == {i \in DOMAIN s : EndsAt(s, i)}
FirstBlock(s) == SubSeq(s, 1, Min(BlockEnds(s)) - 1)
AfterBlock(s) ==
  LET i == Min(BlockEnds(s)) IN
  SubSeq(s, i + (IF s[i] = "lf" THEN 2 ELSE 4), Len(s))

(* The data lines of a block; other lines are comments and fields nobody   *)
(* asks for.  The payload is what they say, with a newline between two.    *)
LineStart(block, i) == Max({1} \cup {j \in 2..i : block[j - 1] = "lf"})
DataLines(block) == {i \in DOMAIN block : block[LineStart(block, i)] = "data:"}
PayloadAt(block, i) ==
  IF block[LineStart(block, i)] # "data:" \/ block[i] \in {"lf", "cr"} THEN <<>>
  ELSE IF i # LineStart(block, i) THEN <<block[i]>>
  ELSE IF \E j \in DataLines(block) : j < i THEN <<"lf">> ELSE <<>>
Payload[block \in Seq(Character)] ==
  FlattenSeq([i \in DOMAIN block |-> PayloadAt(block, i)])

(* JSON passes over a newline between two of its tokens, behind the kind   *)
(* for one, and has none inside a text.                                    *)
Tokens(payload) ==
  FlattenSeq([i \in DOMAIN payload |-> IF payload[i] = "lf" THEN <<>> ELSE <<payload[i]>>])
Torn(payload) ==
  \E j \in DOMAIN payload :
    /\ payload[j] = "lf"
    /\ \E h, i \in 1..(j - 1) : h < i /\ "lf" \notin {payload[h], payload[i]}
    /\ \E k \in (j + 1)..Len(payload) : payload[k] # "lf"

(* parse_sse_event: the kinds that keep their text, are known, or are not. *)
Kinds == {"start", "block", "delta", "stop", "error", "ping"}
Parsed[payload \in Seq(Character)] ==
  LET tokens == Tokens(payload) IN
  IF tokens = <<>> \/ Head(tokens) \notin Kinds \/ Torn(payload)
    THEN [kind |-> "malformed", text |-> <<>>]
    ELSE [kind |-> Head(tokens),
          text |-> IF Head(tokens) = "delta" THEN Tail(tokens) ELSE <<>>]
EventsOf(block) == IF DataLines(block) = {} THEN <<>> ELSE <<Parsed[Payload[block]]>>

(* decode_sse_body: a whole text at once. *)
DecodedText[s \in Seq(Character)] ==
  IF BlockEnds(s) = {} THEN <<>>
  ELSE EventsOf(FirstBlock(s)) \o DecodedText[AfterBlock(s)]

(* extract_assistant_text. *)
AssistantText(evs) == FlattenSeq([i \in DOMAIN evs |-> evs[i].text])
Decodes(evs) == \A i \in DOMAIN evs : evs[i].kind # "malformed"

(***************************************************************************)
(* The turn.                                                               *)
(***************************************************************************)
StreamInit ==
  /\ body \in Bodies
  /\ way \in {"collected", "streamed"}
  /\ received = 0 /\ undecoded = <<>> /\ text = <<>> /\ events = <<>>
  /\ stage = "reading" /\ uttered = 0 /\ buf = <<>> /\ partials = <<>>
  /\ reply = None /\ stored = None

Quiet == UNCHANGED <<uttered, buf, partials, reply, stored>>
BlockReady == BlockEnds(text) # {}

(* Variant of Pop: a block that does not parse stays where it is. *)
PopParsed ==
  /\ stage = "reading" /\ BlockReady
  /\ Decodes(EventsOf(FirstBlock(text)))
  /\ events' = events \o EventsOf(FirstBlock(text))
  /\ text' = AfterBlock(text)
  /\ UNCHANGED <<body, way, received, undecoded, stage>> /\ Quiet

(* pop_event on a complete block: it is consumed whatever it holds. *)
Pop ==
  /\ stage = "reading" /\ BlockReady
  /\ events' = events \o EventsOf(FirstBlock(text))
  /\ text' = AfterBlock(text)
  /\ UNCHANGED <<body, way, received, undecoded, stage>> /\ Quiet

(* poll_next: no block is complete, the next n bytes arrive. *)
Chunk(n) ==
  /\ stage = "reading" /\ way = "streamed" /\ ~BlockReady
  /\ LET fed == Feed(undecoded, text, SubSeq(body, received + 1, received + n)) IN
       text' = fed.text /\ undecoded' = fed.held
  /\ received' = received + n
  /\ UNCHANGED <<body, way, events, stage>> /\ Quiet

(* The connection breaks, or the server answers with an error status. *)
TransportFails ==
  /\ stage = "reading" /\ ~BlockReady /\ received < Len(body)
  /\ stage' = "failed"
  /\ UNCHANGED decoder /\ Quiet

EndOfBody ==
  /\ stage = "reading" /\ way = "streamed" /\ ~BlockReady /\ received = Len(body)
  /\ stage' = "streamed"
  /\ UNCHANGED decoder /\ Quiet

(* collect_messages, and what becomes of its events: a malformed one or an *)
(* answer without text ends the turn with an error; whatever else came is  *)
(* taken for the answer.                                                   *)
Collect ==
  /\ stage = "reading" /\ way = "collected"
  /\ events' = DecodedText[Chars(Replaced(body))] /\ received' = Len(body)
  /\ stage' = IF Decodes(events') /\ AssistantText(events') # <<>>
                THEN IF Trim(AssistantText(events')) = <<>> THEN "replying" ELSE "speaking"
                ELSE "failed"
  /\ UNCHANGED <<body, way, undecoded, text>> /\ Quiet

(* publish_partial_sentences, one event: the first k of its sentences are  *)
(* published, and all of them unless a publish fails, which ends the turn. *)
SpeakEvent(k) ==
  LET pushed == Push(buf, events[uttered + 1].text) IN
  /\ stage = "speaking" /\ uttered < Len(events)
  /\ k <= Len(pushed.out)
  /\ partials' = partials \o SubSeq(pushed.out, 1, k)
  /\ buf' = pushed.rest
  /\ uttered' = uttered + 1
  /\ stage' = IF k = Len(pushed.out) THEN "speaking" ELSE "lost"
  /\ UNCHANGED <<decoder, reply, stored>>

(* The end of publish_partial_sentences: what the splitter still holds. *)
SpeakRest(published) ==
  /\ stage = "speaking" /\ uttered = Len(events)
  /\ partials' = IF published THEN partials \o Flushed(buf) ELSE partials
  /\ buf' = <<>>
  /\ stage' = IF published \/ Flushed(buf) = <<>> THEN "replying" ELSE "lost"
  /\ UNCHANGED <<decoder, uttered, reply, stored>>

(* The reply, and then the history. *)
Reply(published) ==
  /\ stage = "replying"
  /\ reply' = IF published THEN AssistantText(events) ELSE None
  /\ stored' = reply'
  /\ stage' = IF published THEN "done" ELSE "lost"
  /\ UNCHANGED <<decoder, uttered, buf, partials>>

Ended == stage \in {"streamed", "done", "lost", "failed"}
StreamNext ==
  \/ Pop
  \/ \E n \in 1..(Len(body) - received) : (n <= MaxChunk \/ n = Len(body) - received) /\ Chunk(n)
  \/ TransportFails
  \/ EndOfBody
  \/ Collect
  \/ \E k \in 0..Len(body) : SpeakEvent(k)
  \/ \E published \in BOOLEAN : SpeakRest(published)
  \/ \E published \in BOOLEAN : Reply(published)
StreamSpec == StreamInit /\ [][StreamNext]_streamVars
(* The turn is awaited to its end: every read and every publish returns. *)
FairStreamSpec == StreamSpec /\ WF_streamVars(StreamNext)

(***************************************************************************)
(* Properties.                                                             *)
(***************************************************************************)
(* The types of the variables, and the phases a turn may be at. *)
StreamTypeOK ==
  /\ body \in Bodies /\ received \in 0..Len(body)
  /\ stage \in {"reading", "streamed", "speaking", "replying", "done", "lost", "failed"}
  /\ uttered \in 0..Len(events)
  /\ (stage = "reading" => uttered = 0)
  /\ \A i \in DOMAIN events : events[i].kind \in Kinds \cup {"malformed"}
  /\ Len(undecoded) <= received

(* Every state is of its types, and however the bytes are cut, inside a    *)
(* character or inside the end of a block, the stream yields the events    *)
(* collect_messages decodes, up to a byte no character has.                *)
(* (SseDecoder::feed, pop_event)                                           *)
ChunksDoNotMatter ==
  /\ StreamTypeOK
  /\ stage = "streamed" =>
       events = DecodedText[Chars(SubSeq(body, 1, ValidUpTo(body)))]

(* However an answer is cut into deltas, its partials are the sentences of *)
(* its text, in order, none twice and none missing once it is replied.     *)
(* Published means that the publish returned Ok, as it does with a warning *)
(* when the bus refuses the event.                                         *)
PartialsAreTheReply ==
  LET sentences == SentencesOf(AssistantText(events)) IN
  /\ IsPrefix(partials, sentences)
  /\ stage = "done" => partials = sentences

Squeezed(s) ==
  FlattenSeq([i \in DOMAIN s |-> IF s[i] \in White THEN <<>> ELSE <<s[i]>>])
(* No character of the answer is lost on its way through the decoder and   *)
(* the splitter: what was spoken piece by piece is what is stored.         *)
NothingIsLost ==
  stage = "done" =>
    /\ stored = reply
    /\ Squeezed(FlattenSeq(partials)) = Squeezed(stored)

(* A turn that failed, or lost a publish, leaves nothing in the history,   *)
(* and an answer that did not decode is not spoken in part.                *)
FailuresLeaveNoTrace ==
  /\ stage \in {"lost", "failed"} => stored = None
  /\ stage = "failed" => partials = <<>> /\ reply = None

(* What is stored is what was spoken: sentence by sentence, character by   *)
(* character, and nothing at all after a failure at any point of the way.  *)
SpokenIsStored == PartialsAreTheReply /\ NothingIsLost /\ FailuresLeaveNoTrace

(* Every response is read to its end and answered, or given up: a block    *)
(* that cannot be parsed does not hold up the ones behind it.              *)
AnswersEnd == <>Ended
=============================================================================
