---------------------------- MODULE ModelStream ----------------------------
(***************************************************************************)
(* The streamed response of one model request: the lines a provider's      *)
(* server writes, the parser of serdes-ai-models that turns them into part *)
(* events (openai/stream.rs, google/stream.rs, anthropic/stream.rs,        *)
(* huggingface/model.rs, cohere/model.rs, chatgpt_oauth/model.rs) and the  *)
(* loop of serdes-ai-agent/src/stream.rs that puts the response together.  *)
(* The stream is pulled, so that a line is parsed and its events are       *)
(* collected in one step.                                                  *)
(*                                                                         *)
(* Content is the sequence of the numbers of the lines that brought it.    *)
(***************************************************************************)
EXTENDS Integers, FiniteSets, SequencesExt, Retain

CONSTANTS
  Providers,  \* the parsers that may be in use
  Calls,      \* the tool calls a response may hold
  Reasons,    \* the finish reasons a server gives
  Stop,       \* the reason that stands for none
  MaxLines,   \* bound: lines the server writes, by provider
  None

ASSUME StreamAssumption ==
  /\ Providers \subseteq {"openai", "google", "antigravity", "anthropic", "huggingface",
                         "cohere", "chatgpt"}
  /\ {"text", "thinking", None} \cap Calls = {}
  /\ Stop \in Reasons /\ None \notin Reasons
  /\ MaxLines \in [Providers -> Nat]

VARIABLES
  provider,  \* whose parser reads the stream
  said,      \* ghost: the parts of the response as the server wrote them
  reason,    \* ghost: the finish reason it gave, None before
  over,      \* ghost: whether it wrote the line that ends a response
  whole,     \* ghost: the calls it has written the last of (chatgpt)
  lost,      \* ghost: whether a line, or some of one, was lost on the way
  lines,     \* lines written
  held,      \* whose line has its head in the buffer and its tail lost, or None
  joined,    \* ghost: whether the head of one line and the tail of another
             \* were read as a line
  overtaken, \* ghost: whether a part started over the index of a call that
             \* had come without arguments
  parser,    \* the parser's state
  response   \* what the agent has collected

serverVars == <<provider, said, reason, over, whole, lost, lines>>
buffer == <<held, joined, overtaken>>
vars == <<serverVars, buffer, parser, response>>

Keys == {"text", "thinking"} \cup Calls
Kind(k) == IF k \in Calls THEN "call" ELSE k
Kinds == {"text", "thinking", "call"}

Content == Seq(1..MaxLines[provider])

SaidPart == [key : Keys, kind : Kinds, content : Content]
Part == [kind : Kinds, content : Content]

(* A parser that knows the parts of some keys. *)
Parser(known) ==
  [slot    : [known -> Nat],
   started : SUBSET known,
   finish  : Reasons \cup {None},
   body    : Seq(SaidPart)]

Response ==
  [parts   : Seq(Part),
   finish  : Reasons \cup {None},
   open    : SUBSET Nat,
   stray   : SUBSET {"start", "delta", "end", "complete"},
   outcome : {"streaming", "accepted", "failed"}]

(* What a line says of one part.  A call of OpenAI's may be named without  *)
(* arguments, which is not the same as with an empty string of them.       *)
Piece ==
  [key : Keys, content : {<<lines + 1>>}]
    \cup IF provider = "openai" THEN [key : Calls, content : {<<>>}] ELSE {}

(* What the server means by a piece: a part, or more of one.               *)
Says(s, piece) ==
  IF \E i \in DOMAIN s : s[i].key = piece.key
  THEN [i \in DOMAIN s |-> IF s[i].key = piece.key
                           THEN [s[i] EXCEPT !.content = @ \o piece.content] ELSE s[i]]
  ELSE Append(s, [key |-> piece.key, kind |-> Kind(piece.key), content |-> piece.content])

TypeOK ==
  /\ provider \in Providers
  /\ said \in Seq(SaidPart)
  /\ reason \in Reasons \cup {None}
  /\ whole \subseteq Calls
  /\ over \in BOOLEAN /\ lost \in BOOLEAN
  /\ lines \in 0..MaxLines[provider]
  /\ held \in Keys \cup {None} /\ joined \in BOOLEAN /\ overtaken \in BOOLEAN
  /\ \E known \in SUBSET Keys : parser \in Parser(known)
  /\ response \in Response

Init ==
  /\ provider \in Providers
  /\ said = <<>> /\ reason = None /\ over = FALSE /\ whole = {} /\ lost = FALSE /\ lines = 0
  /\ held = None /\ joined = FALSE /\ overtaken = FALSE
  /\ parser = [slot |-> <<>>, started |-> {}, finish |-> None, body |-> <<>>]
  /\ response = [parts |-> <<>>, finish |-> None, open |-> {}, stray |-> {},
                 outcome |-> "streaming"]

----------------------------------------------------------------------------
(* Part events *)

PartStart(i, piece) ==
  [type |-> "start", index |-> i, kind |-> Kind(piece.key), content |-> piece.content]
PartDelta(i, piece) ==
  [type |-> "delta", index |-> i, kind |-> Kind(piece.key), content |-> piece.content]
PartEnd(i) == [type |-> "end", index |-> i]
StreamComplete(r) == [type |-> "complete", reason |-> r]

(* The parts that are open end in any order.                               *)
PartEnds(open) == [i \in 1..Cardinality(open) |-> PartEnd(SetToSeq(open)[i])]

----------------------------------------------------------------------------
(* The agent's collector.  `open` and `stray` are ghosts: the indices that *)
(* have been started and not ended, and the kinds of events that came out  *)
(* of place.                                                               *)

InPlace(r, e) ==
  /\ r.finish = None
  /\ CASE e.type = "start" -> e.index = Len(r.parts)
       [] e.type \in {"delta", "end"} -> e.index \in r.open
       [] OTHER -> TRUE

(* A delta goes to the part at the position its index names, if it is of   *)
(* the same kind, and is ignored otherwise.                                *)
Extended(parts, e) ==
  [i \in DOMAIN parts |->
     IF i = e.index + 1 /\ parts[i].kind = e.kind
     THEN [parts[i] EXCEPT !.content = @ \o e.content]
     ELSE parts[i]]

Collect(r, e) ==
  LET seen == [r EXCEPT !.stray = IF InPlace(r, e) THEN @ ELSE @ \cup {e.type}]
  IN CASE e.type = "start" ->
            [seen EXCEPT !.parts = Append(@, [kind |-> e.kind, content |-> e.content]),
                         !.open = @ \cup {e.index}]
       [] e.type = "delta" -> [seen EXCEPT !.parts = Extended(@, e)]
       [] e.type = "end" -> [seen EXCEPT !.open = @ \ {e.index}]
       [] OTHER -> [seen EXCEPT !.finish = e.reason]

Collected(r, events) ==
  LET upto[n \in 0 .. Len(events)] ==
        IF n = 0 THEN r ELSE Collect(upto[n - 1], events[n])
  IN upto[Len(events)]

(* The stream ends: without any part it is an error.                       *)
Finished(r) == [r EXCEPT !.outcome = IF r.parts = <<>> THEN "failed" ELSE "accepted"]

Failed(r) == [r EXCEPT !.outcome = "failed"]

(* The finish reason of the response the agent goes on with.               *)
Reported == IF response.finish = None THEN Stop ELSE response.finish

----------------------------------------------------------------------------
(* openai/stream.rs *)

(* A part's key and its index. *)
Assigned(slot, k, i) == [x \in DOMAIN slot \cup {k} |-> IF x = k THEN i ELSE slot[x]]

(* Mutant: the index counts the lines and not the parts. *)
NextLine(p) == lines

NextPartIndex(p) == Cardinality(DOMAIN p.slot)

(* Mutant: all calls share one state. *)
OneCall(k) == IF k \in Calls THEN CHOOSE c \in Calls : TRUE ELSE k

StateOf(k) == k

(* A part gets its index when it is first mentioned, a call also when it   *)
(* comes without arguments.                                                *)
OpenAIMention(p, k) ==
  [p EXCEPT !.slot = IF k \in DOMAIN @ THEN @ ELSE Assigned(@, k, NextPartIndex(p))]

(* It is started by its first content. *)
OpenAIPiece(p, piece) ==
  LET k == StateOf(piece.key)
      q == OpenAIMention(p, k)
  IN IF k \in p.started
     THEN [parser |-> q, events |-> <<PartDelta(q.slot[k], piece)>>]
     ELSE [parser |-> [q EXCEPT !.started = @ \cup {k}],
           events |-> <<PartStart(q.slot[k], piece)>>]

(* The finish closes the text and the calls, never the thinking.           *)
OpenAIFinish(p, r) ==
  [parser |-> [p EXCEPT !.finish = r],
   events |-> PartEnds({p.slot[k] : k \in p.started \ {"thinking"}})]

(* The first content ends the work on its chunk. *)
OpenAIChunk(p, line) ==
  IF line.pieces # <<>> /\ Head(line.pieces).content # <<>>
  THEN OpenAIPiece(p, Head(line.pieces))
  ELSE LET q == IF line.pieces = <<>> THEN p
                ELSE OpenAIMention(p, StateOf(Head(line.pieces).key))
       IN IF line.finish = None THEN [parser |-> q, events |-> <<>>]
          ELSE OpenAIFinish(q, line.finish)

(* A part that started has a greater index than a call that has not. *)
Overtakes(p) ==
  \E k \in DOMAIN p.slot \ p.started, j \in p.started : p.slot[k] < p.slot[j]

OpenAIParse(line) ==
  IF line.type = "done"
  THEN [parser |-> parser,
        events |-> <<StreamComplete(IF parser.finish = None THEN Stop ELSE parser.finish)>>]
  ELSE OpenAIChunk(parser, line)

----------------------------------------------------------------------------
(* google/stream.rs *)

GooglePiece(p, piece) ==
  LET k == piece.key
      i == NextPartIndex(p)
  IN IF k \notin Calls /\ k \in p.started
     THEN [parser |-> p, events |-> <<PartDelta(p.slot[k], piece)>>]
     ELSE [parser |-> [p EXCEPT !.slot = Assigned(@, k, i), !.started = @ \cup {k}],
           events |-> <<PartStart(i, piece)>>]

(* A finish is captured before the parts are looked at, closes whatever is *)
(* open and completes the stream.                                          *)
GoogleParse(line) ==
  LET read == IF line.pieces = <<>> THEN [parser |-> parser, events |-> <<>>]
              ELSE GooglePiece(parser, Head(line.pieces))
      open == {read.parser.slot[k] : k \in read.parser.started}
  IN IF line.finish = None THEN read
     ELSE [parser |-> [read.parser EXCEPT !.finish = line.finish],
           events |-> read.events \o PartEnds(open) \o <<StreamComplete(line.finish)>>]

(* antigravity/stream.rs: the same response within another.               *)
AntigravityParse(line) == GoogleParse(line)

----------------------------------------------------------------------------
(* anthropic/stream.rs, and claude_code_oauth/stream.rs around it: the     *)
(* server names the index of each block                                    *)

IndexOf(k) ==
  IF \E i \in DOMAIN said : said[i].key = k
  THEN (CHOOSE i \in DOMAIN said : said[i].key = k) - 1
  ELSE Len(said)

BlockOpen(k) == k \in parser.started

AnthropicParse(line) ==
  CASE line.type = "block_start" ->
         LET piece == Head(line.pieces) k == piece.key IN
         [parser |-> [parser EXCEPT !.slot = Assigned(@, k, IndexOf(k)), !.started = @ \cup {k}],
          events |-> <<PartStart(IndexOf(k), piece)>>]
    [] line.type = "block_delta" ->
         LET piece == Head(line.pieces) IN
         [parser |-> parser,
          events |-> IF BlockOpen(piece.key)
                     THEN <<PartDelta(IndexOf(piece.key), piece)>> ELSE <<>>]
    [] line.type = "block_stop" ->
         [parser |-> [parser EXCEPT !.started = @ \ {line.key}],
          events |-> <<PartEnd(IndexOf(line.key))>>]
    [] line.type = "message_delta" ->
         [parser |-> [parser EXCEPT !.finish = line.finish], events |-> <<>>]
    [] OTHER ->
         [parser |-> parser,
          events |-> <<StreamComplete(IF parser.finish = None THEN Stop ELSE parser.finish)>>]

----------------------------------------------------------------------------
(* huggingface/model.rs: tokens are deltas of a part that is never started *)

HuggingFaceParse(line) ==
  LET token == PartDelta(0, Head(line.pieces))
  IN [parser |-> parser,
      events |-> IF line.finish = None THEN <<token>>
                 ELSE <<token, PartEnd(0), StreamComplete(line.finish)>>]

----------------------------------------------------------------------------
(* cohere/model.rs: of what the server says only text is read, and the     *)
(* first text opens the part without going into it                         *)

CohereParse(line) ==
  IF line.type = "stream_end"
  THEN [parser |-> parser,
        events |-> <<PartEnd(0), StreamComplete(IF line.finish = None THEN Stop
                                                ELSE line.finish)>>]
  ELSE IF Head(line.pieces).key # "text" THEN [parser |-> parser, events |-> <<>>]
  ELSE IF parser.started = {}
  THEN [parser |-> [parser EXCEPT !.slot = Assigned(@, "text", 0), !.started = {"text"}],
        events |-> <<PartStart(0, [key |-> "text", content |-> <<>>])>>]
  ELSE [parser |-> parser, events |-> <<PartDelta(0, Head(line.pieces))>>]

----------------------------------------------------------------------------
(* chatgpt_oauth/model.rs reads the whole body before it makes events: the *)
(* texts as one part, then the calls in the order they came up             *)

Known(k) == \E i \in DOMAIN parser.body : parser.body[i].key = k

WithArgs(body, k, args) ==
  [i \in DOMAIN body |-> IF body[i].key = k THEN [body[i] EXCEPT !.content = args] ELSE body[i]]

(* arguments.done names a call only if nothing else has, output_item       *)
(* brings better arguments when it has any, text extends the text.         *)
ChatGPTParse(line) ==
  LET piece == Head(line.pieces)
      k == piece.key
      new == Append(parser.body, [key |-> k, kind |-> Kind(k), content |-> piece.content])
  IN IF ~Known(k) THEN new
     ELSE CASE line.type = "text" -> Says(parser.body, piece)
            [] line.type = "arguments_done" -> parser.body
            [] line.type = "item" /\ piece.content = <<>> -> parser.body
            [] OTHER -> WithArgs(parser.body, k, piece.content)

OfKind(parts, kind) == Only(parts, [key : Keys, kind : {kind}, content : Seq(Nat)])

(* A response with its texts first, as the body leaves it. *)
TextFirst(body) == OfKind(body, "text") \o OfKind(body, "call")

(* parse_sse_response and request_stream: every part starts whole, and the *)
(* completion says Stop, whether the body was complete or not.             *)
WholeResponse ==
  LET parts == TextFirst(parser.body)
  IN [i \in DOMAIN parts |->
        PartStart(i - 1, [key |-> parts[i].key, content |-> parts[i].content])]
     \o <<StreamComplete(Stop)>>

----------------------------------------------------------------------------
(* The server.  A chunk may say several things, for which two stand.       *)
(* Nothing but the terminal line follows a finish.                         *)

Line == [type : {"chunk"}, pieces : UNION {[1..n -> Piece] : n \in 0..2},
         finish : Reasons \cup {None}]

(* The first content ends the work on its chunk, whatever else it says.    *)
Leftover(line) ==
  /\ line.pieces # <<>> /\ Head(line.pieces).content # <<>>
  /\ Len(line.pieces) > 1 \/ (provider = "openai" /\ line.finish # None)

(* The fields of an OpenAI delta come in this order.                       *)
Before(p, q) ==
  /\ p.key # q.key
  /\ p.key = "thinking" => q.key # "text"
  /\ p.key \in Calls => q.key \in Calls

(* A call without arguments leaves the rest of its chunk to be read, which *)
(* is then as on a line of its own.                                        *)
Chunks ==
  {line \in Line :
     /\ line.pieces # <<>> \/ line.finish # None
     /\ lost => ~ Leftover(line)
     /\ Len(line.pieces) = 2 => /\ line.pieces[1].content # <<>>
                                /\ Before(line.pieces[1], line.pieces[2])}

Mentioned == {said[i].key : i \in DOMAIN said}

(* The calls whose arguments the server has written. *)
Spoken == {said[i].key : i \in {j \in DOMAIN said : said[j].kind = "call" /\ said[j].content # <<>>}}

Arguments(k) == said[CHOOSE i \in DOMAIN said : said[i].key = k].content

(* A Google call is one piece, whole.                                      *)
GoogleChunks ==
  {line \in Chunks : \A i \in DOMAIN line.pieces :
     line.pieces[i].key \in Calls => line.pieces[i].key \notin Mentioned}

One(k, c) == <<[key |-> k, content |-> c]>>

BlockLines ==
  {[type |-> "block_start", pieces |-> One(k, <<>>)] : k \in Keys \ Mentioned}
    \cup {[type |-> "block_delta", pieces |-> One(k, <<lines + 1>>)] : k \in Mentioned}
    \cup {[type |-> "block_stop", pieces |-> <<>>, key |-> k] : k \in Mentioned}

Write(pieces) ==
  /\ response.outcome = "streaming"
  /\ ~over
  /\ lines < MaxLines[provider]
  /\ lines' = lines + 1
  /\ said' = CASE Len(pieces) = 0 -> said
                [] Len(pieces) = 1 -> Says(said, pieces[1])
                [] OTHER -> Says(Says(said, pieces[1]), pieces[2])
  /\ UNCHANGED provider

(* A line is parsed, or never understood: the parsers skip what is no      *)
(* JSON, the Hugging Face one splits each chunk of bytes into lines by     *)
(* itself.  The Anthropic one refuses what it cannot parse.                *)
Arrives(parsed) ==
  /\ \/ /\ parser' = parsed.parser
        /\ response' = Collected(response, parsed.events)
        /\ UNCHANGED lost
     \/ /\ provider # "anthropic"
        /\ lost' = TRUE
        /\ UNCHANGED <<parser, response>>
     \/ /\ provider = "anthropic"
        /\ response' = Failed(response)
        /\ UNCHANGED <<parser, lost>>
  /\ UNCHANGED buffer

(* The OpenAI, Google and Antigravity parsers drop a chunk of bytes that   *)
(* does not begin and end with a character.  The head of a line that is in *)
(* the buffer then goes on with the tail of a later one, and the two may   *)
(* parse: as more of the part the head names with what the tail says, as   *)
(* what the tail says of its own, as a call whose arguments are gone.      *)
(* What comes of it counts as the later line's.                            *)
JoinedPieces(line) ==
  LET keys == {held} \cup {line.pieces[i].key : i \in DOMAIN line.pieces}
  IN {<<>>} \cup {<<piece>> : piece \in {x \in Piece : x.key \in keys}}

Joined(line) ==
  {x \in [type : {"chunk"}, pieces : JoinedPieces(line), finish : {None, line.finish}] :
     x.pieces # <<>> \/ x.finish # None}

Read(line) ==
  CASE provider = "openai" -> OpenAIParse(line)
    [] provider = "google" -> GoogleParse(line)
    [] OTHER -> AntigravityParse(line)

Parsed(line) ==
  LET read == Read(line)
  IN /\ parser' = read.parser
     /\ response' = Collected(response, read.events)
     /\ overtaken' = (overtaken \/ (provider = "openai" /\ Overtakes(read.parser)))

Whole(line) ==
  /\ held = None
  /\ Parsed(line)
  /\ lost' = (lost \/ Leftover(line))
  /\ UNCHANGED <<held, joined>>

(* The line's bytes are dropped, or its tail is, or it does not parse.     *)
Dropped(line) ==
  /\ lost' = TRUE
  /\ held' \in {None, held} \cup {line.pieces[i].key : i \in DOMAIN line.pieces}
  /\ UNCHANGED <<joined, overtaken, parser, response>>

HeadAndTail(line) ==
  /\ held # None
  /\ line.type = "chunk"
  /\ \E x \in Joined(line) : Parsed(x)
  /\ lost' = TRUE /\ joined' = TRUE /\ held' = None

BytesArrive(line) == Whole(line) \/ Dropped(line) \/ HeadAndTail(line)

OpenAIChunkArrives ==
  /\ provider = "openai"
  /\ reason = None
  /\ \E line \in Chunks :
       /\ Write(line.pieces)
       /\ reason' = line.finish
       /\ BytesArrive(line)
  /\ UNCHANGED <<over, whole>>

OpenAIDone ==
  /\ provider = "openai"
  /\ Write(<<>>)
  /\ over' = TRUE
  /\ BytesArrive([type |-> "done", pieces |-> <<>>, finish |-> None])
  /\ UNCHANGED <<reason, whole>>

GoogleChunkArrives ==
  /\ provider \in {"google", "antigravity"}
  /\ \E line \in GoogleChunks :
       /\ Write(line.pieces)
       /\ reason' = line.finish
       /\ over' = (line.finish # None)
       /\ BytesArrive(line)
  /\ UNCHANGED whole

AnthropicBlockArrives ==
  /\ provider = "anthropic"
  /\ reason = None
  /\ \E line \in BlockLines :
       /\ line.type # "block_start" => BlockOpen(IF line.type = "block_stop" THEN line.key
                                                 ELSE Head(line.pieces).key)
       /\ Write(line.pieces)
       /\ Arrives(AnthropicParse(line))
  /\ UNCHANGED <<reason, over, whole>>

AnthropicMessageDelta ==
  /\ provider = "anthropic"
  /\ reason = None
  /\ \E r \in Reasons :
       /\ Write(<<>>)
       /\ reason' = r
       /\ Arrives(AnthropicParse([type |-> "message_delta", finish |-> r]))
  /\ UNCHANGED <<over, whole>>

(* message_stop is refused while a block is open.                          *)
AnthropicMessageStop ==
  /\ provider = "anthropic"
  /\ Write(<<>>)
  /\ over' = TRUE
  /\ IF parser.started # {}
     THEN response' = Failed(response) /\ UNCHANGED <<parser, lost, buffer>>
     ELSE Arrives(AnthropicParse([type |-> "message_stop"]))
  /\ UNCHANGED <<reason, whole>>

HuggingFaceTokenArrives ==
  /\ provider = "huggingface"
  /\ \E f \in Reasons \cup {None} :
       /\ Write(One("text", <<lines + 1>>))
       /\ reason' = f
       /\ over' = (f # None)
       /\ Arrives(HuggingFaceParse([pieces |-> One("text", <<lines + 1>>), finish |-> f]))
  /\ UNCHANGED whole

(* Cohere's calls are events the parser has no name for. *)
CohereTextArrives ==
  /\ provider = "cohere"
  /\ \E k \in {"text"} \cup Calls :
       LET line == [type |-> "generation", pieces |-> One(k, <<lines + 1>>)] IN
       /\ Write(line.pieces)
       /\ Arrives(CohereParse(line))
  /\ UNCHANGED <<reason, over, whole>>

CohereEnds ==
  /\ provider = "cohere"
  /\ \E f \in Reasons \cup {None} :
       /\ Write(<<>>)
       /\ reason' = f
       /\ over' = TRUE
       /\ Arrives(CohereParse([type |-> "stream_end", finish |-> f]))
  /\ UNCHANGED whole

(* A call is announced, may have its arguments on a line of their own, and *)
(* is done with its item or by an event that says so.                      *)
BodyLine(type, k, args) == [type |-> type, pieces |-> One(k, args)]

ArgumentsOf(k) == IF k \in Spoken THEN Arguments(k) ELSE <<lines + 1>>

BodyLines ==
  {BodyLine("text", "text", <<lines + 1>>)}
    \cup {BodyLine("item", k, <<>>) : k \in Calls \ Mentioned}
    \cup {BodyLine("arguments_done", k, ArgumentsOf(k)) : k \in Calls \ Spoken}
    \cup {BodyLine(type, k, ArgumentsOf(k)) : type \in {"item", "call_done"}, k \in Calls \ whole}

Ends(line) ==
  LET piece == Head(line.pieces)
  IN IF line.type \in {"item", "call_done"} /\ piece.content # <<>> THEN {piece.key} ELSE {}

ChatGPTLineArrives ==
  /\ provider = "chatgpt"
  /\ \E line \in BodyLines :
       /\ Write(IF Head(line.pieces).key \in Spoken THEN <<>> ELSE line.pieces)
       /\ whole' = whole \cup Ends(line)
       /\ \/ parser' = [parser EXCEPT !.body = ChatGPTParse(line)] /\ UNCHANGED lost
          \/ lost' = TRUE /\ UNCHANGED parser
  /\ UNCHANGED <<reason, over, response, buffer>>

(* response.completed, after the last of every call. *)
ChatGPTCompletes ==
  /\ provider = "chatgpt"
  /\ Mentioned \cap Calls \subseteq whole
  /\ Write(<<>>)
  /\ over' = TRUE
  /\ UNCHANGED <<reason, whole, lost, parser, response, buffer>>

----------------------------------------------------------------------------
(* The end of the stream *)

(* Mutant: the Anthropic parser ends like the others. *)
EndsCleanly == TRUE

EndsWell == provider = "anthropic" => response.finish # None

(* The bytes end, wherever the server was.                                 *)
EndOfStream ==
  /\ response.outcome = "streaming"
  /\ response' = IF ~EndsWell THEN Failed(response)
                 ELSE Finished(Collected(response, IF provider = "chatgpt" THEN WholeResponse ELSE <<>>))
  /\ UNCHANGED <<serverVars, buffer, parser>>

(* An error while the stream still reads is an error of the response; the  *)
(* parsers read nothing after their terminal event.                        *)
ConnectionFails ==
  /\ response.outcome = "streaming"
  /\ response.finish = None
  /\ response' = Failed(response)
  /\ UNCHANGED <<serverVars, buffer, parser>>

Next ==
  \/ OpenAIChunkArrives
  \/ OpenAIDone
  \/ GoogleChunkArrives
  \/ AnthropicBlockArrives
  \/ AnthropicMessageDelta
  \/ AnthropicMessageStop
  \/ HuggingFaceTokenArrives
  \/ CohereTextArrives
  \/ CohereEnds
  \/ ChatGPTLineArrives
  \/ ChatGPTCompletes
  \/ EndOfStream
  \/ ConnectionFails

Spec == Init /\ [][Next]_vars

----------------------------------------------------------------------------
(* Properties *)

Bare(parts) == [i \in DOMAIN parts |-> [kind |-> parts[i].kind, content |-> parts[i].content]]

(* The parts that were started: not the calls without arguments.           *)
WithContent(s) ==
  [i \in {j \in DOMAIN s : s[j].content # <<>>} |-> [kind |-> s[i].kind, content |-> s[i].content]]

(* What is to come out of the parts the server wrote.  The OpenAI parser   *)
(* never starts a call without arguments, the Cohere parser knows only     *)
(* text and loses its first piece, the ChatGPT one moves the text before   *)
(* the calls.                                                              *)
Expected ==
  CASE provider = "openai" -> WithContent(said)
    [] provider = "cohere" ->
         LET texts == OfKind(said, "text")
         IN [i \in DOMAIN texts |-> [kind |-> "text", content |-> Tail(texts[i].content)]]
    [] provider = "chatgpt" -> Bare(TextFirst(said))
    [] OTHER -> Bare(said)

(* As long as no line was lost, the response under way is what the server  *)
(* wrote, part by part, whatever the order in which it switches between    *)
(* text, thinking and calls, and whatever index each parser gives them;    *)
(* when the parser completes it, its reason is the server's.  Of OpenAI    *)
(* that is said only while no part has overtaken a call that came without  *)
(* arguments, for then every position is wrong.  The Hugging Face parser   *)
(* is the exception: its deltas extend no part.  The ChatGPT one has       *)
(* nothing before the end, and its reason is always Stop.                  *)
ResponseFaithful ==
  provider # "huggingface" /\ ~lost =>
    /\ /\ ~overtaken /\ response.outcome # "failed"
       /\ provider = "chatgpt" => response.finish # None /\ over
       => response.parts = Expected
    /\ response.finish # None => response.finish = (IF reason = None THEN Stop ELSE reason)

(* Whatever lines were lost, each part holds what came in the server's     *)
(* order, and unless the parser took two lines for one, no part ends up    *)
(* with content of another.                                                *)
NothingInvented ==
  ~overtaken =>
    \A i \in DOMAIN response.parts :
      /\ \A m, n \in DOMAIN response.parts[i].content :
           m < n => response.parts[i].content[m] < response.parts[i].content[n]
      /\ ~joined =>
           \E j \in DOMAIN said :
             /\ said[j].kind = response.parts[i].kind
             /\ ToSet(response.parts[i].content) \subseteq ToSet(said[j].content)

(* What the agent goes on with is what the server wrote, or less. *)
ResponseTrue == TypeOK /\ ResponseFaithful /\ NothingInvented

(* Part events come in place even when lines are lost or joined: a start   *)
(* takes the next position, deltas and ends go to a part that is open,     *)
(* nothing comes after the terminal event (events.rs:19).  In OpenAI's     *)
(* streams a start is out of place once a part has overtaken a call that   *)
(* came without arguments, and nothing else is.  The Cohere parser ends a  *)
(* text that may never have started.                                       *)
EventsInPlace ==
  /\ provider \notin {"huggingface", "cohere"} =>
       response.stray \subseteq (IF overtaken THEN {"start"} ELSE {})
  /\ provider = "cohere" /\ response.stray # {} =>
       response.stray = {"end"} /\ response.parts = <<>>

(* A response with a provider-confirmed finish is one that the server has  *)
(* ended, and all its parts were closed first but the thinking, which the  *)
(* OpenAI parser never closes: no truncated stream completes.  The         *)
(* Anthropic parser does not let one pass for a response at all.  The      *)
(* ChatGPT parser completes whatever it was able to read.                  *)
TerminalConfirmed ==
  /\ response.finish # None /\ provider # "chatgpt" => over
  /\ response.finish # None /\ parser.finish # None =>
       \A i \in response.open :
         provider = "openai" /\ "thinking" \in parser.started /\ i = parser.slot["thinking"]
  /\ provider = "anthropic" /\ response.outcome = "accepted" => over
=============================================================================
