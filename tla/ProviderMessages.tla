-------------------------- MODULE ProviderMessages --------------------------
(***************************************************************************)
(* How the models of serdes-ai-models turn a message history into the      *)
(* messages of their provider's API (each model's convert_messages).  The  *)
(* history is grown as the run loops of serdes-ai-agent grow it, over      *)
(* several runs that hand their history on, and passes the agent's history *)
(* processors (History) on its way.                                        *)
(*                                                                         *)
(* A text is named by where it stands: <<k>> is the content of part k of   *)
(* the history, <<k, j>> that of part j of the response that is part k.    *)
(***************************************************************************)
EXTENDS History, SequencesExt

CONSTANTS
  Responses,  \* what a model may answer: sequences of "text", "thinking", calls
  Tools,      \* the tools that the agent executes
  OutputTool, \* a call of the output tool with arguments that parse
  Chains,     \* the sequences of history processors an agent may have
  MaxTurns,   \* bound: requests
  None

ASSUME MessagesAssumption ==
  /\ Responses \subseteq Seq({"text", "thinking", OutputTool} \cup Tools)
  /\ {"text", "thinking"} \cap (Tools \cup {OutputTool}) = {}
  /\ OutputTool \notin Tools
  /\ \A chain \in Chains : \A i \in DOMAIN chain :
       chain[i].type \in {"TruncateHistory", "TruncateByTokens", "FilterHistory",
                         "SummarizeHistory"}
  /\ MaxTurns \in Nat

VARIABLES
  mode,     \* which loop runs the agent: "run" (run.rs) or "stream" (stream.rs)
  named,    \* the model gives its calls a tool_call_id
  history,  \* the parts of all messages, in order
  turns,
  running   \* the run is about to send the history

vars == <<mode, named, history, turns, running>>

Calls(r) == {j \in DOMAIN r : r[j] \in Tools \cup {OutputTool}}

(* The run takes its output from a call of the output tool, and so does    *)
(* not execute it: beside other calls it stays without an answer.  The     *)
(* stream executes every call.                                             *)
Executed(r) == {j \in Calls(r) : mode = "stream" \/ r[j] # OutputTool}

System == [kind |-> "system"]
Prompt == [kind |-> "user"]
Response(r) == [kind |-> "response", parts |-> r]
Retry == [kind |-> "retry", tool |-> None, id |-> None]

(* The answer to call j of the response r that is part k: a ToolReturn, or *)
(* for a failed call the RetryPrompt of run.rs.                            *)
AnswerTo(k, r, j, ok) ==
  [kind |-> IF ok \/ mode = "stream" THEN "return" ELSE "retry",
   tool |-> r[j], id |-> IF named THEN <<k, j>> ELSE None]

Init ==
  /\ mode \in {"run", "stream"} /\ named \in BOOLEAN
  /\ history = <<>>
  /\ turns = 0
  /\ running = FALSE

Asking == running /\ turns < MaxTurns /\ turns' = turns + 1

(* AgentRun::new, AgentStream::new: the history so far, the system prompt  *)
(* if there is one, the user prompt.                                       *)
StartRun ==
  /\ ~running /\ turns < MaxTurns
  /\ \E system \in {<<>>, <<System>>} : history' = history \o system \o <<Prompt>>
  /\ running' = TRUE
  /\ UNCHANGED <<mode, named, turns>>

(* The response and the answers to what was executed, in the calls' order. *)
RunTools ==
  /\ Asking
  /\ \E r \in Responses : \E ok \in [Executed(r) -> BOOLEAN] :
       /\ Executed(r) # {}
       /\ LET k == Len(history) + 1
              calls == SetToSortSeq(Executed(r), <)
          IN history' = history \o <<Response(r)>>
                        \o [i \in DOMAIN calls |-> AnswerTo(k, r, calls[i], ok[calls[i]])]
  /\ UNCHANGED <<mode, named, running>>

(* add_retry_message: the rejected response is not in the history. *)
RejectOutput ==
  /\ Asking /\ mode = "run"
  /\ history' = Append(history, Retry)
  /\ UNCHANGED <<mode, named, running>>

(* Only the stream keeps the last response. *)
EndRun ==
  /\ Asking
  /\ \E r \in Responses :
       /\ Executed(r) = {}
       /\ history' = IF mode = "stream" THEN Append(history, Response(r)) ELSE history
  /\ running' = FALSE
  /\ UNCHANGED <<mode, named>>

Next == StartRun \/ RunTools \/ RejectOutput \/ EndRun

Spec == Init /\ [][Next]_vars

----------------------------------------------------------------------------
(* The history in messages, as the history processors see it, and its way  *)
(* back to parts.                                                          *)

IsAnswer(p) == p.kind \in {"return", "retry"} /\ p.tool # None

(* The part that answers call j of the response that is part k. *)
AnswerPart(k, j) == k + Cardinality({c \in Executed(history[k].parts) : c <= j})

Answers(k) == {<<j, history[AnswerPart(k, j)].kind>> : j \in Executed(history[k].parts)}

MessagesFrom(k) ==
  LET p == history[k]
      calls == Calls(p.parts)
  IN IF IsAnswer(p) THEN <<>>
     ELSE IF p.kind # "response" THEN <<[kind |-> p.kind, of |-> k]>>
     ELSE <<[kind |-> "response", of |-> k, text |-> calls # DOMAIN p.parts,
             calls |-> calls, ids |-> named]>>
          \o IF Executed(p.parts) = {} THEN <<>>
             ELSE <<[kind |-> "answers", of |-> k, answers |-> Answers(k), ids |-> named]>>

Messages == FlattenSeq([k \in DOMAIN history |-> MessagesFrom(k)])

(* A part that is sent, and for a response the calls that it has left. *)
Part(k, calls) == [at |-> k, calls |-> calls]

PartsOf(m) ==
  CASE m.kind = "answers" ->
         LET left == SetToSortSeq({AnswerPart(m.of, a[1]) : a \in m.answers}, <)
         IN [i \in DOMAIN left |-> Part(left[i], {})]
    [] m.kind = "response" -> <<Part(m.of, m.calls)>>
    [] OTHER -> <<Part(m.of, {})>>

Parts(messages) == FlattenSeq([i \in DOMAIN messages |-> PartsOf(messages[i])])

AllParts ==
  [k \in DOMAIN history |->
     Part(k, IF history[k].kind = "response" THEN Calls(history[k].parts) ELSE {})]

----------------------------------------------------------------------------
(* The messages of the providers: a role and what is said, which is a text *)
(* or thought, a call, or the result of one under the key the provider     *)
(* matches them by.                                                        *)

Says(kind, what, key) == [is |-> kind, what |-> what, key |-> key]
Message(role, items) == [role |-> role, items |-> items]

(* What the models differ in. *)
Style == [merges : BOOLEAN,       \* what follows a user message is added to it
          sendsEmpty : BOOLEAN,   \* a response of which nothing is sent is sent
          sendsCalls : BOOLEAN, sendsThoughts : BOOLEAN,
          splits : BOOLEAN,       \* each call of a response is an item of its own
          key : {"id", "name", "none"},
          results : {"user", "tool"},      \* the role of a result
          retries : {"result", "text"},    \* what becomes of a failed call
          system : {"inline", "apart", "last", "first"}]

OpenAI == [merges |-> FALSE, sendsEmpty |-> TRUE, sendsCalls |-> TRUE,
           sendsThoughts |-> FALSE, splits |-> FALSE, key |-> "id",
           results |-> "tool", retries |-> "text", system |-> "inline"]
OpenRouter == OpenAI
Mistral == OpenAI
Ollama == [OpenAI EXCEPT !.sendsCalls = FALSE, !.key = "none"]
OpenAIResponses == [OpenAI EXCEPT !.sendsCalls = FALSE, !.system = "last"]
HuggingFace == [Ollama EXCEPT !.sendsEmpty = FALSE]
ChatGPT == [OpenAI EXCEPT !.sendsEmpty = FALSE, !.splits = TRUE, !.system = "apart"]

Anthropic == [OpenAI EXCEPT !.merges = TRUE, !.sendsEmpty = FALSE, !.sendsThoughts = TRUE,
                            !.results = "user", !.retries = "result", !.system = "apart"]
Google == [Anthropic EXCEPT !.sendsThoughts = FALSE, !.key = "name"]
ClaudeCode == [Anthropic EXCEPT !.merges = FALSE, !.retries = "text", !.system = "first"]
Antigravity == [ClaudeCode EXCEPT !.system = "apart"]
Bedrock == [Antigravity EXCEPT !.sendsThoughts = FALSE]

Providers == {OpenAI, OpenAIResponses, Ollama, HuggingFace, ChatGPT,
              Anthropic, Google, ClaudeCode, Antigravity, Bedrock}

(* A call without an id goes out under the empty id, here None. *)
KeyOf(style, tool, id) ==
  CASE style.key = "id" -> id
    [] style.key = "name" -> tool
    [] style.key = "none" -> None

ResponseItem(style, k, r, calls, j) ==
  CASE r[j] = "text" -> <<Says("text", <<k, j>>, None)>>
    [] r[j] = "thinking" -> IF style.sendsThoughts
                            THEN <<Says("thought", <<k, j>>, None)>> ELSE <<>>
    [] j \in Calls(r) ->
         IF style.sendsCalls /\ j \in calls
         THEN <<Says("call", <<k, j>>,
                     KeyOf(style, r[j], IF named THEN <<k, j>> ELSE None))>>
         ELSE <<>>

ResponseItems(style, k, r, calls) ==
  FlattenSeq([j \in DOMAIN r |-> ResponseItem(style, k, r, calls, j)])

(* chatgpt_oauth: the calls that have an id, then the text. *)
SplitMessages(items) ==
  LET calls == SelectSeq(items, LAMBDA x : x.is = "call" /\ x.key # None)
      texts == SelectSeq(items, LAMBDA x : x.is = "text")
  IN [i \in DOMAIN calls |-> Message("call", <<calls[i]>>)]
     \o IF texts = <<>> THEN <<>> ELSE <<Message("assistant", texts)>>

ResponseMessages(style, k, r, calls) ==
  LET items == ResponseItems(style, k, r, calls)
  IN IF style.splits THEN SplitMessages(items)
     ELSE IF items = <<>> /\ ~style.sendsEmpty THEN <<>>
     ELSE <<Message("assistant", items)>>

UserText(k) == <<Message("user", <<Says("text", <<k>>, None)>>)>>

ResultOf(style, k, p) ==
  IF style.splits /\ p.id = None
  THEN <<>>
  ELSE <<Message(style.results, <<Says("result", <<k>>, KeyOf(style, p.tool, p.id))>>)>>

(* Whether a retry prompt says which call it answers: Anthropic looks at   *)
(* its tool_call_id, Google at its tool_name.                              *)
NamesCall(style, p) == IF style.key = "name" THEN p.tool # None ELSE p.id # None

(* Mutant: a retry prompt is a text, as with the other models. *)
RetriedAsText(style, k, p) == UserText(k)

Retried(style, k, p) ==
  IF style.retries = "result" /\ NamesCall(style, p)
  THEN ResultOf(style, k, p) ELSE UserText(k)

PartMessages(style, part) ==
  LET k == part.at
      p == history[k] IN
  CASE p.kind = "system" -> IF style.system = "inline"
                            THEN <<Message("system", <<Says("text", <<k>>, None)>>)>> ELSE <<>>
    [] p.kind = "user" -> UserText(k)
    [] p.kind = "return" -> ResultOf(style, k, p)
    [] p.kind = "retry" -> Retried(style, k, p)
    [] p.kind = "response" -> ResponseMessages(style, k, p.parts, part.calls)

(* Mutant: only user prompts are merged. *)
MergesPrompts(style, m) == style.merges /\ m.items[1].is = "text"

Merges(style, m) == style.merges

(* Mutant: a part replaces what it is merged into. *)
Replaced(last, m) == m

Merged(last, m) == [last EXCEPT !.items = @ \o m.items]

Added(style, messages, m) ==
  IF m.role = "user" /\ Merges(style, m) /\ messages # <<>> /\ Last(messages).role = "user"
  THEN Append(Front(messages), Merged(Last(messages), m))
  ELSE Append(messages, m)

Converted(style, parts) ==
  FoldLeft(LAMBDA messages, m : Added(style, messages, m), <<>>,
           FlattenSeq([i \in DOMAIN parts |-> PartMessages(style, parts[i])]))

(* The system prompts that are sent.  Those of "first" go in front of the  *)
(* first user prompt, once one has some before it.                         *)
SystemPrompts(style) ==
  LET prompts == {k \in DOMAIN history : history[k].kind = "system"}
      users == {k \in DOMAIN history : history[k].kind = "user"}
      before(k) == {i \in prompts : i < k}
      ms == Converted(style, AllParts)
  IN CASE style.system = "inline" ->
            {ms[i].items[1].what[1] : i \in {n \in DOMAIN ms : ms[n].role = "system"}}
       [] style.system = "last" -> {i \in prompts : \A j \in prompts : j <= i}
       [] style.system = "first" ->
            UNION {before(k) : k \in {u \in users : \A v \in users : before(v) # {} => u <= v}}
       [] style.system = "apart" -> prompts

(* Cohere's API has one message and a history before it.  The message      *)
(* waits until the next user prompt; a retry prompt takes its place.  What *)
(* is sent, in order, as texts (they are assumed not to be empty).         *)
Texts(k) ==
  SelectSeq([j \in DOMAIN history[k].parts |-> <<k, j>>],
            LAMBDA x : history[k].parts[x[2]] = "text")

CoherePart(sent, k) ==
  CASE history[k].kind = "system" -> [sent EXCEPT !.system = {k}]
    [] history[k].kind = "user" ->
         [sent EXCEPT !.history = @ \o sent.message, !.message = <<<<k>>>>]
    [] history[k].kind = "retry" -> [sent EXCEPT !.message = <<<<k>>>>]
    [] history[k].kind = "return" -> [sent EXCEPT !.history = Append(@, <<k>>)]
    [] history[k].kind = "response" -> [sent EXCEPT !.history = @ \o Texts(k)]

CohereSends ==
  FoldLeft(CoherePart, [system |-> {}, history |-> <<>>, message |-> <<>>],
           [k \in DOMAIN history |-> k])

----------------------------------------------------------------------------
(* Properties *)

TypeOK ==
  /\ mode \in {"run", "stream"} /\ named \in BOOLEAN
  /\ running \in BOOLEAN /\ turns \in 0..MaxTurns
  /\ Providers \subseteq Style

(* What an agent with these processors may send: the stream has none.      *)
Shortened(chain) == IF mode = "run" THEN Processed(Messages, chain) ELSE {}

Alternate(ms) == \A i \in DOMAIN ms : i < Len(ms) => ms[i].role # ms[i + 1].role

(* Processors that leave the end of a history, and maybe its first message *)
Cuts(chain) ==
  \A i \in DOMAIN chain :
    /\ chain[i].type # "FilterHistory"
    /\ chain[i].type = "TruncateByTokens" => chain[i].keep_first_n <= 1

(* The models that merge keep the order of user and assistant messages     *)
(* that their API demands, whatever the agent appends: failed calls, a     *)
(* rejected output, a run started on the history of another                *)
(* (anthropic/model.rs, google/model.rs convert_messages).  So they do     *)
(* when processors cut the history (history.rs), but that the first        *)
(* message may then be the assistant's.                                    *)
TurnsAlternate ==
  \A style \in {Anthropic, Google} :
    /\ Alternate(Converted(style, AllParts))
    /\ history # <<>> => Head(Converted(style, AllParts)).role = "user"
    /\ \A chain \in {c \in Chains : Cuts(c)} : \A messages \in Shortened(chain) :
         Alternate(Converted(style, Parts(messages)))

(* The calls the run took its output from, and executed others beside.     *)
Unanswered ==
  UNION {{k} \X (Calls(history[k].parts) \ Executed(history[k].parts)) :
           k \in {i \in DOMAIN history : history[i].kind = "response"}}

Keys(m, kind, but) ==
  LET items == SelectSeq(m.items, LAMBDA x : x.is = kind /\ x.what \notin but)
  IN [i \in DOMAIN items |-> items[i].key]

Paired(ms, but) ==
  \A i \in DOMAIN ms :
    ms[i].role = "assistant" =>
      Keys(ms[i], "call", but) = IF i < Len(ms) THEN Keys(ms[i + 1], "result", {}) ELSE <<>>

(* Processors after which no call and no answer is left alone.  A          *)
(* truncation looks for some only when it truncates.                       *)
Repairs(chain) ==
  /\ chain # <<>>
  /\ \/ Last(chain).type = "TruncateByTokens"
     \/ \A i \in DOMAIN chain : chain[i].type \in {"TruncateHistory", "TruncateByTokens"}

(* The message after a response with calls has the results of exactly      *)
(* these calls, in their order, the failed ones' too: also where calls are *)
(* matched by name, and two are of the same tool (anthropic/model.rs and   *)
(* google/model.rs convert_messages, convert_retry_prompt).  Only the call *)
(* of the output tool that the run does not execute goes without one       *)
(* (run.rs process_response).  For Anthropic the calls need the ids its    *)
(* own responses give them: to a failed call of a model that gives none,   *)
(* Google's, it sends no result at all.  No truncation separates a call    *)
(* with an id from its result, nor does what a filter leaves alone outlast *)
(* one by tokens; once something is truncated, the unanswered calls are    *)
(* gone, too (history.rs).                                                 *)
ResultsFollowCalls ==
  \A style \in {Google} \cup (IF named THEN {Anthropic} ELSE {}) :
    /\ Paired(Converted(style, AllParts), Unanswered)
    /\ named =>
         \A chain \in {c \in Chains : Repairs(c)} : \A messages \in Shortened(chain) :
           Paired(Converted(style, Parts(messages)),
                  IF messages = Messages THEN Unanswered ELSE {})

SaidBy(ms) ==
  LET items == SelectSeq(FlattenSeq([i \in DOMAIN ms |-> ms[i].items]),
                         LAMBDA x : x.is \in {"text", "result"})
  IN [i \in DOMAIN items |-> items[i].what]

Said ==
  FlattenSeq([k \in DOMAIN history |->
                CASE history[k].kind = "system" -> <<>>
                  [] history[k].kind = "response" -> Texts(k)
                  [] OTHER -> <<<<k>>>>])

(* Every text and every result of the history is sent once and in order,   *)
(* by every model but Cohere's; ChatGPT's leaves out results without an    *)
(* id.  With them goes every system prompt of the runs it is the history   *)
(* of; OpenAI's Responses model sends the latest alone, and Claude Code's  *)
(* those of the first run that has one (convert_messages of each model).   *)
NothingLost ==
  LET prompts == {k \in DOMAIN history : history[k] = System} IN
  \A style \in Providers :
    /\ ~style.splits \/ named =>
         SaidBy(SelectSeq(Converted(style, AllParts), LAMBDA m : m.role # "system")) = Said
    /\ IF prompts = {} THEN SystemPrompts(style) = {}
       ELSE CASE style.system = "last" -> SystemPrompts(style) = {Max(prompts)}
              [] style.system = "first" -> SystemPrompts(style) = {Min(prompts)}
              [] OTHER -> SystemPrompts(style) = prompts

(* Cohere's model sends each result and each text of a response once and   *)
(* in order.  Of the user and retry prompts it loses those that a retry    *)
(* prompt is the next after, the latest it sends, and behind everything    *)
(* else; the latest system prompt alone (cohere/model.rs convert_messages).*)
CohereAsksTheLatest ==
  LET sent == CohereSends.history \o CohereSends.message
      asked == {k \in DOMAIN history : history[k].kind \in {"user", "retry"}}
      after(k) == {i \in asked : i > k}
      lost == {k \in asked : after(k) # {} /\ history[Min(after(k))].kind = "retry"}
      prompts == {k \in DOMAIN history : history[k] = System}
  IN /\ IsInjective(sent)
     /\ {sent[i] : i \in DOMAIN sent} = {Said[i] : i \in DOMAIN Said} \ {<<k>> : k \in lost}
     /\ \A asks \in BOOLEAN :
          LET these(x) == (x \in {<<k>> : k \in asked}) = asks /\ x \notin {<<k>> : k \in lost}
          IN SelectSeq(sent, these) = SelectSeq(Said, these)
     /\ asked # {} => Last(sent) = <<Max(asked)>>
     /\ CohereSends.system = {k \in prompts : k = Max(prompts)}

(* A truncation with room for the first message and an exchange never      *)
(* drops what the request is about: the last prompt, or the answers to the *)
(* last calls.  With less room the answers go as orphans, and the model is *)
(* asked again without them (history.rs TruncateHistory).                  *)
LatestSent ==
  \A chain \in Chains :
    (chain # <<>> /\ \A i \in DOMAIN chain : chain[i].type = "TruncateHistory"
                                          /\ chain[i].max >= 3) =>
      \A messages \in Shortened(chain) : Messages # <<>> => Last(messages) = Last(Messages)

(* What a model is sent is the history, whoever it is, but for what its    *)
(* conversion is said above to leave out.                                  *)
HistorySent == TypeOK /\ NothingLost /\ CohereAsksTheLatest /\ LatestSent
=============================================================================
