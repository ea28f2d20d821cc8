---------------------------- MODULE AgentStream ----------------------------
(***************************************************************************)
(* serdes-ai-agent/src/stream.rs: the streaming twin of the run loop.  A   *)
(* spawned task drives the model and the tools and reports what it does    *)
(* through a bounded channel; a consumer reads the channel, or drops it,   *)
(* and somebody may hold the cancellation token.                           *)
(*                                                                         *)
(* The task is sequential: code between two awaits is one action.  Its     *)
(* sends are awaits too: an action leaves the events it sends in `outbox', *)
(* and the next one waits until all of them are in the channel (or lost,   *)
(* when the receiver is gone).                                             *)
(***************************************************************************)
EXTENDS AgentCore, History

CONSTANTS
  Responses,     \* what the model may stream
  Unnamed,       \* those whose calls have no tool_call_id, as Google's have none
  Options,       \* what a stream may be started with, see RunOptions
  AgentLimits,   \* usage_limits of the agent, None when there are none
  Capacity,      \* of the channel; 64 in the code
  MaxSteps       \* bound: the requests a run may make before the model fails

(* The agent and the run options as far as the task looks at them: whether *)
(* the static system prompt is not empty, the strategy of the context      *)
(* compression, whether the stream was made by new_with_cancel, whether    *)
(* its consumer may drop it, and the usage limits of the run.              *)
RunOptions ==
  [system: BOOLEAN, compression: {"off", "truncate", "summarize"},
   cancellable: BOOLEAN, droppable: BOOLEAN, limits: UsageLimits \cup {None}]

ASSUME StreamAssumption ==
  /\ Responses \subseteq Response
  /\ Unnamed \subseteq Responses
  /\ Options \subseteq RunOptions
  /\ AgentLimits \in UsageLimits \cup {None}
  /\ Capacity \in Nat \ {0}
  /\ MaxSteps \in Nat

VARIABLES
  options,    \* what the stream was started with: it never changes
  pc,         \* where the task is
  step,
  messages,   \* see History
  responses,
  usage,
  pending,    \* pending_tool_names
  reply,      \* the response the model is streaming
  streamed,   \* how many of its parts have arrived
  answers,    \* tool_req: the answers to the calls executed so far
  outbox,     \* events the task is sending
  log,        \* every event that entered the channel
  read,       \* how many of them the consumer has taken
  open,       \* the consumer still holds the receiver
  cancelled

account == <<step, responses, usage>>
streaming == <<reply, streamed>>
consumer == <<read, open>>
vars == <<options, pc, account, messages, pending, streaming, answers, outbox, log, consumer,
          cancelled>>

SystemPrompt == options.system
Compression == options.compression
Cancellable == options.cancellable
Droppable == options.droppable
RunLimits == options.limits

----------------------------------------------------------------------------
(* Events.  An Err item of the channel is a "failed" event. *)

Event(kind) == [kind |-> kind]

RequestStart(n) == [kind |-> "request_start", step |-> n]

ToolCallStart(tool) == [kind |-> "tool_start", tool |-> tool]

ResponseComplete(n, r) ==
  [kind |-> "response_complete", step |-> n, reported |-> r.usage # None]

ToolCallComplete(n, p, tool) ==
  [kind |-> "tool_complete", of |-> n, call |-> p, tool |-> tool]

ToolExecuted(n, p, verdict) ==
  [kind |-> "tool_executed", of |-> n, call |-> p, verdict |-> verdict]

RunComplete(history, used) ==
  [kind |-> "run_complete", messages |-> history, usage |-> used]

Cancelled(tools, used) == [kind |-> "cancelled", pending |-> tools, usage |-> used]

Failed(error) == [kind |-> "failed", error |-> error]

ModelFailed == <<Event("error"), Failed("model")>>

----------------------------------------------------------------------------
Last == responses[Len(responses)]

(* Every call of a response is executed, the output tool's included. *)
StreamCalls(r) == {p \in DOMAIN r.parts : r.parts[p].kind = "call"}

HaveIds(r) == r \notin Unnamed

(* A response as it is pushed onto the messages. *)
Pushed(n, r) ==
  [kind |-> "response", of |-> n, ids |-> HaveIds(r), calls |-> StreamCalls(r),
   text |-> StreamCalls(r) # DOMAIN r.parts]

(* A stream that ends without a finish reason is taken for a complete one. *)
Complete(r) == r.finish \in {"stop", "end_turn", None}

Init ==
  /\ options \in Options
  /\ pc = "top"
  /\ step = 0
  /\ messages = (IF SystemPrompt THEN <<Event("system")>> ELSE <<>>) \o <<Event("prompt")>>
  /\ responses = <<>>
  /\ usage = ZeroUsage
  /\ pending = <<>>
  /\ reply = None
  /\ streamed = 0
  /\ answers = {}
  /\ outbox = <<Event("run_start")>>
  /\ log = <<>>
  /\ read = 0
  /\ open = TRUE
  /\ cancelled = FALSE

----------------------------------------------------------------------------
(* The channel *)

(* The task is at the await at `place', with nothing left to send. *)
At(place) == pc = place /\ outbox = <<>>

Emit(events) == outbox' = events

HasRoom == Len(log) - read < Capacity

SendEvent ==
  /\ outbox # <<>>
  /\ open
  /\ HasRoom
  /\ log' = Append(log, Head(outbox))
  /\ outbox' = Tail(outbox)
  /\ UNCHANGED <<pc, account, messages, pending, streaming, answers, consumer, cancelled>>

(* Mutant: a send waits for room in a channel nobody reads. *)
SendBlocked == outbox # <<>> /\ ~open /\ UNCHANGED vars

(* A failed send of two kinds of event ends the task, the others ignore it.*)
SendRefused ==
  /\ outbox # <<>>
  /\ ~open
  /\ IF Head(outbox).kind \in {"run_start", "request_start"}
     THEN outbox' = <<>> /\ pc' = "ended"
     ELSE outbox' = Tail(outbox) /\ UNCHANGED pc
  /\ UNCHANGED <<account, messages, pending, streaming, answers, log, consumer, cancelled>>

----------------------------------------------------------------------------
(* The loop, up to the await on the model *)

(* The token is looked at at the top of the loop, before each tool and     *)
(* first whenever the model stream is polled.                              *)
ObserveCancel ==
  /\ \E place \in {"top", "streaming", "tools"} : At(place)
  /\ cancelled
  /\ Emit(<<Cancelled(pending, usage), Failed("cancelled")>>)
  /\ pc' = "ended"
  /\ UNCHANGED <<account, messages, pending, streaming, answers, log, consumer, cancelled>>

(* check_time is not called here. *)
OverLimits ==
  \/ AgentLimits # None /\ LimitExceeded(usage, AgentLimits)
  \/ RunLimits # None /\ LimitExceeded(usage, RunLimits)

BeginStep ==
  /\ At("top")
  /\ ~cancelled
  /\ step' = step + 1
  /\ IF OverLimits
     THEN Emit(<<Failed("limit")>>) /\ pc' = "ended"
     ELSE Emit(<<RequestStart(step + 1), Event("context_info")>>) /\ pc' = "sizing"
  /\ UNCHANGED <<messages, responses, usage, pending, streaming, answers, log, consumer,
                 cancelled>>

(* The context is small enough, or there is no compression. *)
KeepContext ==
  /\ At("sizing")
  /\ pc' = "asking"
  /\ UNCHANGED <<account, messages, pending, streaming, answers, outbox, log, consumer,
                 cancelled>>

(* new_with_cancel truncates whatever the strategy and does not report it. *)
CompressTo(history) ==
  /\ messages' = history
  /\ Emit(IF Cancellable THEN <<>> ELSE <<Event("context_compressed")>>)
  /\ pc' = "asking"
  /\ UNCHANGED <<account, pending, streaming, answers, log, consumer, cancelled>>

(* Also what becomes of a summary that is empty or fails. *)
TruncateContext ==
  /\ At("sizing")
  /\ Compression # "off"
  /\ \E history \in TruncatedByTokens(messages, 2) : CompressTo(history)

SummarizeContext ==
  /\ At("sizing")
  /\ Compression = "summarize"
  /\ ~Cancellable
  /\ Len(messages) > 4
  /\ CompressTo(SubSeq(messages, 1, 2) \o <<Event("summary")>>
                  \o SubSeq(messages, Len(messages) - 1, Len(messages)))

RequestFails ==
  /\ At("asking")
  /\ Emit(ModelFailed)
  /\ pc' = "ended"
  /\ UNCHANGED <<account, messages, pending, streaming, answers, log, consumer, cancelled>>

RequestOpens(r) ==
  /\ At("asking")
  /\ step <= MaxSteps
  /\ reply' = r
  /\ streamed' = 0
  /\ pc' = "streaming"
  /\ UNCHANGED <<account, messages, pending, answers, outbox, log, consumer, cancelled>>

----------------------------------------------------------------------------
(* The model stream *)

(* The select! is biased: the token comes first. *)
Streaming == At("streaming") /\ ~cancelled

StreamPart ==
  /\ Streaming
  /\ streamed < Len(reply.parts)
  /\ streamed' = streamed + 1
  /\ LET part == reply.parts[streamed + 1]
     IN IF part.kind = "call"
        THEN Emit(<<ToolCallStart(part.tool)>>) /\ pending' = Append(pending, part.tool)
        ELSE Emit(<<Event("text")>>) /\ UNCHANGED pending
  /\ UNCHANGED <<pc, account, messages, reply, answers, log, consumer, cancelled>>

(* Mutant: the error is reported, and is not the last item. *)
StreamErrs ==
  /\ Streaming
  /\ Emit(<<Event("error")>>)
  /\ pc' = "ended"
  /\ UNCHANGED <<account, messages, pending, streaming, answers, log, consumer, cancelled>>

(* An error in the stream, or an end before any part. *)
StreamFails ==
  /\ Streaming
  /\ Emit(ModelFailed)
  /\ pc' = "ended"
  /\ UNCHANGED <<account, messages, pending, streaming, answers, log, consumer, cancelled>>

(* Mutant: the token is looked at once per response. *)
StreamOver == At("streaming") /\ streamed = Len(reply.parts) /\ reply.parts # <<>>

(* The stream ends: the response is recorded and charged. *)
StreamEnds == Streaming /\ streamed = Len(reply.parts) /\ reply.parts # <<>>

Charged == IF reply.usage = None THEN usage ELSE AddRequest(usage, reply.usage)

RecordReply ==
  /\ responses' = Append(responses, reply)
  /\ usage' = Charged

(* With tool calls: the response enters the messages ahead of the answers. *)
ResponseWithCalls ==
  /\ StreamEnds
  /\ StreamCalls(reply) # {}
  /\ RecordReply
  /\ messages' = Append(messages, Pushed(Len(responses) + 1, reply))
  /\ Emit(<<ResponseComplete(step, reply)>>)
  /\ pc' = "tools"
  /\ UNCHANGED <<step, pending, streaming, answers, log, consumer, cancelled>>

FinalResponse ==
  /\ StreamEnds
  /\ StreamCalls(reply) = {}
  /\ Complete(reply)
  /\ RecordReply
  /\ messages' = Append(messages, Pushed(Len(responses) + 1, reply))
  /\ Emit(<<ResponseComplete(step, reply), Event("output_ready"),
            RunComplete(messages', usage')>>)
  /\ pc' = "ended"
  /\ UNCHANGED <<step, pending, streaming, answers, log, consumer, cancelled>>

(* Cut short: the same messages are sent once more. *)
ResponseCutShort ==
  /\ StreamEnds
  /\ StreamCalls(reply) = {}
  /\ ~Complete(reply)
  /\ RecordReply
  /\ Emit(<<ResponseComplete(step, reply)>>)
  /\ pc' = "top"
  /\ UNCHANGED <<step, messages, pending, streaming, answers, log, consumer, cancelled>>

----------------------------------------------------------------------------
(* The tools, one after the other *)

OpenCalls == StreamCalls(Last) \ {a[1] : a \in answers}

NextCall == CHOOSE p \in OpenCalls : \A q \in OpenCalls : p <= q

NextTool == Last.parts[NextCall].tool

CallTool ==
  /\ At("tools")
  /\ ~cancelled
  /\ Emit(<<ToolCallComplete(Len(responses), NextCall, NextTool)>>)
  /\ pc' = "announced"
  /\ UNCHANGED <<account, messages, pending, streaming, answers, log, consumer, cancelled>>

(* Every entry with the name goes, however many calls the tool has. *)
WithoutTool(names, tool) == Without(names, tool)

(* Counted when the event is in the channel, before the tool runs. *)
BeginTool ==
  /\ At("announced")
  /\ usage' = RecordToolCalls(usage, 1)
  /\ pending' = WithoutTool(pending, NextTool)
  /\ pc' = "executing"
  /\ UNCHANGED <<step, messages, responses, streaming, answers, outbox, log, consumer,
                 cancelled>>

(* Mutant: an unknown tool is reported and not answered. *)
AnswerFound(verdict) ==
  LET given == answers \cup {<<NextCall, verdict>>}
  IN IF OpenCalls = {NextCall}
     THEN /\ messages' = Append(messages, [kind |-> "answers", of |-> Len(responses),
                                           ids |-> HaveIds(Last), answers |-> {a \in given : a[2] # "not_found"}])
          /\ answers' = {}
          /\ pc' = "top"
     ELSE /\ answers' = given
          /\ pc' = "tools"
          /\ UNCHANGED messages

(* The answers enter the messages together, with the ids of their calls.   *)
Answer(verdict) ==
  LET given == answers \cup {<<NextCall, verdict>>}
  IN IF OpenCalls = {NextCall}
     THEN /\ messages' = Append(messages, [kind |-> "answers", of |-> Len(responses),
                                           ids |-> HaveIds(Last), answers |-> given])
          /\ answers' = {}
          /\ pc' = "top"
     ELSE /\ answers' = given
          /\ pc' = "tools"
          /\ UNCHANGED messages

ToolAnswers(verdict) ==
  /\ At("executing")
  /\ verdict \in (IF NextTool \in Tools THEN {"returned", "error"} ELSE {"not_found"})
  /\ Answer(verdict)
  /\ Emit(<<ToolExecuted(Len(responses), NextCall, verdict)>>)
  /\ UNCHANGED <<account, pending, streaming, log, consumer, cancelled>>

----------------------------------------------------------------------------
(* The consumer and the holder of the token *)

Receive ==
  /\ open
  /\ read < Len(log)
  /\ read' = read + 1
  /\ UNCHANGED <<pc, account, messages, pending, streaming, answers, outbox, log, open,
                 cancelled>>

Closed == pc = "ended" /\ outbox = <<>>

DropStream ==
  /\ Droppable
  /\ open
  /\ ~Closed
  /\ open' = FALSE
  /\ UNCHANGED <<pc, account, messages, pending, streaming, answers, outbox, log, read,
                 cancelled>>

Cancel ==
  /\ Cancellable
  /\ ~cancelled
  /\ ~Closed
  /\ cancelled' = TRUE
  /\ UNCHANGED <<pc, account, messages, pending, streaming, answers, outbox, log, consumer>>

(* The consumer has seen the end of the stream, or went away before. *)
Over == Closed /\ (open => read = Len(log)) /\ UNCHANGED vars

----------------------------------------------------------------------------
Verdicts == {"returned", "error", "not_found"}

Task ==
  \/ SendEvent \/ SendRefused
  \/ ObserveCancel
  \/ BeginStep
  \/ KeepContext \/ TruncateContext \/ SummarizeContext
  \/ RequestFails
  \/ \E r \in Responses : RequestOpens(r)
  \/ StreamPart \/ StreamFails
  \/ ResponseWithCalls \/ FinalResponse \/ ResponseCutShort
  \/ CallTool \/ BeginTool
  \/ \E verdict \in Verdicts : ToolAnswers(verdict)

Next == (Task \/ Receive \/ DropStream \/ Cancel \/ Over) /\ UNCHANGED options

Spec == Init /\ [][Next]_vars

(* The spawned task is polled until it ends, the model client and the      *)
(* tools return, and the consumer reads on until it drops the stream.      *)
Fairness ==
  /\ WF_vars(Task /\ UNCHANGED options)
  /\ WF_vars(Receive /\ UNCHANGED options)

FairSpec == Spec /\ Fairness

----------------------------------------------------------------------------
(* Properties *)

EventKinds ==
  {"run_start", "request_start", "context_info", "context_compressed", "text",
   "tool_start", "response_complete", "tool_complete", "tool_executed", "output_ready",
   "run_complete", "cancelled", "error", "failed"}

(* Type invariant; the channel never holds more than its capacity, and the *)
(* answers being collected are to calls of the last response.              *)
TypeOK ==
  /\ pc \in {"top", "sizing", "asking", "streaming", "tools", "announced", "executing", "ended"}
  /\ step \in 0 .. MaxSteps + 1
  /\ Len(responses) <= step
  /\ usage \in RunUsage
  /\ reply \in Responses \cup {None}
  /\ reply # None => streamed \in 0 .. Len(reply.parts)
  /\ answers # {} => answers \subseteq StreamCalls(Last) \X Verdicts
  /\ \A k \in DOMAIN messages : messages[k].kind \in
       {"system", "prompt", "summary", "response", "answers"}
  /\ \A k \in DOMAIN log : log[k].kind \in EventKinds
  /\ read \in 0 .. Len(log)
  /\ Len(log) - read <= Capacity
  /\ {open, cancelled} \subseteq BOOLEAN

(* Positions of the events of a kind among the first n. *)
Events(kind, n) == {k \in 1 .. n : log[k].kind = kind}

(* The consumer of poll_next can tell how a stream ended: a RunComplete or *)
(* an Err item comes last, and comes whatever way the task took, unless    *)
(* nobody was there to take it.                                            *)
EndReported ==
  /\ \A kind \in {"run_complete", "failed"} : \A k \in Events(kind, Len(log)) :
       k = Len(log) /\ Closed
  /\ (Closed /\ open) =>
       log # <<>> /\ log[Len(log)].kind \in {"run_complete", "failed"}

(* The usage in RunComplete and Cancelled is what the consumer can count:  *)
(* the ResponseComplete events that report usage and the ToolCallComplete  *)
(* events, also when the run is cancelled between two tools.               *)
UsageReported ==
  \A k \in Events("run_complete", Len(log)) \cup Events("cancelled", Len(log)) :
    /\ log[k].usage.requests =
         Cardinality({j \in Events("response_complete", k) : log[j].reported})
    /\ log[k].usage.tool_calls = Cardinality(Events("tool_complete", k))

AnswersIn(history) ==
  UNION {{<<history[k].of, a[1], a[2]>> : a \in history[k].answers} :
           k \in {j \in DOMAIN history : history[j].kind = "answers"}}

(* The messages in RunComplete answer the calls the consumer saw executed  *)
(* (ToolExecuted), with the verdicts it saw; each of them, unless the      *)
(* context was compressed, and no others.                                  *)
HistoryMatchesEvents ==
  \A k \in Events("run_complete", Len(log)) :
    LET seen == {<<log[j].of, log[j].call, log[j].verdict>> :
                   j \in Events("tool_executed", k)}
    IN /\ AnswersIn(log[k].messages) \subseteq seen
       /\ Compression = "off" => AnswersIn(log[k].messages) = seen

(* Calls of the tool among the events of the kind since the last request.  *)
CallsSince(kind, tool, k) ==
  {j \in Events(kind, k) :
     log[j].tool = tool /\ \A r \in Events("request_start", k) : r < j}

(* pending_tools of a Cancelled event: a tool named there has a call that  *)
(* was streamed and not begun, and a tool none of whose calls was begun is *)
(* named there.  (Of two calls of one tool the first takes both names away.)*)
PendingReported ==
  \A k \in Events("cancelled", Len(log)) :
    \A tool \in Tools \cup {OutputTool, UnknownTool} :
      LET started == CallsSince("tool_start", tool, k)
          begun   == CallsSince("tool_complete", tool, k)
          named   == \E n \in DOMAIN log[k].pending : log[k].pending[n] = tool
      IN /\ named => Cardinality(begun) < Cardinality(started)
         /\ started # {} /\ begun = {} => named

(* No request is made the consumer was not told of: with the receiver gone *)
(* the task ends at its next RequestStart.                                 *)
RequestAnnounced ==
  pc \in {"sizing", "asking", "streaming", "tools", "announced", "executing"} =>
    RequestStart(step) \in {log[k] : k \in DOMAIN log} \cup {outbox[k] : k \in DOMAIN outbox}

(* Whatever the stream reports is true, and it fits the channel. *)
ReportsTrue ==
  TypeOK /\ EndReported /\ UsageReported /\ PendingReported /\ RequestAnnounced

(* What is sent to the model pairs the calls that have ids with their      *)
(* answers, as providers demand, however often truncation or a summary has *)
(* cut the history before; without compression it so pairs all calls.  (A  *)
(* cut may part a call without an id from its answer, and the repair keeps *)
(* what is left: providers that give no ids are sent orphans.  A summary   *)
(* of a history without a system prompt keeps the first response and not   *)
(* the answers to its calls.)                                              *)
WellPairedRequests ==
  pc = "asking" /\ (Compression = "summarize" => SystemPrompt) =>
    WellPaired(messages, IF Compression = "off" THEN BOOLEAN ELSE {TRUE})

Announced(events) == Cardinality({k \in DOMAIN events : events[k].kind = "tool_complete"})

(* Once the token is cancelled no response is recorded, no step begins and *)
(* no further tool is announced; one announced before still runs.          *)
NoWorkAfterCancel ==
  [][cancelled => /\ UNCHANGED <<step, responses>>
                  /\ Announced(log' \o outbox') <= Announced(log \o outbox)]_vars

(* A stream that is cancelled or whose consumer went away comes to its     *)
(* end: no send, stream or tool it waits for keeps the task for ever.      *)
AbandonedStreamEnds == (cancelled \/ ~open) ~> Closed
=============================================================================
