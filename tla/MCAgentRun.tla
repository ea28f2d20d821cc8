----------------------------- MODULE MCAgentRun -----------------------------
(* Instances of AgentRun for TLC: two registered tools, two outputs the    *)
(* validators accept, one of which they change into a third, and one they  *)
(* reject, and the kinds of response that take different paths through     *)
(* process_response.                                                       *)
EXTENDS AgentRun, TLC

CONSTANTS search, fetch, output_tool, unknown_tool, good, better, bad, corrected, unparsable, none

MCTools == {search, fetch}
MCOutputs == {good, better, bad, corrected}
MCAccepted == {good, better}
MCValidated == (good :> corrected) @@ (better :> better)

Text(v) == [kind |-> "text", value |-> v]
Call(t) == [kind |-> "call", tool |-> t, value |-> unparsable]
OutputCall(v) == [kind |-> "call", tool |-> output_tool, value |-> v]

Plain == [request_tokens |-> 1, response_tokens |-> 0, total_tokens |-> none]
Totalled == [request_tokens |-> 1, response_tokens |-> 1, total_tokens |-> 2]

Answering(parts, finish, used) == [parts |-> parts, finish |-> finish, usage |-> used]

(* Responses that call tools: two of them, an unregistered one, a call     *)
(* beside text, the output tool beside a call and with bad arguments.      *)
CallingResponses ==
  { Answering(<<Call(search), Call(fetch)>>, "tool_call", Plain),
    Answering(<<Call(unknown_tool), Text(bad)>>, "tool_call", none),
    Answering(<<Text(good), Call(search)>>, "stop", Totalled),
    Answering(<<OutputCall(good), Call(fetch)>>, "tool_call", Plain),
    Answering(<<OutputCall(unparsable)>>, "tool_call", Plain) }

(* Responses without calls: accepted, rejected, two outputs of which the   *)
(* last counts, truncated, empty, and a provider that says end_turn.       *)
ClosingResponses ==
  { Answering(<<Text(good)>>, "stop", Plain),
    Answering(<<OutputCall(bad)>>, "tool_call", Plain),
    Answering(<<Text(bad), OutputCall(better)>>, "length", none),
    Answering(<<Text(unparsable)>>, "length", Plain),
    Answering(<<>>, "stop", none),
    Answering(<<Text(good)>>, "end_turn", Plain) }

MCResponses == CallingResponses \cup ClosingResponses

(* The same from a provider that reports usage with every response. *)
MeteredResponses ==
  {[r EXCEPT !.usage = IF @ = none THEN Plain ELSE @] : r \in MCResponses}

MCMaxRetries == (search :> 1) @@ (fetch :> 0)

NoLimits == none
Unlimited ==
  [request_tokens |-> none, response_tokens |-> none, total_tokens |-> none,
   requests |-> none, tool_calls |-> none]
TwoRequests == [Unlimited EXCEPT !.requests = 2]
ToolLimit == [Unlimited EXCEPT !.tool_calls = 2]
TokenLimit == [Unlimited EXCEPT !.response_tokens = 1, !.total_tokens = 1, !.requests = 1]
=============================================================================
