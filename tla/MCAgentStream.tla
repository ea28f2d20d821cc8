---------------------------- MODULE MCAgentStream ----------------------------
(* Instances of AgentStream for TLC: one registered tool, and responses    *)
(* that take the different paths of the streaming task.                    *)
EXTENDS AgentStream

CONSTANTS search, output_tool, unknown_tool, good, unparsable, none

MCTools == {search}
MCOutputs == {good}

Text == [kind |-> "text", value |-> good]
Call(t) == [kind |-> "call", tool |-> t, value |-> unparsable]

Used == [request_tokens |-> 1, response_tokens |-> 0, total_tokens |-> none]

Answering(parts, finish, used) == [parts |-> parts, finish |-> finish, usage |-> used]

TwiceSearch == Answering(<<Call(search), Call(search)>>, "tool_call", Used)
TextAndUnknown == Answering(<<Text, Call(search), Call(unknown_tool)>>, "stop", none)
Final == Answering(<<Text>>, none, Used)
CutShort == Answering(<<Text>>, "length", Used)
Empty == Answering(<<>>, none, none)

MCResponses ==
  {TwiceSearch, TextAndUnknown, Final, CutShort, Empty}

(* What a provider that gives no ids has answered. *)
MCUnnamed == {TextAndUnknown}

ToolLimit ==
  [request_tokens |-> none, response_tokens |-> none, total_tokens |-> none,
   requests |-> none, tool_calls |-> 2]

(* A stream whose consumer may cancel and drop it, with a limit; and one   *)
(* with a long history that is cut now and then.                           *)
Interactive ==
  [system |-> FALSE, compression |-> "off", cancellable |-> TRUE,
   droppable |-> TRUE, limits |-> ToolLimit]
Compressing ==
  [system |-> TRUE, compression |-> "summarize", cancellable |-> FALSE,
   droppable |-> FALSE, limits |-> none]

MCOptions == {Interactive, Compressing}
=============================================================================
