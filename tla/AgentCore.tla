----------------------------- MODULE AgentCore -----------------------------
(***************************************************************************)
(* The vocabulary shared by the modules of serdes-ai-agent: what a model   *)
(* response is made of, which of its parts are tool calls the agent must   *)
(* execute and which carry the output, and how a run counts its usage and  *)
(* compares it with its limits.                                            *)
(*                                                                         *)
(* Only what the run loop distinguishes is kept of a part.  A text part or *)
(* the arguments of a call carry a `value': the output the schema parses   *)
(* from them, or Unparsable.  Thinking, file and builtin-tool parts are    *)
(* recorded by the code and never looked at, so they are left out.         *)
(***************************************************************************)
EXTENDS Integers, Sequences, FiniteSets

CONSTANTS
  Tools,            \* names of the tools registered with the agent
  OutputTool,       \* name of the output tool of the output schema
  UnknownTool,      \* a name the model invents: no such tool is registered
  Outputs,          \* the values the output schema can parse
  AcceptedOutputs,  \* those of them all the output validators accept
  Unparsable,       \* text or arguments from which no output is parsed
  None              \* Rust's Option::None

ASSUME CoreAssumption ==
  /\ OutputTool \notin Tools
  /\ UnknownTool \notin Tools
  /\ OutputTool # UnknownTool
  /\ AcceptedOutputs \subseteq Outputs
  /\ Unparsable \notin Outputs
  /\ None \notin Outputs
  /\ None \notin Int

----------------------------------------------------------------------------
(* Responses *)

Part ==
  [kind: {"text"}, value: Outputs \cup {Unparsable}]
    \cup [kind: {"call"}, tool: Tools \cup {OutputTool, UnknownTool},
          value: Outputs \cup {Unparsable}]

FinishReason == {"stop", "end_turn", "length", "tool_call", None}

(* RequestUsage: the code counts an absent number of tokens as 0, but for  *)
(* the total, whose absence it tells apart.                                *)
RequestUsage ==
  [request_tokens: Nat, response_tokens: Nat, total_tokens: Nat \cup {None}]

Response ==
  [parts: Seq(Part), finish: FinishReason, usage: RequestUsage \cup {None}]

(* An output-tool call whose arguments parse is output; one whose          *)
(* arguments do not parse falls through to the regular calls.              *)
CarriesOutput(part) ==
  /\ part.value \in Outputs
  /\ part.kind = "call" => part.tool = OutputTool

OutputPositions(r) == {i \in DOMAIN r.parts : CarriesOutput(r.parts[i])}

(* The calls to execute, named by their position in the response, which    *)
(* stands for the tool_call_id.                                            *)
CallPositions(r) ==
  {i \in DOMAIN r.parts : r.parts[i].kind = "call" /\ ~CarriesOutput(r.parts[i])}

(* found_output: a later part overwrites an earlier one. *)
LastOutput(r) ==
  {i \in OutputPositions(r) : \A j \in OutputPositions(r) : j <= i}

FoundOutput(r) ==
  IF LastOutput(r) = {} THEN None
  ELSE r.parts[CHOOSE i \in LastOutput(r) : TRUE].value

----------------------------------------------------------------------------
(* Usage and its limits *)

(* The tokens of the prompt cache are counted too, and limit nothing. *)
RunUsage ==
  [request_tokens: Nat, response_tokens: Nat, total_tokens: Nat, requests: Nat,
   tool_calls: Nat]

ZeroUsage ==
  [request_tokens |-> 0, response_tokens |-> 0, total_tokens |-> 0, requests |-> 0,
   tool_calls |-> 0]

Limit == Nat \cup {None}

UsageLimits ==
  [request_tokens: Limit, response_tokens: Limit, total_tokens: Limit, requests: Limit,
   tool_calls: Limit]

(* Mutant: a request is counted where its total is, if it has one. *)
AddTotalledRequest(u, r) ==
  LET request  == u.request_tokens + r.request_tokens
      response == u.response_tokens + r.response_tokens
  IN IF r.total_tokens = None
     THEN [u EXCEPT !.request_tokens = request, !.response_tokens = response,
                    !.total_tokens = request + response]
     ELSE [u EXCEPT !.request_tokens = request, !.response_tokens = response,
                    !.total_tokens = @ + r.total_tokens, !.requests = @ + 1]

(* A request without total_tokens resets the total to the sum so far. *)
AddRequest(u, r) ==
  LET request  == u.request_tokens + r.request_tokens
      response == u.response_tokens + r.response_tokens
  IN [u EXCEPT !.request_tokens = request,
               !.response_tokens = response,
               !.total_tokens = IF r.total_tokens = None
                                THEN request + response ELSE @ + r.total_tokens,
               !.requests = @ + 1]

RecordToolCalls(u, n) == [u EXCEPT !.tool_calls = @ + n]

Exceeds(used, limit) == limit # None /\ used > limit

TokensExceeded(u, limits) ==
  \/ Exceeds(u.request_tokens, limits.request_tokens)
  \/ Exceeds(u.response_tokens, limits.response_tokens)
  \/ Exceeds(u.total_tokens, limits.total_tokens)

LimitExceeded(u, limits) ==
  \/ TokensExceeded(u, limits)
  \/ Exceeds(u.requests, limits.requests)
  \/ Exceeds(u.tool_calls, limits.tool_calls)
=============================================================================
