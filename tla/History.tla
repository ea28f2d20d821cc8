------------------------------ MODULE History ------------------------------
(***************************************************************************)
(* serdes-ai-agent/src/history.rs: the operators that shorten a message    *)
(* history and then remove the tool calls and tool results that lost their *)
(* other half.                                                             *)
(*                                                                         *)
(* A message is the system prompt, a user prompt, a summary, a response or *)
(* the answers to its calls.  A response says whether it has parts other   *)
(* than calls and which calls it has left; a call, and the answer to it,   *)
(* is named by the response it stands in and its position there.  An       *)
(* answer is a position and a verdict, "retry" for a retry prompt.         *)
(*                                                                         *)
(* `ids' says whether the calls, and so the answers, have a tool_call_id:  *)
(* some providers give none.  A part without one is nobody's orphan, and   *)
(* is kept.                                                                *)
(***************************************************************************)
EXTENDS Retain

Is(m, kind) == m.kind = kind

HasIds(m, kind) == Is(m, kind) /\ m.ids

ToolUseIds(messages) ==
  UNION {{messages[k].of} \X messages[k].calls :
           k \in {j \in DOMAIN messages : HasIds(messages[j], "response")}}

ToolResultIds(messages) ==
  UNION {{<<messages[k].of, a[1]>> : a \in messages[k].answers} :
           k \in {j \in DOMAIN messages : HasIds(messages[j], "answers")}}

(* A message all of whose parts were removed is removed itself. *)
IsEmpty(m) ==
  \/ Is(m, "response") /\ ~m.text /\ m.calls = {}
  \/ Is(m, "answers") /\ m.answers = {}

NonEmpty(messages) ==
  Only(messages, {messages[k] : k \in {j \in DOMAIN messages : ~IsEmpty(messages[j])}})

KeepResults(m, uses) ==
  IF HasIds(m, "answers")
  THEN [m EXCEPT !.answers = {a \in @ : <<m.of, a[1]>> \in uses}] ELSE m

WithoutOrphanedResults(messages, uses) ==
  NonEmpty([k \in DOMAIN messages |-> KeepResults(messages[k], uses)])

KeepUses(m, results) ==
  IF HasIds(m, "response")
  THEN [m EXCEPT !.calls = {p \in @ : <<m.of, p>> \in results}] ELSE m

WithoutOrphanedUses(messages, results) ==
  NonEmpty([k \in DOMAIN messages |-> KeepUses(messages[k], results)])

(* Mutant: results are left alone. *)
UsesRepaired(messages) == WithoutOrphanedUses(messages, ToolResultIds(messages))

Repaired(messages) ==
  LET results_kept == WithoutOrphanedResults(messages, ToolUseIds(messages))
  IN WithoutOrphanedUses(results_kept, ToolResultIds(results_kept))

(* The first n messages and the last `recent' of the others. *)
Ends(messages, n, recent) ==
  SubSeq(messages, 1, n) \o SubSeq(messages, Len(messages) - recent + 1, Len(messages))

(* What TruncateByTokens may return: how many messages the budget has room *)
(* for depends on their sizes.                                             *)
TruncatedByTokens(messages, keep_first_n) ==
  LET n == IF keep_first_n <= Len(messages) THEN keep_first_n ELSE Len(messages)
  IN {Repaired(Ends(messages, n, recent)) : recent \in 0 .. Len(messages) - n}

(* The n most recent messages. *)
Latest(messages, n) ==
  SubSeq(messages, IF n <= Len(messages) THEN Len(messages) - n + 1 ELSE 1, Len(messages))

(* TruncateHistory: what is short enough is not looked at.                 *)
Truncated(messages, p) ==
  IF Len(messages) <= p.max THEN messages
  ELSE IF p.keep_first
  THEN Repaired(<<Head(messages)>>
                \o Latest(Tail(messages), IF p.max = 0 THEN 0 ELSE p.max - 1))
  ELSE Repaired(Latest(messages, p.max))

(* FilterHistory: no calls are removed with their answers. *)
Filtered(messages, p) ==
  LET stays(a) == IF a[2] = "retry" THEN ~p.retries ELSE ~p.tool_returns
      kept(m) == IF Is(m, "answers") THEN [m EXCEPT !.answers = {a \in @ : stays(a)}] ELSE m
      removed(m) == \/ Is(m, "system") /\ p.system
                    \/ Is(m, "retry") /\ p.retries
                    \/ Is(m, "answers") /\ m.answers = {}
      left == [k \in DOMAIN messages |-> kept(messages[k])]
  IN Only(left, {left[k] : k \in {j \in DOMAIN left : ~removed(left[j])}})

(* What a processor may make of a history.  SummarizeHistory cuts.         *)
Outcomes(messages, p) ==
  CASE p.type = "TruncateHistory" -> {Truncated(messages, p)}
    [] p.type = "TruncateByTokens" -> IF messages = <<>> THEN {messages}
                                      ELSE TruncatedByTokens(messages, p.keep_first_n)
    [] p.type = "FilterHistory" -> {Filtered(messages, p)}
    [] p.type = "SummarizeHistory" -> {Latest(messages, p.keep_recent)}

(* ChainedProcessor, and the processors of an agent. *)
Processed(messages, processors) ==
  LET after[n \in 0 .. Len(processors)] ==
        IF n = 0 THEN {messages}
        ELSE UNION {Outcomes(h, processors[n]) : h \in after[n - 1]}
  IN after[Len(processors)]

(* What a provider demands of the calls with ids, or of all of them (ids   *)
(* is {TRUE}, or BOOLEAN): each response with calls is followed by one     *)
(* message with the answers to exactly these, and no others are there.     *)
WellPaired(messages, ids) ==
  LET counts(m, kind) == Is(m, kind) /\ m.ids \in ids
  IN /\ \A k \in DOMAIN messages :
          (counts(messages[k], "response") /\ messages[k].calls # {}) =>
            /\ k + 1 \in DOMAIN messages
            /\ counts(messages[k + 1], "answers")
            /\ messages[k + 1].of = messages[k].of
            /\ {a[1] : a \in messages[k + 1].answers} = messages[k].calls
     /\ \A k \in DOMAIN messages : counts(messages[k], "answers") =>
          k > 1 /\ Is(messages[k - 1], "response") /\ messages[k - 1].of = messages[k].of
=============================================================================
