------------------------- MODULE MCProviderMessages -------------------------
(* Instances of ProviderMessages for TLC. *)
EXTENDS ProviderMessages

SomeResponses ==
  {<<>>, <<"text">>, <<"thinking">>, <<"a">>, <<"a", "a">>, <<"a", "text", "b">>,
   <<"out">>, <<"text", "out", "a">>}

Truncate(max, keep_first) ==
  [type |-> "TruncateHistory", max |-> max, keep_first |-> keep_first]
ByTokens(n) == [type |-> "TruncateByTokens", keep_first_n |-> n]
Filter(system, tool_returns, retries) ==
  [type |-> "FilterHistory", system |-> system, tool_returns |-> tool_returns,
   retries |-> retries]
Summarize(n) == [type |-> "SummarizeHistory", keep_recent |-> n]

(* Each truncation alone and after one of another kind, filters and cuts   *)
(* before a truncation that repairs what they separate.                    *)
SomeChains ==
  {<<Truncate(n, first)>> : n \in 0..4, first \in BOOLEAN}
    \cup {<<ByTokens(n)>> : n \in 0..2}
    \cup {<<Truncate(4, TRUE), Truncate(3, FALSE)>>, <<ByTokens(2), Truncate(3, TRUE)>>}
    \cup {<<Filter(s, t, r), ByTokens(1)>> : s, t, r \in BOOLEAN}
    \cup {<<Summarize(n), Filter(TRUE, FALSE, TRUE)>> : n \in 2..4}
    \cup {<<Summarize(n), ByTokens(2)>> : n \in 2..4}
=============================================================================
