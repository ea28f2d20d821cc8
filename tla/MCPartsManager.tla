--------------------------- MODULE MCPartsManager ---------------------------
(* Instances of PartsManager for TLC: texts put together from tags, parts  *)
(* of tags, blanks, and a character of one byte or of two.                 *)
EXTENDS PartsManager

Open == <<"<", "t", ">">>
Close == <<"<", "/", ">">>

Words == {Open, Close, <<"x">>, <<"<">>, <<" ">>, <<"e1", "e2">>}

LongTexts == {FlattenSeq(s) : s \in UNION {[1 .. n -> Words] : n \in 1 .. 3}}

MCTokens == <<"d1", "d2", "d3">>

(* Texts with tags beside one other delta, texts without beside three. *)
MCUses ==
  [tagged: {TRUE}, ignore_blanks: BOOLEAN, vendor: {None, "v"}, text: LongTexts, deltas: {1}]
    \cup [tagged: {FALSE}, ignore_blanks: {TRUE}, vendor: {None, "v"},
          text: {<<"x", " ">>}, deltas: {3}]
=============================================================================
