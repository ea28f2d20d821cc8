---------------------------- MODULE PartsManager ----------------------------
(***************************************************************************)
(* serdes-ai-streaming/src/parts_manager.rs: ModelResponsePartsManager     *)
(* turns the deltas of a streamed response into parts and into the events  *)
(* from which a consumer rebuilds the same parts.  Deltas find their part  *)
(* by the id the vendor gives it, or go to the latest part of their kind;  *)
(* a tool call is announced when its name is known; and text may carry     *)
(* thinking between two tags that the chunks of the stream cut anywhere.   *)
(*                                                                         *)
(* Text is a sequence of bytes, most of them characters of their own.  The *)
(* content of other deltas is a token that stands for the whole delta, and *)
(* the arguments of a call are its tokens: that they are parsed and        *)
(* printed as JSON in between leaves their value alone.                    *)
(***************************************************************************)
EXTENDS Naturals, Sequences, FiniteSets, SequencesExt

CONSTANTS
  Uses,        \* what a caller and a response may do with the manager, see Use
  StartTag,    \* the tags around embedded thinking
  EndTag,
  Blanks,      \* bytes that are white space
  Inner,       \* bytes that continue a character
  VendorIds,
  Tokens,      \* the contents of the deltas that are not text, in order
  None

(* With thinking tags or without, white space before the text dropped or   *)
(* not, the id the vendor gives the text, the text itself, and, a bound,   *)
(* how many other deltas the response has.                                 *)
Use(texts) ==
  [tagged: BOOLEAN, ignore_blanks: BOOLEAN, vendor: VendorIds \cup {None},
   text: texts, deltas: 0 .. Len(Tokens)]

Kinds == {"text", "thinking", "call", "builtin", "file"}

(* Contents are made of these. *)
Atoms == ToSet(Tokens) \cup UNION {ToSet(u.text) : u \in Uses}

AnyPart == [kind : Kinds, content : Seq(Atoms), named : BOOLEAN, id : BOOLEAN]

ASSUME PartsAssumption ==
  /\ \A s \in {StartTag, EndTag, Tokens} \cup {u.text : u \in Uses} : s \in Seq(ToSet(s))
  /\ Len(StartTag) > 0 /\ Len(EndTag) > 0
  /\ None \notin VendorIds \cup AnyPart
  /\ Uses \subseteq Use({u.text : u \in Uses})
  /\ \A i, j \in DOMAIN Tokens : Tokens[i] = Tokens[j] => i = j
  /\ \A u \in Uses : ToSet(Tokens) \cap ToSet(u.text) = {}

VARIABLES
  mode,        \* one of Uses: how the manager is used
  rest,        \* the text that is still to be streamed
  parts,
  index,       \* vendor_id_to_index
  in_thinking,
  partial,     \* partial_tag_buffer
  view,        \* the parts as a consumer of the events has them, None before the start
  fed,         \* ghost: the text handed over so far
  sent,        \* ghost: the other deltas handed over so far
  panicked     \* a handler has panicked

ghosts == <<fed, sent>>
vars == <<mode, rest, parts, index, in_thinking, partial, view, ghosts, panicked>>

CallKinds == {"call", "builtin"}

Part(kind, content, id) ==
  [kind |-> kind, content |-> content, named |-> kind \notin CallKinds, id |-> id]

Init ==
  /\ mode \in Uses
  /\ rest = mode.text
  /\ parts = <<>>
  /\ index = [v \in {} |-> 0]
  /\ in_thinking = FALSE
  /\ partial = <<>>
  /\ view = <<>>
  /\ fed = <<>>
  /\ sent = <<>>
  /\ panicked = FALSE

----------------------------------------------------------------------------
(* Which part a delta belongs to.  A response under way is the record of   *)
(* parts, index and view.                                                  *)

Manager == [parts |-> parts, index |-> index, view |-> view]

Become(m) == parts' = m.parts /\ index' = m.index /\ view' = m.view

Latest(m, kind) == SelectLastInSeq(m.parts, LAMBDA p : p.kind = kind)

(* The part with the id, or the latest of the kind, or a new one. *)
PartIndex(m, kind, v) ==
  CASE v # None /\ v \in DOMAIN m.index -> m.index[v]
    [] v = None /\ Latest(m, kind) # 0 -> Latest(m, kind)
    [] OTHER -> Len(m.parts) + 1

Registered(m, v) ==
  IF v = None THEN m.index
  ELSE [u \in DOMAIN m.index \cup {v} |-> IF u = v THEN Len(m.parts) + 1 ELSE m.index[u]]

Created(m, v, part, seen) ==
  [parts |-> Append(m.parts, part), index |-> Registered(m, v),
   view |-> Append(m.view, seen)]

(* Text and thinking: a PartStart with the first content, then deltas.  An *)
(* id that names a part of another kind makes the content disappear.       *)
WithContent(m, kind, v, content) ==
  LET i == PartIndex(m, kind, v)
      part == Part(kind, content, FALSE)
  IN CASE i > Len(m.parts) -> Created(m, v, part, part)
       [] i <= Len(m.parts) /\ m.parts[i].kind = kind ->
            [m EXCEPT !.parts[i].content = @ \o content, !.view[i].content = @ \o content]
       [] OTHER -> m

IsBlank(content) == \A k \in DOMAIN content : content[k] \in Blanks

WithText(m, v, content) ==
  IF mode.ignore_blanks /\ IsBlank(content) /\ v = None /\ Latest(m, "text") = 0
  THEN m
  ELSE WithContent(m, "text", v, content)

(* Mutant: what a call had collected before its name came is not announced.*)
StartWithoutArgs(call) == [call EXCEPT !.content = <<>>]

(* The PartStart of a call: all that is known of it by then. *)
Start(call) == call

(* Tool calls, and builtin tool calls likewise: the name completes the     *)
(* part and announces it; an id that comes later is kept and not announced.*)
WithCall(m, kind, v, named, content, id) ==
  LET i == PartIndex(m, kind, v)
      n == IF i > Len(m.parts) THEN Created(m, v, Part(kind, <<>>, id), None) ELSE m
      old == n.parts[i]
      call == [old EXCEPT !.named = @ \/ named, !.content = @ \o content, !.id = @ \/ id]
      seen == CASE ~call.named -> None
                [] call.named /\ ~old.named -> Start(call)
                [] OTHER -> [n.view[i] EXCEPT !.content = @ \o content]
  IN IF old.kind = kind
     THEN [n EXCEPT !.parts[i] = call, !.view[i] = seen]
     ELSE n

----------------------------------------------------------------------------
(* Thinking tags *)

Matches(s, k, tag) == k + Len(tag) - 1 <= Len(s) /\ SubSeq(s, k, k + Len(tag) - 1) = tag

(* Position of the first occurrence of the tag, 0 when there is none. *)
Find(s, tag) ==
  LET at == {k \in DOMAIN s : Matches(s, k, tag)}
  IN IF at = {} THEN 0 ELSE CHOOSE k \in at : \A j \in at : k <= j

Suffix(s, n) == SubSeq(s, IF n < Len(s) THEN Len(s) - n + 1 ELSE 1, Len(s))

(* A slice that begins inside a character panics. *)
Splits(s, n) == n < Len(s) /\ s[Len(s) - n + 1] \in Inner

(* find_partial_tag_suffix tries the lengths from 1 up: the first that     *)
(* matches or panics decides.                                              *)
Deciding(s, tag) ==
  {n \in 1 .. Len(tag) - 1 : Splits(s, n) \/ IsPrefix(Suffix(s, n), tag)}

PartialTag(s, tag) ==
  IF Deciding(s, tag) = {} THEN <<>>
  ELSE Suffix(s, CHOOSE n \in Deciding(s, tag) : \A k \in Deciding(s, tag) : n <= k)

TagPanics(s, tag) ==
  /\ Deciding(s, tag) # {}
  /\ Splits(s, CHOOSE n \in Deciding(s, tag) : \A k \in Deciding(s, tag) : n <= k)

(* Mutant: a tag cut by the end of the chunk is not held back. *)
NothingHeld(s, tag) == <<>>

(* What is kept for the next chunk. *)
HeldBack(s, tag) == PartialTag(s, tag)

WithPiece(m, thinking, content) ==
  IF content = <<>> THEN m
  ELSE IF thinking THEN WithContent(m, "thinking", None, content)
  ELSE WithText(m, mode.vendor, content)

(* A round of the loop of handle_text_with_thinking_tags.  A tag splits    *)
(* off what is before it; without one all that is left is read, but for    *)
(* what is held back, unless the search for that panics.                   *)
Round(r) ==
  LET tag == IF r.thinking THEN EndTag ELSE StartTag
      pos == Find(r.left, tag)
      held == HeldBack(r.left, tag)
  IN IF r.left = <<>> THEN r
     ELSE IF pos # 0
     THEN [r EXCEPT !.m = WithPiece(@, r.thinking, SubSeq(r.left, 1, pos - 1)),
                    !.left = SubSeq(r.left, pos + Len(tag), Len(r.left)),
                    !.thinking = ~r.thinking]
     ELSE [r EXCEPT !.m = WithPiece(@, r.thinking, SubSeq(r.left, 1, Len(r.left) - Len(held))),
                    !.left = <<>>,
                    !.held = held,
                    !.panics = TagPanics(r.left, tag)]

(* Every round reads a byte at least. *)
Scan(s) ==
  LET rounds[n \in 0 .. Len(s)] ==
        IF n = 0
        THEN [m |-> Manager, left |-> s, thinking |-> in_thinking, held |-> <<>>,
              panics |-> FALSE]
        ELSE Round(rounds[n - 1])
  IN rounds[Len(s)]

----------------------------------------------------------------------------
(* The handlers *)

(* The next chunk of the text: never part of a character. *)
Chunks ==
  {n \in 1 .. Len(rest) : n < Len(rest) => rest[n + 1] \notin Inner}

TextArrives(n) ==
  /\ rest' = SubSeq(rest, n + 1, Len(rest))
  /\ fed' = fed \o SubSeq(rest, 1, n)
  /\ UNCHANGED <<mode, sent>>

HandlePlainText(n) ==
  /\ ~mode.tagged
  /\ Become(WithText(Manager, mode.vendor, SubSeq(rest, 1, n)))
  /\ TextArrives(n)
  /\ UNCHANGED <<in_thinking, partial, panicked>>

Scanned(n) == Scan(partial \o SubSeq(rest, 1, n))

HandleTaggedText(n) ==
  /\ mode.tagged
  /\ ~Scanned(n).panics
  /\ Become(Scanned(n).m)
  /\ in_thinking' = Scanned(n).thinking
  /\ partial' = Scanned(n).held
  /\ TextArrives(n)
  /\ UNCHANGED panicked

TextPanics(n) ==
  /\ mode.tagged
  /\ Scanned(n).panics
  /\ panicked' = TRUE
  /\ UNCHANGED <<mode, rest, parts, index, in_thinking, partial, view, ghosts>>

Token == Tokens[Len(sent) + 1]

Sent(kind, v) ==
  /\ sent' = Append(sent, [kind |-> kind, vendor |-> v])
  /\ UNCHANGED <<mode, rest, in_thinking, partial, fed, panicked>>

(* Providers with thinking deltas do not use the tags; a signature comes   *)
(* without content.                                                        *)
HandleThinking(v) ==
  /\ ~mode.tagged
  /\ \E content \in {<<>>, <<Token>>} :
       /\ Sent(IF content = <<>> THEN "signature" ELSE "thinking", v)
       /\ Become(WithContent(Manager, "thinking", v, content))

HandleCall(kind, v) ==
  \E named, id \in BOOLEAN, content \in {<<>>, <<Token>>} :
    /\ Sent(IF content = <<>> THEN "metadata" ELSE kind, v)
    /\ Become(WithCall(Manager, kind, v, named, content, id))

(* A file always is a part of its own, and takes the id over. *)
HandleFile(v) ==
  /\ Sent("file", v)
  /\ LET file == Part("file", <<Token>>, FALSE)
     IN Become(Created(Manager, v, file, file))

(* The manager is used again, for another response, maybe before the end. *)
Clear ==
  /\ parts # <<>>
  /\ rest' = mode.text
  /\ parts' = <<>>
  /\ index' = [v \in {} |-> 0]
  /\ in_thinking' = FALSE
  /\ partial' = <<>>
  /\ view' = <<>>
  /\ fed' = <<>>
  /\ sent' = <<>>
  /\ UNCHANGED <<mode, panicked>>

Next ==
  /\ ~panicked
  /\ \/ \E n \in Chunks : HandlePlainText(n) \/ HandleTaggedText(n) \/ TextPanics(n)
     \/ \E v \in VendorIds \cup {None} :
          /\ Len(sent) < mode.deltas
          /\ \/ HandleThinking(v)
             \/ HandleFile(v)
             \/ \E kind \in CallKinds : HandleCall(kind, v)
     \/ Clear

Spec == Init /\ [][Next]_vars

----------------------------------------------------------------------------
(* Properties *)

TypeOK ==
  /\ mode \in Uses
  /\ DOMAIN index \subseteq VendorIds
  /\ \A v \in DOMAIN index : index[v] \in DOMAIN parts
  /\ parts \in Seq(AnyPart) /\ view \in Seq(AnyPart \cup {None}) /\ Len(view) = Len(parts)
  /\ {in_thinking, panicked} \subseteq BOOLEAN
  /\ partial # <<>> => mode.tagged

Content(kind) ==
  FlattenSeq([i \in DOMAIN parts |->
                IF parts[i].kind = kind THEN parts[i].content ELSE <<>>])

(* The reference: a text read byte by byte, of which only what may still   *)
(* become the next tag is held back.                                       *)
Longest(s, tag) ==
  CHOOSE n \in 0 .. Len(s) :
    /\ IsPrefix(Suffix(s, n), tag)
    /\ \A k \in n + 1 .. Len(s) : ~IsPrefix(Suffix(s, k), tag)

ReadByte(r, byte) ==
  LET tag == IF r.inside THEN EndTag ELSE StartTag
      s == Append(r.held, byte)
      n == Longest(s, tag)
      read == SubSeq(s, 1, Len(s) - n)
  IN IF s = tag THEN [r EXCEPT !.inside = ~r.inside, !.held = <<>>]
     ELSE IF r.inside
     THEN [r EXCEPT !.thinking = @ \o read, !.held = Suffix(s, n)]
     ELSE [r EXCEPT !.text = @ \o read, !.held = Suffix(s, n)]

Read(s) ==
  LET upto[n \in 0 .. Len(s)] ==
        IF n = 0 THEN [text |-> <<>>, thinking |-> <<>>, held |-> <<>>, inside |-> FALSE]
        ELSE ReadByte(upto[n - 1], s[n])
  IN upto[Len(s)]

Drops(whole, kept) ==
  \E n \in 0 .. Len(whole) : IsBlank(SubSeq(whole, 1, n)) /\ kept = SubSeq(whole, n + 1, Len(whole))

(* The id of the text is its own: no other delta took it. *)
OwnText ==
  mode.vendor # None => \A k \in DOMAIN sent : sent[k].vendor # mode.vendor

(* However the stream cuts a text, also in the middle of a tag, its text   *)
(* and its thinking are those of the text read byte by byte, but for white *)
(* space the caller wants dropped (handle_text_with_thinking_tags).        *)
ChunkingInvisible ==
  (mode.tagged /\ OwnText) =>
    LET whole == Read(fed)
    IN /\ in_thinking = whole.inside
       /\ partial = whole.held
       /\ Content("thinking") = whole.thinking
       /\ IF mode.ignore_blanks
          THEN Drops(whole.text, Content("text"))
          ELSE Content("text") = whole.text

Holding(k) == {i \in DOMAIN parts : Contains(parts[i].content, Tokens[k])}

(* Each delta ends up in one part, of its own kind, in the order it came,  *)
(* and with the others of the same id; unless its id named a part of       *)
(* another kind, when it is lost (get_or_create_part_index).               *)
DeltasKept ==
  /\ \A k \in {j \in DOMAIN sent : sent[j].kind \notin {"signature", "metadata"}} :
       /\ Cardinality(Holding(k)) <= 1
       /\ \A i \in Holding(k) : parts[i].kind = sent[k].kind
       /\ Holding(k) = {} =>
            /\ sent[k].vendor \in DOMAIN index
            /\ parts[index[sent[k].vendor]].kind # sent[k].kind
       /\ \A j \in 1 .. k - 1 :
            (sent[j] = sent[k] /\ sent[k].vendor # None /\ sent[k].kind # "file")
              => Holding(k) \subseteq Holding(j)
  /\ \A i \in DOMAIN parts : parts[i].kind # "text" =>
       \A a, b \in DOMAIN parts[i].content : \A j, k \in DOMAIN sent :
         (parts[i].content[a] = Tokens[j] /\ parts[i].content[b] = Tokens[k] /\ a < b)
           => j < k

(* The consumer of the events has every part the manager has, at the same  *)
(* index and with the same content, except a call whose name is not known; *)
(* only the id of a call may have come too late for it.                    *)
EventsRebuildParts ==
  \A i \in DOMAIN parts :
    IF parts[i].named
    THEN /\ view[i] # None
         /\ [view[i] EXCEPT !.id = parts[i].id] = parts[i]
         /\ view[i].id => parts[i].id
    ELSE view[i] = None

(* What the manager makes of the deltas, in one invariant. *)
PartsFaithful == TypeOK /\ DeltasKept /\ EventsRebuildParts
=============================================================================
