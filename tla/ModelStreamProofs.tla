-------------------------- MODULE ModelStreamProofs --------------------------
(***************************************************************************)
(* Theorems about every ModelStream: whatever the server says, in whatever *)
(* order, and whatever of it is lost.                                      *)
(***************************************************************************)
EXTENDS ModelStream, FiniteSetTheorems, WellFoundedInduction, TLAPS

----------------------------------------------------------------------------
(* Sequences *)

(* The order of the natural numbers, as a relation. *)
LEMMA NatOrder ==
  \E R : IsWellFoundedOn(R, Nat) /\ \A m, n \in Nat : <<n, m>> \in R <=> n < m
<1> DEFINE R == OpToRel(<, Nat)
<1>1. IsWellFoundedOn(R, Nat)
  BY NatLessThanWellFounded
<1>2. \A m, n \in Nat : <<n, m>> \in R <=> n < m
  BY DEF OpToRel
<1> HIDE DEF R
<1>3. QED
  BY <1>1, <1>2

(* A set of natural numbers has a least element.  An induction over data   *)
(* is the absence of a least counterexample.                               *)
LEMMA Least ==
  ASSUME NEW T, T \subseteq Nat, T # {}
  PROVE  \E m \in T : \A n \in T : m <= n
<1>1. PICK R : IsWellFoundedOn(R, Nat) /\ \A m, n \in Nat : <<n, m>> \in R <=> n < m
  BY NatOrder
<1>2. PICK m \in T : \A n \in T : <<n, m>> \notin R
  BY <1>1, WFMin
<1>3. ASSUME NEW n \in T
      PROVE  m <= n
  <2>1. m \in Nat /\ n \in Nat /\ <<n, m>> \notin R
    BY <1>2
  <2>2. QED
    BY <1>1, <2>1
<1>4. QED
  BY <1>3

(* The recursion of Only, one step of it, on a function f.                 *)
OnlyStep(s, kept, f, n) ==
  IF n = 0 THEN <<>>
  ELSE IF s[n] \in kept THEN Append(f[n - 1], s[n]) ELSE f[n - 1]

(* The recursion has a solution. *)
LEMMA OnlyExists ==
  ASSUME NEW s, NEW kept, NEW l \in Nat
  PROVE  \E f : f = [n \in 0 .. l |-> OnlyStep(s, kept, f, n)]
<1> DEFINE Solved(m) == \E f : f = [n \in 0 .. m |-> OnlyStep(s, kept, f, n)]
           Unsolved == {m \in Nat : ~ Solved(m)}
<1>1. SUFFICES ASSUME Unsolved # {} PROVE FALSE
  OBVIOUS
<1>2. PICK m \in Unsolved : \A n \in Unsolved : m <= n
  BY <1>1, Least
<1>3. Solved(0)
  <2> DEFINE f == [n \in 0 .. 0 |-> <<>>]
  <2>1. f = [n \in 0 .. 0 |-> OnlyStep(s, kept, f, n)]
    BY DEF OnlyStep
  <2>2. QED
    BY <2>1
<1>4. m \in Nat /\ m # 0
  BY <1>2, <1>3
<1>5. m - 1 \in Nat /\ m - 1 \notin Unsolved
  BY <1>2, <1>4
<1>6. PICK f : f = [n \in 0 .. m - 1 |-> OnlyStep(s, kept, f, n)]
  BY <1>5
<1> DEFINE g == [n \in 0 .. m |-> IF n = m THEN OnlyStep(s, kept, f, m) ELSE f[n]]
<1>7. \A n \in 0 .. m : OnlyStep(s, kept, g, n) = g[n]
  <2>1. \A n \in 0 .. m - 1 : n # m /\ g[n] = f[n]
    BY <1>4
  <2>2. \A n \in 0 .. m : n # 0 => n - 1 \in 0 .. m - 1
    BY <1>4
  <2>3. \A n \in 0 .. m : OnlyStep(s, kept, g, n) = OnlyStep(s, kept, f, n)
    BY <2>1, <2>2 DEF OnlyStep
  <2>4. \A n \in 0 .. m - 1 : f[n] = OnlyStep(s, kept, f, n)
    BY <1>6
  <2>5. \A n \in 0 .. m : n = m \/ n \in 0 .. m - 1
    BY <1>4
  <2>6. g[m] = OnlyStep(s, kept, f, m)
    BY <1>4
  <2>7. QED
    BY <2>1, <2>3, <2>4, <2>5, <2>6
<1>8. g = [n \in 0 .. m |-> OnlyStep(s, kept, g, n)]
  BY <1>7
<1>9. Solved(m)
  BY <1>8
<1>10. QED
  BY <1>2, <1>9

(* Only is the last value of a function that satisfies its recursion.      *)
LEMMA OnlyUnfolds ==
  ASSUME NEW S, NEW s \in Seq(S), NEW kept
  PROVE  \E f : /\ Only(s, kept) = f[Len(s)]
                /\ f[0] = <<>>
                /\ \A n \in 1 .. Len(s) :
                     f[n] = IF s[n] \in kept THEN Append(f[n - 1], s[n]) ELSE f[n - 1]
<1> DEFINE f == CHOOSE h : h = [n \in 0 .. Len(s) |-> OnlyStep(s, kept, h, n)]
<1>1. f = [n \in 0 .. Len(s) |-> OnlyStep(s, kept, f, n)]
  BY OnlyExists
<1>2. Only(s, kept) = f[Len(s)]
  BY DEF Only, OnlyStep
<1> HIDE DEF f
<1>3. \A n \in 0 .. Len(s) : f[n] = OnlyStep(s, kept, f, n)
  BY <1>1
<1>4. f[0] = <<>>
  BY <1>3 DEF OnlyStep
<1>5. ASSUME NEW n \in 1 .. Len(s)
      PROVE  f[n] = IF s[n] \in kept THEN Append(f[n - 1], s[n]) ELSE f[n - 1]
  <2>1. n \in 0 .. Len(s) /\ n # 0
    OBVIOUS
  <2>2. f[n] = OnlyStep(s, kept, f, n)
    BY <1>3, <2>1
  <2>3. QED
    BY <2>1, <2>2 DEF OnlyStep
<1>6. QED
  BY <1>2, <1>4, <1>5

(* What a function on the first n numbers is. *)
LEMMA FunctionSequence ==
  ASSUME NEW S, NEW n \in Nat, NEW f \in [1 .. n -> S]
  PROVE  f \in Seq(S) /\ Len(f) = n /\ DOMAIN f = 1 .. n
OBVIOUS

(* g gives the places in s of the elements of r, which are those of the    *)
(* first n places that are kept, in their order.                           *)
Places(s, kept, n, r, g) ==
  /\ g \in [1 .. Len(r) -> 1 .. n]
  /\ \A i \in 1 .. Len(r) : r[i] = s[g[i]] /\ s[g[i]] \in kept
  /\ \A i, j \in 1 .. Len(r) : i < j => g[i] < g[j]
  /\ \A j \in 1 .. n : s[j] \in kept => \E i \in 1 .. Len(r) : g[i] = j

(* One step of the recursion keeps the elements in their places.           *)
LEMMA PlacesStep ==
  ASSUME NEW S, NEW s \in Seq(S), NEW kept, NEW n \in 1 .. Len(s),
         NEW r \in Seq(S), NEW g, Places(s, kept, n - 1, r, g)
  PROVE  /\ s[n] \notin kept => Places(s, kept, n, r, g)
         /\ s[n] \in kept => \E h : Places(s, kept, n, Append(r, s[n]), h)
<1>1. n - 1 \in Nat /\ 1 .. n = 1 .. n - 1 \cup {n} /\ Len(r) \in Nat /\ s[n] \in S
  OBVIOUS
<1>2. ASSUME s[n] \notin kept
      PROVE  Places(s, kept, n, r, g)
  BY <1>1, <1>2 DEF Places
<1>3. ASSUME s[n] \in kept
      PROVE  \E h : Places(s, kept, n, Append(r, s[n]), h)
  <2> DEFINE l == Len(r)
             e == s[n]
             h == [i \in 1 .. l + 1 |-> IF i = l + 1 THEN n ELSE g[i]]
  <2>1. /\ Len(Append(r, e)) = l + 1
        /\ Append(r, e)[l + 1] = e
        /\ \A i \in 1 .. l : Append(r, e)[i] = r[i]
        /\ 1 .. l + 1 = 1 .. l \cup {l + 1}
        /\ l + 1 \notin 1 .. l
    BY <1>1
  <2>2. h[l + 1] = n /\ \A i \in 1 .. l : h[i] = g[i] /\ g[i] \in 1 .. n - 1
    BY <2>1 DEF Places
  <2>3. h \in [1 .. l + 1 -> 1 .. n]
    <3>1. \A i \in 1 .. l + 1 : i = l + 1 \/ i \in 1 .. l
      BY <2>1
    <3>2. n \in 1 .. n /\ \A i \in 1 .. l : h[i] \in 1 .. n
      BY <1>1, <2>2
    <3>3. \A i \in 1 .. l + 1 : h[i] \in 1 .. n
      BY <2>2, <3>1, <3>2
    <3>4. QED
      BY <3>3
  <2> HIDE DEF h, l, e
  <2>4. \A i \in 1 .. l + 1 : Append(r, e)[i] = s[h[i]] /\ s[h[i]] \in kept
    BY <1>3, <2>1, <2>2 DEF Places, e, l
  <2>5. \A i, j \in 1 .. l + 1 : i < j => h[i] < h[j]
    <3>1. ASSUME NEW i \in 1 .. l + 1, NEW j \in 1 .. l + 1, i < j
          PROVE  h[i] < h[j]
      <4>1. i \in 1 .. l
        BY <1>1, <3>1 DEF l
      <4>2. CASE j = l + 1
        <5>1. h[j] = n /\ h[i] \in 1 .. n - 1
          BY <2>2, <4>1, <4>2
        <5>2. QED
          BY <1>1, <5>1
      <4>3. CASE j \in 1 .. l
        BY <2>2, <3>1, <4>1, <4>3 DEF Places, l
      <4>4. QED
        BY <2>1, <4>2, <4>3
    <3>2. QED
      BY <3>1
  <2>6. \A j \in 1 .. n : s[j] \in kept => \E i \in 1 .. l + 1 : h[i] = j
    <3>1. l + 1 \in 1 .. l + 1
      BY <1>1 DEF l
    <3>2. \A j \in 1 .. n - 1 : s[j] \in kept => \E i \in 1 .. l : g[i] = j
      BY DEF Places, l
    <3>3. \A j \in 1 .. n - 1 : s[j] \in kept => \E i \in 1 .. l + 1 : h[i] = j
      BY <2>1, <2>2, <3>2
    <3>4. QED
      BY <1>1, <2>2, <3>1, <3>3
  <2>7. Places(s, kept, n, Append(r, e), h)
    BY <2>1, <2>3, <2>4, <2>5, <2>6 DEF Places
  <2>8. QED
    BY <2>7 DEF e
<1>4. QED
  BY <1>2, <1>3

(* retain keeps the elements of the set, in their order.                   *)
LEMMA OnlyPlaces ==
  ASSUME NEW S, NEW s \in Seq(S), NEW kept
  PROVE  /\ Only(s, kept) \in Seq(S)
         /\ Len(Only(s, kept)) <= Len(s)
         /\ \E g : Places(s, kept, Len(s), Only(s, kept), g)
<1>1. PICK f : /\ Only(s, kept) = f[Len(s)]
               /\ f[0] = <<>>
               /\ \A n \in 1 .. Len(s) :
                    f[n] = IF s[n] \in kept THEN Append(f[n - 1], s[n]) ELSE f[n - 1]
  BY OnlyUnfolds
<1> DEFINE Good(n) == /\ f[n] \in Seq(S)
                      /\ Len(f[n]) <= n
                      /\ \E g : Places(s, kept, n, f[n], g)
           Bad == {n \in 0 .. Len(s) : ~ Good(n)}
<1>2. Good(0)
  <2>1. f[0] = <<>> /\ <<>> \in Seq(S) /\ Len(<<>>) = 0
    BY <1>1
  <2>2. Places(s, kept, 0, <<>>, [i \in 1 .. 0 |-> 1])
    BY DEF Places
  <2>3. QED
    BY <2>1, <2>2
<1>3. ASSUME NEW n \in 1 .. Len(s), Good(n - 1)
      PROVE  Good(n)
  <2>1. PICK g : Places(s, kept, n - 1, f[n - 1], g)
    BY <1>3
  <2>2. f[n - 1] \in Seq(S) /\ Len(f[n - 1]) \in Nat /\ Len(f[n - 1]) <= n - 1 /\ s[n] \in S
    BY <1>3
  <2>3. CASE s[n] \in kept
    <3>1. f[n] = Append(f[n - 1], s[n])
      BY <1>1, <2>3
    <3>2. f[n] \in Seq(S) /\ Len(f[n]) <= n
      BY <2>2, <3>1
    <3>3. QED
      BY <2>1, <2>2, <2>3, <3>1, <3>2, PlacesStep
  <2>4. CASE s[n] \notin kept
    <3>1. f[n] = f[n - 1]
      BY <1>1, <2>4
    <3>2. Len(f[n]) <= n
      BY <2>2, <3>1
    <3>3. QED
      BY <2>1, <2>2, <2>4, <3>1, <3>2, PlacesStep
  <2>5. QED
    BY <2>3, <2>4
<1> HIDE DEF Good
<1>4. Bad = {}
  <2>1. SUFFICES ASSUME Bad # {} PROVE FALSE
    OBVIOUS
  <2>2. PICK n \in Bad : \A m \in Bad : n <= m
    <3>1. Bad \subseteq Nat
      OBVIOUS
    <3>2. QED
      BY <2>1, <3>1, Least
  <2>3. n \in 1 .. Len(s) /\ n - 1 \in 0 .. Len(s)
    BY <1>2, <2>2
  <2>4. Good(n - 1)
    BY <2>2, <2>3
  <2>5. QED
    BY <1>3, <2>2, <2>3, <2>4
<1>5. Good(Len(s))
  BY <1>4
<1>6. QED
  BY <1>1, <1>5 DEF Good

----------------------------------------------------------------------------
(* The invariant *)

Ascends(c) == \A m, n \in DOMAIN c : m < n => c[m] < c[n]

(* A part of key k holds, in order, what the server said of k in the first *)
(* n lines, or some of it.                                                 *)
Told(s, part, k, n) ==
  /\ part.kind = Kind(k)
  /\ part.content \in Seq(1 .. n)
  /\ Ascends(part.content)
  /\ \E j \in DOMAIN s : s[j].key = k /\ ToSet(part.content) \subseteq ToSet(s[j].content)

(* Keys tell apart what the server said, or what a body holds.             *)
Keyed(s) ==
  /\ \A i \in DOMAIN s : s[i].kind = Kind(s[i].key)
  /\ \A i, j \in DOMAIN s : s[i].key = s[j].key => i = j

(* The indices of the parser are the places of the parts, one for one.     *)
Slotted(p, r, s, n) ==
  /\ IsFiniteSet(DOMAIN p.slot)
  /\ Cardinality(DOMAIN p.slot) = Len(r.parts)
  /\ \A k \in DOMAIN p.slot :
       /\ p.slot[k] + 1 \in DOMAIN r.parts
       /\ Told(s, r.parts[p.slot[k] + 1], k, n)
  /\ \A k, l \in DOMAIN p.slot : p.slot[k] = p.slot[l] => k = l
  /\ \A i \in DOMAIN r.parts : \E k \in DOMAIN p.slot : p.slot[k] + 1 = i

(* Nothing was lost: the parts are those the server wrote, in its order.   *)
Same(p, r, s) ==
  /\ \A k \in Keys : k \in DOMAIN p.slot <=> \E i \in DOMAIN s : s[i].key = k
  /\ \A i \in DOMAIN s : p.slot[s[i].key] = i - 1
  /\ r.parts = Bare(s)

(* Any part may tell anything. *)
All == [k \in Keys |-> [key |-> k, kind |-> Kind(k), content |-> [i \in 1 .. MaxLines[provider] |-> i]]]

(* What the parts are about: once two lines were taken for one, a part may *)
(* hold what was said of another.                                          *)
Source == IF joined THEN All ELSE said

(* The parsers whose lines may be joined. *)
Bytewise == {"openai", "google", "antigravity"}

(* OpenAI: the indices are given out one after the other.                  *)
Numbered(p) ==
  /\ IsFiniteSet(DOMAIN p.slot)
  /\ \A k \in DOMAIN p.slot : p.slot[k] < Cardinality(DOMAIN p.slot)
  /\ \A k, l \in DOMAIN p.slot : p.slot[k] = p.slot[l] => k = l
  /\ \A i \in 0 .. Cardinality(DOMAIN p.slot) - 1 : \E k \in DOMAIN p.slot : p.slot[k] = i

(* The parser as if it knew only the parts it has started.                 *)
Placed(p) ==
  [slot |-> [k \in p.started |-> p.slot[k]], started |-> p.started,
   finish |-> p.finish, body |-> p.body]

(* Nothing was lost and no call overtaken: the parts are the first of what *)
(* the server wrote, and the rest are calls without arguments.             *)
SameStarted(p, r, s) ==
  /\ \A k \in Keys : k \in DOMAIN p.slot <=> \E i \in DOMAIN s : s[i].key = k
  /\ \A i \in DOMAIN s : p.slot[s[i].key] = i - 1
  /\ Cardinality(DOMAIN p.slot) = Len(s) /\ Len(r.parts) <= Len(s)
  /\ \A i \in DOMAIN s :
       IF i <= Len(r.parts)
       THEN /\ s[i].key \in p.started /\ s[i].content # <<>>
            /\ r.parts[i] = [kind |-> s[i].kind, content |-> s[i].content]
       ELSE s[i].key \notin p.started /\ s[i].content = <<>>

(* The parts the parser has not closed. *)
OpenKeys(p) ==
  IF provider = "openai" /\ p.finish # None THEN p.started \cap {"thinking"} ELSE p.started

OpenInv ==
  /\ provider \notin {"anthropic", "chatgpt", "openai"} => parser.started = DOMAIN parser.slot
  /\ response.finish = None \/ provider = "openai" =>
       response.open = {parser.slot[k] : k \in OpenKeys(parser)}
  /\ response.finish # None /\ provider \notin {"openai", "chatgpt"} => response.open = {}

(* Who has finished what. *)
FinishInv ==
  /\ response.finish # None /\ provider # "chatgpt" => over
  /\ provider \in {"openai", "google", "antigravity"} /\ parser.finish # None => reason # None
  /\ provider \in {"google", "antigravity"} => (reason # None <=> over)
  /\ provider \in {"cohere", "huggingface", "chatgpt"} => parser.finish = None
  /\ ~lost => /\ provider = "openai" => parser.finish = reason
              /\ response.finish # None => response.finish = IF reason = None THEN Stop ELSE reason
  /\ provider = "anthropic" => ~lost /\ (response.outcome = "streaming" => parser.finish = reason)
  /\ provider = "anthropic" /\ response.outcome = "accepted" => response.finish # None

ByIndex == {"google", "antigravity", "anthropic"}

(* Cohere: the one text, but for its first piece. *)
CohereInv ==
  provider = "cohere" =>
    /\ ~over => response.stray = {}
    /\ DOMAIN parser.slot \subseteq {"text"}
    /\ "text" \in DOMAIN parser.slot => parser.slot["text"] = 0
    /\ ~lost => ("text" \in DOMAIN parser.slot <=> \E j \in DOMAIN said : said[j].key = "text")
    /\ ~lost => \A j \in DOMAIN said :
                  said[j].key = "text" => /\ said[j].content # <<>>
                                          /\ response.parts[1].content = Tail(said[j].content)

(* What a body holds of each part is some of what the server said of it.   *)
Tells(s, body, n) ==
  /\ body \in Seq(SaidPart) /\ Keyed(body)
  /\ \A i \in DOMAIN body : Told(s, body[i], body[i].key, n)

(* Nothing was lost: a body holds what the server said, except the         *)
(* arguments of calls that are still to be done.                           *)
Mirrors(s, body, done) ==
  /\ DOMAIN body = DOMAIN s
  /\ \A i \in DOMAIN s :
       /\ body[i].key = s[i].key
       /\ \/ body[i].content = s[i].content
          \/ s[i].key \in Calls \ done /\ body[i].content = <<>>

(* ChatGPT: the body, and what becomes of it at the end. *)
BodyInv ==
  provider = "chatgpt" =>
    /\ Tells(said, said, lines)
    /\ Tells(said, parser.body, lines)
    /\ \A i \in DOMAIN said : said[i].key # "thinking"
    /\ parser.slot = <<>> /\ parser.started = {} /\ reason = None
    /\ whole \subseteq Spoken
    /\ over => Mentioned \cap Calls \subseteq whole
    /\ ~lost => Mirrors(said, parser.body, whole)
    /\ response.outcome = "streaming" => response.finish = None
    /\ IF response.finish = None THEN response.parts = <<>>
       ELSE response.finish = Stop /\ response.parts = Bare(TextFirst(parser.body))

(* What the head in the buffer says is not in the parser yet. *)
BufferInv ==
  /\ joined => lost /\ provider \in Bytewise
  /\ overtaken => provider = "openai"
  /\ provider \in {"google", "antigravity"} =>
       /\ DOMAIN parser.slot \cap Calls \subseteq Mentioned
       /\ held \in Calls => held \in Mentioned \ DOMAIN parser.slot

OpenAIInv ==
  provider = "openai" =>
    /\ Numbered(parser)
    /\ ~overtaken => Slotted(Placed(parser), response, Source, lines)
    /\ ~overtaken /\ ~lost /\ response.outcome # "failed" => SameStarted(parser, response, said)

PartsInv ==
  /\ Keyed(said)
  /\ provider \notin {"chatgpt", "openai"} => Slotted(parser, response, Source, lines)
  /\ provider \in ByIndex /\ ~lost /\ response.outcome # "failed" => Same(parser, response, said)
  /\ provider = "huggingface" => response.parts = <<>>

Inv ==
  /\ TypeOK
  /\ PartsInv
  /\ BufferInv
  /\ OpenAIInv
  /\ OpenInv
  /\ FinishInv
  /\ CohereInv
  /\ BodyInv
  /\ EventsInPlace

----------------------------------------------------------------------------
(* The collector *)

(* What it makes of one event. *)
LEMMA StartType ==
  ASSUME NEW r \in Response, NEW i \in Nat,
         NEW piece, piece.key \in Keys, piece.content \in Content
  PROVE  LET w == Collect(r, PartStart(i, piece))
         IN /\ w \in Response
            /\ w.parts = Append(r.parts, [kind |-> Kind(piece.key), content |-> piece.content])
            /\ w.open = r.open \cup {i}
            /\ w.finish = r.finish /\ w.outcome = r.outcome
            /\ r.finish = None /\ i = Len(r.parts) => w.stray = r.stray
            /\ w.stray \subseteq r.stray \cup {"start"}
<1> DEFINE part == [kind |-> Kind(piece.key), content |-> piece.content]
<1>1. part \in Part /\ r.parts \in Seq(Part)
  BY DEF Part, Response, Kind, Kinds, Keys
<1>2. Append(r.parts, part) \in Seq(Part)
  BY <1>1
<1> DEFINE e == PartStart(i, piece)
           w == Collect(r, e)
           stray == IF InPlace(r, e) THEN r.stray ELSE r.stray \cup {"start"}
<1>3. /\ e.type = "start" /\ e.index = i /\ [kind |-> e.kind, content |-> e.content] = part
      /\ InPlace(r, e) <=> r.finish = None /\ i = Len(r.parts)
  BY DEF InPlace, PartStart
<1> HIDE DEF e, part
<1>4. w = [r EXCEPT !.stray = stray, !.parts = Append(r.parts, part), !.open = r.open \cup {i}]
  BY <1>3 DEF Collect, Response
<1>5. stray \in SUBSET {"start", "delta", "end", "complete"} /\ r.open \cup {i} \in SUBSET Nat
  BY DEF Response
<1> HIDE DEF stray
<1>6. /\ w \in Response
      /\ w.parts = Append(r.parts, part) /\ w.open = r.open \cup {i}
      /\ w.finish = r.finish /\ w.outcome = r.outcome /\ w.stray = stray
  BY <1>2, <1>4, <1>5 DEF Response
<1>7. /\ r.finish = None /\ i = Len(r.parts) => stray = r.stray
      /\ stray \subseteq r.stray \cup {"start"}
  BY <1>3 DEF stray
<1>8. QED
  BY <1>6, <1>7 DEF e, part

(* The same, of the response w after the event. *)
Opens(r, i, piece, w) ==
  /\ w \in Response
  /\ w.parts = Append(r.parts, [kind |-> Kind(piece.key), content |-> piece.content])
  /\ w.open = r.open \cup {i}
  /\ w.finish = r.finish /\ w.outcome = r.outcome
  /\ r.finish = None /\ i = Len(r.parts) => w.stray = r.stray
  /\ w.stray \subseteq r.stray \cup {"start"}

LEMMA StartOpens ==
  ASSUME NEW r \in Response, NEW i \in Nat,
         NEW piece, piece.key \in Keys, piece.content \in Content
  PROVE  Opens(r, i, piece, Collect(r, PartStart(i, piece)))
BY StartType DEF Opens

LEMMA EndType ==
  ASSUME NEW r \in Response, NEW i \in Nat
  PROVE  LET w == Collect(r, PartEnd(i))
         IN /\ w \in Response
            /\ w.parts = r.parts
            /\ w.open = r.open \ {i}
            /\ w.finish = r.finish /\ w.outcome = r.outcome
            /\ w.stray = IF r.finish = None /\ i \in r.open THEN r.stray ELSE r.stray \cup {"end"}
<1> DEFINE e == PartEnd(i)
           w == Collect(r, e)
           stray == IF InPlace(r, e) THEN r.stray ELSE r.stray \cup {"end"}
<1>1. /\ e.type = "end" /\ e.index = i
      /\ InPlace(r, e) <=> r.finish = None /\ i \in r.open
  BY DEF InPlace, PartEnd
<1> HIDE DEF e
<1>2. w = [r EXCEPT !.stray = stray, !.open = r.open \ {i}]
  BY <1>1 DEF Collect, Response
<1>3. stray \in SUBSET {"start", "delta", "end", "complete"} /\ r.open \ {i} \in SUBSET Nat
  BY DEF Response
<1>4. stray = IF r.finish = None /\ i \in r.open THEN r.stray ELSE r.stray \cup {"end"}
  BY <1>1
<1> HIDE DEF stray
<1>5. /\ w \in Response
      /\ w.parts = r.parts /\ w.open = r.open \ {i}
      /\ w.finish = r.finish /\ w.outcome = r.outcome /\ w.stray = stray
  BY <1>2, <1>3 DEF Response
<1>6. QED
  BY <1>4, <1>5 DEF e

Fits(r, i, piece) ==
  \A j \in DOMAIN r.parts : j = i + 1 /\ r.parts[j].kind = Kind(piece.key) =>
                              r.parts[j].content \o piece.content \in Content

Goes(r, i, piece, w) ==
  /\ w \in Response
  /\ Len(w.parts) = Len(r.parts)
  /\ \A j \in 1 .. Len(r.parts) : j # i + 1 => w.parts[j] = r.parts[j]
  /\ i + 1 \in 1 .. Len(r.parts) /\ r.parts[i + 1].kind = Kind(piece.key) =>
       w.parts[i + 1] = [kind    |-> Kind(piece.key),
                         content |-> r.parts[i + 1].content \o piece.content]
  /\ w.open = r.open /\ w.finish = r.finish /\ w.outcome = r.outcome
  /\ r.finish = None /\ i \in r.open => w.stray = r.stray
  /\ w.stray \subseteq r.stray \cup {"delta"}

(* A delta extends the part at its place, if that is of its kind.          *)
LEMMA DeltaType ==
  ASSUME NEW r \in Response, NEW i \in Nat, NEW piece \in [key : Keys, content : Seq(Nat)],
         Fits(r, i, piece)
  PROVE  Goes(r, i, piece, Collect(r, PartDelta(i, piece)))
<1> DEFINE e == PartDelta(i, piece)
           w == Collect(r, e)
           stray == IF InPlace(r, e) THEN r.stray ELSE r.stray \cup {"delta"}
           parts == Extended(r.parts, e)
<1>1. /\ e.type = "delta" /\ e.index = i /\ e.kind = Kind(piece.key) /\ e.content = piece.content
      /\ InPlace(r, e) <=> r.finish = None /\ i \in r.open
  BY DEF InPlace, PartDelta
<1>2. r.parts \in Seq(Part) /\ DOMAIN r.parts = 1 .. Len(r.parts) /\ Len(r.parts) \in Nat
  BY DEF Response
<1> HIDE DEF e
<1>3. w = [r EXCEPT !.stray = stray, !.parts = parts]
  BY <1>1 DEF Collect, Response
<1>4. \A j \in 1 .. Len(r.parts) :
        parts[j] = IF j = i + 1 /\ r.parts[j].kind = Kind(piece.key)
                   THEN [r.parts[j] EXCEPT !.content = r.parts[j].content \o piece.content]
                   ELSE r.parts[j]
  BY <1>1, <1>2 DEF Extended
<1>5. ASSUME NEW j \in 1 .. Len(r.parts)
      PROVE  /\ parts[j] \in Part
             /\ j = i + 1 /\ r.parts[j].kind = Kind(piece.key) =>
                  parts[j] = [kind    |-> Kind(piece.key),
                              content |-> r.parts[j].content \o piece.content]
  <2>1. r.parts[j] \in Part
    BY <1>2
  <2>2. CASE j = i + 1 /\ r.parts[j].kind = Kind(piece.key)
    <3>1. r.parts[j].content \o piece.content \in Content
      BY <1>2, <2>2 DEF Fits
    <3>2. parts[j] = [r.parts[j] EXCEPT !.content = r.parts[j].content \o piece.content]
      BY <1>4, <2>2
    <3>3. QED
      BY <2>1, <2>2, <3>1, <3>2 DEF Part
  <2>3. CASE ~(j = i + 1 /\ r.parts[j].kind = Kind(piece.key))
    BY <1>4, <2>1, <2>3
  <2>4. QED
    BY <2>2, <2>3
<1>6. parts \in Seq(Part) /\ Len(parts) = Len(r.parts)
  <2>1. parts = [j \in 1 .. Len(r.parts) |-> parts[j]]
    BY <1>2 DEF Extended
  <2> HIDE DEF parts
  <2>2. parts \in [1 .. Len(r.parts) -> Part]
    BY <1>5, <2>1
  <2>3. QED
    BY <1>2, <2>2, FunctionSequence
<1> HIDE DEF parts
<1>7. stray \in SUBSET {"start", "delta", "end", "complete"}
  BY DEF Response
<1> HIDE DEF stray
<1>8. /\ w \in Response
      /\ w.parts = parts /\ w.stray = stray
      /\ w.open = r.open /\ w.finish = r.finish /\ w.outcome = r.outcome
  BY <1>3, <1>6, <1>7 DEF Response
<1>9. stray \subseteq r.stray \cup {"delta"} /\ (r.finish = None /\ i \in r.open => stray = r.stray)
  BY <1>1 DEF stray
<1>10. QED
  BY <1>4, <1>5, <1>6, <1>8, <1>9 DEF e, Goes

LEMMA CompleteType ==
  ASSUME NEW r \in Response, NEW reported \in Reasons \cup {None}
  PROVE  LET w == Collect(r, StreamComplete(reported))
         IN /\ w \in Response
            /\ w.parts = r.parts /\ w.open = r.open /\ w.outcome = r.outcome
            /\ w.finish = reported
            /\ r.finish = None => w.stray = r.stray
<1> DEFINE e == StreamComplete(reported)
           stray == IF InPlace(r, e) THEN r.stray ELSE r.stray \cup {"complete"}
<1>1. e.type = "complete" /\ e.reason = reported /\ (InPlace(r, e) <=> r.finish = None)
  BY DEF InPlace, StreamComplete
<1> HIDE DEF e
<1>2. Collect(r, e) = [r EXCEPT !.stray = stray, !.finish = reported]
  BY <1>1 DEF Collect, Response
<1>3. stray \in SUBSET {"start", "delta", "end", "complete"} /\ (r.finish = None => stray = r.stray)
  BY <1>1 DEF Response
<1> HIDE DEF stray
<1>4. QED
  BY <1>2, <1>3 DEF Response, e

(* The recursion of Collected, one step of it, on a function f.            *)
CollectStep(r, events, f, n) == IF n = 0 THEN r ELSE Collect(f[n - 1], events[n])

(* The recursion has a solution. *)
LEMMA CollectedExists ==
  ASSUME NEW r, NEW events, NEW l \in Nat
  PROVE  \E f : f = [n \in 0 .. l |-> CollectStep(r, events, f, n)]
<1> DEFINE Solved(m) == \E f : f = [n \in 0 .. m |-> CollectStep(r, events, f, n)]
           Unsolved == {m \in Nat : ~ Solved(m)}
<1>1. SUFFICES ASSUME Unsolved # {} PROVE FALSE
  OBVIOUS
<1>2. PICK m \in Unsolved : \A n \in Unsolved : m <= n
  BY <1>1, Least
<1>3. Solved(0)
  <2> DEFINE f == [n \in 0 .. 0 |-> r]
  <2>1. f = [n \in 0 .. 0 |-> CollectStep(r, events, f, n)]
    BY DEF CollectStep
  <2>2. QED
    BY <2>1
<1>4. m \in Nat /\ m # 0
  BY <1>2, <1>3
<1>5. m - 1 \in Nat /\ m - 1 \notin Unsolved
  BY <1>2, <1>4
<1>6. PICK f : f = [n \in 0 .. m - 1 |-> CollectStep(r, events, f, n)]
  BY <1>5
<1> DEFINE g == [n \in 0 .. m |-> IF n = m THEN CollectStep(r, events, f, m) ELSE f[n]]
<1>7. \A n \in 0 .. m : CollectStep(r, events, g, n) = g[n]
  <2>1. \A n \in 0 .. m - 1 : n # m /\ g[n] = f[n]
    BY <1>4
  <2>2. \A n \in 0 .. m : n # 0 => n - 1 \in 0 .. m - 1
    BY <1>4
  <2>3. \A n \in 0 .. m : CollectStep(r, events, g, n) = CollectStep(r, events, f, n)
    BY <2>1, <2>2 DEF CollectStep
  <2>4. \A n \in 0 .. m - 1 : f[n] = CollectStep(r, events, f, n)
    BY <1>6
  <2>5. \A n \in 0 .. m : n = m \/ n \in 0 .. m - 1
    BY <1>4
  <2>6. g[m] = CollectStep(r, events, f, m)
    BY <1>4
  <2>7. QED
    BY <2>1, <2>3, <2>4, <2>5, <2>6
<1>8. g = [n \in 0 .. m |-> CollectStep(r, events, g, n)]
  BY <1>7
<1>9. Solved(m)
  BY <1>8
<1>10. QED
  BY <1>2, <1>9

(* What Collected makes of the first events, by their number.              *)
Collecting(r, events, f) ==
  /\ Collected(r, events) = f[Len(events)]
  /\ f[0] = r
  /\ \A n \in 1 .. Len(events) : f[n] = Collect(f[n - 1], events[n])

LEMMA CollectedUnfolds ==
  ASSUME NEW r, NEW events, Len(events) \in Nat
  PROVE  \E f : Collecting(r, events, f)
<1> DEFINE f == CHOOSE h : h = [n \in 0 .. Len(events) |-> CollectStep(r, events, h, n)]
<1>1. f = [n \in 0 .. Len(events) |-> CollectStep(r, events, f, n)]
  BY CollectedExists
<1>2. Collected(r, events) = f[Len(events)]
  BY DEF Collected, CollectStep
<1> HIDE DEF f
<1>3. \A n \in 0 .. Len(events) : f[n] = CollectStep(r, events, f, n)
  BY <1>1
<1>4. f[0] = r
  BY <1>3 DEF CollectStep
<1>5. ASSUME NEW n \in 1 .. Len(events)
      PROVE  f[n] = Collect(f[n - 1], events[n])
  <2>1. n \in 0 .. Len(events) /\ n # 0
    OBVIOUS
  <2>2. f[n] = CollectStep(r, events, f, n)
    BY <1>3, <2>1
  <2>3. QED
    BY <2>1, <2>2 DEF CollectStep
<1>6. QED
  BY <1>2, <1>4, <1>5 DEF Collecting

(* No event, or one. *)
LEMMA CollectedFew ==
  ASSUME NEW r
  PROVE  /\ Collected(r, <<>>) = r
         /\ \A e : Collected(r, <<e>>) = Collect(r, e)
<1>1. Collected(r, <<>>) = r
  BY CollectedUnfolds DEF Collecting
<1>2. ASSUME NEW e
      PROVE  Collected(r, <<e>>) = Collect(r, e)
  <2>1. Len(<<e>>) = 1 /\ <<e>>[1] = e /\ 1 .. 1 = {1}
    OBVIOUS
  <2>2. PICK f : /\ Collected(r, <<e>>) = f[1]
                 /\ f[0] = r
                 /\ \A n \in 1 .. 1 : f[n] = Collect(f[n - 1], <<e>>[n])
    BY <2>1, CollectedUnfolds DEF Collecting
  <2>3. f[1] = Collect(f[0], e)
    BY <2>1, <2>2
  <2>4. QED
    BY <2>2, <2>3
<1>3. QED
  BY <1>1, <1>2

(* Some events after others. *)
LEMMA CollectedMore ==
  ASSUME NEW S, NEW a \in Seq(S), NEW b \in Seq(S), NEW r
  PROVE  Collected(r, a \o b) = Collected(Collected(r, a), b)
<1> DEFINE l == Len(a)
           m == Len(b)
           all == a \o b
<1>1. /\ l \in Nat /\ m \in Nat /\ Len(all) = l + m
      /\ \A n \in 1 .. l : all[n] = a[n]
      /\ \A n \in 1 .. m : all[l + n] = b[n]
  OBVIOUS
<1>0. Len(a) \in Nat /\ Len(b) \in Nat /\ Len(all) \in Nat /\ Len(all) = l + m
  BY <1>1
<1> HIDE DEF all
<1>2. PICK f : /\ Collected(r, all) = f[l + m]
               /\ f[0] = r
               /\ \A n \in 1 .. l + m : f[n] = Collect(f[n - 1], all[n])
  <2> HIDE DEF l, m
  <2>1. QED
    BY <1>0, CollectedUnfolds DEF Collecting
<1>3. PICK g : /\ Collected(r, a) = g[l]
               /\ g[0] = r
               /\ \A n \in 1 .. l : g[n] = Collect(g[n - 1], a[n])
  BY <1>0, CollectedUnfolds DEF Collecting
<1>4. PICK h : /\ Collected(Collected(r, a), b) = h[m]
               /\ h[0] = Collected(r, a)
               /\ \A n \in 1 .. m : h[n] = Collect(h[n - 1], b[n])
  BY <1>0, CollectedUnfolds DEF Collecting
<1> HIDE DEF l, m
<1> DEFINE Early == {n \in 0 .. l : f[n] # g[n]}
           Late == {n \in 0 .. m : f[l + n] # h[n]}
<1>5. Early = {}
  <2>1. SUFFICES ASSUME Early # {} PROVE FALSE
    OBVIOUS
  <2>2. PICK n \in Early : \A k \in Early : n <= k
    <3>1. Early \subseteq Nat
      OBVIOUS
    <3>2. QED
      BY <2>1, <3>1, Least
  <2>3. n \in 1 .. l /\ n - 1 \in 0 .. l /\ n \in 1 .. l + m
    BY <1>1, <1>2, <1>3, <2>2
  <2>4. f[n - 1] = g[n - 1]
    BY <2>2, <2>3
  <2>5. QED
    BY <1>1, <1>2, <1>3, <2>2, <2>3, <2>4
<1>6. f[l] = h[0]
  <2>1. l \in 0 .. l
    BY <1>1
  <2>2. QED
    BY <1>3, <1>4, <1>5, <2>1
<1>7. Late = {}
  <2>1. SUFFICES ASSUME Late # {} PROVE FALSE
    OBVIOUS
  <2>2. PICK n \in Late : \A k \in Late : n <= k
    <3>1. Late \subseteq Nat
      OBVIOUS
    <3>2. QED
      BY <2>1, <3>1, Least
  <2>3. n \in 1 .. m /\ n - 1 \in 0 .. m
    BY <1>1, <1>6, <2>2
  <2>4. f[l + (n - 1)] = h[n - 1]
    BY <2>2, <2>3
  <2>5. l + n \in 1 .. l + m /\ (l + n) - 1 = l + (n - 1)
    BY <1>1, <2>3
  <2>6. f[l + n] = Collect(h[n - 1], b[n])
    BY <1>1, <1>2, <2>3, <2>4, <2>5
  <2>7. h[n] = Collect(h[n - 1], b[n])
    BY <1>4, <2>3
  <2>8. QED
    BY <2>2, <2>6, <2>7
<1>8. f[l + m] = h[m]
  <2>1. m \in 0 .. m
    BY <1>1
  <2>2. QED
    BY <1>7, <2>1
<1>9. QED
  BY <1>2, <1>4, <1>8 DEF all

(* All parts of a set end: they are open no more, and nothing else happens.*)
LEMMA EndsCollected ==
  ASSUME NEW r \in Response, NEW ended \in SUBSET r.open, IsFiniteSet(ended), r.finish = None
  PROVE  LET w == Collected(r, PartEnds(ended))
         IN /\ PartEnds(ended) \in Seq([type : {"end"}, index : Nat])
            /\ w \in Response
            /\ w.parts = r.parts
            /\ w.open = r.open \ ended
            /\ w.finish = None /\ w.outcome = r.outcome /\ w.stray = r.stray
<1> DEFINE l == Cardinality(ended)
           order == SetToSeq(ended)
           ends == PartEnds(ended)
<1>1. l \in Nat /\ ExistsBijection(1 .. l, ended)
  BY FS_CardinalityType
<1>2. PICK b : b \in Bijection(1 .. l, ended)
  BY <1>1 DEF ExistsBijection
<1>3. b \in [1 .. l -> ended] /\ IsInjective(b)
  BY <1>2 DEF Bijection, Injection
<1>4. order \in [1 .. l -> ended] /\ IsInjective(order)
  BY <1>3 DEF SetToSeq
<1>5. \A i, j \in 1 .. l : order[i] = order[j] => i = j
  BY <1>4 DEF IsInjective
<1>6. {order[i] : i \in 1 .. l} = ended
  <2>1. order \in Injection(1 .. l, ended)
    BY <1>4, <1>5 DEF Injection
  <2>2. IsFiniteSet(1 .. l) /\ Cardinality(1 .. l) = l
    BY <1>1, FS_Interval
  <2>3. order \in Surjection(1 .. l, ended)
    BY <2>1, <2>2, FS_Injection
  <2>4. QED
    BY <1>4, <2>3 DEF Surjection
<1>7. \A n \in 1 .. l : ends[n] = PartEnd(order[n]) /\ order[n] \in r.open /\ order[n] \in Nat
  <2>1. \A n \in 1 .. l : order[n] \in r.open
    BY <1>4
  <2>2. r.open \subseteq Nat
    BY DEF Response
  <2>3. QED
    BY <2>1, <2>2 DEF PartEnds
<1>8. ends \in Seq([type : {"end"}, index : Nat]) /\ Len(ends) = l
  <2>1. ends = [n \in 1 .. l |-> ends[n]]
    BY DEF PartEnds
  <2> HIDE DEF ends, l, order
  <2>2. ASSUME NEW n \in 1 .. l
        PROVE  ends[n] \in [type : {"end"}, index : Nat]
    <3>1. PartEnd(order[n]) = [type |-> "end", index |-> order[n]] /\ order[n] \in Nat
      BY <1>7 DEF PartEnd
    <3>2. QED
      BY <1>7, <3>1
  <2>3. ends \in [1 .. l -> [type : {"end"}, index : Nat]]
    BY <2>1, <2>2
  <2>4. QED
    BY <1>1, <2>3, FunctionSequence
<1> HIDE DEF l, order, ends
<1>9. PICK f : /\ Collected(r, ends) = f[l]
               /\ f[0] = r
               /\ \A n \in 1 .. l : f[n] = Collect(f[n - 1], ends[n])
  <2>0. Len(ends) = l
    BY <1>8
  <2>1. Len(ends) \in Nat
    BY <1>1, <1>8
  <2>2. \E f : Collecting(r, ends, f)
    BY <2>1, CollectedUnfolds
  <2>3. QED
    BY <2>0, <2>2 DEF Collecting
<1> DEFINE Good(n) ==
      /\ f[n] \in Response
      /\ f[n].parts = r.parts
      /\ f[n].open = r.open \ {order[i] : i \in 1 .. n}
      /\ f[n].finish = None /\ f[n].outcome = r.outcome /\ f[n].stray = r.stray
<1>10. ASSUME NEW n \in 1 .. l, Good(n - 1)
       PROVE  Good(n)
  <2>1. f[n] = Collect(f[n - 1], PartEnd(order[n])) /\ order[n] \in Nat
    BY <1>7, <1>9
  <2>2. order[n] \in f[n - 1].open
    <3>1. \A i \in 1 .. n - 1 : i \in 1 .. l /\ i # n
      BY <1>1
    <3>2. \A i \in 1 .. n - 1 : order[i] # order[n]
      BY <1>5, <3>1
    <3>3. QED
      BY <1>7, <1>10, <3>2
  <2>3. /\ f[n] \in Response
        /\ f[n].parts = r.parts
        /\ f[n].open = f[n - 1].open \ {order[n]}
        /\ f[n].finish = None /\ f[n].outcome = r.outcome /\ f[n].stray = r.stray
    <3> DEFINE v == f[n - 1]
               x == order[n]
               w == Collect(v, PartEnd(x))
    <3>1. /\ v \in Response /\ v.parts = r.parts /\ v.finish = None
          /\ v.outcome = r.outcome /\ v.stray = r.stray
          /\ x \in v.open /\ x \in Nat
      BY <1>10, <2>1, <2>2
    <3>2. f[n] = w
      BY <2>1
    <3> HIDE DEF v, x, Good
    <3>3. /\ w \in Response
          /\ w.parts = v.parts
          /\ w.open = v.open \ {x}
          /\ w.finish = v.finish /\ w.outcome = v.outcome
          /\ w.stray = IF v.finish = None /\ x \in v.open THEN v.stray ELSE v.stray \cup {"end"}
      BY <3>1, EndType
    <3> HIDE DEF w
    <3>4. QED
      BY <3>1, <3>2, <3>3 DEF v, x
  <2>4. 1 .. n = 1 .. n - 1 \cup {n}
    BY <1>1
  <2>5. QED
    BY <1>10, <2>3, <2>4
<1>11. Good(0)
  BY <1>9
<1> HIDE DEF Good
<1> DEFINE Bad == {n \in 0 .. l : ~ Good(n)}
<1>12. Bad = {}
  <2>1. SUFFICES ASSUME Bad # {} PROVE FALSE
    OBVIOUS
  <2>2. PICK n \in Bad : \A m \in Bad : n <= m
    <3>1. Bad \subseteq Nat
      OBVIOUS
    <3>2. QED
      BY <2>1, <3>1, Least
  <2>3. n \in 1 .. l /\ n - 1 \in 0 .. l
    BY <1>1, <1>11, <2>2
  <2>4. Good(n - 1)
    BY <2>2, <2>3
  <2>5. QED
    BY <1>10, <2>2, <2>3, <2>4
<1>13. Good(l)
  <2>1. l \in 0 .. l
    BY <1>1
  <2>2. QED
    BY <1>12, <2>1
<1>14. QED
  BY <1>6, <1>8, <1>9, <1>13 DEF Good, ends

----------------------------------------------------------------------------
(* What the server says *)

(* What was said stays said. *)
Grown(s, t) ==
  \A i \in DOMAIN s : \E j \in DOMAIN t :
    t[j].key = s[i].key /\ ToSet(s[i].content) \subseteq ToSet(t[j].content)

LEMMA Concatenation ==
  ASSUME NEW S, NEW a \in Seq(S), NEW b \in Seq(S)
  PROVE  /\ a \o b \in Seq(S)
         /\ Len(a \o b) = Len(a) + Len(b)
         /\ \A n \in 1 .. Len(a) : (a \o b)[n] = a[n]
         /\ \A n \in 1 .. Len(b) : (a \o b)[Len(a) + n] = b[n]
         /\ ToSet(a \o b) = ToSet(a) \cup ToSet(b)
<1>1. /\ a \o b \in Seq(S)
      /\ Len(a \o b) = Len(a) + Len(b)
      /\ \A n \in 1 .. Len(a) : (a \o b)[n] = a[n]
      /\ \A n \in 1 .. Len(b) : (a \o b)[Len(a) + n] = b[n]
      /\ DOMAIN a = 1 .. Len(a) /\ DOMAIN b = 1 .. Len(b)
      /\ DOMAIN (a \o b) = 1 .. Len(a) + Len(b)
      /\ Len(a) \in Nat /\ Len(b) \in Nat
  OBVIOUS
<1> DEFINE c == a \o b
<1> HIDE DEF c
<1>2. /\ \A n \in 1 .. Len(a) : n \in DOMAIN c /\ c[n] = a[n]
      /\ \A n \in 1 .. Len(b) : Len(a) + n \in DOMAIN c /\ c[Len(a) + n] = b[n]
  BY <1>1 DEF c
<1>3. ToSet(a) \cup ToSet(b) \subseteq ToSet(c)
  BY <1>1, <1>2 DEF ToSet
<1>4. ASSUME NEW n \in DOMAIN c
      PROVE  c[n] \in ToSet(a) \cup ToSet(b)
  <2>1. n \in 1 .. Len(a) + Len(b)
    BY <1>1 DEF c
  <2>2. CASE n \in 1 .. Len(a)
    BY <1>1, <1>2, <2>2 DEF ToSet
  <2>3. CASE n \notin 1 .. Len(a)
    <3>1. n - Len(a) \in 1 .. Len(b) /\ Len(a) + (n - Len(a)) = n
      BY <1>1, <2>1, <2>3
    <3>2. c[n] = b[n - Len(a)]
      BY <1>2, <3>1
    <3>3. QED
      BY <1>1, <3>1, <3>2 DEF ToSet
  <2>4. QED
    BY <2>2, <2>3
<1>5. ToSet(c) \subseteq ToSet(a) \cup ToSet(b)
  BY <1>4 DEF ToSet
<1>6. QED
  BY <1>1, <1>3, <1>5 DEF c

(* A piece of a part that is new. *)
LEMMA SaysNew ==
  ASSUME NEW s \in Seq(SaidPart), Keyed(s),
         NEW piece, piece.key \in Keys, piece.content \in Content,
         \A i \in DOMAIN s : s[i].key # piece.key
  PROVE  LET t == Says(s, piece)
         IN /\ t \in Seq(SaidPart)
            /\ Keyed(t)
            /\ Len(t) = Len(s) + 1
            /\ \A i \in 1 .. Len(s) : t[i] = s[i]
            /\ t[Len(s) + 1] = [key |-> piece.key, kind |-> Kind(piece.key),
                                content |-> piece.content]
<1> DEFINE t == Says(s, piece)
           e == [key |-> piece.key, kind |-> Kind(piece.key), content |-> piece.content]
<1>1. e \in SaidPart /\ e.key = piece.key /\ e.kind = Kind(e.key)
  BY DEF SaidPart, Kind, Kinds, Keys
<1>2. t = Append(s, e)
  BY DEF Says
<1> HIDE DEF t, e
<1>3. /\ t \in Seq(SaidPart)
      /\ Len(t) = Len(s) + 1
      /\ \A i \in 1 .. Len(s) : t[i] = s[i]
      /\ t[Len(s) + 1] = e
      /\ DOMAIN t = DOMAIN s \cup {Len(s) + 1} /\ DOMAIN s = 1 .. Len(s)
  BY <1>1, <1>2
<1>4. Keyed(t)
  BY <1>1, <1>3 DEF Keyed
<1>5. QED
  BY <1>3, <1>4 DEF t, e

(* More of a part that is there. *)
LEMMA SaysMore ==
  ASSUME NEW s \in Seq(SaidPart), Keyed(s),
         NEW piece, piece.key \in Keys, piece.content \in Content,
         NEW i \in DOMAIN s, s[i].key = piece.key
  PROVE  LET t == Says(s, piece)
         IN /\ t \in Seq(SaidPart)
            /\ Keyed(t)
            /\ Len(t) = Len(s)
            /\ \A j \in 1 .. Len(s) : j # i => t[j] = s[j]
            /\ t[i] = [key |-> piece.key, kind |-> Kind(piece.key),
                       content |-> s[i].content \o piece.content]
<1> DEFINE t == Says(s, piece)
           c == s[i].content \o piece.content
           more == [s[i] EXCEPT !.content = c]
<1>1. /\ s[i] \in SaidPart /\ s[i].kind = Kind(piece.key)
      /\ DOMAIN s = 1 .. Len(s) /\ Len(s) \in Nat
      /\ \A j \in DOMAIN s : s[j].key = piece.key <=> j = i
  BY DEF Keyed
<1>2. c \in Content
  <2>1. s[i].content \in Content
    BY <1>1 DEF SaidPart
  <2>2. QED
    BY <2>1, Concatenation DEF Content
<1> HIDE DEF c
<1>3. /\ more = [key |-> piece.key, kind |-> Kind(piece.key), content |-> c]
      /\ more \in SaidPart /\ more.key = piece.key /\ more.kind = Kind(piece.key)
  BY <1>1, <1>2 DEF SaidPart
<1>4. t = [j \in 1 .. Len(s) |-> IF s[j].key = piece.key
                                 THEN [s[j] EXCEPT !.content = s[j].content \o piece.content]
                                 ELSE s[j]]
  BY <1>1 DEF Says
<1> HIDE DEF t
<1>5. (\A j \in 1 .. Len(s) : j # i => t[j] = s[j]) /\ t[i] = more
  BY <1>1, <1>4 DEF c
<1> HIDE DEF more
<1>6. t \in [1 .. Len(s) -> SaidPart]
  <2>1. \A j \in 1 .. Len(s) : t[j] \in SaidPart
    BY <1>1, <1>3, <1>5
  <2>2. t = [j \in 1 .. Len(s) |-> t[j]]
    BY <1>4
  <2>3. QED
    BY <2>1, <2>2
<1>7. t \in Seq(SaidPart) /\ Len(t) = Len(s) /\ DOMAIN t = 1 .. Len(s)
  BY <1>1, <1>6, FunctionSequence
<1>8. Keyed(t)
  <2>1. \A j \in 1 .. Len(s) : t[j].key = s[j].key /\ t[j].kind = s[j].kind
    BY <1>1, <1>3, <1>5
  <2>2. QED
    BY <1>1, <1>7, <2>1 DEF Keyed
<1>9. QED
  BY <1>3, <1>5, <1>7, <1>8 DEF t, c

(* The same, of what was said after the piece. *)
Longer(s, i, piece, t) ==
  /\ t \in Seq(SaidPart)
  /\ Len(t) = Len(s)
  /\ \A j \in 1 .. Len(s) : j # i => t[j] = s[j]
  /\ t[i] = [key |-> piece.key, kind |-> Kind(piece.key), content |-> s[i].content \o piece.content]

LEMMA SaysLonger ==
  ASSUME NEW s \in Seq(SaidPart), Keyed(s),
         NEW piece, piece.key \in Keys, piece.content \in Content,
         NEW i \in DOMAIN s, s[i].key = piece.key
  PROVE  Longer(s, i, piece, Says(s, piece))
BY SaysMore DEF Longer

(* In any case, what was said before is still there, and the piece is too. *)
LEMMA SaysGrows ==
  ASSUME NEW s \in Seq(SaidPart), Keyed(s),
         NEW piece, piece.key \in Keys, piece.content \in Content
  PROVE  LET t == Says(s, piece)
         IN /\ t \in Seq(SaidPart)
            /\ Keyed(t)
            /\ Grown(s, t)
            /\ \E j \in DOMAIN t : /\ t[j].key = piece.key
                                   /\ ToSet(piece.content) \subseteq ToSet(t[j].content)
<1> DEFINE t == Says(s, piece)
<1>1. CASE \A i \in DOMAIN s : s[i].key # piece.key
  <2>1. /\ t \in Seq(SaidPart) /\ Keyed(t)
        /\ Len(t) = Len(s) + 1
        /\ \A i \in 1 .. Len(s) : t[i] = s[i]
        /\ t[Len(s) + 1] = [key |-> piece.key, kind |-> Kind(piece.key),
                            content |-> piece.content]
    BY <1>1, SaysNew
  <2> HIDE DEF t
  <2>2. DOMAIN s = 1 .. Len(s) /\ Len(s) \in Nat /\ DOMAIN t = 1 .. Len(s) + 1
    BY <2>1
  <2>3. Grown(s, t)
    <3>1. \A i \in DOMAIN s : i \in DOMAIN t /\ t[i] = s[i]
      BY <2>1, <2>2
    <3>2. QED
      BY <3>1 DEF Grown
  <2>4. /\ Len(s) + 1 \in DOMAIN t
        /\ t[Len(s) + 1].key = piece.key /\ t[Len(s) + 1].content = piece.content
    BY <2>1, <2>2
  <2>5. QED
    BY <2>1, <2>3, <2>4 DEF t
<1>2. ASSUME NEW i \in DOMAIN s, s[i].key = piece.key
      PROVE  /\ t \in Seq(SaidPart) /\ Keyed(t) /\ Grown(s, t)
             /\ \E j \in DOMAIN t : /\ t[j].key = piece.key
                                    /\ ToSet(piece.content) \subseteq ToSet(t[j].content)
  <2>1. /\ t \in Seq(SaidPart) /\ Keyed(t)
        /\ Len(t) = Len(s)
        /\ \A j \in 1 .. Len(s) : j # i => t[j] = s[j]
        /\ t[i] = [key |-> piece.key, kind |-> Kind(piece.key),
                   content |-> s[i].content \o piece.content]
    BY <1>2, SaysMore
  <2> HIDE DEF t
  <2>2. DOMAIN s = 1 .. Len(s) /\ DOMAIN t = 1 .. Len(s)
    BY <2>1
  <2>3. /\ t[i].key = piece.key
        /\ ToSet(t[i].content) = ToSet(s[i].content) \cup ToSet(piece.content)
    <3>1. s[i].content \in Content
      <4>1. s[i] \in SaidPart
        OBVIOUS
      <4>2. QED
        BY <4>1 DEF SaidPart
    <3>2. ToSet(s[i].content \o piece.content) = ToSet(s[i].content) \cup ToSet(piece.content)
      BY <3>1, Concatenation DEF Content
    <3>3. QED
      BY <2>1, <3>2
  <2>4. Grown(s, t)
    <3>1. ASSUME NEW j \in DOMAIN s
          PROVE  t[j].key = s[j].key /\ ToSet(s[j].content) \subseteq ToSet(t[j].content)
      <4>1. CASE j = i
        BY <1>2, <2>3, <4>1
      <4>2. CASE j # i
        BY <2>1, <2>2, <4>2
      <4>3. QED
        BY <4>1, <4>2
    <3>2. QED
      BY <2>2, <3>1 DEF Grown
  <2>5. QED
    BY <1>2, <2>1, <2>2, <2>3, <2>4
<1>3. QED
  BY <1>1, <1>2

LEMMA GrownTwice ==
  ASSUME NEW s, NEW t, NEW u, Grown(s, t), Grown(t, u)
  PROVE  Grown(s, u)
<1> SUFFICES ASSUME NEW i \in DOMAIN s
             PROVE  \E j \in DOMAIN u :
                      u[j].key = s[i].key /\ ToSet(s[i].content) \subseteq ToSet(u[j].content)
  BY DEF Grown
<1>1. PICK j \in DOMAIN t : t[j].key = s[i].key /\ ToSet(s[i].content) \subseteq ToSet(t[j].content)
  BY DEF Grown
<1>2. PICK k \in DOMAIN u : u[k].key = t[j].key /\ ToSet(t[j].content) \subseteq ToSet(u[k].content)
  BY DEF Grown
<1>3. QED
  BY <1>1, <1>2

(* A part that tells what was said still does.                             *)
LEMMA ToldStill ==
  ASSUME NEW s, NEW t, NEW part, NEW k, NEW n \in Nat, NEW m \in Nat, n <= m,
         Told(s, part, k, n), Grown(s, t)
  PROVE  Told(t, part, k, m)
<1>1. PICK i \in DOMAIN s : s[i].key = k /\ ToSet(part.content) \subseteq ToSet(s[i].content)
  BY DEF Told
<1>2. PICK j \in DOMAIN t : t[j].key = s[i].key /\ ToSet(s[i].content) \subseteq ToSet(t[j].content)
  BY DEF Grown
<1>3. t[j].key = k /\ ToSet(part.content) \subseteq ToSet(t[j].content)
  BY <1>1, <1>2
<1>4. part.content \in Seq(1 .. m)
  BY DEF Told
<1>5. QED
  BY <1>3, <1>4 DEF Told


----------------------------------------------------------------------------
(* A response under way *)

(* Its parts are the parser's, and those the parser has not closed are the *)
(* open ones.                                                              *)
Live(p, r) ==
  /\ DOMAIN p.slot \subseteq Keys /\ p \in Parser(DOMAIN p.slot)
  /\ r \in Response
  /\ r.open = {p.slot[k] : k \in p.started}
  /\ r.finish = None /\ r.stray = {}

(* A part of key k starts at index i. *)
Begun(p, k, i) ==
  [slot |-> Assigned(p.slot, k, i), started |-> p.started \cup {k},
   finish |-> p.finish, body |-> p.body]

(* What a line brings of a part, and what was said of it before. *)
Brought(s, piece, n) ==
  /\ piece \in [key : Keys, content : {<<>>, <<n + 1>>}]
  /\ \E j \in DOMAIN s : s[j].key = piece.key /\ ToSet(piece.content) \subseteq ToSet(s[j].content)

LEMMA SlottedStill ==
  ASSUME NEW p, NEW r, NEW s, NEW t, NEW n \in Nat, NEW m \in Nat, n <= m,
         Slotted(p, r, s, n), Grown(s, t)
  PROVE  Slotted(p, r, t, m)
<1>1. \A k \in DOMAIN p.slot : Told(t, r.parts[p.slot[k] + 1], k, m)
  <2> TAKE k \in DOMAIN p.slot
  <2>1. Told(s, r.parts[p.slot[k] + 1], k, n)
    BY DEF Slotted
  <2>2. QED
    BY <2>1, ToldStill
<1>2. QED
  BY <1>1 DEF Slotted

(* The parser of a response counts its parts. *)
LEMMA PartStarts ==
  ASSUME NEW p, NEW r, NEW s, NEW n \in Nat, Seq(1 .. n + 1) \subseteq Content,
         Live(p, r), Slotted(p, r, s, n),
         NEW piece, Brought(s, piece, n), piece.key \notin DOMAIN p.slot
  PROVE  LET i == Len(r.parts)
             q == Begun(p, piece.key, i)
             w == Collect(r, PartStart(i, piece))
         IN /\ Live(q, w)
            /\ Slotted(q, w, s, n + 1)
            /\ w.outcome = r.outcome
            /\ w.parts = Append(r.parts, [kind |-> Kind(piece.key), content |-> piece.content])
            /\ NextPartIndex(p) = i
<1> DEFINE k == piece.key
           c == piece.content
           i == Len(r.parts)
           D == DOMAIN p.slot
           q == Begun(p, k, i)
           w == Collect(r, PartStart(i, piece))
           part == [kind |-> Kind(k), content |-> c]
<1>1. /\ k \in Keys /\ k \notin D /\ D \subseteq Keys
      /\ c \in {<<>>, <<n + 1>>}
      /\ p \in Parser(D) /\ r \in Response
      /\ r.open = {p.slot[x] : x \in p.started}
      /\ r.finish = None /\ r.stray = {}
      /\ i \in Nat /\ r.parts \in Seq(Part) /\ DOMAIN r.parts = 1 .. i
  BY DEF Brought, Live, Response
<1>2. c \in Seq(1 .. n + 1) /\ Ascends(c)
  <2> HIDE DEF c
  <2>1. CASE c = <<>>
    BY <2>1 DEF Ascends
  <2>2. CASE c = <<n + 1>>
    BY <2>2 DEF Ascends
  <2>3. c = <<>> \/ c = <<n + 1>>
    BY <1>1
  <2>4. QED
    BY <2>1, <2>2, <2>3
<1>3. c \in Content
  BY <1>2
<1>4. /\ w \in Response
      /\ w.parts = Append(r.parts, part) /\ w.open = r.open \cup {i}
      /\ w.finish = None /\ w.outcome = r.outcome /\ w.stray = {}
  <2> HIDE DEF k, c, i, q, part
  <2>1. /\ w \in Response
        /\ w.parts = Append(r.parts, [kind |-> Kind(piece.key), content |-> piece.content])
        /\ w.open = r.open \cup {i}
        /\ w.finish = r.finish /\ w.outcome = r.outcome
        /\ r.finish = None /\ i = Len(r.parts) => w.stray = r.stray
    <3> HIDE DEF w
    <3>1. piece.key \in Keys /\ piece.content \in Content /\ r \in Response /\ i \in Nat
      BY <1>1, <1>3 DEF k, c
    <3>2. QED
      BY <3>1, StartType DEF w
  <2>2. QED
    BY <1>1, <2>1 DEF i, k, c, part
<1> HIDE DEF w
<1>5. /\ q.slot = [x \in D \cup {k} |-> IF x = k THEN i ELSE p.slot[x]]
      /\ q.started = p.started \cup {k} /\ q.finish = p.finish /\ q.body = p.body
      /\ q = [slot |-> q.slot, started |-> q.started, finish |-> q.finish, body |-> q.body]
  BY DEF Begun, Assigned
<1> HIDE DEF q, i, k, c
<1>6. /\ p.slot \in [D -> Nat] /\ p.started \subseteq D
      /\ p.finish \in Reasons \cup {None} /\ p.body \in Seq(SaidPart)
  BY <1>1 DEF Parser
<1>7. /\ DOMAIN q.slot = D \cup {k} /\ q.slot[k] = i
      /\ \A x \in D : q.slot[x] = p.slot[x]
      /\ q.slot \in [D \cup {k} -> Nat]
  BY <1>1, <1>5, <1>6
<1>8. Live(q, w)
  <2>1. q \in Parser(D \cup {k})
    BY <1>5, <1>6, <1>7 DEF Parser
  <2>2. {q.slot[x] : x \in q.started} = {p.slot[x] : x \in p.started} \cup {i}
    <3>1. q.started = p.started \cup {k} /\ \A x \in p.started : q.slot[x] = p.slot[x]
      BY <1>5, <1>6, <1>7
    <3>2. QED
      BY <1>7, <3>1
  <2>3. QED
    BY <1>1, <1>4, <1>7, <2>1, <2>2 DEF Live
<1>9. Slotted(q, w, s, n + 1)
  <2>1. /\ IsFiniteSet(D) /\ Cardinality(D) = i
        /\ \A x \in D : p.slot[x] + 1 \in 1 .. i /\ Told(s, r.parts[p.slot[x] + 1], x, n)
        /\ \A x, y \in D : p.slot[x] = p.slot[y] => x = y
        /\ \A j \in 1 .. i : \E x \in D : p.slot[x] + 1 = j
    BY <1>1 DEF Slotted, i
  <2>2. /\ DOMAIN w.parts = 1 .. i + 1 /\ Len(w.parts) = i + 1
        /\ w.parts[i + 1] = part
        /\ \A j \in 1 .. i : w.parts[j] = r.parts[j]
    <3>1. part \in Part
      BY <1>1, <1>3 DEF Part, Kind, Kinds, Keys
    <3>2. QED
      BY <1>1, <1>4, <3>1 DEF i
  <2>3. IsFiniteSet(D \cup {k}) /\ Cardinality(D \cup {k}) = i + 1
    <3>1. IsFiniteSet(D) /\ Cardinality(D) = i /\ k \notin D
      BY <1>1, <2>1
    <3> HIDE DEF D
    <3>2. QED
      BY <3>1, FS_AddElement
  <2>4. Told(s, part, k, n + 1)
    BY <1>2 DEF Told, Brought, k, c
  <2>5. \A x \in D : q.slot[x] + 1 \in 1 .. i + 1 /\ Told(s, w.parts[q.slot[x] + 1], x, n + 1)
    <3> TAKE x \in D
    <3>1. q.slot[x] + 1 \in 1 .. i /\ Told(s, w.parts[q.slot[x] + 1], x, n)
      <4>1. q.slot[x] = p.slot[x]
        BY <1>7
      <4>2. p.slot[x] + 1 \in 1 .. i /\ Told(s, r.parts[p.slot[x] + 1], x, n)
        BY <2>1
      <4>3. w.parts[p.slot[x] + 1] = r.parts[p.slot[x] + 1]
        BY <2>2, <4>2
      <4>4. QED
        BY <4>1, <4>2, <4>3
    <3>2. Grown(s, s)
      BY DEF Grown
    <3>3. QED
      BY <1>1, <3>1, <3>2, ToldStill
  <2>6. \A x, y \in D \cup {k} : q.slot[x] = q.slot[y] => x = y
    <3>1. \A x \in D : q.slot[x] = p.slot[x] /\ q.slot[x] # i
      BY <1>1, <1>6, <1>7, <2>1
    <3>2. q.slot[k] = i
      BY <1>7
    <3>3. \A x, y \in D : p.slot[x] = p.slot[y] => x = y
      BY <2>1
    <3> HIDE DEF D
    <3>4. QED
      BY <3>1, <3>2, <3>3
  <2>7. \A j \in 1 .. i + 1 : \E x \in D \cup {k} : q.slot[x] + 1 = j
    <3> TAKE j \in 1 .. i + 1
    <3>1. CASE j = i + 1
      BY <1>7, <3>1
    <3>2. CASE j # i + 1
      <4>1. PICK x \in D : p.slot[x] + 1 = j
        BY <1>1, <2>1, <3>2
      <4>2. QED
        BY <1>7, <4>1
    <3>3. QED
      BY <3>1, <3>2
  <2>8. q.slot[k] + 1 \in 1 .. i + 1 /\ Told(s, w.parts[q.slot[k] + 1], k, n + 1)
    BY <1>1, <1>7, <2>2, <2>4
  <2>9. \A x \in D \cup {k} :
          q.slot[x] + 1 \in 1 .. i + 1 /\ Told(s, w.parts[q.slot[x] + 1], x, n + 1)
    BY <2>5, <2>8
  <2>10. DOMAIN q.slot = D \cup {k} /\ DOMAIN w.parts = 1 .. i + 1 /\ Len(w.parts) = i + 1
    BY <1>7, <2>2
  <2> HIDE DEF part, D
  <2>11. QED
    BY <2>3, <2>6, <2>7, <2>9, <2>10 DEF Slotted
<1>10. NextPartIndex(p) = i
  BY DEF NextPartIndex, Slotted, i
<1>11. QED
  BY <1>4, <1>8, <1>9, <1>10 DEF q, w, k, c, i

Extends(p, r, s, n, piece, w) ==
  LET i == p.slot[piece.key]
  IN /\ Live(p, w)
     /\ Slotted(p, w, s, n + 1)
     /\ w.outcome = r.outcome
     /\ i + 1 \in 1 .. Len(r.parts) /\ Len(w.parts) = Len(r.parts)
     /\ \A j \in 1 .. Len(r.parts) : j # i + 1 => w.parts[j] = r.parts[j]
     /\ w.parts[i + 1] = [kind |-> Kind(piece.key),
                          content |-> r.parts[i + 1].content \o piece.content]

(* Lines that came are among those that came by the next one. *)
LEMMA MoreLines ==
  ASSUME NEW n \in Nat, NEW c \in Seq(1 .. n)
  PROVE  c \in Seq(1 .. n + 1)
OBVIOUS

(* More of a part that is open. *)
LEMMA PartGoesOn ==
  ASSUME NEW p, NEW r, NEW s, NEW n \in Nat, Seq(1 .. n + 1) \subseteq Content,
         Live(p, r), Slotted(p, r, s, n), Keyed(s),
         NEW piece, Brought(s, piece, n), piece.content = <<n + 1>>, piece.key \in p.started
  PROVE  Extends(p, r, s, n, piece, Collect(r, PartDelta(p.slot[piece.key], piece)))
<1> DEFINE k == piece.key
           c == piece.content
           i == p.slot[piece.key]
           D == DOMAIN p.slot
           w == Collect(r, PartDelta(i, piece))
<1>1. /\ piece \in [key : Keys, content : Seq(Nat)]
      /\ c = <<n + 1>> /\ c \in Seq(1 .. n + 1)
      /\ D \subseteq Keys
      /\ p \in Parser(D) /\ r \in Response
      /\ r.open = {p.slot[x] : x \in p.started}
      /\ r.finish = None /\ r.stray = {}
      /\ r.parts \in Seq(Part) /\ Len(r.parts) \in Nat /\ DOMAIN r.parts = 1 .. Len(r.parts)
  <2>1. c = <<n + 1>> /\ c \in Seq(1 .. n + 1)
    OBVIOUS
  <2>2. piece \in [key : Keys, content : Seq(Nat)]
    <3>1. c \in Seq(Nat)
      BY <2>1
    <3>2. piece \in [key : Keys, content : {<<>>, <<n + 1>>}]
      BY DEF Brought
    <3> HIDE DEF c
    <3>3. piece = [key |-> piece.key, content |-> c] /\ piece.key \in Keys
      BY <3>2 DEF c
    <3>4. QED
      BY <3>1, <3>3
  <2>3. r.parts \in Seq(Part)
    BY DEF Live, Response
  <2>4. QED
    BY <2>1, <2>2, <2>3 DEF Live
<1>2. k \in D /\ i \in Nat /\ i \in r.open /\ i + 1 \in 1 .. Len(r.parts)
  BY <1>1 DEF Parser, Slotted
<1>3. /\ Told(s, r.parts[i + 1], k, n)
      /\ \A x \in D : p.slot[x] + 1 \in 1 .. Len(r.parts) /\ Told(s, r.parts[p.slot[x] + 1], x, n)
      /\ \A x, y \in D : p.slot[x] = p.slot[y] => x = y
  BY <1>1, <1>2 DEF Slotted
<1> DEFINE old == r.parts[i + 1].content
           new == old \o c
<1>4. old \in Seq(1 .. n) /\ Ascends(old) /\ r.parts[i + 1].kind = Kind(k)
  BY <1>3 DEF Told
<1>5. /\ new \in Seq(1 .. n + 1) /\ Len(new) = Len(old) + 1
      /\ \A j \in 1 .. Len(old) : new[j] = old[j]
      /\ new[Len(old) + 1] = n + 1
      /\ ToSet(new) = ToSet(old) \cup {n + 1}
  <2>1. old \in Seq(1 .. n + 1)
    BY <1>4, MoreLines, Zenon
  <2>2. ToSet(c) = {n + 1}
    BY <1>1 DEF ToSet
  <2>3. Len(c) = 1 /\ c[1] = n + 1 /\ c \in Seq(1 .. n + 1)
    BY <1>1
  <2> HIDE DEF old, c
  <2>4. /\ new \in Seq(1 .. n + 1)
        /\ Len(new) = Len(old) + Len(c)
        /\ \A j \in 1 .. Len(old) : new[j] = old[j]
        /\ \A j \in 1 .. Len(c) : new[Len(old) + j] = c[j]
        /\ ToSet(new) = ToSet(old) \cup ToSet(c)
    <3>1. c \in Seq(1 .. n + 1)
      BY <2>3
    <3>2. QED
      BY <2>1, <3>1, Concatenation
  <2> HIDE DEF new
  <2>5. QED
    BY <2>2, <2>3, <2>4
<1>6. Ascends(new)
  <2> SUFFICES ASSUME NEW a \in DOMAIN new, NEW b \in DOMAIN new, a < b
               PROVE  new[a] < new[b]
    BY DEF Ascends
  <2> HIDE DEF new, old
  <2>1. Len(old) \in Nat /\ DOMAIN old = 1 .. Len(old) /\ DOMAIN new = 1 .. Len(old) + 1
    BY <1>4, <1>5
  <2>2. \A j \in 1 .. Len(old) : old[j] \in 1 .. n /\ new[j] = old[j]
    BY <1>4, <1>5, <2>1
  <2>3. new[Len(old) + 1] = n + 1
    BY <1>5
  <2>4. \A j, m \in 1 .. Len(old) : j < m => old[j] < old[m]
    BY <1>4, <2>1 DEF Ascends
  <2>5. a \in 1 .. Len(old) /\ (b = Len(old) + 1 \/ b \in 1 .. Len(old))
    BY <2>1
  <2>6. QED
    BY <2>2, <2>3, <2>4, <2>5
<1> HIDE DEF new
<1>7. new \in Content
  BY <1>5
<1>8. /\ w \in Response
      /\ Len(w.parts) = Len(r.parts)
      /\ \A j \in 1 .. Len(r.parts) : j # i + 1 => w.parts[j] = r.parts[j]
      /\ w.parts[i + 1] = [kind |-> Kind(k), content |-> new]
      /\ w.open = r.open /\ w.finish = None /\ w.outcome = r.outcome /\ w.stray = {}
  <2>1. Fits(r, i, piece)
    BY <1>7 DEF Fits, new
  <2> HIDE DEF i, w
  <2>2. /\ w \in Response
        /\ Len(w.parts) = Len(r.parts)
        /\ \A j \in 1 .. Len(r.parts) : j # i + 1 => w.parts[j] = r.parts[j]
        /\ i + 1 \in 1 .. Len(r.parts) /\ r.parts[i + 1].kind = Kind(piece.key) =>
             w.parts[i + 1] = [kind    |-> Kind(piece.key),
                               content |-> r.parts[i + 1].content \o piece.content]
        /\ w.open = r.open /\ w.finish = r.finish /\ w.outcome = r.outcome
        /\ r.finish = None /\ i \in r.open => w.stray = r.stray
    <3>1. r \in Response /\ i \in Nat /\ piece \in [key : Keys, content : Seq(Nat)]
      BY <1>1, <1>2
    <3>2. QED
      <4>1. Goes(r, i, piece, Collect(r, PartDelta(i, piece)))
        BY <2>1, <3>1, DeltaType
      <4>2. QED
        BY <4>1 DEF Goes, w
  <2>3. QED
    BY <1>1, <1>2, <1>4, <2>2 DEF new, k, c
<1> HIDE DEF w, i, k, c
<1>9. Live(p, w)
  BY <1>1, <1>8 DEF Live
<1>10. Told(s, [kind |-> Kind(k), content |-> new], k, n + 1)
  <2>1. PICK a \in DOMAIN s : s[a].key = k /\ ToSet(old) \subseteq ToSet(s[a].content)
    BY <1>3 DEF Told
  <2>2. PICK b \in DOMAIN s : s[b].key = k /\ ToSet(c) \subseteq ToSet(s[b].content)
    BY DEF Brought, k, c
  <2>3. a = b
    BY <2>1, <2>2 DEF Keyed
  <2>4. ToSet(c) = {n + 1}
    BY <1>1 DEF ToSet
  <2> HIDE DEF old
  <2>5. ToSet(new) \subseteq ToSet(s[a].content)
    BY <1>5, <2>1, <2>2, <2>3, <2>4
  <2>6. QED
    BY <1>5, <1>6, <2>1, <2>5 DEF Told
<1>11. \A x \in D : Told(s, w.parts[p.slot[x] + 1], x, n + 1)
  <2> TAKE x \in D
  <2>1. CASE x = k
    <3>1. w.parts[i + 1] = [kind |-> Kind(k), content |-> new]
      BY <1>8
    <3>2. Told(s, w.parts[i + 1], k, n + 1)
      BY <1>10, <3>1
    <3>3. i = p.slot[k]
      BY DEF i, k
    <3>4. QED
      BY <2>1, <3>2, <3>3
  <2>2. CASE x # k
    <3>1. p.slot[x] # p.slot[k] /\ p.slot[x] \in Nat /\ p.slot[x] + 1 \in 1 .. Len(r.parts)
      BY <1>1, <1>2, <1>3, <2>2 DEF Parser
    <3>2. w.parts[p.slot[x] + 1] = r.parts[p.slot[x] + 1]
      <4>1. i = p.slot[k]
        BY DEF i, k
      <4>2. p.slot[x] + 1 # i + 1
        BY <1>2, <3>1, <4>1
      <4>3. QED
        BY <1>8, <3>1, <4>2
    <3>3. Told(s, w.parts[p.slot[x] + 1], x, n)
      BY <1>3, <3>2
    <3>4. Grown(s, s)
      BY DEF Grown
    <3>5. QED
      BY <3>3, <3>4, ToldStill
  <2>3. QED
    BY <2>1, <2>2
<1>12. Slotted(p, w, s, n + 1)
  <2>1. w.parts \in Seq(Part) /\ DOMAIN w.parts = DOMAIN r.parts
    <3>1. w.parts \in Seq(Part)
      BY <1>8 DEF Response
    <3>2. QED
      BY <1>1, <1>8, <3>1
  <2>2. QED
    BY <1>8, <1>11, <2>1 DEF Slotted
<1>13. QED
  BY <1>2, <1>8, <1>9, <1>12 DEF w, i, k, c, new, Extends

----------------------------------------------------------------------------
(* A response of which nothing was lost *)

LEMMA BareParts ==
  ASSUME NEW s \in Seq(SaidPart)
  PROVE  /\ Bare(s) \in Seq(Part) /\ Len(Bare(s)) = Len(s)
         /\ \A i \in 1 .. Len(s) : Bare(s)[i] = [kind |-> s[i].kind, content |-> s[i].content]
<1>1. DOMAIN s = 1 .. Len(s) /\ Len(s) \in Nat /\ \A i \in 1 .. Len(s) : s[i] \in SaidPart
  OBVIOUS
<1>2. Bare(s) = [i \in 1 .. Len(s) |-> [kind |-> s[i].kind, content |-> s[i].content]]
  BY <1>1 DEF Bare
<1>3. \A i \in 1 .. Len(s) : [kind |-> s[i].kind, content |-> s[i].content] \in Part
  BY <1>1 DEF SaidPart, Part
<1>4. Bare(s) \in [1 .. Len(s) -> Part]
  BY <1>2, <1>3
<1>5. QED
  BY <1>1, <1>2, <1>4, FunctionSequence

(* Sequences of parts are the same if their elements are. *)
LEMMA SameSequence ==
  ASSUME NEW S, NEW a \in Seq(S), NEW b \in Seq(S), Len(a) = Len(b),
         \A i \in 1 .. Len(a) : a[i] = b[i]
  PROVE  a = b
OBVIOUS

(* The server and the collector begin the same part. *)
LEMMA SameStarts ==
  ASSUME NEW p, NEW r, NEW s \in Seq(SaidPart), Keyed(s), Same(p, r, s),
         NEW piece, piece.key \in Keys, piece.content \in Content,
         \A i \in DOMAIN s : s[i].key # piece.key,
         NEW w,
         w.parts = Append(r.parts, [kind |-> Kind(piece.key), content |-> piece.content])
  PROVE  /\ Len(r.parts) = Len(s)
         /\ Same(Begun(p, piece.key, Len(r.parts)), w, Says(s, piece))
<1> DEFINE t == Says(s, piece)
           k == piece.key
           l == Len(s)
           q == Begun(p, piece.key, Len(r.parts))
           part == [kind |-> Kind(k), content |-> piece.content]
<1>1. /\ \A x \in Keys : x \in DOMAIN p.slot <=> \E i \in DOMAIN s : s[i].key = x
      /\ \A i \in DOMAIN s : p.slot[s[i].key] = i - 1
      /\ r.parts = Bare(s)
  BY DEF Same
<1>2. /\ r.parts \in Seq(Part) /\ Len(r.parts) = l
      /\ \A i \in 1 .. l : r.parts[i] = [kind |-> s[i].kind, content |-> s[i].content]
      /\ DOMAIN s = 1 .. l /\ l \in Nat /\ \A i \in 1 .. l : s[i] \in SaidPart
  BY <1>1, BareParts
<1>3. /\ t \in Seq(SaidPart) /\ Len(t) = l + 1
      /\ \A i \in 1 .. l : t[i] = s[i]
      /\ t[l + 1] = [key |-> k, kind |-> Kind(k), content |-> piece.content]
  BY SaysNew
<1>4. /\ DOMAIN q.slot = DOMAIN p.slot \cup {k} /\ q.slot[k] = l
      /\ \A x \in DOMAIN p.slot : x # k => q.slot[x] = p.slot[x]
  <2>1. q.slot = [x \in DOMAIN p.slot \cup {k} |-> IF x = k THEN l ELSE p.slot[x]]
    BY <1>2 DEF Begun, Assigned
  <2> HIDE DEF q
  <2>2. QED
    BY <2>1
<1>5. part \in Part
  <2>1. [key |-> k, kind |-> Kind(k), content |-> piece.content] \in SaidPart
    BY <1>2, <1>3
  <2>2. QED
    BY <2>1 DEF SaidPart, Part
<1> HIDE DEF t, q, part, k
<1>6. w.parts = Bare(t)
  <2>1. /\ w.parts \in Seq(Part) /\ Len(w.parts) = l + 1
        /\ \A i \in 1 .. l : w.parts[i] = r.parts[i]
        /\ w.parts[l + 1] = part
    BY <1>2, <1>5 DEF part, k
  <2>2. /\ Bare(t) \in Seq(Part) /\ Len(Bare(t)) = l + 1
        /\ \A i \in 1 .. l + 1 : Bare(t)[i] = [kind |-> t[i].kind, content |-> t[i].content]
    BY <1>3, BareParts
  <2>3. \A i \in 1 .. l + 1 : w.parts[i] = Bare(t)[i]
    <3> TAKE i \in 1 .. l + 1
    <3>1. CASE i = l + 1
      BY <1>3, <2>1, <2>2, <3>1 DEF part
    <3>2. CASE i # l + 1
      <4>1. i \in 1 .. l
        BY <1>2, <3>2
      <4>2. QED
        BY <1>2, <1>3, <2>1, <2>2, <4>1
    <3>3. QED
      BY <3>1, <3>2
  <2>4. QED
    BY <2>1, <2>2, <2>3, SameSequence
<1>7. DOMAIN t = 1 .. l + 1 /\ t[l + 1].key = k
  BY <1>3
<1>8. ASSUME NEW x \in Keys
      PROVE  x \in DOMAIN q.slot <=> \E i \in DOMAIN t : t[i].key = x
  <2>1. \A i \in 1 .. l : i \in DOMAIN t /\ t[i].key = s[i].key
    BY <1>2, <1>3, <1>7
  <2>2. \A i \in DOMAIN t : i = l + 1 \/ i \in 1 .. l
    BY <1>2, <1>7
  <2>3. l + 1 \in DOMAIN t
    BY <1>2, <1>7
  <2>4. QED
    <3>1. CASE x = k
      BY <1>4, <1>7, <2>3, <3>1
    <3>2. CASE x # k
      <4>1. x \in DOMAIN q.slot <=> \E i \in DOMAIN s : s[i].key = x
        BY <1>1, <1>4, <3>2
      <4>2. ASSUME NEW i \in DOMAIN s, s[i].key = x
            PROVE  \E j \in DOMAIN t : t[j].key = x
        BY <1>2, <2>1, <4>2
      <4>3. ASSUME NEW i \in DOMAIN t, t[i].key = x
            PROVE  \E j \in DOMAIN s : s[j].key = x
        BY <1>2, <1>7, <2>1, <2>2, <3>2, <4>3
      <4>4. QED
        BY <4>1, <4>2, <4>3
    <3>3. QED
      BY <3>1, <3>2
<1>9. ASSUME NEW i \in DOMAIN t
      PROVE  q.slot[t[i].key] = i - 1
  <2>1. CASE i = l + 1
    BY <1>2, <1>4, <1>7, <2>1
  <2>2. CASE i # l + 1
    <3>1. i \in 1 .. l /\ t[i].key = s[i].key
      BY <1>2, <1>3, <1>7, <2>2
    <3>2. s[i].key \in Keys /\ s[i].key # k
      <4>1. s[i] \in SaidPart
        BY <1>2, <3>1
      <4>2. QED
        BY <1>2, <3>1, <4>1 DEF SaidPart, k
    <3>3. s[i].key \in DOMAIN p.slot
      BY <1>1, <1>2, <3>1, <3>2
    <3>4. QED
      BY <1>1, <1>2, <1>4, <3>1, <3>2, <3>3
  <2>3. QED
    BY <2>1, <2>2
<1>10. Same(q, w, t)
  BY <1>6, <1>8, <1>9 DEF Same
<1>11. QED
  BY <1>2, <1>10 DEF q, t, k

(* They extend the same part. *)
LEMMA SameGoes ==
  ASSUME NEW p, NEW r, NEW s \in Seq(SaidPart), Keyed(s), Same(p, r, s),
         NEW piece, piece.key \in Keys, piece.content \in Content,
         NEW i \in DOMAIN s, s[i].key = piece.key,
         NEW w, w.parts \in Seq(Part), Len(w.parts) = Len(r.parts),
         \A j \in 1 .. Len(r.parts) : j # i => w.parts[j] = r.parts[j],
         w.parts[i] = [kind |-> Kind(piece.key), content |-> r.parts[i].content \o piece.content]
  PROVE  Same(p, w, Says(s, piece))
<1> DEFINE t == Says(s, piece)
           l == Len(s)
<1>1. /\ \A x \in Keys : x \in DOMAIN p.slot <=> \E j \in DOMAIN s : s[j].key = x
      /\ \A j \in DOMAIN s : p.slot[s[j].key] = j - 1
      /\ r.parts = Bare(s)
  BY DEF Same
<1>2. /\ r.parts \in Seq(Part) /\ Len(r.parts) = l
      /\ \A j \in 1 .. l : r.parts[j] = [kind |-> s[j].kind, content |-> s[j].content]
      /\ DOMAIN s = 1 .. l /\ l \in Nat
  BY <1>1, BareParts
<1>3. /\ t \in Seq(SaidPart) /\ Len(t) = l
      /\ \A j \in 1 .. l : j # i => t[j] = s[j]
      /\ t[i] = [key |-> piece.key, kind |-> Kind(piece.key),
                 content |-> s[i].content \o piece.content]
  BY SaysMore
<1> HIDE DEF t
<1>4. /\ Bare(t) \in Seq(Part) /\ Len(Bare(t)) = l
      /\ \A j \in 1 .. l : Bare(t)[j] = [kind |-> t[j].kind, content |-> t[j].content]
  BY <1>3, BareParts
<1>5. \A j \in 1 .. l : w.parts[j] = Bare(t)[j]
  <2> TAKE j \in 1 .. l
  <2>1. CASE j = i
    <3>1. i \in 1 .. l
      BY <1>2
    <3>2. r.parts[i] = [kind |-> s[i].kind, content |-> s[i].content]
      BY <1>2, <3>1
    <3>3. r.parts[i].content = s[i].content
      BY <3>2
    <3>4. Bare(t)[i] = [kind |-> t[i].kind, content |-> t[i].content]
      BY <1>4, <3>1
    <3>5. t[i].kind = Kind(piece.key) /\ t[i].content = r.parts[i].content \o piece.content
      <4>1. t[i].kind = Kind(piece.key) /\ t[i].content = s[i].content \o piece.content
        <5> DEFINE c == s[i].content \o piece.content
        <5>1. t[i] = [key |-> piece.key, kind |-> Kind(piece.key), content |-> c]
          BY <1>3
        <5> HIDE DEF c
        <5>2. t[i].kind = Kind(piece.key) /\ t[i].content = c
          BY <5>1, SMTT(60)
        <5>3. QED
          BY <5>2 DEF c
      <4>2. QED
        BY <3>3, <4>1
    <3>6. QED
      BY <2>1, <3>4, <3>5
  <2>2. CASE j # i
    BY <1>2, <1>3, <1>4, <2>2
  <2>3. QED
    BY <2>1, <2>2
<1>6. w.parts = Bare(t)
  BY <1>2, <1>4, <1>5, SameSequence, SMTT(60)
<1>7. DOMAIN t = DOMAIN s /\ \A j \in DOMAIN t : t[j].key = s[j].key
  BY <1>2, <1>3, SMTT(60)
<1>8. QED
  <2>1. \A x \in Keys : x \in DOMAIN p.slot <=> \E j \in DOMAIN t : t[j].key = x
    BY <1>1, <1>7
  <2>2. \A j \in DOMAIN t : p.slot[t[j].key] = j - 1
    BY <1>1, <1>7
  <2>3. QED
    BY <1>6, <2>1, <2>2 DEF Same, t

----------------------------------------------------------------------------
(* A line is written *)

Wrote ==
  /\ provider' = provider /\ lines' = lines + 1
  /\ response.outcome = "streaming" /\ ~over
  /\ lines \in Nat /\ lines' \in 0 .. MaxLines[provider]
  /\ Seq(1 .. lines + 1) \subseteq Content
  /\ said' \in Seq(SaidPart) /\ Keyed(said') /\ Grown(said, said')

LEMMA Wider ==
  ASSUME NEW S, NEW T, S \subseteq T
  PROVE  Seq(S) \subseteq Seq(T)
OBVIOUS

(* What a line may say of a part. *)
Sayable == [key : Keys, content : {<<>>, <<lines + 1>>}]

LEMMA ServerWrites ==
  ASSUME TypeOK, Keyed(said), NEW pieces, Write(pieces),
         pieces \in Seq(Sayable), Len(pieces) \in 0 .. 2
  PROVE  /\ Wrote
         /\ pieces = <<>> => said' = said
         /\ Len(pieces) = 1 => said' = Says(said, Head(pieces))
         /\ pieces # <<>> => Brought(said', Head(pieces), lines)
<1>1. /\ provider' = provider /\ lines' = lines + 1
      /\ response.outcome = "streaming" /\ ~over /\ lines < MaxLines[provider]
      /\ said' = CASE Len(pieces) = 0 -> said
                   [] Len(pieces) = 1 -> Says(said, pieces[1])
                   [] OTHER -> Says(Says(said, pieces[1]), pieces[2])
  BY DEF Write
<1>2. MaxLines[provider] \in Nat /\ lines \in 0 .. MaxLines[provider]
  BY StreamAssumption DEF TypeOK
<1>3. Seq(1 .. lines + 1) \subseteq Content
  <2>1. 1 .. lines + 1 \subseteq 1 .. MaxLines[provider]
    BY <1>1, <1>2
  <2> DEFINE S == 1 .. lines + 1
             T == 1 .. MaxLines[provider]
  <2>2. S \subseteq T
    BY <2>1
  <2> HIDE DEF S, T
  <2>3. Seq(S) \subseteq Seq(T)
    BY <2>2, Wider
  <2>4. QED
    BY <2>3 DEF Content, S, T
<1>4. Len(pieces) \in 0 .. 2
  OBVIOUS
<1>5. \A i \in 1 .. Len(pieces) :
        /\ pieces[i] \in Sayable
        /\ pieces[i].key \in Keys /\ pieces[i].content \in Content
  <2> TAKE i \in 1 .. Len(pieces)
  <2>0. pieces[i] \in Sayable
    OBVIOUS
  <2>1. pieces[i] \in [key : Keys, content : {<<>>, <<lines + 1>>}]
    BY <2>0 DEF Sayable
  <2>2. pieces[i].content = <<>> \/ pieces[i].content = <<lines + 1>>
    BY <2>1
  <2>3. <<>> \in Seq(1 .. lines + 1) /\ <<lines + 1>> \in Seq(1 .. lines + 1)
    BY <1>2
  <2>4. pieces[i].content \in Content
    BY <1>3, <2>2, <2>3
  <2>5. QED
    BY <2>0, <2>1, <2>4
<1>6. said \in Seq(SaidPart)
  BY DEF TypeOK
<1>7. CASE pieces = <<>>
  <2>1. said' = said
    BY <1>1, <1>7
  <2>2. Grown(said, said')
    BY <2>1 DEF Grown
  <2>3. said' \in Seq(SaidPart) /\ Keyed(said')
    BY <1>6, <2>1
  <2>4. Wrote
    BY <1>1, <1>2, <1>3, <2>2, <2>3 DEF Wrote
  <2>5. Len(pieces) # 1
    BY <1>7
  <2>6. QED
    BY <1>7, <2>1, <2>4, <2>5
<1>8. CASE pieces # <<>>
  <2> DEFINE x == pieces[1]
             t == Says(said, x)
  <2>1. Len(pieces) = 1 \/ Len(pieces) = 2
    BY <1>4, <1>8
  <2>2. x = Head(pieces) /\ 1 \in 1 .. Len(pieces)
    BY <1>8, <2>1
  <2>3. /\ x \in [key : Keys, content : {<<>>, <<lines + 1>>}]
        /\ x.key \in Keys /\ x.content \in Content
    BY <1>5, <2>2 DEF Sayable
  <2> HIDE DEF x
  <2>4. /\ t \in Seq(SaidPart) /\ Keyed(t) /\ Grown(said, t)
        /\ \E j \in DOMAIN t : t[j].key = x.key /\ ToSet(x.content) \subseteq ToSet(t[j].content)
    <3>1. x.key \in Keys /\ x.content \in Content
      BY <2>3
    <3>2. QED
      BY <1>6, <3>1, SaysGrows
  <2> HIDE DEF t
  <2>5. /\ said' \in Seq(SaidPart) /\ Keyed(said') /\ Grown(said, said') /\ Grown(t, said')
        /\ Len(pieces) = 1 => said' = t
    <3>1. CASE Len(pieces) = 1
      <4>1. said' = t
        BY <1>1, <3>1 DEF t, x
      <4>2. Grown(t, t)
        BY DEF Grown
      <4>3. QED
        BY <2>4, <4>1, <4>2
    <3>2. CASE Len(pieces) = 2
      <4> DEFINE y == pieces[2]
                 u == Says(t, y)
      <4>1. said' = u
        BY <1>1, <3>2 DEF t, x
      <4>2. y.key \in Keys /\ y.content \in Content
        BY <1>5, <3>2
      <4> HIDE DEF y
      <4>3. u \in Seq(SaidPart) /\ Keyed(u) /\ Grown(t, u)
        BY <2>4, <4>2, SaysGrows
      <4> HIDE DEF u
      <4>4. Grown(said, u)
        BY <2>4, <4>3, GrownTwice
      <4>5. QED
        BY <3>2, <4>1, <4>3, <4>4
    <3>3. QED
      BY <2>1, <3>1, <3>2
  <2>6. Brought(said', x, lines)
    <3>1. PICK j \in DOMAIN t : t[j].key = x.key /\ ToSet(x.content) \subseteq ToSet(t[j].content)
      BY <2>4
    <3>2. PICK i \in DOMAIN said' :
            said'[i].key = t[j].key /\ ToSet(t[j].content) \subseteq ToSet(said'[i].content)
      BY <2>5 DEF Grown
    <3>3. said'[i].key = x.key /\ ToSet(x.content) \subseteq ToSet(said'[i].content)
      BY <3>1, <3>2
    <3>4. QED
      BY <2>3, <3>3 DEF Brought
  <2>7. Wrote
    BY <1>1, <1>2, <1>3, <2>5 DEF Wrote
  <2>8. QED
    BY <1>8, <2>2, <2>5, <2>6, <2>7 DEF t
<1>9. QED
  BY <1>7, <1>8

LEMMA TypeKept ==
  ASSUME provider' = provider, provider \in Providers,
         said' \in Seq(SaidPart), reason' \in Reasons \cup {None}, whole' \subseteq Calls,
         over' \in BOOLEAN, lost' \in BOOLEAN, lines' \in 0 .. MaxLines[provider],
         held' \in Keys \cup {None}, joined' \in BOOLEAN, overtaken' \in BOOLEAN,
         NEW known \in SUBSET Keys, parser' \in Parser(known), response' \in Response
  PROVE  TypeOK'
<1>1. Content' = Content
  BY DEF Content
<1>2. SaidPart' = SaidPart /\ Part' = Part
  BY <1>1 DEF SaidPart, Part
<1>3. Response' = Response /\ Parser(known)' = Parser(known)
  BY <1>2 DEF Response, Parser
<1>4. parser' \in Parser(known)'
  BY <1>3
<1>5. QED
  BY <1>2, <1>3, <1>4 DEF TypeOK

LEMMA BufferType ==
  ASSUME TypeOK
  PROVE  held \in Keys \cup {None} /\ joined \in BOOLEAN /\ overtaken \in BOOLEAN
BY DEF TypeOK

(* What the parser knows no buffer does not change. *)
LEMMA NoBuffer ==
  ASSUME Inv, provider \notin Bytewise
  PROVE  ~ joined /\ ~ overtaken /\ Source = said
BY DEF Inv, BufferInv, Source, Bytewise

(* What a step of a provider has to keep that has a buffer of its own, or  *)
(* none.                                                                   *)
LEMMA Kept ==
  ASSUME Inv, Wrote, provider # "chatgpt", provider \notin Bytewise, UNCHANGED buffer,
         whole' = whole,
         reason' \in Reasons \cup {None}, over' \in BOOLEAN, lost' \in BOOLEAN,
         DOMAIN parser'.slot \subseteq Keys, parser' \in Parser(DOMAIN parser'.slot),
         response' \in Response,
         Slotted(parser', response', said', lines + 1),
         provider \in ByIndex /\ ~lost' /\ response'.outcome # "failed" =>
           Same(parser', response', said'),
         provider = "huggingface" => response'.parts = <<>>,
         OpenInv', FinishInv', CohereInv', EventsInPlace'
  PROVE  Inv'
<1>1. provider \in Providers /\ whole \subseteq Calls
  BY DEF Inv, TypeOK
<1>2. /\ provider' = provider /\ lines' = lines + 1 /\ lines' \in 0 .. MaxLines[provider]
      /\ said' \in Seq(SaidPart) /\ Keyed(said')
  BY DEF Wrote
<1>3. /\ held' \in Keys \cup {None} /\ joined' \in BOOLEAN /\ overtaken' \in BOOLEAN
      /\ ~ joined' /\ ~ overtaken'
  BY BufferType, NoBuffer DEF buffer, Inv
<1>4. TypeOK'
  <2> DEFINE known == DOMAIN parser'.slot
  <2>1. known \in SUBSET Keys /\ parser' \in Parser(known)
    OBVIOUS
  <2> HIDE DEF known
  <2>2. QED
    BY <1>1, <1>2, <1>3, <2>1, TypeKept
<1>5. PartsInv'
  <2>1. Source' = said'
    BY <1>3 DEF Source
  <2>2. QED
    BY <1>2, <2>1 DEF PartsInv, ByIndex
<1>6. BufferInv' /\ OpenAIInv' /\ BodyInv'
  BY <1>2, <1>3 DEF BufferInv, OpenAIInv, BodyInv, Bytewise
<1>7. QED
  BY <1>4, <1>5, <1>6 DEF Inv

LEMMA ParserType ==
  ASSUME TypeOK
  PROVE  DOMAIN parser.slot \subseteq Keys /\ parser \in Parser(DOMAIN parser.slot)
<1>1. PICK known \in SUBSET Keys : parser \in Parser(known)
  BY DEF TypeOK
<1>2. DOMAIN parser.slot = known
  BY <1>1 DEF Parser
<1>3. QED
  BY <1>1, <1>2

(* Nothing of the response is finished while the server still writes.      *)
LEMMA NotFinished ==
  ASSUME Inv, Wrote, provider # "chatgpt"
  PROVE  response.finish = None
BY DEF Inv, FinishInv, Wrote

LEMMA NowLive ==
  ASSUME Inv, Wrote, provider \in ByIndex \cup {"cohere"}, OpenKeys(parser) = parser.started
  PROVE  /\ Live(parser, response) /\ Slotted(parser, response, Source, lines)
         /\ provider \notin Bytewise => Slotted(parser, response, said', lines)
<1>1. provider \notin {"chatgpt", "huggingface", "openai"}
  BY DEF ByIndex
<1>2. response.finish = None
  BY <1>1, NotFinished
<1>3. response.stray = {}
  <2>1. ~ over
    BY DEF Wrote
  <2>2. ~ overtaken
    BY <1>1 DEF Inv, BufferInv
  <2>3. QED
    BY <1>1, <2>1, <2>2 DEF Inv, EventsInPlace, CohereInv
<1>4. response.open = {parser.slot[k] : k \in parser.started}
  BY <1>2 DEF Inv, OpenInv
<1>5. TypeOK /\ response \in Response
  BY DEF Inv, TypeOK
<1>6. Live(parser, response)
  BY <1>2, <1>3, <1>4, <1>5, ParserType DEF Live
<1>7. Slotted(parser, response, Source, lines) /\ Grown(said, said') /\ lines \in Nat
  BY <1>1 DEF Inv, PartsInv, Wrote
<1>8. provider \notin Bytewise => Slotted(parser, response, said', lines)
  BY <1>7, SlottedStill, NoBuffer
<1>9. QED
  BY <1>6, <1>7, <1>8

(* What an event makes of the parser and the response. *)
Took(s, q, w, piece) ==
  /\ Live(q, w)
  /\ Slotted(q, w, s, lines + 1)
  /\ w.outcome = "streaming"
  /\ said' = Says(said, piece) /\ Same(parser, response, said) => Same(q, w, said')

LEMMA PieceStarts ==
  ASSUME Inv, Wrote, NEW s, Live(parser, response), Slotted(parser, response, s, lines),
         NEW piece, Brought(s, piece, lines), piece.key \notin DOMAIN parser.slot
  PROVE  LET i == Len(response.parts)
         IN /\ Took(s, Begun(parser, piece.key, i), Collect(response, PartStart(i, piece)), piece)
            /\ NextPartIndex(parser) = i
<1> DEFINE i == Len(response.parts)
           q == Begun(parser, piece.key, i)
           w == Collect(response, PartStart(i, piece))
<1>1. /\ lines \in Nat /\ Seq(1 .. lines + 1) \subseteq Content
      /\ response.outcome = "streaming"
  BY DEF Wrote
<1>2. /\ Live(q, w)
      /\ Slotted(q, w, s, lines + 1)
      /\ w.outcome = response.outcome
      /\ w.parts = Append(response.parts,
                          [kind |-> Kind(piece.key), content |-> piece.content])
      /\ NextPartIndex(parser) = i
  BY <1>1, PartStarts
<1>3. piece.key \in Keys /\ piece.content \in Content
  <2>1. piece.key \in Keys /\ piece.content \in {<<>>, <<lines + 1>>}
    BY DEF Brought
  <2>2. <<>> \in Seq(1 .. lines + 1) /\ <<lines + 1>> \in Seq(1 .. lines + 1)
    BY <1>1
  <2>3. QED
    BY <1>1, <2>1, <2>2
<1>4. said \in Seq(SaidPart) /\ Keyed(said)
  BY DEF Inv, TypeOK, PartsInv
<1> HIDE DEF w, q, i
<1>5. ASSUME said' = Says(said, piece), Same(parser, response, said)
      PROVE  Same(q, w, said')
  <2>1. \A j \in DOMAIN said : said[j].key # piece.key
    BY <1>3, <1>5 DEF Same
  <2>2. Same(Begun(parser, piece.key, Len(response.parts)), w, Says(said, piece))
    BY <1>2, <1>3, <1>4, <1>5, <2>1, SameStarts
  <2>3. QED
    BY <1>5, <2>2 DEF q, i
<1>6. QED
  BY <1>1, <1>2, <1>5 DEF Took, q, w, i

LEMMA PieceGoesOn ==
  ASSUME Inv, Wrote, NEW s, Keyed(s), Live(parser, response), Slotted(parser, response, s, lines),
         NEW piece, Brought(s, piece, lines), piece.content = <<lines + 1>>,
         piece.key \in parser.started
  PROVE  Took(s, parser, Collect(response, PartDelta(parser.slot[piece.key], piece)), piece)
<1> DEFINE i == parser.slot[piece.key]
           w == Collect(response, PartDelta(i, piece))
<1>1. /\ lines \in Nat /\ Seq(1 .. lines + 1) \subseteq Content
      /\ response.outcome = "streaming"
  BY DEF Wrote
<1>2. /\ Live(parser, w)
      /\ Slotted(parser, w, s, lines + 1)
      /\ w.outcome = response.outcome
      /\ i + 1 \in 1 .. Len(response.parts) /\ Len(w.parts) = Len(response.parts)
      /\ \A j \in 1 .. Len(response.parts) : j # i + 1 => w.parts[j] = response.parts[j]
      /\ w.parts[i + 1] = [kind |-> Kind(piece.key),
                           content |-> response.parts[i + 1].content \o piece.content]
  <2>1. Extends(parser, response, s, lines, piece, w)
    BY <1>1, PartGoesOn
  <2> HIDE DEF w
  <2>2. QED
    BY <2>1 DEF Extends
<1>3. piece.key \in Keys /\ piece.content \in Content
  <2>1. piece.key \in Keys
    BY DEF Brought
  <2>2. <<lines + 1>> \in Seq(1 .. lines + 1)
    BY <1>1
  <2>3. QED
    BY <1>1, <2>1, <2>2
<1>4. said \in Seq(SaidPart) /\ Keyed(said) /\ w.parts \in Seq(Part)
  BY <1>2 DEF Inv, TypeOK, PartsInv, Live, Response
<1>5. piece.key \in DOMAIN parser.slot
  BY DEF Live, Parser
<1> HIDE DEF w
<1>6. ASSUME said' = Says(said, piece), Same(parser, response, said)
      PROVE  Same(parser, w, said')
  <2>1. PICK j \in DOMAIN said : said[j].key = piece.key
    BY <1>3, <1>5, <1>6 DEF Same
  <2>2. j \in Nat /\ i = j - 1
    BY <1>4, <1>6, <2>1 DEF Same
  <2>3. i + 1 = j
    BY <2>2
  <2> HIDE DEF i
  <2>4. /\ Len(w.parts) = Len(response.parts)
        /\ \A m \in 1 .. Len(response.parts) : m # j => w.parts[m] = response.parts[m]
        /\ w.parts[j] = [kind |-> Kind(piece.key),
                         content |-> response.parts[j].content \o piece.content]
    BY <1>2, <2>3
  <2>5. Same(parser, w, Says(said, piece))
    BY <1>3, <1>4, <1>6, <2>1, <2>4, SameGoes
  <2>6. QED
    BY <1>6, <2>5
<1>7. QED
  BY <1>1, <1>2, <1>6 DEF Took, w, i

(* A line that is lost, or of which nothing comes. *)
LEMMA NothingArrives ==
  ASSUME Inv, Wrote, provider \in {"huggingface", "cohere"}, UNCHANGED buffer, whole' = whole,
         reason' \in Reasons \cup {None}, over' \in BOOLEAN, lost' = TRUE,
         parser' = parser, response' = response
  PROVE  Inv'
<1>1. /\ response.finish = None /\ provider' = provider
      /\ provider \notin Bytewise \cup ByIndex \cup {"chatgpt"}
  BY NotFinished DEF Wrote, Bytewise, ByIndex
<1>2. Slotted(parser, response, said', lines + 1)
  <2>1. Slotted(parser, response, said, lines) /\ Grown(said, said')
        /\ lines \in Nat /\ lines + 1 \in Nat /\ lines <= lines + 1
    BY <1>1, NoBuffer DEF Inv, PartsInv, Wrote, Bytewise
  <2>2. QED
    BY <2>1, SlottedStill
<1>3. OpenInv'
  BY <1>1 DEF Inv, OpenInv, OpenKeys
<1>4. FinishInv'
  <2>1. /\ provider \in {"openai", "google", "antigravity"} /\ parser.finish # None => reason # None
        /\ provider \in {"google", "antigravity"} => (reason # None <=> over)
        /\ provider \in {"cohere", "huggingface", "chatgpt"} => parser.finish = None
        /\ ~ over
    BY DEF Inv, FinishInv, Wrote
  <2>2. QED
    BY <1>1, <2>1 DEF FinishInv
<1>5. CohereInv'
  <2>1. ~ over
    BY DEF Wrote
  <2>2. QED
    BY <1>1, <2>1 DEF Inv, CohereInv
<1>6. EventsInPlace'
  BY <1>1 DEF Inv, EventsInPlace, buffer
<1>7. /\ DOMAIN parser.slot \subseteq Keys /\ parser \in Parser(DOMAIN parser.slot)
      /\ response \in Response
      /\ provider = "huggingface" => response.parts = <<>>
  BY ParserType DEF Inv, TypeOK, PartsInv
<1>8. QED
  BY <1>1, <1>2, <1>3, <1>4, <1>5, <1>6, <1>7, Kept


(* What a chunk holds. *)
LEMMA ChunkType ==
  ASSUME lines \in Nat, NEW line \in Chunks
  PROVE  /\ line.type = "chunk"
         /\ line.pieces \in Seq(Piece) /\ line.pieces \in Seq(Sayable)
         /\ Len(line.pieces) \in 0 .. 2
         /\ line.finish \in Reasons \cup {None}
         /\ line.pieces # <<>> \/ line.finish # None
<1>1. /\ line \in Line /\ (line.pieces # <<>> \/ line.finish # None)
  BY DEF Chunks
<1>2. /\ line.type = "chunk" /\ line.finish \in Reasons \cup {None}
      /\ line.pieces \in UNION {[1 .. n -> Piece] : n \in 0 .. 2}
  BY <1>1 DEF Line
<1>3. PICK n \in 0 .. 2 : line.pieces \in [1 .. n -> Piece]
  BY <1>2
<1>4. Piece \subseteq Sayable
  BY DEF Piece, Sayable, Keys
<1>5. line.pieces \in Seq(Piece) /\ Len(line.pieces) = n
  <2>1. n \in Nat
    OBVIOUS
  <2>2. QED
    BY <1>3, <2>1, FunctionSequence
<1>6. line.pieces \in Seq(Sayable)
  BY <1>4, <1>5, Wider
<1>7. QED
  BY <1>1, <1>2, <1>5, <1>6

LEMMA GrownKeys ==
  ASSUME NEW s, NEW t, Grown(s, t), NEW i \in DOMAIN s
  PROVE  \E j \in DOMAIN t : t[j].key = s[i].key
BY DEF Grown

(* A chunk's pieces are of parts that are mentioned then. *)
LEMMA PiecesMentioned ==
  ASSUME TypeOK, Keyed(said), NEW pieces, Write(pieces),
         pieces \in Seq(Sayable), Len(pieces) \in 0 .. 2
  PROVE  /\ Mentioned \subseteq Mentioned'
         /\ \A i \in DOMAIN pieces : pieces[i].key \in Mentioned'
<1>1. Wrote
  BY ServerWrites
<1>3. Mentioned \subseteq Mentioned'
  <2>1. Grown(said, said')
    BY <1>1 DEF Wrote
  <2>2. QED
    BY <2>1, GrownKeys DEF Mentioned
<1>4. \A i \in DOMAIN pieces : pieces[i].key \in Keys /\ pieces[i].content \in Content
  <2>1. \A i \in DOMAIN pieces : pieces[i] \in Sayable
    OBVIOUS
  <2>2. <<>> \in Seq(1 .. lines + 1) /\ <<lines + 1>> \in Seq(1 .. lines + 1)
    BY <1>1 DEF Wrote
  <2>3. <<>> \in Content /\ <<lines + 1>> \in Content
    BY <1>1, <2>2 DEF Wrote
  <2>4. QED
    BY <2>1, <2>3 DEF Sayable
<1> DEFINE t == Says(said, pieces[1])
<1>5. said' = CASE Len(pieces) = 0 -> said
                [] Len(pieces) = 1 -> t
                [] OTHER -> Says(t, pieces[2])
  BY DEF Write
<1>6. CASE Len(pieces) = 0
  BY <1>3, <1>6
<1>7. CASE Len(pieces) \in {1, 2}
  <2>1. 1 \in DOMAIN pieces
    BY <1>7
  <2>2. /\ t \in Seq(SaidPart) /\ Keyed(t)
        /\ \E j \in DOMAIN t : t[j].key = pieces[1].key
    <3>1. said \in Seq(SaidPart) /\ pieces[1].key \in Keys /\ pieces[1].content \in Content
      BY <1>4, <2>1 DEF TypeOK
    <3>2. QED
      BY <3>1, SaysGrows
  <2> HIDE DEF t
  <2>3. CASE Len(pieces) = 1
    <3>1. said' = t /\ DOMAIN pieces = {1}
      BY <1>5, <2>3
    <3>2. QED
      BY <1>3, <2>2, <3>1 DEF Mentioned
  <2>4. CASE Len(pieces) = 2
    <3>1. said' = Says(t, pieces[2]) /\ DOMAIN pieces = {1, 2}
      BY <1>5, <2>4
    <3>2. pieces[2].key \in Keys /\ pieces[2].content \in Content
      BY <1>4, <3>1
    <3>3. Grown(t, said') /\ \E j \in DOMAIN said' : said'[j].key = pieces[2].key
      BY <2>2, <3>1, <3>2, SaysGrows
    <3>4. \E j \in DOMAIN said' : said'[j].key = pieces[1].key
      <4>1. PICK i \in DOMAIN t : t[i].key = pieces[1].key
        BY <2>2
      <4> DEFINE u == said'
      <4>2. Grown(t, u)
        BY <3>3
      <4> HIDE DEF u
      <4>3. \E j \in DOMAIN u : u[j].key = t[i].key
        BY <4>1, <4>2, GrownKeys
      <4>4. QED
        BY <4>1, <4>3 DEF u
    <3>5. pieces[1].key \in Mentioned' /\ pieces[2].key \in Mentioned'
      BY <3>3, <3>4 DEF Mentioned
    <3>6. DOMAIN pieces = {1, 2}
      BY <3>1
    <3>7. QED
      BY <1>3, <3>5, <3>6, Zenon
  <2>5. QED
    BY <1>7, <2>3, <2>4
<1>8. QED
  BY <1>6, <1>7

(* All has a part for every key, and every line in each. *)
LEMMA AllType ==
  /\ DOMAIN All = Keys
  /\ \A k \in Keys : All[k] = [key |-> k, kind |-> Kind(k),
                               content |-> [i \in 1 .. MaxLines[provider] |-> i]]
  /\ Keyed(All)
<1>1. /\ DOMAIN All = Keys
      /\ \A k \in Keys : All[k] = [key |-> k, kind |-> Kind(k),
                                   content |-> [i \in 1 .. MaxLines[provider] |-> i]]
  BY DEF All
<1>2. \A k \in Keys : All[k].key = k /\ All[k].kind = Kind(k)
  BY <1>1
<1>3. Keyed(All)
  BY <1>1, <1>2 DEF Keyed
<1>4. QED
  BY <1>1, <1>3

LEMMA AllHolds ==
  ASSUME MaxLines[provider] \in Nat, NEW k \in Keys, NEW c \in Content
  PROVE  All[k].key = k /\ ToSet(c) \subseteq ToSet(All[k].content)
<1> DEFINE d == [i \in 1 .. MaxLines[provider] |-> i]
<1>1. All[k] = [key |-> k, kind |-> Kind(k), content |-> d]
  BY AllType
<1>2. ToSet(d) = 1 .. MaxLines[provider]
  BY DEF ToSet
<1>3. ToSet(c) \subseteq 1 .. MaxLines[provider]
  BY DEF ToSet, Content
<1> HIDE DEF d
<1>4. QED
  BY <1>1, <1>2, <1>3

(* What the parts are about grows with what is said.                       *)
LEMMA SourceGrows ==
  ASSUME Inv, Wrote, joined => joined'
  PROVE  Grown(Source, Source') /\ Keyed(Source')
<1>1. provider' = provider /\ Grown(said, said') /\ Keyed(said') /\ said \in Seq(SaidPart)
      /\ MaxLines[provider] \in Nat
  <2>1. provider \in Providers /\ said \in Seq(SaidPart)
    BY DEF Inv, TypeOK
  <2>2. QED
    BY <2>1, StreamAssumption DEF Wrote
<1>2. All' = All
  BY <1>1 DEF All
<1>3. CASE joined'
  <2>1. Source' = All
    BY <1>2, <1>3 DEF Source
  <2>2. Grown(All, All)
    BY DEF Grown
  <2>3. Grown(said, All)
    <3> SUFFICES ASSUME NEW i \in DOMAIN said
                 PROVE  \E j \in DOMAIN All : All[j].key = said[i].key
                          /\ ToSet(said[i].content) \subseteq ToSet(All[j].content)
      BY DEF Grown
    <3>1. said[i].key \in Keys /\ said[i].content \in Content
      <4>1. said[i] \in SaidPart
        BY <1>1
      <4>2. QED
        BY <4>1 DEF SaidPart
    <3>2. QED
      BY <1>1, <3>1, AllType, AllHolds
  <2>4. QED
    BY <2>1, <2>2, <2>3, AllType DEF Source
<1>4. CASE ~ joined'
  <2>1. Source = said /\ Source' = said'
    BY <1>4 DEF Source
  <2>2. QED
    BY <1>1, <2>1
<1>5. QED
  BY <1>3, <1>4

(* What a line brings is about them. *)
LEMMA SourceBrings ==
  ASSUME Inv, Wrote, NEW x \in Sayable, joined' \/ Brought(said', x, lines)
  PROVE  Brought(Source', x, lines)
<1>1. CASE joined'
  <2>1. provider' = provider /\ lines \in Nat /\ MaxLines[provider] \in Nat
    <3>1. provider \in Providers
      BY DEF Inv, TypeOK
    <3>2. QED
      BY <3>1, StreamAssumption DEF Wrote
  <2>2. Source' = All
    BY <1>1, <2>1 DEF Source, All
  <2>3. x.key \in Keys /\ x.content \in Content
    <3>1. <<>> \in Seq(1 .. lines + 1) /\ <<lines + 1>> \in Seq(1 .. lines + 1)
      BY <2>1
    <3>2. <<>> \in Content /\ <<lines + 1>> \in Content
      BY <3>1 DEF Wrote
    <3>3. QED
      BY <3>2 DEF Sayable
  <2>4. QED
    BY <2>1, <2>2, <2>3, AllType, AllHolds DEF Brought, Sayable
<1>2. CASE ~ joined'
  BY <1>2 DEF Source
<1>3. QED
  BY <1>1, <1>2

(* What was in a part is in it after another line. *)
LEMMA SlottedOn ==
  ASSUME Inv, Wrote, joined => joined', NEW p, NEW r, Slotted(p, r, Source, lines)
  PROVE  Slotted(p, r, Source', lines) /\ Slotted(p, r, Source', lines + 1)
<1>1. Grown(Source, Source') /\ lines \in Nat /\ lines + 1 \in Nat
      /\ lines <= lines /\ lines <= lines + 1
  BY SourceGrows DEF Wrote
<1>2. QED
  BY <1>1, SlottedStill

LEMMA FiniteOpen ==
  ASSUME NEW p, NEW r, NEW s, NEW n, Live(p, r), Slotted(p, r, s, n)
  PROVE  IsFiniteSet(r.open)
<1> DEFINE l == Len(r.parts)
<1>1. r.parts \in Seq(Part) /\ p \in Parser(DOMAIN p.slot)
  BY DEF Live, Response
<1>2. l \in Nat /\ DOMAIN r.parts = 1 .. l
  BY <1>1
<1>3. \A k \in DOMAIN p.slot : p.slot[k] \in Nat /\ p.slot[k] + 1 \in 1 .. l
  BY <1>1, <1>2 DEF Slotted, Parser
<1>4. r.open \subseteq 0 .. l
  <2>1. \A k \in p.started : k \in DOMAIN p.slot
    BY <1>1 DEF Parser
  <2> HIDE DEF l
  <2>2. \A k \in p.started : p.slot[k] \in 0 .. l
    BY <1>2, <1>3, <2>1
  <2>3. QED
    BY <2>2 DEF Live
<1> HIDE DEF l
<1>5. IsFiniteSet(0 .. l)
  BY <1>2, FS_Interval
<1>6. QED
  BY <1>4, <1>5, FS_Subset

----------------------------------------------------------------------------
(* Google and Antigravity *)

(* All open parts end, and the stream is complete. *)
Closed(v, f, w) ==
  /\ w \in Response
  /\ w.parts = v.parts /\ w.open = {} /\ w.finish = f
  /\ w.outcome = v.outcome /\ w.stray = v.stray

LEMMA ClosedAll ==
  ASSUME NEW r, NEW T, NEW a \in Seq(T), NEW v, v = Collected(r, a),
         v \in Response, v.finish = None, IsFiniteSet(v.open), NEW f \in Reasons
  PROVE  Closed(v, f, Collected(r, a \o PartEnds(v.open) \o <<StreamComplete(f)>>))
<1> DEFINE ends == PartEnds(v.open)
           c == StreamComplete(f)
           End == [type : {"end"}, index : Nat]
           S == T \cup End \cup {c}
           u == Collected(v, ends)
           w == Collect(u, c)
<1>1. /\ ends \in Seq(End)
      /\ u \in Response
      /\ u.parts = v.parts
      /\ u.open = v.open \ v.open
      /\ u.finish = None /\ u.outcome = v.outcome /\ u.stray = v.stray
  BY EndsCollected
<1>2. f \in Reasons \cup {None}
  OBVIOUS
<1> HIDE DEF u, ends
<1>3. /\ w \in Response
      /\ w.parts = u.parts /\ w.open = u.open /\ w.outcome = u.outcome
      /\ w.finish = f
      /\ u.finish = None => w.stray = u.stray
  BY <1>1, <1>2, CompleteType
<1> HIDE DEF w, c, End
<1>4. Collected(r, a \o ends \o <<c>>) = w
  <2>1. a \in Seq(S) /\ ends \in Seq(S) /\ <<c>> \in Seq(S)
    <3>1. T \subseteq S /\ End \subseteq S /\ c \in S
      OBVIOUS
    <3> HIDE DEF S
    <3>2. Seq(T) \subseteq Seq(S) /\ Seq(End) \subseteq Seq(S)
      BY <3>1, Wider
    <3>3. QED
      BY <1>1, <3>1, <3>2
  <2> HIDE DEF S
  <2>2. a \o ends \in Seq(S)
    BY <2>1
  <2>3. Collected(r, (a \o ends) \o <<c>>) = Collected(Collected(r, a \o ends), <<c>>)
    BY <2>1, <2>2, CollectedMore
  <2>4. Collected(r, a \o ends) = Collected(Collected(r, a), ends)
    BY <2>1, CollectedMore
  <2>5. Collected(u, <<c>>) = Collect(u, c)
    BY CollectedFew
  <2>6. QED
    BY <2>3, <2>4, <2>5 DEF u, w
<1>5. QED
  BY <1>1, <1>3, <1>4 DEF w, c, ends, Closed

(* What a chunk of Google leaves, but for its finish. *)
ReadAs(q, v) ==
  /\ Live(q, v)
  /\ Slotted(q, v, Source', lines + 1)
  /\ v.outcome = "streaming"
  /\ q.started = DOMAIN q.slot /\ q.finish = parser.finish
  /\ DOMAIN q.slot \cap Calls \subseteq Mentioned'
  /\ ~ lost' => Same(q, v, said')

LEMMA GooglePieceRead ==
  ASSUME Inv, Wrote, provider \in {"google", "antigravity"},
         joined => joined', Mentioned \subseteq Mentioned',
         NEW piece, Brought(Source', piece, lines), piece.content = <<lines + 1>>,
         piece.key \in Calls => piece.key \in Mentioned' \ DOMAIN parser.slot,
         ~ lost' => ~ lost /\ said' = Says(said, piece)
  PROVE  \E e : /\ GooglePiece(parser, piece).events = <<e>>
                /\ ReadAs(GooglePiece(parser, piece).parser, Collect(response, e))
<1> DEFINE k == piece.key
           i == Len(response.parts)
<1>1. /\ response.finish = None /\ response.outcome = "streaming"
  BY NotFinished DEF Wrote
<1>2. OpenKeys(parser) = parser.started
  BY DEF OpenKeys
<1>3. Live(parser, response) /\ Slotted(parser, response, Source', lines)
  BY <1>2, NowLive, SlottedOn DEF ByIndex
<1>0. Keyed(Source') /\ DOMAIN parser.slot \cap Calls \subseteq Mentioned'
  BY SourceGrows DEF Inv, BufferInv
<1>4. parser.started = DOMAIN parser.slot
  BY DEF Inv, OpenInv
<1>5. parser \in Parser(DOMAIN parser.slot)
  BY <1>3 DEF Live
<1>6. ASSUME ~ lost' PROVE Same(parser, response, said)
  BY <1>1, <1>6 DEF Inv, PartsInv, ByIndex
<1>7. CASE k \in DOMAIN parser.slot
  <2> DEFINE e == PartDelta(parser.slot[k], piece)
             w == Collect(response, e)
  <2>1. k \notin Calls
    BY <1>7
  <2>2. GooglePiece(parser, piece) = [parser |-> parser, events |-> <<e>>]
    BY <1>4, <1>7, <2>1 DEF GooglePiece
  <2> HIDE DEF e
  <2>3. GooglePiece(parser, piece).parser = parser /\ GooglePiece(parser, piece).events = <<e>>
    BY <2>2
  <2>4. Took(Source', parser, w, piece)
    BY <1>0, <1>3, <1>4, <1>7, PieceGoesOn DEF e
  <2> HIDE DEF w
  <2>5. ReadAs(parser, w)
    BY <1>0, <1>4, <1>6, <2>4 DEF Took, ReadAs
  <2>6. QED
    BY <2>3, <2>5 DEF w
<1>8. CASE k \notin DOMAIN parser.slot
  <2> DEFINE e == PartStart(i, piece)
             w == Collect(response, e)
             q == Begun(parser, k, i)
             slot == Assigned(parser.slot, k, i)
             begun == parser.started \cup {k}
  <2>1. Took(Source', q, w, piece) /\ NextPartIndex(parser) = i
    BY <1>3, <1>8, PieceStarts
  <2>2. DOMAIN slot = DOMAIN parser.slot \cup {k}
    BY DEF Assigned
  <2>3. q = [slot |-> slot, started |-> begun, finish |-> parser.finish, body |-> parser.body]
    BY DEF Begun
  <2>4. GooglePiece(parser, piece) =
          [parser |-> [parser EXCEPT !.slot = slot, !.started = begun], events |-> <<e>>]
    <3>1. k \notin parser.started /\ NextPartIndex(parser) = i
      BY <1>4, <1>8, <2>1
    <3>2. QED
      BY <3>1 DEF GooglePiece
  <2> HIDE DEF e, q, w, slot, begun
  <2>5. [parser EXCEPT !.slot = slot, !.started = begun] = q
    <3> DEFINE next == [parser EXCEPT !.slot = slot, !.started = begun]
    <3>1. parser \in [slot : {parser.slot}, started : {parser.started},
                      finish : {parser.finish}, body : {parser.body}]
      BY <1>5 DEF Parser
    <3>2. next \in [slot : {slot}, started : {begun},
                    finish : {parser.finish}, body : {parser.body}]
      BY <3>1
    <3> HIDE DEF next
    <3>3. next = [slot |-> slot, started |-> begun,
                  finish |-> parser.finish, body |-> parser.body]
      BY <3>2
    <3>4. QED
      BY <2>3, <3>3 DEF next
  <2>6. GooglePiece(parser, piece).parser = q /\ GooglePiece(parser, piece).events = <<e>>
    BY <2>4, <2>5
  <2>7. q.started = DOMAIN q.slot /\ q.finish = parser.finish
        /\ DOMAIN q.slot \cap Calls \subseteq Mentioned'
    <3>1. q.started = begun /\ q.slot = slot /\ q.finish = parser.finish
      BY <2>3
    <3>2. begun = parser.started \cup {k}
      BY DEF begun
    <3>3. QED
      BY <1>0, <1>4, <2>2, <3>1, <3>2
  <2>8. ReadAs(q, w)
    BY <1>6, <2>1, <2>7 DEF Took, ReadAs
  <2>9. QED
    BY <2>6, <2>8 DEF w
<1>9. QED
  BY <1>7, <1>8

(* What a step of these has to keep. *)
LEMMA GoogleKeeps ==
  ASSUME Inv, Wrote, provider \in {"google", "antigravity"}, whole' = whole,
         reason' \in Reasons \cup {None}, over' \in BOOLEAN, lost' \in BOOLEAN,
         held' \in Keys \cup {None}, joined' \in BOOLEAN, joined' => lost', overtaken' = FALSE,
         held' \in Calls => held' \in Mentioned' \ DOMAIN parser'.slot,
         DOMAIN parser'.slot \cap Calls \subseteq Mentioned',
         DOMAIN parser'.slot \subseteq Keys, parser' \in Parser(DOMAIN parser'.slot),
         response' \in Response,
         Slotted(parser', response', Source', lines + 1),
         ~ lost' /\ response'.outcome # "failed" => Same(parser', response', said'),
         OpenInv', FinishInv', response'.stray = {}
  PROVE  Inv'
<1>1. provider \in Providers /\ whole \subseteq Calls
  BY DEF Inv, TypeOK
<1>2. /\ provider' = provider /\ lines' = lines + 1 /\ lines' \in 0 .. MaxLines[provider]
      /\ said' \in Seq(SaidPart) /\ Keyed(said')
  BY DEF Wrote
<1>3. TypeOK'
  <2> DEFINE known == DOMAIN parser'.slot
  <2>1. known \in SUBSET Keys /\ parser' \in Parser(known)
    OBVIOUS
  <2> HIDE DEF known
  <2>2. QED
    BY <1>1, <1>2, <2>1, TypeKept
<1>4. PartsInv'
  BY <1>2 DEF PartsInv, ByIndex
<1>5. BufferInv' /\ OpenAIInv' /\ BodyInv' /\ CohereInv' /\ EventsInPlace'
  BY <1>2 DEF BufferInv, OpenAIInv, BodyInv, CohereInv, EventsInPlace, Bytewise
<1>6. QED
  BY <1>3, <1>4, <1>5 DEF Inv

(* What was read is kept, and so is a finish after it. *)
LEMMA GoogleKept ==
  ASSUME Inv, Wrote, provider \in {"google", "antigravity"}, whole' = whole,
         reason' \in Reasons \cup {None}, over' = (reason' # None),
         lost' \in BOOLEAN, lost => lost',
         held' = None, joined' \in BOOLEAN, joined' => lost', overtaken' = FALSE,
         NEW q, NEW v, ReadAs(q, v),
         \/ parser' = q /\ response' = v
         \/ /\ reason' # None
            /\ parser' = [q EXCEPT !.finish = reason']
            /\ response' \in Response
            /\ response'.parts = v.parts /\ response'.open = {} /\ response'.finish = reason'
            /\ response'.outcome = v.outcome /\ response'.stray = v.stray
  PROVE  Inv'
<1>1. /\ DOMAIN q.slot \subseteq Keys /\ q \in Parser(DOMAIN q.slot)
      /\ v \in Response
      /\ v.open = {q.slot[k] : k \in q.started}
      /\ v.finish = None /\ v.stray = {} /\ v.outcome = "streaming"
      /\ Slotted(q, v, Source', lines + 1)
      /\ q.started = DOMAIN q.slot /\ q.finish = parser.finish
      /\ DOMAIN q.slot \cap Calls \subseteq Mentioned'
      /\ ~ lost' => Same(q, v, said')
  BY DEF ReadAs, Live
<1>2. /\ provider' = provider /\ ~ over
      /\ parser.finish # None => reason # None
      /\ reason # None => over
      /\ over' \in BOOLEAN
      /\ provider # "chatgpt" /\ provider # "huggingface"
  BY DEF Inv, FinishInv, Wrote
<1>3. parser.finish = None
  BY <1>2
<1>4. /\ parser'.slot = q.slot /\ parser'.started = q.started
      /\ parser' \in Parser(DOMAIN q.slot)
      /\ response' \in Response
      /\ response'.parts = v.parts
      /\ response'.outcome = "streaming" /\ response'.stray = {}
      /\ \/ response'.finish = None /\ response'.open = v.open /\ parser'.finish = None
         \/ /\ response'.finish = reason' /\ response'.open = {} /\ reason' # None
            /\ parser'.finish = reason'
  <2>1. CASE parser' = q /\ response' = v
    BY <1>1, <1>3, <2>1
  <2>2. CASE /\ reason' # None
             /\ parser' = [q EXCEPT !.finish = reason']
             /\ response' \in Response
             /\ response'.parts = v.parts /\ response'.open = {} /\ response'.finish = reason'
             /\ response'.outcome = v.outcome /\ response'.stray = v.stray
    BY <1>1, <2>2 DEF Parser
  <2>3. QED
    BY <2>1, <2>2
<1>5. Slotted(parser', response', Source', lines + 1)
  BY <1>1, <1>4 DEF Slotted
<1>6. ~ lost' => Same(parser', response', said')
  BY <1>1, <1>4 DEF Same
<1>7. OpenInv'
  BY <1>1, <1>2, <1>4 DEF OpenInv, OpenKeys
<1>8. FinishInv'
  BY <1>2, <1>4 DEF FinishInv
<1>9. None \notin Calls
  BY StreamAssumption
<1>10. DOMAIN parser'.slot \subseteq Keys /\ parser' \in Parser(DOMAIN parser'.slot)
       /\ DOMAIN parser'.slot \cap Calls \subseteq Mentioned'
  BY <1>1, <1>4
<1>11. QED
  BY <1>2, <1>4, <1>5, <1>6, <1>7, <1>8, <1>9, <1>10, GoogleKeeps

(* What a line may say of a part that is new to the parser, if it is of a  *)
(* call.                                                                   *)
NewsOf(piece) ==
  /\ Brought(Source', piece, lines) /\ piece.content = <<lines + 1>>
  /\ piece.key \in Calls => piece.key \in Mentioned' \ DOMAIN parser.slot

(* A line is parsed, whether the server wrote it or it was joined. *)
GoogleLine(line) ==
  /\ line.finish \in {None, reason'}
  /\ line.pieces # <<>> => NewsOf(Head(line.pieces))
  /\ ~ lost' => said' = IF line.pieces = <<>> THEN said ELSE Says(said, Head(line.pieces))
  /\ parser' = GoogleParse(line).parser
  /\ response' = Collected(response, GoogleParse(line).events)

LEMMA GoogleReads ==
  ASSUME Inv, Wrote, provider \in {"google", "antigravity"}, whole' = whole,
         reason' \in Reasons \cup {None}, over' = (reason' # None),
         lost' \in BOOLEAN, lost => lost',
         held' = None, joined' \in BOOLEAN, joined => joined', joined' => lost', overtaken' = FALSE,
         Mentioned \subseteq Mentioned',
         NEW line, GoogleLine(line)
  PROVE  Inv'
<1> DEFINE pieces == line.pieces
           piece == Head(pieces)
           f == line.finish
           read == IF pieces = <<>> THEN [parser |-> parser, events |-> <<>>]
                   ELSE GooglePiece(parser, piece)
           v == Collected(response, read.events)
<1>0. /\ line.finish \in {None, reason'}
      /\ line.pieces # <<>> => NewsOf(Head(line.pieces))
      /\ ~ lost' => said' = IF line.pieces = <<>> THEN said ELSE Says(said, Head(line.pieces))
      /\ parser' = GoogleParse(line).parser
      /\ response' = Collected(response, GoogleParse(line).events)
  BY DEF GoogleLine
<1>1. ReadAs(read.parser, v) /\ \E T : read.events \in Seq(T)
  <2>1. CASE pieces = <<>>
    <3>1. read.parser = parser /\ v = response /\ read.events \in Seq({})
      BY <2>1, CollectedFew
    <3>2. OpenKeys(parser) = parser.started
      BY DEF OpenKeys
    <3>3. Live(parser, response) /\ Slotted(parser, response, Source', lines + 1)
      BY <3>2, NowLive, SlottedOn DEF ByIndex
    <3>4. response.outcome = "streaming" /\ parser.started = DOMAIN parser.slot
          /\ DOMAIN parser.slot \cap Calls \subseteq Mentioned'
      BY DEF Wrote, Inv, OpenInv, BufferInv
    <3>5. ~ lost' => Same(parser, response, said')
      BY <1>0, <2>1, <3>4 DEF Inv, PartsInv, ByIndex
    <3>6. ReadAs(parser, response)
      BY <3>3, <3>4, <3>5 DEF ReadAs
    <3>7. QED
      BY <3>1, <3>6
  <2>2. CASE pieces # <<>>
    <3>1. read = GooglePiece(parser, piece)
      BY <2>2
    <3>2. ~ lost' => ~ lost /\ said' = Says(said, piece)
      BY <1>0, <2>2
    <3>3. /\ Brought(Source', piece, lines) /\ piece.content = <<lines + 1>>
          /\ piece.key \in Calls => piece.key \in Mentioned' \ DOMAIN parser.slot
      BY <1>0, <2>2 DEF NewsOf
    <3> HIDE DEF piece, read
    <3>4. PICK e : /\ GooglePiece(parser, piece).events = <<e>>
                   /\ ReadAs(GooglePiece(parser, piece).parser, Collect(response, e))
      BY <3>2, <3>3, GooglePieceRead
    <3>5. v = Collect(response, e)
      BY <3>1, <3>4, CollectedFew
    <3>6. read.events \in Seq({e})
      BY <3>1, <3>4
    <3>7. QED
      BY <3>1, <3>4, <3>5, <3>6
  <2>3. QED
    BY <2>1, <2>2
<1>2. CASE f = None
  <2>1. GoogleParse(line) = read
    BY <1>2 DEF GoogleParse
  <2> HIDE DEF read
  <2>2. parser' = read.parser /\ response' = v
    BY <1>0, <2>1
  <2> HIDE DEF v
  <2>3. QED
    BY <1>1, <2>2, GoogleKept
<1>3. CASE f # None
  <2> DEFINE opened == {read.parser.slot[k] : k \in read.parser.started}
             rest == read.events \o PartEnds(opened) \o <<StreamComplete(f)>>
  <2>1. GoogleParse(line) = [parser |-> [read.parser EXCEPT !.finish = f], events |-> rest]
    BY <1>3 DEF GoogleParse
  <2> HIDE DEF read, rest
  <2>2. parser' = [read.parser EXCEPT !.finish = f] /\ response' = Collected(response, rest)
    BY <1>0, <2>1
  <2>3. v.open = opened /\ v \in Response /\ v.finish = None
    BY <1>1 DEF ReadAs, Live
  <2>4. IsFiniteSet(v.open)
    BY <1>1, FiniteOpen DEF ReadAs
  <2>5. PICK T : read.events \in Seq(T)
    BY <1>1
  <2>6. f = reason' /\ f \in Reasons
    BY <1>0, <1>3
  <2> DEFINE u == v
  <2>7. /\ u = Collected(response, read.events) /\ u \in Response /\ u.finish = None
        /\ IsFiniteSet(u.open)
        /\ rest = read.events \o PartEnds(u.open) \o <<StreamComplete(f)>>
    <3>1. u.open = opened
      BY <2>3
    <3> HIDE DEF opened
    <3>2. QED
      BY <2>3, <2>4, <3>1 DEF rest
  <2> HIDE DEF u, f
  <2>8. Closed(u, f, response')
    <3>1. Closed(u, f, Collected(response, read.events \o PartEnds(u.open) \o <<StreamComplete(f)>>))
      BY <2>5, <2>6, <2>7, ClosedAll
    <3>2. QED
      BY <2>2, <2>7, <3>1
  <2>9. ReadAs(read.parser, u)
    BY <1>1 DEF u
  <2>10. /\ reason' # None
         /\ parser' = [read.parser EXCEPT !.finish = reason']
         /\ response' \in Response
         /\ response'.parts = u.parts /\ response'.open = {} /\ response'.finish = reason'
         /\ response'.outcome = u.outcome /\ response'.stray = u.stray
    BY <1>3, <2>2, <2>6, <2>8 DEF Closed, f
  <2>11. QED
    BY <2>9, <2>10, GoogleKept
<1>4. QED
  BY <1>2, <1>3

(* Bytes are dropped. *)
LEMMA GoogleDrops ==
  ASSUME Inv, Wrote, provider \in {"google", "antigravity"}, whole' = whole,
         reason' \in Reasons \cup {None}, over' = (reason' # None), lost' = TRUE,
         held' \in Keys \cup {None},
         held' \in Calls => held' \in Mentioned' \ DOMAIN parser.slot,
         Mentioned \subseteq Mentioned',
         joined' = joined, overtaken' = overtaken, parser' = parser, response' = response
  PROVE  Inv'
<1>1. /\ TypeOK /\ response.finish = None /\ provider' = provider /\ ~ over
      /\ provider # "chatgpt" /\ provider # "openai"
  BY NotFinished DEF Inv, Wrote
<1>2. OpenKeys(parser) = parser.started
  BY DEF OpenKeys
<1>3. Live(parser, response) /\ Slotted(parser, response, Source', lines + 1)
  BY <1>2, NowLive, SlottedOn DEF ByIndex
<1>4. OpenInv'
  BY <1>1 DEF Inv, OpenInv, OpenKeys
<1>5. FinishInv'
  BY <1>1 DEF Inv, FinishInv
<1>6. /\ DOMAIN parser.slot \subseteq Keys /\ parser \in Parser(DOMAIN parser.slot)
      /\ response \in Response /\ response.stray = {}
  BY <1>3 DEF Live
<1>7. /\ joined \in BOOLEAN /\ overtaken = FALSE
      /\ DOMAIN parser.slot \cap Calls \subseteq Mentioned'
  BY <1>1, BufferType DEF Inv, BufferInv
<1>8. over' \in BOOLEAN /\ lost' \in BOOLEAN /\ (joined' => lost')
  OBVIOUS
<1>9. QED
  BY <1>3, <1>4, <1>5, <1>6, <1>7, <1>8, GoogleKeeps

LEMMA GoogleChunkKept ==
  ASSUME Inv, GoogleChunkArrives
  PROVE  Inv'
<1>1. PICK line \in GoogleChunks :
        /\ Write(line.pieces)
        /\ reason' = line.finish
        /\ over' = (line.finish # None)
        /\ BytesArrive(line)
  BY DEF GoogleChunkArrives
<1>2. provider \in {"google", "antigravity"} /\ whole' = whole
  BY DEF GoogleChunkArrives
<1>3. /\ TypeOK /\ Keyed(said) /\ lines \in Nat /\ lost \in BOOLEAN
      /\ joined \in BOOLEAN /\ overtaken = FALSE /\ held \in Keys \cup {None}
      /\ joined => lost
      /\ DOMAIN parser.slot \cap Calls \subseteq Mentioned
      /\ held \in Calls => held \in Mentioned \ DOMAIN parser.slot
      /\ None \notin Calls
  BY <1>2, StreamAssumption DEF Inv, PartsInv, BufferInv, TypeOK
<1> DEFINE pieces == line.pieces
<1>4. /\ pieces \in Seq(Piece) /\ pieces \in Seq(Sayable) /\ Len(pieces) \in 0 .. 2
      /\ line.finish \in Reasons \cup {None}
      /\ \A i \in DOMAIN pieces : pieces[i].key \in Calls => pieces[i].key \notin Mentioned
  <2>1. line \in Chunks
    BY DEF GoogleChunks
  <2>2. QED
    BY <1>3, <2>1, ChunkType DEF GoogleChunks
<1>5. /\ Wrote
      /\ pieces = <<>> => said' = said
      /\ Len(pieces) = 1 => said' = Says(said, Head(pieces))
      /\ pieces # <<>> => Brought(said', Head(pieces), lines)
      /\ Mentioned \subseteq Mentioned'
      /\ \A i \in DOMAIN pieces : pieces[i].key \in Mentioned'
  BY <1>1, <1>3, <1>4, ServerWrites, PiecesMentioned
<1>6. \A x \in Piece : x.content = <<lines + 1>> /\ x \in Sayable
  BY <1>2 DEF Piece, Sayable
<1> DEFINE keys == {pieces[i].key : i \in DOMAIN pieces}
<1>7. /\ \A i \in DOMAIN pieces : pieces[i].key \in Keys
      /\ \A k \in keys \cup {held} : k \in Calls => k \in Mentioned' \ DOMAIN parser.slot
  <2>1. \A x \in Piece : x.key \in Keys
    BY DEF Piece, Keys
  <2>2. \A i \in DOMAIN pieces : pieces[i].key \in Keys
    BY <1>4, <2>1
  <2>3. \A k \in keys : k \in Calls => k \in Mentioned' \ DOMAIN parser.slot
    BY <1>3, <1>4, <1>5
  <2>4. held \in Calls => held \in Mentioned' \ DOMAIN parser.slot
    BY <1>3, <1>5
  <2>5. QED
    BY <2>2, <2>3, <2>4
<1>8. CASE Dropped(line)
  <2>1. /\ lost' = TRUE /\ held' \in {None, held} \cup keys
        /\ joined' = joined /\ overtaken' = overtaken /\ parser' = parser /\ response' = response
    BY <1>8 DEF Dropped
  <2>2. held' \in Keys \cup {None} /\ (held' \in Calls => held' \in Mentioned' \ DOMAIN parser.slot)
    BY <1>3, <1>7, <2>1
  <2>3. reason' \in Reasons \cup {None} /\ over' = (reason' # None)
    BY <1>1, <1>4
  <2>4. QED
    BY <1>2, <1>5, <2>1, <2>2, <2>3, GoogleDrops
<1>9. CASE Whole(line)
  <2>1. /\ held' = None /\ joined' = joined /\ lost' = (lost \/ Leftover(line))
        /\ parser' = GoogleParse(line).parser
        /\ response' = Collected(response, GoogleParse(line).events)
        /\ overtaken' = FALSE
    BY <1>2, <1>3, <1>9 DEF Whole, Parsed, Read, AntigravityParse
  <2>2. lost' \in BOOLEAN /\ (lost => lost')
    BY <1>3, <2>1, Zenon
  <2>3. pieces # <<>> => NewsOf(Head(pieces))
    <3>1. SUFFICES ASSUME pieces # <<>> PROVE NewsOf(Head(pieces))
      OBVIOUS
    <3>2. 1 \in DOMAIN pieces /\ Head(pieces) = pieces[1] /\ pieces[1] \in Piece
      BY <1>4, <3>1
    <3> DEFINE piece == Head(pieces)
    <3>3. piece \in Sayable /\ piece.content = <<lines + 1>> /\ piece.key \in keys
      BY <1>6, <3>2
    <3>4. Brought(Source', piece, lines)
      BY <1>5, <3>1, <3>3, SourceBrings
    <3>5. QED
      BY <1>7, <3>3, <3>4 DEF NewsOf
  <2>4. ~ lost' => said' = IF pieces = <<>> THEN said ELSE Says(said, Head(pieces))
    <3>1. SUFFICES ASSUME ~ lost', pieces # <<>> PROVE said' = Says(said, Head(pieces))
      BY <1>5
    <3>2. ~ Leftover(line)
      BY <2>1, <3>1, Zenon
    <3>3. pieces[1] \in Piece /\ Head(pieces) = pieces[1] /\ (Len(pieces) = 1 \/ Len(pieces) = 2)
      BY <1>4, <3>1
    <3>4. Head(pieces).content # <<>>
      BY <1>6, <3>3
    <3>5. Len(pieces) = 1
      BY <3>1, <3>2, <3>3, <3>4 DEF Leftover
    <3>6. QED
      BY <1>5, <3>5
  <2>5. reason' \in Reasons \cup {None} /\ over' = (reason' # None) /\ line.finish \in {None, reason'}
    BY <1>1, <1>4
  <2>6. joined' \in BOOLEAN /\ (joined => joined') /\ (joined' => lost')
    BY <1>3, <2>1, <2>2
  <2>7. GoogleLine(line)
    BY <2>1, <2>3, <2>4, <2>5 DEF GoogleLine
  <2>8. QED
    BY <1>2, <1>5, <2>1, <2>2, <2>5, <2>6, <2>7, GoogleReads
<1>10. CASE HeadAndTail(line)
  <2>1. PICK x \in Joined(line) : Parsed(x)
    BY <1>10 DEF HeadAndTail
  <2>2. /\ held' = None /\ joined' = TRUE /\ lost' = TRUE
        /\ parser' = GoogleParse(x).parser
        /\ response' = Collected(response, GoogleParse(x).events)
        /\ overtaken' = FALSE
    BY <1>2, <1>3, <1>10, <2>1 DEF HeadAndTail, Parsed, Read, AntigravityParse
  <2>3. x.pieces \in JoinedPieces(line) /\ x.finish \in {None, line.finish}
    BY DEF Joined
  <2>4. x.pieces # <<>> => NewsOf(Head(x.pieces))
    <3>1. SUFFICES ASSUME x.pieces # <<>> PROVE NewsOf(Head(x.pieces))
      OBVIOUS
    <3>2. PICK piece \in Piece : x.pieces = <<piece>> /\ piece.key \in {held} \cup keys
      BY <2>3, <3>1 DEF JoinedPieces
    <3>3. Head(x.pieces) = piece
      BY <3>2
    <3>4. Brought(Source', piece, lines)
      BY <1>5, <1>6, <2>2, <3>2, SourceBrings
    <3>5. QED
      BY <1>6, <1>7, <3>2, <3>3, <3>4 DEF NewsOf
  <2>5. reason' \in Reasons \cup {None} /\ over' = (reason' # None) /\ x.finish \in {None, reason'}
    BY <1>1, <1>4, <2>3
  <2>6. GoogleLine(x)
    BY <2>2, <2>4, <2>5 DEF GoogleLine
  <2>7. QED
    BY <1>2, <1>5, <2>2, <2>5, <2>6, GoogleReads
<1>11. QED
  BY <1>1, <1>8, <1>9, <1>10 DEF BytesArrive

----------------------------------------------------------------------------
(* OpenAI *)

(* The parser and the response between two lines; o: whether a call was    *)
(* overtaken.                                                              *)
Reading(p, r, s, n, o) ==
  /\ DOMAIN p.slot \subseteq Keys /\ p \in Parser(DOMAIN p.slot)
  /\ r \in Response /\ r.finish = None /\ r.outcome = "streaming"
  /\ Numbered(p)
  /\ r.open = {p.slot[k] : k \in p.started}
  /\ r.stray \subseteq IF o THEN {"start"} ELSE {}
  /\ ~ o => Slotted(Placed(p), r, s, n)

LEMMA PlacedSlot ==
  ASSUME NEW p, p \in Parser(DOMAIN p.slot)
  PROVE  /\ DOMAIN Placed(p).slot = p.started /\ Placed(p).started = p.started
         /\ p.started \subseteq DOMAIN p.slot
         /\ \A k \in p.started : Placed(p).slot[k] = p.slot[k]
         /\ Placed(p) \in Parser(p.started)
<1> DEFINE slot == [k \in p.started |-> p.slot[k]]
<1>1. p.started \subseteq DOMAIN p.slot /\ p.slot \in [DOMAIN p.slot -> Nat]
      /\ p.finish \in Reasons \cup {None} /\ p.body \in Seq(SaidPart)
  BY DEF Parser
<1>2. slot \in [p.started -> Nat]
  BY <1>1
<1>3. DOMAIN slot = p.started /\ \A k \in p.started : slot[k] = p.slot[k]
  OBVIOUS
<1> HIDE DEF slot
<1>4. Placed(p) = [slot |-> slot, started |-> p.started, finish |-> p.finish, body |-> p.body]
  BY DEF Placed, slot
<1>5. QED
  BY <1>1, <1>2, <1>3, <1>4 DEF Parser

LEMMA PlacedLive ==
  ASSUME NEW p, NEW r, NEW s, NEW n, NEW o, Reading(p, r, s, n, o), ~ o
  PROVE  Live(Placed(p), r) /\ Slotted(Placed(p), r, s, n)
<1>1. /\ DOMAIN p.slot \subseteq Keys /\ p \in Parser(DOMAIN p.slot)
      /\ r \in Response /\ r.finish = None
      /\ r.open = {p.slot[k] : k \in p.started}
      /\ r.stray = {}
      /\ Slotted(Placed(p), r, s, n)
  BY DEF Reading
<1> DEFINE q == Placed(p)
<1>2. /\ DOMAIN q.slot = p.started /\ q.started = p.started
      /\ p.started \subseteq DOMAIN p.slot
      /\ \A k \in p.started : q.slot[k] = p.slot[k]
      /\ q \in Parser(p.started)
  BY <1>1, PlacedSlot
<1> HIDE DEF q
<1>3. r.open = {q.slot[k] : k \in q.started}
  BY <1>1, <1>2
<1>4. QED
  BY <1>1, <1>2, <1>3 DEF Live, q

(* A response under way, when another line came. *)
LEMMA ReadingStill ==
  ASSUME NEW p, NEW r, NEW s, NEW n \in Nat, NEW o, NEW u,
         Reading(p, r, s, n, o), ~ u => ~ o
  PROVE  Reading(p, r, s, n + 1, u)
<1>1. ~ u => Slotted(Placed(p), r, s, n + 1)
  <2>1. SUFFICES ASSUME ~ u PROVE Slotted(Placed(p), r, s, n + 1)
    OBVIOUS
  <2>2. Slotted(Placed(p), r, s, n)
    BY <2>1 DEF Reading
  <2>3. Grown(s, s) /\ n + 1 \in Nat /\ n <= n + 1
    BY DEF Grown
  <2>4. QED
    BY <2>2, <2>3, SlottedStill
<1>2. r.stray \subseteq IF u THEN {"start"} ELSE {}
  BY DEF Reading
<1>3. QED
  BY <1>1, <1>2 DEF Reading

(* A part is mentioned. *)
Mentions(p, k, q) ==
  /\ q.started = p.started /\ q.finish = p.finish /\ q.body = p.body
  /\ DOMAIN q.slot = DOMAIN p.slot \cup {k}
  /\ \A x \in DOMAIN p.slot : q.slot[x] = p.slot[x]
  /\ k \in DOMAIN p.slot => q = p
  /\ k \notin DOMAIN p.slot => /\ q.slot[k] = Cardinality(DOMAIN p.slot)
                               /\ Cardinality(DOMAIN q.slot) = Cardinality(DOMAIN p.slot) + 1

LEMMA MentionRead ==
  ASSUME NEW p, NEW r, NEW s, NEW n, NEW o, Reading(p, r, s, n, o), NEW k \in Keys
  PROVE  /\ Mentions(p, k, OpenAIMention(p, k))
         /\ Reading(OpenAIMention(p, k), r, s, n, o)
<1> DEFINE D == DOMAIN p.slot
           c == Cardinality(D)
           q == OpenAIMention(p, k)
<1>1. /\ D \subseteq Keys /\ p \in Parser(D)
      /\ IsFiniteSet(D)
      /\ \A x \in D : p.slot[x] \in Nat /\ p.slot[x] < c
      /\ \A x, y \in D : p.slot[x] = p.slot[y] => x = y
      /\ \A i \in 0 .. c - 1 : \E x \in D : p.slot[x] = i
      /\ p.started \subseteq D
  BY DEF Reading, Numbered, Parser
<1>2. c \in Nat
  BY <1>1, FS_CardinalityType
<1>3. CASE k \in D
  <2>1. [p EXCEPT !.slot = p.slot] = p
    BY <1>1 DEF Parser
  <2>2. q = p
    BY <1>3, <2>1 DEF OpenAIMention
  <2>3. Mentions(p, k, p)
    BY <1>3 DEF Mentions
  <2>4. QED
    BY <2>2, <2>3
<1>4. CASE k \notin D
  <2> DEFINE slot == Assigned(p.slot, k, c)
  <2>1. /\ DOMAIN slot = D \cup {k} /\ slot[k] = c
        /\ \A x \in D : slot[x] = p.slot[x]
        /\ slot \in [D \cup {k} -> Nat]
    BY <1>1, <1>2, <1>4 DEF Assigned
  <2>2. q = [p EXCEPT !.slot = slot]
    BY <1>4 DEF OpenAIMention, NextPartIndex
  <2>3. IsFiniteSet(D \cup {k}) /\ Cardinality(D \cup {k}) = c + 1
    BY <1>1, <1>4, FS_AddElement
  <2> HIDE DEF slot, q
  <2>4. /\ q.slot = slot /\ q.started = p.started /\ q.finish = p.finish /\ q.body = p.body
        /\ q \in Parser(D \cup {k})
    BY <1>1, <2>1, <2>2 DEF Parser
  <2>5. Numbered(q)
    <3>1. \A x \in D \cup {k} : slot[x] < c + 1
      BY <1>1, <1>2, <2>1
    <3>2. \A x, y \in D \cup {k} : slot[x] = slot[y] => x = y
      BY <1>1, <1>2, <2>1
    <3>3. \A i \in 0 .. c : \E x \in D \cup {k} : slot[x] = i
      <4> TAKE i \in 0 .. c
      <4>1. CASE i = c
        BY <2>1, <4>1
      <4>2. CASE i # c
        <5>1. i \in 0 .. c - 1
          BY <1>2, <4>2
        <5>2. QED
          BY <1>1, <2>1, <5>1
      <4>3. QED
        BY <4>1, <4>2
    <3> DEFINE d == Cardinality(DOMAIN q.slot)
    <3>4. DOMAIN q.slot = D \cup {k} /\ q.slot = slot
      BY <2>1, <2>4
    <3>5. d = c + 1
      BY <2>3, <3>4
    <3>6. d - 1 = c
      BY <1>2, <3>5
    <3> HIDE DEF c, d
    <3>7. IsFiniteSet(DOMAIN q.slot) /\ \A x \in DOMAIN q.slot : q.slot[x] < d
      BY <2>3, <3>1, <3>4, <3>5
    <3>8. \A i \in 0 .. d - 1 : \E x \in DOMAIN q.slot : q.slot[x] = i
      BY <3>3, <3>4, <3>6
    <3>9. QED
      BY <3>2, <3>4, <3>7, <3>8 DEF Numbered, d
  <2>6. Mentions(p, k, q)
    BY <1>4, <2>1, <2>3, <2>4 DEF Mentions
  <2>7. Placed(q) = Placed(p)
    <3>1. [x \in q.started |-> q.slot[x]] = [x \in p.started |-> p.slot[x]]
      BY <1>1, <2>1, <2>4
    <3>2. QED
      BY <2>4, <3>1 DEF Placed
  <2>8. {q.slot[x] : x \in q.started} = {p.slot[x] : x \in p.started}
    BY <1>1, <2>1, <2>4
  <2>9. DOMAIN q.slot = D \cup {k} /\ D \cup {k} \subseteq Keys
    BY <1>1, <2>1, <2>4
  <2>10. Reading(q, r, s, n, o)
    BY <2>4, <2>5, <2>7, <2>8, <2>9 DEF Reading
  <2>11. QED
    BY <2>6, <2>10 DEF q
<1>5. QED
  BY <1>3, <1>4

(* The part starts. *)
Starting(p, k) ==
  [slot |-> p.slot, started |-> p.started \cup {k}, finish |-> p.finish, body |-> p.body]

(* Without an overtaken call it starts at the next position. *)
LEMMA StartsNext ==
  ASSUME NEW p, NEW r, NEW s, NEW n, NEW o, Reading(p, r, s, n, o), ~ o,
         NEW k \in DOMAIN p.slot \ p.started, ~ Overtakes(Starting(p, k))
  PROVE  p.slot[k] = Len(r.parts)
<1> DEFINE D == DOMAIN p.slot
           l == Len(r.parts)
           m == p.slot[k]
           q == Starting(p, k)
<1>1. /\ p \in Parser(D) /\ p.started \subseteq D
      /\ \A x \in D : p.slot[x] \in Nat /\ p.slot[x] < Cardinality(D)
      /\ \A x, y \in D : p.slot[x] = p.slot[y] => x = y
      /\ \A i \in 0 .. Cardinality(D) - 1 : \E x \in D : p.slot[x] = i
      /\ r.parts \in Seq(Part)
  BY DEF Reading, Numbered, Parser, Response
<1>2. l \in Nat /\ DOMAIN r.parts = 1 .. l
  BY <1>1
<1>3. /\ \A x \in p.started : p.slot[x] + 1 \in 1 .. l
      /\ \A i \in 1 .. l : \E x \in p.started : p.slot[x] + 1 = i
  <2>1. Slotted(Placed(p), r, s, n)
    BY DEF Reading
  <2>2. DOMAIN Placed(p).slot = p.started /\ \A x \in p.started : Placed(p).slot[x] = p.slot[x]
    BY <1>1, PlacedSlot
  <2>3. QED
    BY <1>2, <2>1, <2>2 DEF Slotted
<1>4. m \in Nat /\ m < Cardinality(D)
  BY <1>1
<1>5. IsFiniteSet(D)
  BY DEF Reading, Numbered
<1>6. Cardinality(D) \in Nat
  BY <1>5, FS_CardinalityType
<1> HIDE DEF l
<1>7. ~ (m < l)
  <2>1. SUFFICES ASSUME m < l PROVE FALSE
    OBVIOUS
  <2>2. m + 1 \in 1 .. l
    BY <1>2, <1>4, <2>1
  <2>3. PICK x \in p.started : p.slot[x] + 1 = m + 1
    BY <1>3, <2>2
  <2>4. p.slot[x] = m
    BY <1>1, <1>4, <2>3
  <2>5. QED
    BY <1>1, <2>4
<1>8. ~ (l < m)
  <2>1. SUFFICES ASSUME l < m PROVE FALSE
    OBVIOUS
  <2>2. l \in 0 .. Cardinality(D) - 1
    BY <1>2, <1>4, <1>6, <2>1
  <2>3. PICK x \in D : p.slot[x] = l
    BY <1>1, <2>2
  <2>4. x \notin p.started
    BY <1>2, <1>3, <2>3
  <2>5. x # k
    BY <1>2, <2>1, <2>3
  <2>6. q.slot = p.slot /\ q.started = p.started \cup {k}
    BY DEF Starting
  <2> HIDE DEF q
  <2>7. x \in DOMAIN q.slot \ q.started /\ k \in q.started /\ q.slot[x] < q.slot[k]
    BY <2>1, <2>3, <2>4, <2>5, <2>6
  <2>8. Overtakes(q)
    BY <2>7 DEF Overtakes
  <2>9. QED
    BY <2>8 DEF q
<1>9. QED
  BY <1>2, <1>4, <1>7, <1>8 DEF l

(* A piece comes in; u: whether a call is overtaken by then. *)
Hearing(p, r, s, n, o, piece, u) ==
  /\ n \in Nat /\ Seq(1 .. n + 1) \subseteq Content
  /\ Reading(p, r, s, n, o)
  /\ Brought(s, piece, n)
  /\ ~ u => ~ o

(* What a start makes of the response. *)
Begins(p, r, s, n, piece, u, w) ==
  /\ Reading(Starting(p, piece.key), w, s, n + 1, u)
  /\ ~ u => p.slot[piece.key] = Len(r.parts)
  /\ w.parts = Append(r.parts, [kind |-> Kind(piece.key), content |-> piece.content])

LEMMA StartRead ==
  ASSUME NEW p, NEW r, NEW s, NEW n, NEW o, NEW piece, NEW u,
         Hearing(p, r, s, n, o, piece, u),
         piece.key \in DOMAIN p.slot \ p.started,
         ~ u => ~ Overtakes(Starting(p, piece.key))
  PROVE  Begins(p, r, s, n, piece, u, Collect(r, PartStart(p.slot[piece.key], piece)))
<1> DEFINE k == piece.key
           D == DOMAIN p.slot
           i == p.slot[k]
           q == Starting(p, k)
           w == Collect(r, PartStart(i, piece))
<1>0. /\ n \in Nat /\ Seq(1 .. n + 1) \subseteq Content
      /\ Reading(p, r, s, n, o) /\ Brought(s, piece, n)
      /\ ~ u => ~ o
  BY DEF Hearing
<1>1. /\ D \subseteq Keys /\ p \in Parser(D)
      /\ r \in Response /\ r.finish = None /\ r.outcome = "streaming"
      /\ Numbered(p)
      /\ r.open = {p.slot[x] : x \in p.started}
      /\ r.stray \subseteq {"start"} /\ (~ o => r.stray = {})
  BY <1>0 DEF Reading
<1>2. p.started \subseteq D /\ i \in Nat /\ k \in D
  BY <1>1 DEF Parser
<1>3. piece.key \in Keys /\ piece.content \in Content
  <2>1. piece.key \in Keys /\ piece.content \in {<<>>, <<n + 1>>}
    BY <1>0 DEF Brought
  <2>2. <<>> \in Seq(1 .. n + 1) /\ <<n + 1>> \in Seq(1 .. n + 1)
    BY <1>0
  <2>3. QED
    BY <1>0, <2>1, <2>2
<1>4. /\ w \in Response
      /\ w.parts = Append(r.parts, [kind |-> Kind(k), content |-> piece.content])
      /\ w.open = r.open \cup {i}
      /\ w.finish = r.finish /\ w.outcome = r.outcome
      /\ r.finish = None /\ i = Len(r.parts) => w.stray = r.stray
      /\ w.stray \subseteq r.stray \cup {"start"}
  <2>1. Opens(r, i, piece, w)
    BY <1>1, <1>2, <1>3, StartOpens
  <2> HIDE DEF w
  <2>2. QED
    BY <2>1 DEF Opens
<1>5. ~ u => i = Len(r.parts)
  BY <1>0, StartsNext
<1>6. q.slot = p.slot /\ q.started = p.started \cup {k} /\ q \in Parser(D)
  BY <1>1, <1>2 DEF Starting, Parser
<1>7. Numbered(q)
  BY <1>1, <1>6 DEF Numbered
<1>8. w.open = {q.slot[x] : x \in q.started}
  BY <1>1, <1>4, <1>6
<1>9. ~ u => Slotted(Placed(q), w, s, n + 1)
  <2>1. SUFFICES ASSUME ~ u PROVE Slotted(Placed(q), w, s, n + 1)
    OBVIOUS
  <2> DEFINE b == Begun(Placed(p), k, i)
  <2>2. Live(Placed(p), r) /\ Slotted(Placed(p), r, s, n)
    BY <1>0, <2>1, PlacedLive
  <2>3. /\ DOMAIN Placed(p).slot = p.started
        /\ \A x \in p.started : Placed(p).slot[x] = p.slot[x]
    BY <1>1, PlacedSlot
  <2>4. Slotted(b, w, s, n + 1)
    <3>1. i = Len(r.parts) /\ piece.key \notin DOMAIN Placed(p).slot
      BY <1>5, <2>1, <2>3
    <3> DEFINE j == Len(r.parts)
    <3>2. Slotted(Begun(Placed(p), k, j), Collect(r, PartStart(j, piece)), s, n + 1)
      BY <1>0, <2>2, <3>1, PartStarts
    <3>3. i = j
      BY <3>1
    <3> HIDE DEF i, j
    <3>4. QED
      BY <3>2, <3>3
  <2>5. b.slot = Placed(q).slot
    <3>1. b.slot = [x \in p.started \cup {k} |-> IF x = k THEN i ELSE Placed(p).slot[x]]
      BY <2>3 DEF Begun, Assigned
    <3>2. Placed(q).slot = [x \in q.started |-> q.slot[x]]
      BY DEF Placed
    <3> HIDE DEF b, q
    <3>3. QED
      BY <1>6, <2>3, <3>1, <3>2
  <2> HIDE DEF b, q, w, i
  <2>6. QED
    BY <2>4, <2>5 DEF Slotted
<1>10. w.stray \subseteq IF u THEN {"start"} ELSE {}
  BY <1>0, <1>1, <1>4, <1>5
<1> HIDE DEF w, q
<1>11. Reading(q, w, s, n + 1, u)
  BY <1>1, <1>4, <1>6, <1>7, <1>8, <1>9, <1>10 DEF Reading
<1>12. QED
  BY <1>4, <1>5, <1>11 DEF Begins, w, q

(* What a delta makes of the response. *)
Extending(p, r, piece, w) ==
  LET i == p.slot[piece.key]
  IN /\ i + 1 \in 1 .. Len(r.parts) /\ Len(w.parts) = Len(r.parts)
     /\ \A j \in 1 .. Len(r.parts) : j # i + 1 => w.parts[j] = r.parts[j]
     /\ w.parts[i + 1] = [kind |-> Kind(piece.key),
                          content |-> r.parts[i + 1].content \o piece.content]

LEMMA DeltaRead ==
  ASSUME NEW p, NEW r, NEW s, NEW n, NEW o, NEW piece, NEW u,
         Hearing(p, r, s, n, o, piece, u), Keyed(s),
         piece.content = <<n + 1>>, piece.key \in p.started
  PROVE  LET w == Collect(r, PartDelta(p.slot[piece.key], piece))
         IN /\ Reading(p, w, s, n + 1, u)
            /\ ~ u => Extending(p, r, piece, w)
<1> DEFINE k == piece.key
           D == DOMAIN p.slot
           i == p.slot[k]
           w == Collect(r, PartDelta(i, piece))
<1>0. /\ n \in Nat /\ Seq(1 .. n + 1) \subseteq Content
      /\ Reading(p, r, s, n, o) /\ Brought(s, piece, n)
      /\ ~ u => ~ o
  BY DEF Hearing
<1>1. /\ D \subseteq Keys /\ p \in Parser(D)
      /\ r \in Response /\ r.finish = None /\ r.outcome = "streaming"
      /\ Numbered(p)
      /\ r.open = {p.slot[x] : x \in p.started}
      /\ r.stray \subseteq {"start"} /\ (~ o => r.stray = {})
  BY <1>0 DEF Reading
<1>2. p.started \subseteq D /\ i \in Nat /\ k \in D /\ i \in r.open
  BY <1>1 DEF Parser
<1>3. piece \in [key : Keys, content : Seq(Nat)] /\ piece.content \in Content
  <2>1. piece \in [key : Keys, content : {<<>>, <<n + 1>>}]
    BY <1>0 DEF Brought
  <2>2. <<n + 1>> \in Seq(1 .. n + 1) /\ <<n + 1>> \in Seq(Nat) /\ <<>> \in Seq(Nat)
    BY <1>0
  <2>3. QED
    BY <1>0, <2>1, <2>2
<1>4. Fits(r, i, piece)
  <2> SUFFICES ASSUME NEW j \in DOMAIN r.parts
               PROVE  r.parts[j].content \o piece.content \in Content
    BY DEF Fits
  <2>1. r.parts \in Seq(Part)
    BY <1>1 DEF Response
  <2>2. r.parts[j] \in Part
    BY <2>1
  <2>3. r.parts[j].content \in Content
    BY <2>2 DEF Part
  <2>4. QED
    BY <1>3, <2>3, Concatenation DEF Content
<1>5. /\ w \in Response
      /\ w.open = r.open /\ w.finish = r.finish /\ w.outcome = r.outcome
      /\ w.stray = r.stray
  <2>1. Goes(r, i, piece, w)
    BY <1>1, <1>2, <1>3, <1>4, DeltaType
  <2> HIDE DEF w
  <2>2. QED
    BY <1>1, <1>2, <2>1 DEF Goes
<1>6. ASSUME ~ u
      PROVE  Slotted(Placed(p), w, s, n + 1) /\ Extending(p, r, piece, w)
  <2>1. Live(Placed(p), r) /\ Slotted(Placed(p), r, s, n)
    BY <1>0, <1>6, PlacedLive
  <2>2. Placed(p).started = p.started /\ Placed(p).slot[k] = i
    BY <1>1, PlacedSlot
  <2>3. Extends(Placed(p), r, s, n, piece, Collect(r, PartDelta(Placed(p).slot[k], piece)))
    BY <1>0, <2>1, <2>2, PartGoesOn
  <2>4. Extends(Placed(p), r, s, n, piece, w)
    BY <2>2, <2>3
  <2> HIDE DEF w
  <2>5. QED
    BY <2>2, <2>4 DEF Extends, Extending
<1> HIDE DEF w
<1>7. w.stray \subseteq IF u THEN {"start"} ELSE {}
  BY <1>0, <1>1, <1>5
<1>8. Reading(p, w, s, n + 1, u)
  BY <1>1, <1>5, <1>6, <1>7 DEF Reading
<1>9. QED
  BY <1>6, <1>8 DEF w

(* The finish closes all that is open but the thinking. *)
LEMMA FinishRead ==
  ASSUME NEW p, NEW r, NEW s, NEW n, NEW o, Reading(p, r, s, n, o)
  PROVE  LET w == Collected(r, PartEnds({p.slot[k] : k \in p.started \ {"thinking"}}))
         IN /\ w \in Response /\ w.parts = r.parts
            /\ w.open = {p.slot[k] : k \in p.started \cap {"thinking"}}
            /\ w.finish = None /\ w.outcome = r.outcome /\ w.stray = r.stray
<1> DEFINE ended == {p.slot[k] : k \in p.started \ {"thinking"}}
           w == Collected(r, PartEnds(ended))
<1>1. /\ p \in Parser(DOMAIN p.slot)
      /\ r \in Response /\ r.finish = None
      /\ IsFiniteSet(DOMAIN p.slot)
      /\ \A k \in DOMAIN p.slot : p.slot[k] < Cardinality(DOMAIN p.slot)
      /\ \A k, l \in DOMAIN p.slot : p.slot[k] = p.slot[l] => k = l
      /\ r.open = {p.slot[k] : k \in p.started}
  BY DEF Reading, Numbered
<1>2. p.started \subseteq DOMAIN p.slot /\ \A k \in DOMAIN p.slot : p.slot[k] \in Nat
  BY <1>1 DEF Parser
<1>3. ended \in SUBSET r.open
  BY <1>1
<1>4. IsFiniteSet(ended)
  <2> DEFINE c == Cardinality(DOMAIN p.slot)
  <2>1. c \in Nat
    BY <1>1, FS_CardinalityType
  <2>2. \A k \in p.started : p.slot[k] \in 0 .. c
    BY <1>1, <1>2, <2>1
  <2> HIDE DEF c
  <2>3. ended \subseteq 0 .. c
    BY <2>2
  <2>4. IsFiniteSet(0 .. c)
    BY <2>1, FS_Interval
  <2> HIDE DEF ended
  <2>5. QED
    BY <2>3, <2>4, FS_Subset
<1>5. r.open \ ended = {p.slot[k] : k \in p.started \cap {"thinking"}}
  <2> DEFINE left == {p.slot[k] : k \in p.started \cap {"thinking"}}
  <2>1. \A i \in r.open \ ended : i \in left
    BY <1>1
  <2>2. \A i \in left : i \in r.open /\ i \notin ended
    BY <1>1, <1>2
  <2>3. QED
    BY <2>1, <2>2
<1> HIDE DEF ended
<1>6. /\ w \in Response
      /\ w.parts = r.parts
      /\ w.open = r.open \ ended
      /\ w.finish = None /\ w.outcome = r.outcome /\ w.stray = r.stray
  BY <1>1, <1>3, <1>4, EndsCollected
<1>7. QED
  BY <1>5, <1>6 DEF ended

(* A piece without content, of a part that is there, changes nothing. *)
LEMMA SaysNothing ==
  ASSUME NEW s \in Seq(SaidPart), Keyed(s), NEW piece, piece.key \in Keys, piece.content = <<>>,
         NEW i \in DOMAIN s, s[i].key = piece.key
  PROVE  Says(s, piece) = s
<1> DEFINE t == Says(s, piece)
<1>1. piece.content \in Content
  BY DEF Content
<1>2. /\ t \in Seq(SaidPart) /\ Len(t) = Len(s)
      /\ \A j \in 1 .. Len(s) : j # i => t[j] = s[j]
      /\ t[i] = [key |-> piece.key, kind |-> Kind(piece.key), content |-> s[i].content \o piece.content]
  BY <1>1, SaysMore
<1> HIDE DEF t
<1>3. s[i] \in SaidPart
  OBVIOUS
<1>4. s[i].content \o piece.content = s[i].content
  <2>1. s[i].content \in Seq(1 .. MaxLines[provider])
    BY <1>3 DEF SaidPart, Content
  <2>2. QED
    BY <2>1
<1>5. s[i].kind = Kind(piece.key)
  BY DEF Keyed
<1>6. t[i] = s[i]
  BY <1>2, <1>3, <1>4, <1>5 DEF SaidPart
<1>7. \A j \in 1 .. Len(s) : t[j] = s[j]
  BY <1>2, <1>6
<1>8. QED
  BY <1>2, <1>7, SameSequence DEF t

(* A piece is said as if its part was mentioned first. *)
LEMMA SaysTwice ==
  ASSUME NEW s \in Seq(SaidPart), Keyed(s), NEW piece, piece.key \in Keys, piece.content \in Content,
         NEW first, first = [key |-> piece.key, content |-> <<>>]
  PROVE  Says(Says(s, first), piece) = Says(s, piece)
<1> DEFINE t == Says(s, first)
           l == Len(s)
<1>1. first.key = piece.key /\ first.content = <<>> /\ first.content \in Content
  BY DEF Content
<1>2. CASE \E i \in DOMAIN s : s[i].key = piece.key
  BY <1>1, <1>2, SaysNothing
<1>3. CASE \A i \in DOMAIN s : s[i].key # piece.key
  <2>1. /\ t \in Seq(SaidPart) /\ Keyed(t) /\ Len(t) = l + 1
        /\ \A i \in 1 .. l : t[i] = s[i]
        /\ t[l + 1] = [key |-> piece.key, kind |-> Kind(piece.key), content |-> <<>>]
    BY <1>1, <1>3, SaysNew
  <2> HIDE DEF t
  <2> DEFINE u == Says(s, piece)
             v == Says(t, piece)
  <2>2. /\ u \in Seq(SaidPart) /\ Len(u) = l + 1
        /\ \A i \in 1 .. l : u[i] = s[i]
        /\ u[l + 1] = [key |-> piece.key, kind |-> Kind(piece.key), content |-> piece.content]
    BY <1>3, SaysNew
  <2>3. l \in Nat /\ l + 1 \in DOMAIN t /\ t[l + 1].key = piece.key /\ t[l + 1].content = <<>>
    BY <2>1
  <2>4. /\ v \in Seq(SaidPart) /\ Len(v) = Len(t)
        /\ \A j \in 1 .. Len(t) : j # l + 1 => v[j] = t[j]
        /\ v[l + 1] = [key |-> piece.key, kind |-> Kind(piece.key),
                       content |-> t[l + 1].content \o piece.content]
    <3> DEFINE e == l + 1
    <3>1. e \in DOMAIN t /\ t[e].key = piece.key
      BY <2>3
    <3> HIDE DEF e, v
    <3>2. /\ v \in Seq(SaidPart) /\ Len(v) = Len(t)
          /\ \A j \in 1 .. Len(t) : j # e => v[j] = t[j]
          /\ v[e] = [key |-> piece.key, kind |-> Kind(piece.key),
                     content |-> t[e].content \o piece.content]
      BY <2>1, <3>1, SaysMore DEF v
    <3>3. QED
      BY <3>2 DEF e
  <2>5. <<>> \o piece.content = piece.content
    BY DEF Content
  <2> HIDE DEF u, v
  <2>6. v[l + 1] = u[l + 1]
    BY <2>2, <2>3, <2>4, <2>5
  <2>7. \A i \in 1 .. l + 1 : v[i] = u[i]
    <3> TAKE i \in 1 .. l + 1
    <3>1. CASE i = l + 1
      BY <2>6, <3>1
    <3>2. CASE i # l + 1
      <4>1. i \in 1 .. l /\ i \in 1 .. Len(t)
        BY <2>1, <2>3, <3>2
      <4>2. QED
        BY <2>1, <2>2, <2>4, <3>2, <4>1
    <3>3. QED
      BY <3>1, <3>2
  <2>8. v = u
    BY <2>1, <2>2, <2>4, <2>7, SameSequence
  <2>9. QED
    BY <2>8 DEF u, v, t
<1>4. QED
  BY <1>2, <1>3

(* The server mentions the part that the parser mentions. *)
LEMMA SameMentioned ==
  ASSUME NEW p, NEW r, NEW s \in Seq(SaidPart), Keyed(s), SameStarted(p, r, s),
         Len(r.parts) \in Nat, p.started \subseteq DOMAIN p.slot,
         NEW k \in Keys, NEW q, Mentions(p, k, q),
         NEW first, first = [key |-> k, content |-> <<>>]
  PROVE  SameStarted(q, r, Says(s, first))
<1> DEFINE t == Says(s, first)
           l == Len(s)
<1>1. /\ \A x \in Keys : x \in DOMAIN p.slot <=> \E i \in DOMAIN s : s[i].key = x
      /\ \A i \in DOMAIN s : p.slot[s[i].key] = i - 1
      /\ Cardinality(DOMAIN p.slot) = l /\ Len(r.parts) <= l
      /\ \A i \in DOMAIN s :
           IF i <= Len(r.parts)
           THEN /\ s[i].key \in p.started /\ s[i].content # <<>>
                /\ r.parts[i] = [kind |-> s[i].kind, content |-> s[i].content]
           ELSE s[i].key \notin p.started /\ s[i].content = <<>>
  BY DEF SameStarted
<1>2. first.key = k /\ first.content = <<>> /\ first.content \in Content
  BY DEF Content
<1>3. CASE k \in DOMAIN p.slot
  <2>1. PICK i \in DOMAIN s : s[i].key = k
    BY <1>1, <1>3
  <2>2. t = s
    BY <1>2, <2>1, SaysNothing
  <2>3. q = p
    BY <1>3 DEF Mentions
  <2>4. QED
    BY <2>2, <2>3
<1>4. CASE k \notin DOMAIN p.slot
  <2>1. \A i \in DOMAIN s : s[i].key # k
    BY <1>1, <1>4
  <2>2. /\ t \in Seq(SaidPart) /\ Len(t) = l + 1
        /\ \A i \in 1 .. l : t[i] = s[i]
        /\ t[l + 1] = [key |-> k, kind |-> Kind(k), content |-> <<>>]
    <3>1. /\ t \in Seq(SaidPart) /\ Len(t) = l + 1
          /\ \A i \in 1 .. l : t[i] = s[i]
          /\ t[l + 1] = [key |-> first.key, kind |-> Kind(first.key), content |-> first.content]
      BY <1>2, <2>1, SaysNew
    <3>2. QED
      BY <1>2, <3>1
  <2>3. /\ q.started = p.started
        /\ DOMAIN q.slot = DOMAIN p.slot \cup {k}
        /\ \A x \in DOMAIN p.slot : q.slot[x] = p.slot[x]
        /\ q.slot[k] = l /\ Cardinality(DOMAIN q.slot) = l + 1
    BY <1>1, <1>4 DEF Mentions
  <2>4. /\ DOMAIN s = 1 .. l /\ l \in Nat /\ DOMAIN t = 1 .. l + 1
        /\ \A i \in 1 .. l : s[i].key \in Keys /\ s[i].key \in DOMAIN p.slot
    <3>1. DOMAIN s = 1 .. l /\ l \in Nat /\ DOMAIN t = 1 .. l + 1 /\ \A i \in 1 .. l : s[i] \in SaidPart
      BY <2>2
    <3>2. QED
      BY <1>1, <3>1 DEF SaidPart
  <2> HIDE DEF t, l
  <2>5. t[l + 1].key = k /\ t[l + 1].content = <<>> /\ l + 1 \in DOMAIN t
    BY <2>2, <2>4
  <2>6. ASSUME NEW i \in DOMAIN t
        PROVE  i = l + 1 \/ (i \in 1 .. l /\ t[i] = s[i])
    BY <2>2, <2>4
  <2>7. ASSUME NEW x \in Keys
        PROVE  x \in DOMAIN q.slot <=> \E i \in DOMAIN t : t[i].key = x
    <3>1. ASSUME x \in DOMAIN q.slot
          PROVE  \E i \in DOMAIN t : t[i].key = x
      <4>1. CASE x = k
        BY <2>5, <4>1
      <4>2. CASE x # k
        <5>1. PICK i \in 1 .. l : s[i].key = x
          BY <1>1, <2>3, <2>4, <3>1, <4>2
        <5>2. i \in DOMAIN t /\ t[i] = s[i]
          BY <2>2, <2>4
        <5>3. QED
          BY <5>1, <5>2
      <4>3. QED
        BY <4>1, <4>2
    <3>2. ASSUME NEW i \in DOMAIN t, t[i].key = x
          PROVE  x \in DOMAIN q.slot
      BY <2>3, <2>4, <2>5, <2>6, <3>2
    <3>3. QED
      BY <3>1, <3>2
  <2>8. ASSUME NEW i \in DOMAIN t
        PROVE  q.slot[t[i].key] = i - 1
    <3>1. CASE i = l + 1
      BY <2>3, <2>4, <2>5, <3>1
    <3>2. CASE i # l + 1
      <4>1. i \in 1 .. l /\ t[i] = s[i]
        BY <2>6, <3>2
      <4>2. QED
        BY <1>1, <2>3, <2>4, <4>1
    <3>3. QED
      BY <3>1, <3>2
  <2>9. ASSUME NEW i \in DOMAIN t
        PROVE  IF i <= Len(r.parts)
               THEN /\ t[i].key \in q.started /\ t[i].content # <<>>
                    /\ r.parts[i] = [kind |-> t[i].kind, content |-> t[i].content]
               ELSE t[i].key \notin q.started /\ t[i].content = <<>>
    <3>1. CASE i = l + 1
      <4>1. ~ (i <= Len(r.parts))
        BY <1>1, <2>4, <3>1
      <4>2. k \notin p.started
        BY <1>4
      <4>3. QED
        BY <2>3, <2>5, <3>1, <4>1, <4>2
    <3>2. CASE i # l + 1
      <4>1. i \in 1 .. l /\ t[i] = s[i]
        BY <2>6, <3>2
      <4>2. QED
        BY <1>1, <2>3, <2>4, <4>1
    <3>3. QED
      BY <3>1, <3>2
  <2>10. Cardinality(DOMAIN q.slot) = Len(t) /\ Len(r.parts) <= Len(t)
    BY <1>1, <2>2, <2>3, <2>4
  <2>11. SameStarted(q, r, t)
    BY <2>7, <2>8, <2>9, <2>10 DEF SameStarted
  <2>12. QED
    BY <2>11 DEF t
<1>5. QED
  BY <1>3, <1>4

(* The server says more of the part that the collector begins or extends. *)
LEMMA SameExtended ==
  ASSUME NEW p, NEW r, NEW s \in Seq(SaidPart), Keyed(s), SameStarted(p, r, s),
         r.parts \in Seq(Part), p.slot \in [DOMAIN p.slot -> Nat],
         NEW piece, piece.key \in DOMAIN p.slot, piece.key \in Keys,
         piece.content \in Content, piece.content # <<>>,
         NEW w, w.parts \in Seq(Part),
         NEW q, q.slot = p.slot, q.started = p.started \cup {piece.key},
         \/ piece.key \in p.started /\ Extending(p, r, piece, w)
         \/ /\ piece.key \notin p.started /\ p.slot[piece.key] = Len(r.parts)
            /\ w.parts = Append(r.parts, [kind |-> Kind(piece.key), content |-> piece.content])
  PROVE  SameStarted(q, w, Says(s, piece))
<1> DEFINE k == piece.key
           t == Says(s, piece)
           l == Len(s)
           m == Len(r.parts)
<1>1. /\ \A x \in Keys : x \in DOMAIN p.slot <=> \E i \in DOMAIN s : s[i].key = x
      /\ \A i \in DOMAIN s : p.slot[s[i].key] = i - 1
      /\ Cardinality(DOMAIN p.slot) = l /\ m <= l
      /\ \A i \in DOMAIN s :
           IF i <= m
           THEN /\ s[i].key \in p.started /\ s[i].content # <<>>
                /\ r.parts[i] = [kind |-> s[i].kind, content |-> s[i].content]
           ELSE s[i].key \notin p.started /\ s[i].content = <<>>
  BY DEF SameStarted
<1>2. PICK i \in DOMAIN s : s[i].key = k
  BY <1>1
<1>3. /\ t \in Seq(SaidPart) /\ Len(t) = l
      /\ \A j \in 1 .. l : j # i => t[j] = s[j]
      /\ t[i] = [key |-> k, kind |-> Kind(k), content |-> s[i].content \o piece.content]
  <2>1. Longer(s, i, piece, t)
    BY <1>2, SaysLonger
  <2> HIDE DEF t
  <2>2. QED
    BY <2>1 DEF Longer
<1>4. /\ DOMAIN s = 1 .. l /\ l \in Nat /\ DOMAIN t = 1 .. l /\ m \in Nat
      /\ p.slot[k] = i - 1 /\ i \in 1 .. l
      /\ s[i] \in SaidPart /\ s[i].kind = Kind(k)
  BY <1>1, <1>2, <1>3 DEF Keyed
<1> HIDE DEF t
<1>5. t[i].key = k /\ t[i].kind = Kind(k) /\ t[i].content = s[i].content \o piece.content
  <2> DEFINE c == s[i].content \o piece.content
  <2>1. t[i] = [key |-> k, kind |-> Kind(k), content |-> c]
    BY <1>3
  <2> HIDE DEF c, k
  <2>2. t[i].key = k /\ t[i].kind = Kind(k) /\ t[i].content = c
    BY <2>1
  <2>3. QED
    BY <2>2 DEF c
<1>6. t[i].content # <<>>
  <2>1. s[i].content \in Seq(1 .. MaxLines[provider]) /\ piece.content \in Seq(1 .. MaxLines[provider])
    BY <1>4 DEF SaidPart, Content
  <2> DEFINE c == s[i].content \o piece.content
  <2>2. Len(c) = Len(s[i].content) + Len(piece.content)
    BY <2>1
  <2>3. Len(piece.content) # 0 /\ Len(piece.content) \in Nat /\ Len(s[i].content) \in Nat
    BY <2>1
  <2> DEFINE x == Len(s[i].content)
             y == Len(piece.content)
  <2>4. Len(c) # 0
    <3>1. Len(c) = x + y /\ x \in Nat /\ y \in Nat /\ y # 0
      BY <2>2, <2>3
    <3> HIDE DEF c, x, y
    <3>2. QED
      BY <3>1
  <2> HIDE DEF c
  <2>5. c # <<>>
    BY <2>4
  <2>6. QED
    BY <1>5, <2>5 DEF c
<1>7. \A j \in DOMAIN s : s[j].key = k => j = i
  BY <1>2 DEF Keyed
<1>8. CASE piece.key \in p.started /\ Extending(p, r, piece, w)
  <2>1. /\ i \in 1 .. m /\ Len(w.parts) = m
        /\ \A j \in 1 .. m : j # i => w.parts[j] = r.parts[j]
        /\ w.parts[i] = [kind |-> Kind(k), content |-> r.parts[i].content \o piece.content]
    <3>1. p.slot[piece.key] + 1 = i
      BY <1>4
    <3> DEFINE e == p.slot[piece.key]
    <3>2. /\ e + 1 \in 1 .. m /\ Len(w.parts) = m
          /\ \A j \in 1 .. m : j # e + 1 => w.parts[j] = r.parts[j]
          /\ w.parts[e + 1] = [kind |-> Kind(k), content |-> r.parts[e + 1].content \o piece.content]
      BY <1>8 DEF Extending
    <3>3. e + 1 = i
      BY <3>1
    <3> HIDE DEF e, m, k
    <3>4. QED
      BY <3>2, <3>3
  <2>2. w.parts[i] = [kind |-> t[i].kind, content |-> t[i].content]
    <3>1. r.parts[i] = [kind |-> s[i].kind, content |-> s[i].content]
      BY <1>1, <1>4, <2>1
    <3>2. r.parts[i].content = s[i].content
      BY <3>1
    <3> HIDE DEF m, k
    <3>3. QED
      BY <1>5, <2>1, <3>2
  <2>3. q.started = p.started
    BY <1>8
  <2>4. ASSUME NEW j \in DOMAIN t
        PROVE  IF j <= Len(w.parts)
               THEN /\ t[j].key \in q.started /\ t[j].content # <<>>
                    /\ w.parts[j] = [kind |-> t[j].kind, content |-> t[j].content]
               ELSE t[j].key \notin q.started /\ t[j].content = <<>>
    <3>1. CASE j = i
      <4>1. j <= Len(w.parts)
        BY <1>4, <2>1, <3>1
      <4>2. t[j].key \in q.started
        BY <1>5, <1>8, <2>3, <3>1
      <4>3. QED
        BY <1>6, <2>2, <3>1, <4>1, <4>2
    <3>2. CASE j # i
      <4>1. j \in DOMAIN s /\ t[j] = s[j]
        BY <1>3, <1>4, <3>2
      <4>2. j <= m => j \in 1 .. m
        BY <1>4
      <4> HIDE DEF m
      <4>3. QED
        BY <1>1, <2>1, <2>3, <3>2, <4>1, <4>2
    <3>3. QED
      BY <3>1, <3>2
  <2>5. Len(w.parts) <= Len(t)
    BY <1>1, <1>3, <2>1
  <2>6. \A j \in DOMAIN t : t[j].key = s[j].key
    BY <1>2, <1>3, <1>4, <1>5
  <2>7. \A x \in Keys : x \in DOMAIN q.slot <=> \E j \in DOMAIN t : t[j].key = x
    BY <1>1, <1>4, <2>6
  <2>8. \A j \in DOMAIN t : q.slot[t[j].key] = j - 1
    BY <1>1, <1>4, <2>6
  <2>9. Cardinality(DOMAIN q.slot) = Len(t)
    BY <1>1, <1>3
  <2>10. SameStarted(q, w, t)
    BY <2>4, <2>5, <2>7, <2>8, <2>9 DEF SameStarted
  <2>11. QED
    BY <2>10 DEF t
<1>9. CASE /\ piece.key \notin p.started /\ p.slot[piece.key] = Len(r.parts)
           /\ w.parts = Append(r.parts, [kind |-> Kind(piece.key), content |-> piece.content])
  <2> DEFINE part == [kind |-> Kind(k), content |-> piece.content]
  <2>1. i = m + 1
    BY <1>4, <1>9
  <2>2. Len(w.parts) = m + 1 /\ (\A j \in 1 .. m : w.parts[j] = r.parts[j]) /\ w.parts[m + 1] = part
    <3>1. w.parts = Append(r.parts, part)
      BY <1>9
    <3> HIDE DEF part
    <3>2. QED
      BY <3>1
  <2>3. s[i].content = <<>>
    <3>1. ~ (i <= m)
      BY <1>4, <2>1
    <3> HIDE DEF m
    <3>2. QED
      BY <1>1, <3>1
  <2>4. t[i].content = piece.content
    BY <1>5, <2>3 DEF Content
  <2>5. w.parts[i] = [kind |-> t[i].kind, content |-> t[i].content]
    BY <1>5, <2>1, <2>2, <2>4
  <2> HIDE DEF m, part
  <2>6. ASSUME NEW j \in DOMAIN t
        PROVE  IF j <= Len(w.parts)
               THEN /\ t[j].key \in q.started /\ t[j].content # <<>>
                    /\ w.parts[j] = [kind |-> t[j].kind, content |-> t[j].content]
               ELSE t[j].key \notin q.started /\ t[j].content = <<>>
    <3>1. CASE j = i
      <4>1. j <= Len(w.parts)
        BY <1>4, <2>1, <2>2, <3>1
      <4>2. QED
        BY <1>5, <1>6, <2>5, <3>1, <4>1
    <3>2. CASE j # i
      <4>1. j \in DOMAIN s /\ t[j] = s[j] /\ j \in Nat
        BY <1>3, <1>4, <3>2
      <4>2. /\ j <= Len(w.parts) <=> j <= m
            /\ j <= m => j \in 1 .. m
        BY <1>4, <2>1, <2>2, <3>2, <4>1
      <4>3. s[j].key # k
        BY <1>7, <3>2, <4>1
      <4>4. CASE j <= m
        BY <1>1, <2>2, <4>1, <4>2, <4>4
      <4>5. CASE ~ (j <= m)
        BY <1>1, <4>1, <4>2, <4>3, <4>5
      <4>6. QED
        BY <4>4, <4>5
    <3>3. QED
      BY <3>1, <3>2
  <2>7. Len(w.parts) <= Len(t)
    BY <1>3, <1>4, <2>1, <2>2
  <2>8. \A j \in DOMAIN t : t[j].key = s[j].key
    BY <1>2, <1>3, <1>4, <1>5
  <2>9. \A x \in Keys : x \in DOMAIN q.slot <=> \E j \in DOMAIN t : t[j].key = x
    BY <1>1, <1>4, <2>8
  <2>10. \A j \in DOMAIN t : q.slot[t[j].key] = j - 1
    BY <1>1, <1>4, <2>8
  <2>11. Cardinality(DOMAIN q.slot) = Len(t)
    BY <1>1, <1>3
  <2>12. SameStarted(q, w, t)
    BY <2>6, <2>7, <2>9, <2>10, <2>11 DEF SameStarted
  <2>13. QED
    BY <2>12 DEF t
<1>10. QED
  BY <1>8, <1>9

(* What a step of OpenAI's has to keep. *)
LEMMA OpenAIKeeps ==
  ASSUME Inv, Wrote, provider = "openai", whole' = whole,
         reason' \in Reasons \cup {None}, over' \in BOOLEAN, lost' \in BOOLEAN,
         held' \in Keys \cup {None}, joined' \in BOOLEAN, joined' => lost', overtaken' \in BOOLEAN,
         DOMAIN parser'.slot \subseteq Keys, parser' \in Parser(DOMAIN parser'.slot),
         response' \in Response,
         Numbered(parser'),
         ~ overtaken' => Slotted(Placed(parser'), response', Source', lines + 1),
         ~ overtaken' /\ ~ lost' /\ response'.outcome # "failed" =>
           SameStarted(parser', response', said'),
         OpenInv', FinishInv', response'.stray \subseteq IF overtaken' THEN {"start"} ELSE {}
  PROVE  Inv'
<1>1. provider \in Providers /\ whole \subseteq Calls
  BY DEF Inv, TypeOK
<1>2. /\ provider' = provider /\ lines' = lines + 1 /\ lines' \in 0 .. MaxLines[provider]
      /\ said' \in Seq(SaidPart) /\ Keyed(said')
  BY DEF Wrote
<1>3. TypeOK'
  <2> DEFINE known == DOMAIN parser'.slot
  <2>1. known \in SUBSET Keys /\ parser' \in Parser(known)
    OBVIOUS
  <2> HIDE DEF known
  <2>2. QED
    BY <1>1, <1>2, <2>1, TypeKept
<1>4. OpenAIInv'
  BY <1>2 DEF OpenAIInv
<1>5. PartsInv' /\ BufferInv' /\ BodyInv' /\ CohereInv' /\ EventsInPlace'
  BY <1>2 DEF PartsInv, BufferInv, BodyInv, CohereInv, EventsInPlace, ByIndex, Bytewise
<1>6. QED
  BY <1>3, <1>4, <1>5 DEF Inv

(* The response under way. *)
LEMMA NowReading ==
  ASSUME Inv, Wrote, provider = "openai", reason = None, joined => joined'
  PROVE  /\ Reading(parser, response, Source', lines, overtaken)
         /\ parser.finish = None
<1>1. response.finish = None
  BY NotFinished
<1>2. parser.finish = None
  BY DEF Inv, FinishInv
<1>3. response.open = {parser.slot[k] : k \in parser.started}
  BY <1>1, <1>2 DEF Inv, OpenInv, OpenKeys
<1>4. /\ TypeOK /\ response \in Response /\ response.outcome = "streaming"
      /\ Numbered(parser)
      /\ response.stray \subseteq IF overtaken THEN {"start"} ELSE {}
  BY DEF Inv, TypeOK, OpenAIInv, EventsInPlace, Wrote
<1>5. ~ overtaken => Slotted(Placed(parser), response, Source', lines)
  BY SlottedOn DEF Inv, OpenAIInv
<1>6. QED
  BY <1>1, <1>2, <1>3, <1>4, <1>5, ParserType DEF Reading

(* What was read is kept, and so is a finish after it. *)
LEMMA OpenAIKept ==
  ASSUME Inv, Wrote, provider = "openai", reason = None, whole' = whole, over' = over,
         reason' \in Reasons \cup {None}, lost' \in BOOLEAN, lost => lost',
         held' = None, joined' \in BOOLEAN, joined' => lost', overtaken' \in BOOLEAN,
         NEW q, NEW v, Reading(q, v, Source', lines + 1, overtaken'), q.finish = None,
         ~ overtaken' /\ ~ lost' => SameStarted(q, v, said'),
         \/ parser' = q /\ response' = v /\ (~ lost' => reason' = None)
         \/ /\ reason' # None
            /\ parser' = [q EXCEPT !.finish = reason']
            /\ response' = Collected(v, PartEnds({q.slot[k] : k \in q.started \ {"thinking"}}))
  PROVE  Inv'
<1>1. /\ DOMAIN q.slot \subseteq Keys /\ q \in Parser(DOMAIN q.slot)
      /\ v \in Response /\ v.finish = None /\ v.outcome = "streaming"
      /\ Numbered(q)
      /\ v.open = {q.slot[k] : k \in q.started}
      /\ v.stray \subseteq IF overtaken' THEN {"start"} ELSE {}
      /\ ~ overtaken' => Slotted(Placed(q), v, Source', lines + 1)
  BY DEF Reading
<1>2. provider' = provider /\ ~ over /\ over' \in BOOLEAN
  <2>1. over \in BOOLEAN
    BY DEF Inv, TypeOK
  <2>2. QED
    BY <2>1 DEF Wrote
<1>3. /\ parser'.slot = q.slot /\ parser'.started = q.started
      /\ parser' \in Parser(DOMAIN q.slot)
      /\ response' \in Response /\ response'.finish = None
      /\ response'.parts = v.parts
      /\ response'.outcome = "streaming" /\ response'.stray = v.stray
      /\ \/ /\ response'.open = v.open /\ parser'.finish = None
            /\ ~ lost' => reason' = None
         \/ /\ response'.open = {q.slot[k] : k \in q.started \cap {"thinking"}}
            /\ parser'.finish = reason' /\ reason' # None
  <2>1. CASE parser' = q /\ response' = v /\ (~ lost' => reason' = None)
    BY <1>1, <2>1
  <2>2. CASE /\ reason' # None
             /\ parser' = [q EXCEPT !.finish = reason']
             /\ response' = Collected(v, PartEnds({q.slot[k] : k \in q.started \ {"thinking"}}))
    <3>1. /\ response' \in Response /\ response'.parts = v.parts
          /\ response'.open = {q.slot[k] : k \in q.started \cap {"thinking"}}
          /\ response'.finish = None /\ response'.outcome = v.outcome /\ response'.stray = v.stray
      <4> DEFINE w == Collected(v, PartEnds({q.slot[k] : k \in q.started \ {"thinking"}}))
      <4>1. /\ w \in Response /\ w.parts = v.parts
            /\ w.open = {q.slot[k] : k \in q.started \cap {"thinking"}}
            /\ w.finish = None /\ w.outcome = v.outcome /\ w.stray = v.stray
        BY FinishRead
      <4>2. response' = w
        BY <2>2
      <4> HIDE DEF w
      <4>3. QED
        BY <4>1, <4>2
    <3>2. /\ parser'.slot = q.slot /\ parser'.started = q.started /\ parser'.finish = reason'
          /\ parser' \in Parser(DOMAIN q.slot)
      BY <1>1, <2>2 DEF Parser
    <3>3. QED
      BY <1>1, <2>2, <3>1, <3>2
  <2>3. QED
    BY <2>1, <2>2
<1>4. Numbered(parser')
  BY <1>1, <1>3 DEF Numbered
<1>5. ~ overtaken' => Slotted(Placed(parser'), response', Source', lines + 1)
  <2>1. Placed(parser').slot = Placed(q).slot
    BY <1>3 DEF Placed
  <2>2. QED
    BY <1>1, <1>3, <2>1 DEF Slotted
<1>6. ~ overtaken' /\ ~ lost' => SameStarted(parser', response', said')
  BY <1>3 DEF SameStarted
<1>7. OpenInv'
  BY <1>1, <1>2, <1>3 DEF OpenInv, OpenKeys
<1>8. FinishInv'
  BY <1>2, <1>3 DEF FinishInv
<1>9. DOMAIN parser'.slot \subseteq Keys /\ parser' \in Parser(DOMAIN parser'.slot)
  BY <1>1, <1>3
<1>10. response'.stray \subseteq IF overtaken' THEN {"start"} ELSE {}
  BY <1>1, <1>3
<1>11. QED
  BY <1>2, <1>3, <1>4, <1>5, <1>6, <1>7, <1>8, <1>9, <1>10, OpenAIKeeps

(* A chunk is read, whether the server wrote it or it was joined. *)
OpenAILine(line) ==
  LET read == OpenAIChunk(parser, line)
  IN /\ line.finish \in {None, reason'}
     /\ line.pieces # <<>> => Brought(Source', Head(line.pieces), lines)
     /\ ~ lost' => /\ line.finish = reason' /\ ~ Leftover(line)
                   /\ said' = IF line.pieces = <<>> THEN said ELSE Says(said, Head(line.pieces))
     /\ parser' = read.parser
     /\ response' = Collected(response, read.events)
     /\ ~ overtaken' => ~ overtaken /\ ~ Overtakes(read.parser)

(* Its content, if it has any. *)
LEMMA OpenAIPieceRead ==
  ASSUME Inv, Wrote, provider = "openai", reason = None, lost => lost', joined => joined',
         NEW piece, Brought(Source', piece, lines), piece.content = <<lines + 1>>,
         ~ lost' => said' = Says(said, piece),
         ~ overtaken' => ~ overtaken /\ ~ Overtakes(OpenAIPiece(parser, piece).parser)
  PROVE  LET q == OpenAIPiece(parser, piece).parser
             w == Collected(response, OpenAIPiece(parser, piece).events)
         IN /\ Reading(q, w, Source', lines + 1, overtaken')
            /\ q.finish = None
            /\ ~ overtaken' /\ ~ lost' => SameStarted(q, w, said')
<1> DEFINE k == piece.key
           p == OpenAIMention(parser, k)
           q == OpenAIPiece(parser, piece).parser
           w == Collected(response, OpenAIPiece(parser, piece).events)
           i == p.slot[k]
<1>1. /\ lines \in Nat /\ Seq(1 .. lines + 1) \subseteq Content
      /\ Keyed(Source') /\ k \in Keys /\ piece.content \in Content
  <2>1. lines \in Nat /\ Seq(1 .. lines + 1) \subseteq Content
    BY DEF Wrote
  <2>2. <<lines + 1>> \in Seq(1 .. lines + 1)
    BY <2>1
  <2>3. QED
    BY <2>1, <2>2, SourceGrows DEF Brought
<1>2. Reading(parser, response, Source', lines, overtaken) /\ parser.finish = None
  BY NowReading
<1>3. Mentions(parser, k, p) /\ Reading(p, response, Source', lines, overtaken)
  BY <1>1, <1>2, MentionRead
<1>h. Hearing(p, response, Source', lines, overtaken, piece, overtaken')
  BY <1>1, <1>3 DEF Hearing
<1>4. /\ p.started = parser.started /\ p.finish = None /\ k \in DOMAIN p.slot
      /\ p \in Parser(DOMAIN p.slot)
  BY <1>2, <1>3 DEF Mentions, Reading
<1>5. p.slot \in [DOMAIN p.slot -> Nat] /\ p.started \subseteq DOMAIN p.slot
  BY <1>4 DEF Parser
<1> DEFINE first == [key |-> k, content |-> <<>>]
           s == Says(said, first)
<1>6. ASSUME ~ overtaken', ~ lost'
      PROVE  /\ s \in Seq(SaidPart) /\ Keyed(s) /\ SameStarted(p, response, s)
             /\ said' = Says(s, piece)
             /\ response.parts \in Seq(Part)
  <2>1. said \in Seq(SaidPart) /\ Keyed(said) /\ response.parts \in Seq(Part)
        /\ response.outcome = "streaming"
    BY <1>2 DEF Inv, TypeOK, PartsInv, Reading, Response
  <2>2. SameStarted(parser, response, said)
    BY <1>6, <2>1 DEF Inv, OpenAIInv
  <2>3. first.key = k /\ first.content = <<>> /\ first.content \in Content
    BY DEF Content
  <2> DEFINE f == first
  <2>4. f = [key |-> k, content |-> <<>>] /\ f.key = k /\ f.content \in Content
    BY <2>3
  <2>5. Len(response.parts) \in Nat /\ parser.started \subseteq DOMAIN parser.slot
    BY <1>2, <2>1 DEF Reading, Parser
  <2> HIDE DEF f, p
  <2>6. SameStarted(p, response, Says(said, f))
    BY <1>1, <1>3, <2>1, <2>2, <2>4, <2>5, SameMentioned
  <2>7. Says(Says(said, f), piece) = Says(said, piece)
    BY <1>1, <2>1, <2>4, SaysTwice
  <2>8. Says(said, f) \in Seq(SaidPart) /\ Keyed(Says(said, f))
    BY <1>1, <2>1, <2>4, SaysGrows
  <2>9. QED
    BY <1>6, <2>1, <2>6, <2>7, <2>8 DEF f
<1> HIDE DEF s, first, i, p
<1>7. CASE k \in parser.started
  <2> DEFINE e == PartDelta(i, piece)
             v == Collect(response, e)
  <2>1. OpenAIPiece(parser, piece) = [parser |-> p, events |-> <<e>>]
    BY <1>7 DEF OpenAIPiece, StateOf, p, i
  <2> HIDE DEF e
  <2>2. q = p /\ OpenAIPiece(parser, piece).events = <<e>>
    BY <2>1
  <2>3. w = v
    BY <2>2, CollectedFew
  <2>4. Reading(p, v, Source', lines + 1, overtaken') /\ (~ overtaken' => Extending(p, response, piece, v))
    <3> DEFINE x == Collect(response, PartDelta(p.slot[piece.key], piece))
    <3>1. piece.key \in p.started
      BY <1>4, <1>7
    <3>2. /\ Reading(p, x, Source', lines + 1, overtaken')
          /\ ~ overtaken' => Extending(p, response, piece, x)
      BY <1>1, <1>h, <3>1, DeltaRead
    <3>3. v = x
      BY DEF e, i
    <3> HIDE DEF x, v
    <3>4. QED
      BY <3>2, <3>3
  <2> HIDE DEF v, q, w
  <2>5. ASSUME ~ overtaken', ~ lost' PROVE SameStarted(p, v, said')
    <3>1. v.parts \in Seq(Part)
      BY <2>4 DEF Reading, Response
    <3>2. p.started = p.started \cup {piece.key}
      BY <1>4, <1>7
    <3>3. piece.content # <<>> /\ piece.key \in p.started
      BY <1>4, <1>7
    <3>4. SameStarted(p, v, Says(s, piece))
      BY <1>1, <1>4, <1>5, <1>6, <2>4, <2>5, <3>1, <3>2, <3>3, SameExtended
    <3>5. QED
      BY <1>6, <2>5, <3>4
  <2>6. QED
    BY <1>4, <2>2, <2>3, <2>4, <2>5 DEF q, w
<1>8. CASE k \notin parser.started
  <2> DEFINE e == PartStart(i, piece)
             v == Collect(response, e)
             begun == p.started \cup {k}
  <2>1. OpenAIPiece(parser, piece) = [parser |-> [p EXCEPT !.started = begun], events |-> <<e>>]
    BY <1>8 DEF OpenAIPiece, StateOf, p, i
  <2>2. Starting(p, k) = [p EXCEPT !.started = begun]
    <3>1. p = [slot |-> p.slot, started |-> p.started, finish |-> p.finish, body |-> p.body]
      BY <1>4 DEF Parser
    <3> HIDE DEF begun
    <3>2. [p EXCEPT !.started = begun] =
            [slot |-> p.slot, started |-> begun, finish |-> p.finish, body |-> p.body]
      BY <3>1
    <3>3. QED
      BY <3>2 DEF Starting, begun
  <2> HIDE DEF e, begun
  <2>3. q = Starting(p, k) /\ OpenAIPiece(parser, piece).events = <<e>>
    BY <2>1, <2>2
  <2>4. w = v
    BY <2>3, CollectedFew
  <2>5. k \in DOMAIN p.slot \ p.started
    BY <1>4, <1>8
  <2>6. ~ overtaken' => ~ overtaken /\ ~ Overtakes(Starting(p, k))
    BY <2>3
  <2>7. /\ Reading(Starting(p, k), v, Source', lines + 1, overtaken')
        /\ ~ overtaken' => p.slot[k] = Len(response.parts)
        /\ v.parts = Append(response.parts, [kind |-> Kind(k), content |-> piece.content])
    <3> DEFINE x == Collect(response, PartStart(p.slot[piece.key], piece))
               g == Starting(p, piece.key)
    <3>1. piece.key \in DOMAIN p.slot \ p.started /\ (~ overtaken' => ~ Overtakes(g))
      BY <2>5, <2>6
    <3>2. Begins(p, response, Source', lines, piece, overtaken', x)
      BY <1>h, <3>1, StartRead
    <3>3. v = x
      BY DEF e, i
    <3> HIDE DEF x, v
    <3>4. QED
      BY <3>2, <3>3 DEF Begins
  <2> HIDE DEF v, q, w
  <2>8. /\ Starting(p, k).slot = p.slot /\ Starting(p, k).started = p.started \cup {k}
        /\ Starting(p, k).finish = None
    BY <1>4 DEF Starting
  <2>9. ASSUME ~ overtaken', ~ lost' PROVE SameStarted(Starting(p, k), v, said')
    <3>1. v.parts \in Seq(Part) /\ piece.content # <<>>
      <4>1. v \in Response
        BY <2>7 DEF Reading
      <4>2. QED
        BY <4>1 DEF Response
    <3>2. piece.key \notin p.started /\ p.slot[piece.key] = Len(response.parts)
      BY <2>5, <2>7, <2>9
    <3>3. SameStarted(Starting(p, k), v, Says(s, piece))
      BY <1>1, <1>4, <1>5, <1>6, <2>7, <2>8, <2>9, <3>1, <3>2, SameExtended
    <3>4. QED
      BY <1>6, <2>9, <3>3
  <2>10. QED
    BY <2>3, <2>4, <2>7, <2>8, <2>9 DEF q, w
<1>9. QED
  BY <1>7, <1>8 DEF q, w

LEMMA OpenAIReads ==
  ASSUME Inv, Wrote, provider = "openai", reason = None, whole' = whole, over' = over,
         reason' \in Reasons \cup {None}, lost' \in BOOLEAN, lost => lost',
         held' = None, joined' \in BOOLEAN, joined => joined', joined' => lost',
         overtaken' \in BOOLEAN,
         NEW line, OpenAILine(line)
  PROVE  Inv'
<1> DEFINE pieces == line.pieces
           piece == Head(pieces)
           f == line.finish
           read == OpenAIChunk(parser, line)
<1>0. /\ f \in {None, reason'}
      /\ pieces # <<>> => Brought(Source', piece, lines)
      /\ ~ lost' => /\ f = reason' /\ ~ Leftover(line)
                    /\ said' = IF pieces = <<>> THEN said ELSE Says(said, piece)
      /\ parser' = read.parser
      /\ response' = Collected(response, read.events)
      /\ ~ overtaken' => ~ overtaken /\ ~ Overtakes(read.parser)
  BY DEF OpenAILine
<1>1. CASE pieces # <<>> /\ piece.content # <<>>
  <2> DEFINE q == OpenAIPiece(parser, piece).parser
             v == Collected(response, OpenAIPiece(parser, piece).events)
  <2>1. read = OpenAIPiece(parser, piece)
    BY <1>1 DEF OpenAIChunk
  <2> HIDE DEF read
  <2>2. /\ Brought(Source', piece, lines) /\ piece.content = <<lines + 1>>
        /\ ~ lost' => said' = Says(said, piece)
        /\ ~ overtaken' => ~ overtaken /\ ~ Overtakes(OpenAIPiece(parser, piece).parser)
    BY <1>0, <1>1, <2>1 DEF Brought
  <2>3. ~ lost' => reason' = None
    <3>1. ~ Leftover(line) => f = None
      BY <1>1 DEF Leftover
    <3>2. QED
      BY <1>0, <3>1
  <2>4. parser' = q /\ response' = v
    BY <1>0, <2>1
  <2>5. /\ Reading(q, v, Source', lines + 1, overtaken')
        /\ q.finish = None
        /\ ~ overtaken' /\ ~ lost' => SameStarted(q, v, said')
    <3> DEFINE x == piece
    <3>1. /\ Brought(Source', x, lines) /\ x.content = <<lines + 1>>
          /\ ~ lost' => said' = Says(said, x)
          /\ ~ overtaken' => ~ overtaken /\ ~ Overtakes(OpenAIPiece(parser, x).parser)
      BY <2>2
    <3> HIDE DEF x
    <3>2. LET a == OpenAIPiece(parser, x).parser
              b == Collected(response, OpenAIPiece(parser, x).events)
          IN /\ Reading(a, b, Source', lines + 1, overtaken')
             /\ a.finish = None
             /\ ~ overtaken' /\ ~ lost' => SameStarted(a, b, said')
      BY <3>1, OpenAIPieceRead
    <3>3. QED
      BY <3>2 DEF x
  <2> HIDE DEF q, v
  <2>6. QED
    BY <2>3, <2>4, <2>5, OpenAIKept
<1>2. CASE pieces = <<>> \/ piece.content = <<>>
  <2> DEFINE q == IF pieces = <<>> THEN parser ELSE OpenAIMention(parser, piece.key)
             ended == {q.slot[k] : k \in q.started \ {"thinking"}}
  <2>1. read = IF f = None THEN [parser |-> q, events |-> <<>>]
               ELSE [parser |-> [q EXCEPT !.finish = f], events |-> PartEnds(ended)]
    BY <1>2 DEF OpenAIChunk, OpenAIFinish, StateOf
  <2> HIDE DEF read
  <2>2. /\ Reading(parser, response, Source', lines, overtaken) /\ parser.finish = None
        /\ lines \in Nat /\ (~ overtaken' => ~ overtaken)
    BY <1>0, NowReading DEF Wrote
  <2>3. Keyed(said) /\ said \in Seq(SaidPart) /\ response.outcome # "failed"
        /\ response \in Response
    BY <2>2 DEF Inv, PartsInv, TypeOK, Reading
  <2>4. ~ overtaken' /\ ~ lost' => SameStarted(parser, response, said)
    BY <1>0, <2>2, <2>3 DEF Inv, OpenAIInv
  <2>5. /\ Reading(q, response, Source', lines, overtaken) /\ q.finish = None
        /\ ~ overtaken' /\ ~ lost' => SameStarted(q, response, said')
    <3>1. CASE pieces = <<>>
      <4>1. q = parser
        BY <3>1
      <4> HIDE DEF q
      <4>2. QED
        BY <1>0, <2>2, <2>4, <3>1, <4>1
    <3>2. CASE pieces # <<>>
      <4> DEFINE k == piece.key
      <4>1. k \in Keys /\ piece = [key |-> k, content |-> <<>>]
        BY <1>0, <1>2, <3>2 DEF Brought
      <4>2. q = OpenAIMention(parser, k)
        BY <3>2
      <4> HIDE DEF q, k
      <4>3. Mentions(parser, k, q) /\ Reading(q, response, Source', lines, overtaken)
        BY <2>2, <4>1, <4>2, MentionRead
      <4>4. q.finish = None
        BY <2>2, <4>3 DEF Mentions
      <4>5. ASSUME ~ overtaken', ~ lost' PROVE SameStarted(q, response, said')
        <5>1. Len(response.parts) \in Nat /\ parser.started \subseteq DOMAIN parser.slot
          BY <2>2, <2>3 DEF Reading, Parser, Response
        <5>2. said' = Says(said, piece)
          BY <1>0, <3>2, <4>5
        <5> HIDE DEF piece
        <5>3. QED
          BY <2>3, <2>4, <4>1, <4>3, <4>5, <5>1, <5>2, SameMentioned
      <4>6. QED
        BY <4>3, <4>4, <4>5
    <3>3. QED
      BY <3>1, <3>2
  <2> HIDE DEF q
  <2>6. Reading(q, response, Source', lines + 1, overtaken')
    BY <2>2, <2>5, ReadingStill
  <2>7. CASE f = None
    <3>1. parser' = q /\ response' = response
      BY <1>0, <2>1, <2>7, CollectedFew
    <3>2. ~ lost' => reason' = None
      BY <1>0, <2>7
    <3>3. QED
      BY <2>5, <2>6, <3>1, <3>2, OpenAIKept
  <2>8. CASE f # None
    <3>1. reason' # None /\ f = reason'
      BY <1>0, <2>8
    <3>2. /\ parser' = [q EXCEPT !.finish = reason']
          /\ response' = Collected(response, PartEnds(ended))
      BY <1>0, <2>1, <2>8, <3>1
    <3>3. QED
      BY <2>5, <2>6, <3>1, <3>2, OpenAIKept
  <2>9. QED
    BY <2>7, <2>8
<1>3. QED
  BY <1>1, <1>2

(* Bytes are dropped. *)
LEMMA OpenAIDrops ==
  ASSUME Inv, Wrote, provider = "openai", whole' = whole,
         reason' \in Reasons \cup {None}, reason # None => reason' = reason,
         over' \in BOOLEAN, lost' = TRUE,
         held' \in Keys \cup {None},
         joined' = joined, overtaken' = overtaken, parser' = parser, response' = response
  PROVE  Inv'
<1>1. /\ TypeOK /\ response.finish = None /\ provider' = provider /\ ~ over
      /\ provider # "chatgpt" /\ provider # "anthropic"
  BY NotFinished DEF Inv, Wrote
<1>2. /\ DOMAIN parser.slot \subseteq Keys /\ parser \in Parser(DOMAIN parser.slot)
      /\ response \in Response /\ Numbered(parser)
      /\ response.stray \subseteq IF overtaken THEN {"start"} ELSE {}
      /\ joined \in BOOLEAN /\ overtaken \in BOOLEAN
  BY <1>1, ParserType DEF Inv, TypeOK, OpenAIInv, EventsInPlace
<1>3. ~ overtaken => Slotted(Placed(parser), response, Source', lines + 1)
  BY SlottedOn DEF Inv, OpenAIInv
<1>4. OpenInv'
  BY <1>1 DEF Inv, OpenInv, OpenKeys
<1>5. FinishInv'
  BY <1>1 DEF Inv, FinishInv
<1>6. QED
  BY <1>2, <1>3, <1>4, <1>5, OpenAIKeeps

LEMMA OpenAIChunkKept ==
  ASSUME Inv, OpenAIChunkArrives
  PROVE  Inv'
<1>1. PICK line \in Chunks : Write(line.pieces) /\ reason' = line.finish /\ BytesArrive(line)
  BY DEF OpenAIChunkArrives
<1>2. provider = "openai" /\ reason = None /\ whole' = whole /\ over' = over
  BY DEF OpenAIChunkArrives
<1>3. /\ TypeOK /\ Keyed(said) /\ lines \in Nat /\ lost \in BOOLEAN /\ over \in BOOLEAN
      /\ joined \in BOOLEAN /\ overtaken \in BOOLEAN /\ held \in Keys \cup {None}
      /\ joined => lost
  BY DEF Inv, PartsInv, BufferInv, TypeOK
<1> DEFINE pieces == line.pieces
<1>4. /\ pieces \in Seq(Piece) /\ pieces \in Seq(Sayable) /\ Len(pieces) \in 0 .. 2
      /\ line.finish \in Reasons \cup {None} /\ line.type = "chunk"
  BY <1>3, ChunkType
<1>5. /\ Wrote
      /\ pieces = <<>> => said' = said
      /\ Len(pieces) = 1 => said' = Says(said, Head(pieces))
      /\ pieces # <<>> => Brought(said', Head(pieces), lines)
  BY <1>1, <1>3, <1>4, ServerWrites
<1>6. Len(pieces) = 2 => pieces[1].content # <<>>
  BY DEF Chunks
<1>7. \A x \in Piece : x \in Sayable /\ x.key \in Keys
  BY DEF Piece, Sayable, Keys
<1> DEFINE keys == {pieces[i].key : i \in DOMAIN pieces}
<1>8. keys \subseteq Keys
  BY <1>4, <1>7
<1>9. reason' \in Reasons \cup {None}
  BY <1>1, <1>4
<1>10. CASE Dropped(line)
  <2>1. /\ lost' = TRUE /\ held' \in {None, held} \cup keys
        /\ joined' = joined /\ overtaken' = overtaken /\ parser' = parser /\ response' = response
    BY <1>10 DEF Dropped
  <2>2. held' \in Keys \cup {None} /\ over' \in BOOLEAN
    BY <1>2, <1>3, <1>8, <2>1
  <2>3. QED
    BY <1>2, <1>5, <1>9, <2>1, <2>2, OpenAIDrops
<1>11. CASE Whole(line)
  <2>1. /\ held' = None /\ joined' = joined /\ lost' = (lost \/ Leftover(line))
        /\ parser' = OpenAIChunk(parser, line).parser
        /\ response' = Collected(response, OpenAIChunk(parser, line).events)
        /\ overtaken' = (overtaken \/ Overtakes(OpenAIChunk(parser, line).parser))
    BY <1>2, <1>4, <1>11 DEF Whole, Parsed, Read, OpenAIParse
  <2>2. lost' \in BOOLEAN /\ (lost => lost')
    BY <1>3, <2>1, Zenon
  <2>3. overtaken' \in BOOLEAN
    BY <1>3, <2>1, Zenon
  <2>4. pieces # <<>> => Brought(Source', Head(pieces), lines)
    <3>1. SUFFICES ASSUME pieces # <<>> PROVE Brought(Source', Head(pieces), lines)
      OBVIOUS
    <3>2. Head(pieces) \in Sayable
      BY <1>4, <3>1
    <3> DEFINE piece == Head(pieces)
    <3>3. piece \in Sayable /\ Brought(said', piece, lines)
      BY <1>5, <3>1, <3>2
    <3> HIDE DEF piece
    <3>4. Brought(Source', piece, lines)
      BY <1>5, <3>3, SourceBrings
    <3>5. QED
      BY <3>4 DEF piece
  <2>5. ~ lost' => ~ Leftover(line)
    BY <2>1, Zenon
  <2>6. ~ lost' => said' = IF pieces = <<>> THEN said ELSE Says(said, Head(pieces))
    <3>1. SUFFICES ASSUME ~ lost', pieces # <<>> PROVE said' = Says(said, Head(pieces))
      BY <1>5
    <3>2. Head(pieces) = pieces[1] /\ (Len(pieces) = 1 \/ Len(pieces) = 2)
      BY <1>4, <3>1
    <3>3. Len(pieces) = 1
      BY <1>6, <2>5, <3>1, <3>2 DEF Leftover
    <3>4. QED
      BY <1>5, <3>3
  <2>7. ~ overtaken' => ~ overtaken /\ ~ Overtakes(OpenAIChunk(parser, line).parser)
    BY <2>1, Zenon
  <2>8. OpenAILine(line)
    BY <1>1, <2>1, <2>4, <2>5, <2>6, <2>7 DEF OpenAILine
  <2>9. joined' \in BOOLEAN /\ (joined => joined') /\ (joined' => lost')
    BY <1>3, <2>1, <2>2
  <2>10. QED
    BY <1>2, <1>5, <1>9, <2>1, <2>2, <2>3, <2>8, <2>9, OpenAIReads
<1>12. CASE HeadAndTail(line)
  <2>1. PICK x \in Joined(line) : Parsed(x)
    BY <1>12 DEF HeadAndTail
  <2>2. x.type = "chunk" /\ x.pieces \in JoinedPieces(line) /\ x.finish \in {None, line.finish}
    BY DEF Joined
  <2>3. /\ held' = None /\ joined' = TRUE /\ lost' = TRUE
        /\ parser' = OpenAIChunk(parser, x).parser
        /\ response' = Collected(response, OpenAIChunk(parser, x).events)
        /\ overtaken' = (overtaken \/ Overtakes(OpenAIChunk(parser, x).parser))
    BY <1>2, <1>12, <2>1, <2>2 DEF HeadAndTail, Parsed, Read, OpenAIParse
  <2>4. overtaken' \in BOOLEAN
    BY <1>3, <2>3, Zenon
  <2>5. x.pieces # <<>> => Brought(Source', Head(x.pieces), lines)
    <3>1. SUFFICES ASSUME x.pieces # <<>> PROVE Brought(Source', Head(x.pieces), lines)
      OBVIOUS
    <3>2. PICK piece \in Piece : x.pieces = <<piece>>
      BY <2>2, <3>1 DEF JoinedPieces
    <3>3. Head(x.pieces) = piece
      BY <3>2
    <3>4. Brought(Source', piece, lines)
      BY <1>5, <1>7, <2>3, SourceBrings
    <3>5. QED
      BY <3>3, <3>4
  <2>6. ~ overtaken' => ~ overtaken /\ ~ Overtakes(OpenAIChunk(parser, x).parser)
    BY <2>3, Zenon
  <2>7. OpenAILine(x)
    BY <1>1, <2>2, <2>3, <2>5, <2>6 DEF OpenAILine
  <2>8. joined' \in BOOLEAN /\ (joined => joined') /\ (joined' => lost') /\ lost' \in BOOLEAN
    BY <2>3
  <2>9. QED
    BY <1>2, <1>5, <1>9, <2>3, <2>4, <2>7, <2>8, OpenAIReads
<1>13. QED
  BY <1>1, <1>10, <1>11, <1>12 DEF BytesArrive

LEMMA OpenAIDoneKept ==
  ASSUME Inv, OpenAIDone
  PROVE  Inv'
<1> DEFINE line == [type |-> "done", pieces |-> <<>>, finish |-> None]
<1>1. /\ provider = "openai" /\ Write(<<>>) /\ over' = TRUE /\ BytesArrive(line)
      /\ reason' = reason /\ whole' = whole
  BY DEF OpenAIDone
<1>2. /\ TypeOK /\ Keyed(said) /\ lines \in Nat /\ lost \in BOOLEAN
      /\ joined \in BOOLEAN /\ overtaken \in BOOLEAN /\ held \in Keys \cup {None}
      /\ joined => lost
      /\ reason \in Reasons \cup {None} /\ Stop \in Reasons
  BY StreamAssumption DEF Inv, PartsInv, BufferInv, TypeOK
<1>3. Wrote /\ said' = said
  <2>1. <<>> \in Seq(Sayable) /\ Len(<<>>) \in 0 .. 2
    OBVIOUS
  <2> DEFINE none == <<>>
  <2>2. none = <<>> /\ none \in Seq(Sayable) /\ Len(none) \in 0 .. 2 /\ Write(none)
    BY <1>1, <2>1
  <2> HIDE DEF none, line
  <2>3. QED
    BY <1>2, <2>2, ServerWrites
<1>4. /\ response.finish = None /\ provider' = provider /\ ~ over
      /\ response.outcome = "streaming"
  <2>1. response.finish = None
    BY <1>1, <1>3, NotFinished
  <2>2. QED
    BY <1>3, <2>1 DEF Wrote
<1>5. /\ line.pieces = <<>> /\ line.type # "chunk" /\ DOMAIN line.pieces = {}
  OBVIOUS
<1>6. CASE Dropped(line)
  <2>1. /\ lost' = TRUE /\ held' \in {None, held}
        /\ joined' = joined /\ overtaken' = overtaken /\ parser' = parser /\ response' = response
    <3>1. {line.pieces[i].key : i \in DOMAIN line.pieces} = {}
      BY <1>5
    <3> HIDE DEF line
    <3>2. QED
      BY <1>6, <3>1 DEF Dropped
  <2>2. held' \in Keys \cup {None} /\ over' \in BOOLEAN
    BY <1>1, <1>2, <2>1
  <2>3. QED
    BY <1>1, <1>2, <1>3, <2>1, <2>2, OpenAIDrops
<1>7. CASE Whole(line)
  <2> DEFINE r == IF parser.finish = None THEN Stop ELSE parser.finish
  <2>1. /\ held' = None /\ joined' = joined /\ lost' = (lost \/ Leftover(line))
        /\ parser' = parser
        /\ response' = Collected(response, <<StreamComplete(r)>>)
        /\ overtaken' = (overtaken \/ Overtakes(parser))
    BY <1>1, <1>7 DEF Whole, Parsed, Read, OpenAIParse
  <2>2. ~ Leftover(line)
    BY DEF Leftover
  <2>3. lost' \in BOOLEAN /\ (lost => lost') /\ (lost' => lost)
    BY <1>2, <2>1, <2>2, Zenon
  <2>4. overtaken' \in BOOLEAN /\ (~ overtaken' => ~ overtaken)
    BY <1>2, <2>1, Zenon
  <2>5. /\ DOMAIN parser.slot \subseteq Keys /\ parser \in Parser(DOMAIN parser.slot)
        /\ response \in Response /\ Numbered(parser)
        /\ response.stray \subseteq IF overtaken THEN {"start"} ELSE {}
    BY <1>1, <1>2, ParserType DEF Inv, TypeOK, OpenAIInv, EventsInPlace
  <2>6. r \in Reasons \cup {None} /\ r # None
    BY <1>2, <2>5, StreamAssumption DEF Parser
  <2>7. /\ response' \in Response
        /\ response'.parts = response.parts /\ response'.open = response.open
        /\ response'.outcome = response.outcome /\ response'.finish = r
        /\ response'.stray = response.stray
    <3> DEFINE w == Collect(response, StreamComplete(r))
    <3>1. /\ w \in Response /\ w.parts = response.parts /\ w.open = response.open
          /\ w.outcome = response.outcome /\ w.finish = r
          /\ response.finish = None => w.stray = response.stray
      BY <2>5, <2>6, CompleteType
    <3>2. response' = w
      BY <2>1, CollectedFew
    <3> HIDE DEF w, r
    <3>3. QED
      BY <1>4, <3>1, <3>2
  <2> HIDE DEF r, line
  <2>8. response'.stray \subseteq IF overtaken' THEN {"start"} ELSE {}
    BY <2>4, <2>5, <2>7
  <2>9. ~ overtaken' => Slotted(Placed(parser), response', Source', lines + 1)
    <3>1. ~ overtaken => Slotted(Placed(parser), response, Source', lines + 1)
      BY <1>1, <1>3, <2>1, SlottedOn DEF Inv, OpenAIInv
    <3>2. QED
      BY <2>4, <2>7, <3>1 DEF Slotted
  <2>10. ~ overtaken' /\ ~ lost' => SameStarted(parser, response', said')
    <3>1. ~ overtaken' /\ ~ lost' => SameStarted(parser, response, said)
      BY <1>1, <1>4, <2>3, <2>4 DEF Inv, OpenAIInv
    <3>2. QED
      BY <1>3, <2>7, <3>1 DEF SameStarted
  <2>11. OpenInv'
    BY <1>1, <1>4, <2>1, <2>7 DEF Inv, OpenInv, OpenKeys
  <2>12. FinishInv'
    <3>1. ~ lost' => parser.finish = reason
      BY <1>1, <2>3 DEF Inv, FinishInv
    <3>2. parser.finish # None => reason # None
      BY <1>1 DEF Inv, FinishInv
    <3>3. QED
      BY <1>1, <1>4, <2>1, <2>7, <3>1, <3>2 DEF FinishInv, r
  <2>13. joined' \in BOOLEAN /\ (joined' => lost') /\ held' \in Keys \cup {None} /\ over' \in BOOLEAN
    BY <1>1, <1>2, <2>1, <2>3
  <2>14. QED
    BY <1>1, <1>2, <1>3, <2>1, <2>3, <2>4, <2>5, <2>7, <2>8, <2>9, <2>10, <2>11, <2>12, <2>13, OpenAIKeeps
<1>8. ~ HeadAndTail(line)
  BY <1>5 DEF HeadAndTail
<1>9. QED
  BY <1>1, <1>6, <1>7, <1>8 DEF BytesArrive

----------------------------------------------------------------------------
(* Anthropic *)

LEMMA AnthropicNow ==
  ASSUME Inv, Wrote, provider = "anthropic"
  PROVE  /\ Live(parser, response) /\ Slotted(parser, response, said', lines)
         /\ Same(parser, response, said)
         /\ ~ lost /\ parser.finish = reason
         /\ \A k \in DOMAIN parser.slot : k \in Mentioned /\ IndexOf(k) = parser.slot[k]
         /\ \A k \in Keys \ Mentioned : k \notin DOMAIN parser.slot /\ IndexOf(k) = Len(response.parts)
<1>1. response.outcome = "streaming" /\ provider' = provider
  BY DEF Wrote
<1>2. ~ lost /\ parser.finish = reason
  BY <1>1 DEF Inv, FinishInv
<1>3. OpenKeys(parser) = parser.started
  BY DEF OpenKeys
<1>4. Live(parser, response) /\ Slotted(parser, response, said', lines)
  BY <1>3, NowLive DEF ByIndex, Bytewise
<1>5. Same(parser, response, said)
  BY <1>1, <1>2 DEF Inv, PartsInv, ByIndex
<1>6. said \in Seq(SaidPart) /\ DOMAIN said = 1 .. Len(said) /\ Len(said) \in Nat
  BY DEF Inv, TypeOK
<1>7. /\ \A k \in Keys : k \in DOMAIN parser.slot <=> \E j \in DOMAIN said : said[j].key = k
      /\ \A j \in DOMAIN said : parser.slot[said[j].key] = j - 1
      /\ Len(response.parts) = Len(said)
  BY <1>5, <1>6, BareParts DEF Same
<1>8. ASSUME NEW k \in DOMAIN parser.slot
      PROVE  k \in Mentioned /\ IndexOf(k) = parser.slot[k]
  <2> DEFINE c == CHOOSE j \in DOMAIN said : said[j].key = k
  <2>1. k \in Keys
    BY <1>4 DEF Live
  <2>2. \E j \in DOMAIN said : said[j].key = k
    BY <1>7, <2>1
  <2>3. c \in DOMAIN said /\ said[c].key = k
    BY <2>2
  <2>4. IndexOf(k) = c - 1
    BY <2>2 DEF IndexOf
  <2> HIDE DEF c
  <2>5. parser.slot[k] = c - 1
    BY <1>7, <2>3
  <2>6. k \in Mentioned
    BY <2>2 DEF Mentioned
  <2>7. QED
    BY <2>4, <2>5, <2>6
<1>9. ASSUME NEW k \in Keys \ Mentioned
      PROVE  k \notin DOMAIN parser.slot /\ IndexOf(k) = Len(response.parts)
  <2>1. ~ \E j \in DOMAIN said : said[j].key = k
    BY DEF Mentioned
  <2>2. QED
    BY <1>7, <2>1 DEF IndexOf
<1>10. QED
  BY <1>2, <1>4, <1>5, <1>8, <1>9

LEMMA AnthropicKept ==
  ASSUME Inv, Wrote, provider = "anthropic", UNCHANGED buffer, whole' = whole, over' = over, lost' = lost,
         reason' \in Reasons \cup {None}, parser'.finish = reason',
         Live(parser', response'), Slotted(parser', response', said', lines + 1),
         Same(parser', response', said'), response'.outcome = "streaming"
  PROVE  Inv'
<1>1. /\ DOMAIN parser'.slot \subseteq Keys /\ parser' \in Parser(DOMAIN parser'.slot)
      /\ response' \in Response
      /\ response'.open = {parser'.slot[k] : k \in parser'.started}
      /\ response'.finish = None /\ response'.stray = {}
  BY DEF Live
<1>2. /\ provider' = provider /\ lost \in BOOLEAN /\ over \in BOOLEAN /\ ~ lost
  BY AnthropicNow DEF Inv, TypeOK, Wrote
<1>b. provider \notin Bytewise /\ ~ overtaken'
  BY NoBuffer DEF buffer, Bytewise
<1>3. OpenInv'
  BY <1>1, <1>2 DEF OpenInv, OpenKeys
<1>4. FinishInv'
  BY <1>1, <1>2 DEF FinishInv
<1>5. CohereInv' /\ EventsInPlace'
  BY <1>1, <1>2, <1>b DEF CohereInv, EventsInPlace
<1>6. QED
  BY <1>1, <1>2, <1>b, <1>3, <1>4, <1>5, Kept

LEMMA AnthropicFails ==
  ASSUME Inv, Wrote, provider = "anthropic", UNCHANGED buffer, whole' = whole, lost' = lost, parser' = parser,
         reason' \in Reasons \cup {None}, over' \in BOOLEAN,
         response' = Failed(response)
  PROVE  Inv'
<1>1. /\ Live(parser, response) /\ Slotted(parser, response, said', lines)
      /\ ~ lost /\ parser.finish = reason
  BY AnthropicNow
<1>2. /\ DOMAIN parser.slot \subseteq Keys /\ parser \in Parser(DOMAIN parser.slot)
      /\ response \in Response
      /\ response.open = {parser.slot[k] : k \in parser.started}
      /\ response.finish = None /\ response.stray = {}
  BY <1>1 DEF Live
<1>3. /\ response' \in Response /\ response'.parts = response.parts
      /\ response'.open = response.open /\ response'.finish = None
      /\ response'.stray = {} /\ response'.outcome = "failed"
  BY <1>2 DEF Failed, Response
<1>4. provider' = provider /\ lines \in Nat /\ lost' \in BOOLEAN
  BY DEF Wrote, Inv, TypeOK
<1>b. provider \notin Bytewise /\ ~ overtaken'
  BY NoBuffer DEF buffer, Bytewise
<1>5. Slotted(parser', response', said', lines + 1)
  <2>1. Grown(said', said') /\ lines + 1 \in Nat /\ lines <= lines + 1
    BY <1>4 DEF Grown
  <2>2. Slotted(parser, response, said', lines + 1)
    BY <1>1, <1>4, <2>1, SlottedStill
  <2>3. QED
    BY <1>3, <2>2 DEF Slotted
<1>6. OpenInv'
  BY <1>2, <1>3, <1>4 DEF OpenInv, OpenKeys
<1>7. FinishInv'
  BY <1>1, <1>3, <1>4 DEF FinishInv
<1>8. CohereInv' /\ EventsInPlace'
  BY <1>3, <1>4, <1>b DEF CohereInv, EventsInPlace
<1>9. QED
  BY <1>2, <1>3, <1>4, <1>b, <1>5, <1>6, <1>7, <1>8, Kept

LEMMA AnthropicBlockKept ==
  ASSUME Inv, AnthropicBlockArrives
  PROVE  Inv'
<1>1. PICK line \in BlockLines :
        /\ line.type # "block_start" => BlockOpen(IF line.type = "block_stop" THEN line.key
                                                  ELSE Head(line.pieces).key)
        /\ Write(line.pieces)
        /\ Arrives(AnthropicParse(line))
  BY DEF AnthropicBlockArrives
<1>2. /\ provider = "anthropic" /\ reason = None
      /\ reason' = reason /\ over' = over /\ whole' = whole
  BY DEF AnthropicBlockArrives
<1>b. UNCHANGED buffer /\ provider \notin Bytewise
  BY <1>1, <1>2 DEF Arrives, Bytewise
<1>3. /\ TypeOK /\ Keyed(said) /\ lines \in Nat /\ lost \in BOOLEAN /\ over \in BOOLEAN
      /\ reason \in Reasons \cup {None}
  BY DEF Inv, PartsInv, TypeOK
<1> DEFINE pieces == line.pieces
           piece == Head(pieces)
<1>4. \/ /\ line.type = "block_start"
         /\ pieces = <<piece>> /\ piece.key \in Keys \ Mentioned /\ piece.content = <<>>
         /\ piece \in Sayable
      \/ /\ line.type = "block_delta"
         /\ pieces = <<piece>> /\ piece.key \in Mentioned /\ piece.content = <<lines + 1>>
         /\ piece \in Sayable
      \/ /\ line.type = "block_stop" /\ pieces = <<>>
  <2>1. Mentioned \subseteq Keys
    <3>1. said \in Seq(SaidPart)
      BY <1>3 DEF TypeOK
    <3>2. \A i \in DOMAIN said : said[i] \in SaidPart
      BY <3>1
    <3>3. \A i \in DOMAIN said : said[i].key \in Keys
      BY <3>2 DEF SaidPart
    <3>4. QED
      BY <3>3 DEF Mentioned
  <2>2. CASE line \in {[type |-> "block_start", pieces |-> One(k, <<>>)] : k \in Keys \ Mentioned}
    <3>1. PICK k \in Keys \ Mentioned : line = [type |-> "block_start", pieces |-> One(k, <<>>)]
      BY <2>2
    <3>2. pieces = <<[key |-> k, content |-> <<>>]>> /\ line.type = "block_start"
      BY <3>1 DEF One
    <3>3. piece = [key |-> k, content |-> <<>>]
      BY <3>2
    <3>4. piece \in Sayable
      BY <3>3 DEF Sayable
    <3>5. QED
      BY <3>2, <3>3, <3>4
  <2>3. CASE line \in {[type |-> "block_delta", pieces |-> One(k, <<lines + 1>>)] : k \in Mentioned}
    <3>1. PICK k \in Mentioned : line = [type |-> "block_delta", pieces |-> One(k, <<lines + 1>>)]
      BY <2>3
    <3>2. pieces = <<[key |-> k, content |-> <<lines + 1>>]>> /\ line.type = "block_delta"
      BY <3>1 DEF One
    <3>3. piece = [key |-> k, content |-> <<lines + 1>>]
      BY <3>2
    <3>4. piece \in Sayable
      BY <2>1, <3>1, <3>3 DEF Sayable
    <3>5. QED
      BY <3>2, <3>3, <3>4
  <2>4. CASE line \in {[type |-> "block_stop", pieces |-> <<>>, key |-> k] : k \in Mentioned}
    BY <2>4
  <2>5. QED
    BY <2>2, <2>3, <2>4 DEF BlockLines
<1>5. pieces \in Seq(Sayable) /\ Len(pieces) \in 0 .. 2 /\ (pieces = <<piece>> => Len(pieces) = 1)
  <2> HIDE DEF piece
  <2>1. CASE pieces = <<piece>> /\ piece \in Sayable
    BY <2>1
  <2>2. CASE pieces = <<>>
    BY <2>2
  <2>3. QED
    BY <1>4, <2>1, <2>2
<1>6. /\ Wrote
      /\ pieces = <<>> => said' = said
      /\ Len(pieces) = 1 => said' = Says(said, Head(pieces))
      /\ pieces # <<>> => Brought(said', Head(pieces), lines)
  BY <1>1, <1>3, <1>5, ServerWrites
<1>7. /\ Live(parser, response) /\ Slotted(parser, response, said', lines)
      /\ Same(parser, response, said)
      /\ ~ lost /\ parser.finish = reason
      /\ \A k \in DOMAIN parser.slot : k \in Mentioned /\ IndexOf(k) = parser.slot[k]
      /\ \A k \in Keys \ Mentioned : k \notin DOMAIN parser.slot /\ IndexOf(k) = Len(response.parts)
  BY <1>2, <1>6, AnthropicNow
<1>8. parser \in Parser(DOMAIN parser.slot) /\ response.outcome = "streaming" /\ response \in Response
  BY <1>6, <1>7 DEF Live, Wrote
<1>9. CASE response' = Failed(response) /\ UNCHANGED <<parser, lost>>
  BY <1>b, <1>2, <1>3, <1>6, <1>9, AnthropicFails
<1>10. CASE /\ parser' = AnthropicParse(line).parser
            /\ response' = Collected(response, AnthropicParse(line).events)
            /\ lost' = lost
  <2>1. lost' = lost
    BY <1>3, <1>10, Zenon
  <2>2. SUFFICES /\ parser'.finish = parser.finish
                 /\ Live(parser', response') /\ Slotted(parser', response', said', lines + 1)
                 /\ Same(parser', response', said') /\ response'.outcome = "streaming"
    BY <1>b, <1>2, <1>3, <1>6, <1>7, <2>1, AnthropicKept
  <2>3. CASE line.type = "block_start"
    <3> DEFINE k == piece.key
               i == Len(response.parts)
               w == Collect(response, PartStart(i, piece))
               q == Begun(parser, k, i)
               slot == Assigned(parser.slot, k, i)
               begun == parser.started \cup {k}
    <3>1. /\ k \notin DOMAIN parser.slot /\ IndexOf(k) = i
          /\ said' = Says(said, piece) /\ Brought(said', piece, lines)
      BY <1>4, <1>5, <1>6, <1>7, <2>3
    <3>2. Took(said', q, w, piece)
      BY <1>6, <1>7, <3>1, PieceStarts
    <3>3. AnthropicParse(line) = [parser |-> [parser EXCEPT !.slot = slot, !.started = begun],
                                  events |-> <<PartStart(i, piece)>>]
      BY <2>3, <3>1 DEF AnthropicParse
    <3>4. q = [slot |-> slot, started |-> begun, finish |-> parser.finish, body |-> parser.body]
      BY DEF Begun
    <3> HIDE DEF w, q, slot, begun
    <3>5. [parser EXCEPT !.slot = slot, !.started = begun] = q
      <4> DEFINE next == [parser EXCEPT !.slot = slot, !.started = begun]
      <4>1. parser \in [slot : {parser.slot}, started : {parser.started},
                        finish : {parser.finish}, body : {parser.body}]
        BY <1>8 DEF Parser
      <4>2. next \in [slot : {slot}, started : {begun},
                      finish : {parser.finish}, body : {parser.body}]
        BY <4>1
      <4> HIDE DEF next
      <4>3. next = [slot |-> slot, started |-> begun,
                    finish |-> parser.finish, body |-> parser.body]
        BY <4>2
      <4>4. QED
        BY <3>4, <4>3 DEF next
    <3>6. parser' = q /\ response' = Collected(response, <<PartStart(i, piece)>>)
      BY <1>10, <3>3, <3>5
    <3>7. response' = w
      BY <3>6, CollectedFew DEF w
    <3>8. q.finish = parser.finish
      BY <3>4
    <3>9. QED
      BY <1>7, <3>1, <3>2, <3>6, <3>7, <3>8 DEF Took
  <2>4. CASE line.type = "block_delta"
    <3> DEFINE k == piece.key
               i == parser.slot[k]
               w == Collect(response, PartDelta(i, piece))
    <3>1. /\ k \in parser.started /\ piece.content = <<lines + 1>>
          /\ said' = Says(said, piece) /\ Brought(said', piece, lines)
      BY <1>1, <1>4, <1>5, <1>6, <2>4 DEF BlockOpen
    <3>2. IndexOf(k) = i
      BY <1>7, <1>8, <3>1 DEF Parser
    <3>3. Took(said', parser, w, piece)
      <4> DEFINE s == said'
      <4>1. /\ Keyed(s) /\ Live(parser, response) /\ Slotted(parser, response, s, lines)
            /\ Brought(s, piece, lines)
        BY <1>6, <1>7, <3>1 DEF Wrote
      <4> HIDE DEF s
      <4>2. Took(s, parser, w, piece)
        BY <1>6, <3>1, <4>1, PieceGoesOn
      <4>3. QED
        BY <4>2 DEF s
    <3>4. AnthropicParse(line) = [parser |-> parser, events |-> <<PartDelta(i, piece)>>]
      BY <2>4, <3>1, <3>2 DEF AnthropicParse, BlockOpen
    <3> HIDE DEF w
    <3>5. parser' = parser /\ response' = Collected(response, <<PartDelta(i, piece)>>)
      BY <1>10, <3>4
    <3>6. response' = w
      BY <3>5, CollectedFew DEF w
    <3>7. QED
      BY <1>7, <3>1, <3>3, <3>5, <3>6 DEF Took
  <2>5. CASE line.type = "block_stop"
    <3> DEFINE k == line.key
               i == parser.slot[k]
               w == Collect(response, PartEnd(i))
               rest == parser.started \ {k}
    <3>1. k \in parser.started /\ said' = said
      BY <1>1, <1>4, <1>6, <2>5 DEF BlockOpen
    <3>2. k \in DOMAIN parser.slot /\ i \in Nat
      BY <1>8, <3>1 DEF Parser
    <3>3. IndexOf(k) = i
      BY <1>7, <3>2
    <3>4. AnthropicParse(line) = [parser |-> [parser EXCEPT !.started = rest],
                                  events |-> <<PartEnd(i)>>]
      BY <2>5, <3>3 DEF AnthropicParse
    <3> HIDE DEF w, i
    <3>5. parser' = [parser EXCEPT !.started = rest] /\ response' = w
      <4> DEFINE e == PartEnd(i)
      <4>1. AnthropicParse(line) = [parser |-> [parser EXCEPT !.started = rest], events |-> <<e>>]
        BY <3>4
      <4> HIDE DEF e, rest
      <4>2. parser' = [parser EXCEPT !.started = rest] /\ response' = Collected(response, <<e>>)
        BY <1>10, <4>1
      <4>3. response' = Collect(response, e)
        BY <4>2, CollectedFew
      <4>4. QED
        BY <4>2, <4>3 DEF w, e
    <3>6. /\ parser'.slot = parser.slot /\ parser'.started = rest
          /\ parser'.finish = parser.finish /\ parser' \in Parser(DOMAIN parser.slot)
      BY <1>8, <3>5 DEF Parser
    <3>7. /\ DOMAIN parser.slot \subseteq Keys
          /\ response.open = {parser.slot[x] : x \in parser.started}
          /\ response.finish = None /\ response.stray = {}
          /\ i \in response.open
      BY <1>7, <3>1 DEF Live, i
    <3>8. /\ w \in Response
          /\ w.parts = response.parts
          /\ w.open = response.open \ {i}
          /\ w.finish = None /\ w.outcome = response.outcome /\ w.stray = {}
      <4>1. /\ w \in Response
            /\ w.parts = response.parts
            /\ w.open = response.open \ {i}
            /\ w.finish = response.finish /\ w.outcome = response.outcome
            /\ w.stray = IF response.finish = None /\ i \in response.open THEN response.stray
                         ELSE response.stray \cup {"end"}
        BY <1>8, <3>2, EndType DEF w
      <4>2. QED
        BY <3>7, <4>1
    <3>9. w.open = {parser.slot[x] : x \in rest}
      <4>1. \A x \in parser.started : parser.slot[x] = i => x = k
        BY <1>7, <1>8, <3>2 DEF Slotted, Parser, i
      <4>2. QED
        BY <3>1, <3>7, <3>8, <4>1 DEF i
    <3>10. Live(parser', response')
      BY <3>5, <3>6, <3>7, <3>8, <3>9 DEF Live
    <3>11. Slotted(parser', response', said', lines + 1)
      <4>1. Grown(said', said') /\ lines + 1 \in Nat /\ lines <= lines + 1
        BY <1>3 DEF Grown
      <4>2. Slotted(parser, response, said', lines + 1)
        BY <1>3, <1>7, <4>1, SlottedStill
      <4>3. QED
        BY <3>5, <3>6, <3>8, <4>2 DEF Slotted
    <3>12. Same(parser', response', said')
      BY <1>7, <3>1, <3>5, <3>6, <3>8 DEF Same
    <3>13. QED
      BY <1>8, <3>5, <3>6, <3>8, <3>10, <3>11, <3>12
  <2>6. QED
    BY <1>4, <2>3, <2>4, <2>5
<1>11. QED
  BY <1>1, <1>2, <1>9, <1>10 DEF Arrives

LEMMA AnthropicDeltaKept ==
  ASSUME Inv, AnthropicMessageDelta
  PROVE  Inv'
<1>1. /\ provider = "anthropic" /\ reason = None /\ over' = over /\ whole' = whole
      /\ TypeOK /\ Keyed(said) /\ lines \in Nat /\ lost \in BOOLEAN /\ over \in BOOLEAN
  BY DEF AnthropicMessageDelta, Inv, PartsInv, TypeOK
<1>2. PICK r \in Reasons :
        /\ Write(<<>>)
        /\ reason' = r
        /\ Arrives(AnthropicParse([type |-> "message_delta", finish |-> r]))
  BY DEF AnthropicMessageDelta
<1>b. UNCHANGED buffer /\ provider \notin Bytewise
  BY <1>1, <1>2 DEF Arrives, Bytewise
<1>3. Wrote /\ said' = said
  <2>1. <<>> \in Seq(Sayable) /\ Len(<<>>) \in 0 .. 2
    OBVIOUS
  <2>2. QED
    BY <1>1, <1>2, <2>1, ServerWrites
<1>4. /\ Live(parser, response) /\ Slotted(parser, response, said', lines)
      /\ Same(parser, response, said)
      /\ ~ lost /\ parser.finish = reason
  BY <1>1, <1>3, AnthropicNow
<1> DEFINE parsed == AnthropicParse([type |-> "message_delta", finish |-> r])
<1>5. parsed = [parser |-> [parser EXCEPT !.finish = r], events |-> <<>>]
  BY DEF AnthropicParse
<1>6. reason' \in Reasons \cup {None}
  BY <1>2
<1>7. CASE response' = Failed(response) /\ UNCHANGED <<parser, lost>>
  BY <1>1, <1>b, <1>3, <1>6, <1>7, AnthropicFails
<1>8. CASE /\ parser' = parsed.parser
           /\ response' = Collected(response, parsed.events)
           /\ lost' = lost
  <2>1. lost' = lost
    BY <1>1, <1>8, Zenon
  <2>2. parser' = [parser EXCEPT !.finish = r] /\ response' = response
    BY <1>5, <1>8, CollectedFew
  <2>3. /\ parser \in Parser(DOMAIN parser.slot) /\ DOMAIN parser.slot \subseteq Keys
        /\ response \in Response /\ response.open = {parser.slot[k] : k \in parser.started}
        /\ response.finish = None /\ response.stray = {}
    BY <1>4 DEF Live
  <2>4. /\ parser'.slot = parser.slot /\ parser'.started = parser.started
        /\ parser'.finish = reason' /\ parser' \in Parser(DOMAIN parser.slot)
    BY <1>2, <2>2, <2>3 DEF Parser
  <2>5. Live(parser', response')
    BY <2>2, <2>3, <2>4 DEF Live
  <2>6. Slotted(parser', response', said', lines + 1)
    <3>1. Grown(said', said') /\ lines + 1 \in Nat /\ lines <= lines + 1
      BY <1>1 DEF Grown
    <3>2. Slotted(parser, response, said', lines + 1)
      BY <1>1, <1>4, <3>1, SlottedStill
    <3>3. QED
      BY <2>2, <2>4, <3>2 DEF Slotted
  <2>7. Same(parser', response', said')
    BY <1>3, <1>4, <2>2, <2>4 DEF Same
  <2>8. response'.outcome = "streaming"
    BY <1>3, <2>2 DEF Wrote
  <2>9. QED
    BY <1>1, <1>b, <1>3, <1>6, <2>1, <2>4, <2>5, <2>6, <2>7, <2>8, AnthropicKept
<1>9. QED
  BY <1>1, <1>2, <1>7, <1>8 DEF Arrives

LEMMA AnthropicStopKept ==
  ASSUME Inv, AnthropicMessageStop
  PROVE  Inv'
<1> DEFINE reported == IF parser.finish = None THEN Stop ELSE parser.finish
           parsed == AnthropicParse([type |-> "message_stop"])
<1>1. /\ provider = "anthropic" /\ over' = TRUE /\ reason' = reason /\ whole' = whole
      /\ Write(<<>>)
      /\ TypeOK /\ Keyed(said) /\ lines \in Nat /\ lost \in BOOLEAN
      /\ reason \in Reasons \cup {None} /\ over' \in BOOLEAN
  BY DEF AnthropicMessageStop, Inv, PartsInv, TypeOK
<1>b. UNCHANGED buffer /\ provider \notin Bytewise
  BY <1>1 DEF AnthropicMessageStop, Arrives, Bytewise
<1>2. Wrote /\ said' = said
  <2>1. <<>> \in Seq(Sayable) /\ Len(<<>>) \in 0 .. 2
    OBVIOUS
  <2>2. QED
    BY <1>1, <2>1, ServerWrites
<1>3. /\ Live(parser, response) /\ Slotted(parser, response, said', lines)
      /\ Same(parser, response, said)
      /\ ~ lost /\ parser.finish = reason
  BY <1>1, <1>2, AnthropicNow
<1>4. CASE response' = Failed(response) /\ UNCHANGED <<parser, lost>>
  BY <1>1, <1>b, <1>2, <1>4, AnthropicFails
<1>5. CASE /\ parser.started = {}
           /\ parser' = parsed.parser
           /\ response' = Collected(response, parsed.events)
           /\ lost' = lost
  <2>1. lost' = lost /\ lost' \in BOOLEAN
    BY <1>1, <1>5, Zenon
  <2>2. parsed = [parser |-> parser, events |-> <<StreamComplete(reported)>>]
    BY DEF AnthropicParse
  <2> HIDE DEF reported
  <2>3. parser' = parser /\ response' = Collect(response, StreamComplete(reported))
    BY <1>5, <2>2, CollectedFew
  <2>4. /\ parser \in Parser(DOMAIN parser.slot) /\ DOMAIN parser.slot \subseteq Keys
        /\ response \in Response /\ response.open = {parser.slot[k] : k \in parser.started}
        /\ response.finish = None /\ response.stray = {}
    BY <1>3 DEF Live
  <2>5. reported \in Reasons \cup {None} /\ reported # None
    <3>1. parser.finish \in Reasons \cup {None}
      BY <2>4 DEF Parser
    <3>2. QED
      BY <3>1, StreamAssumption DEF reported
  <2>6. /\ response' \in Response
        /\ response'.parts = response.parts /\ response'.open = {}
        /\ response'.outcome = "streaming" /\ response'.finish = reported
        /\ response'.stray = {}
    <3> DEFINE w == Collect(response, StreamComplete(reported))
    <3> HIDE DEF w
    <3>1. /\ w \in Response
          /\ w.parts = response.parts /\ w.open = response.open /\ w.outcome = response.outcome
          /\ w.finish = reported
          /\ response.finish = None => w.stray = response.stray
      BY <2>4, <2>5, CompleteType DEF w
    <3>2. response.open = {} /\ response.outcome = "streaming"
      BY <1>2, <1>5, <2>4 DEF Wrote
    <3>3. QED
      BY <2>3, <2>4, <3>1, <3>2 DEF w
  <2>7. Slotted(parser', response', said', lines + 1)
    <3>1. Grown(said', said') /\ lines + 1 \in Nat /\ lines <= lines + 1
      BY <1>1 DEF Grown
    <3>2. Slotted(parser, response, said', lines + 1)
      BY <1>1, <1>3, <3>1, SlottedStill
    <3>3. QED
      BY <2>3, <2>6, <3>2 DEF Slotted
  <2>8. Same(parser', response', said')
    BY <1>2, <1>3, <2>3, <2>6 DEF Same
  <2>9. provider' = provider
    BY <1>2 DEF Wrote
  <2>10. OpenInv'
    BY <1>1, <2>5, <2>6, <2>9 DEF OpenInv
  <2>11. FinishInv'
    BY <1>1, <1>3, <2>1, <2>3, <2>5, <2>6, <2>9 DEF FinishInv, reported
  <2>12. CohereInv' /\ EventsInPlace'
    BY <1>1, <2>6, <2>9 DEF CohereInv, EventsInPlace
  <2>13. QED
    BY <1>1, <1>b, <1>2, <2>1, <2>3, <2>4, <2>6, <2>7, <2>8, <2>10, <2>11, <2>12, Kept
<1>6. QED
  <2>1. IF parser.started # {}
        THEN response' = Failed(response) /\ UNCHANGED <<parser, lost, buffer>>
        ELSE Arrives(parsed)
    BY DEF AnthropicMessageStop
  <2> HIDE DEF parsed
  <2>2. CASE parser.started # {}
    BY <1>4, <2>1, <2>2
  <2>3. CASE parser.started = {}
    BY <1>1, <1>4, <1>5, <2>1, <2>3 DEF Arrives
  <2>4. QED
    BY <2>2, <2>3

----------------------------------------------------------------------------
(* Hugging Face *)

LEMMA CollectedTwo ==
  ASSUME NEW r, NEW a, NEW b
  PROVE  Collected(r, <<a, b>>) = Collect(Collect(r, a), b)
<1>1. Len(<<a, b>>) = 2 /\ <<a, b>>[1] = a /\ <<a, b>>[2] = b
  OBVIOUS
<1>2. PICK f : Collecting(r, <<a, b>>, f)
  BY <1>1, CollectedUnfolds
<1>3. \A n \in 1 .. 2 : f[n] = Collect(f[n - 1], <<a, b>>[n])
  BY <1>1, <1>2 DEF Collecting
<1>4. f[1] = Collect(r, a) /\ f[2] = Collect(f[1], b)
  BY <1>1, <1>2, <1>3 DEF Collecting
<1>5. QED
  BY <1>1, <1>2, <1>4 DEF Collecting

LEMMA CollectedThree ==
  ASSUME NEW r, NEW a, NEW b, NEW c
  PROVE  Collected(r, <<a, b, c>>) = Collect(Collect(Collect(r, a), b), c)
<1>1. Len(<<a, b, c>>) = 3 /\ <<a, b, c>>[1] = a /\ <<a, b, c>>[2] = b /\ <<a, b, c>>[3] = c
  OBVIOUS
<1>2. PICK f : Collecting(r, <<a, b, c>>, f)
  BY <1>1, CollectedUnfolds
<1>3. \A n \in 1 .. 3 : f[n] = Collect(f[n - 1], <<a, b, c>>[n])
  BY <1>1, <1>2 DEF Collecting
<1>4. f[1] = Collect(r, a) /\ f[2] = Collect(f[1], b) /\ f[3] = Collect(f[2], c)
  BY <1>1, <1>2, <1>3 DEF Collecting
<1>5. QED
  BY <1>1, <1>2, <1>4 DEF Collecting

LEMMA HuggingFaceKept ==
  ASSUME Inv, HuggingFaceTokenArrives
  PROVE  Inv'
<1>1. PICK f \in Reasons \cup {None} :
        /\ Write(One("text", <<lines + 1>>))
        /\ reason' = f
        /\ over' = (f # None)
        /\ Arrives(HuggingFaceParse([pieces |-> One("text", <<lines + 1>>), finish |-> f]))
  BY DEF HuggingFaceTokenArrives
<1>2. /\ provider = "huggingface" /\ whole' = whole
      /\ TypeOK /\ Keyed(said) /\ lines \in Nat /\ lost \in BOOLEAN /\ over' \in BOOLEAN
      /\ reason' \in Reasons \cup {None} /\ response \in Response
  BY <1>1 DEF HuggingFaceTokenArrives, Inv, PartsInv, TypeOK
<1>b. UNCHANGED buffer /\ provider \notin Bytewise
  BY <1>1, <1>2 DEF Arrives, Bytewise
<1> DEFINE piece == [key |-> "text", content |-> <<lines + 1>>]
           pieces == One("text", <<lines + 1>>)
<1>3. pieces = <<piece>> /\ piece \in Sayable /\ Head(pieces) = piece
  BY DEF One, Sayable, Keys
<1>4. pieces \in Seq(Sayable) /\ Len(pieces) \in 0 .. 2
  <2> HIDE DEF piece, pieces
  <2>1. QED
    BY <1>3
<1> HIDE DEF pieces
<1>5. Wrote
  BY <1>1, <1>2, <1>4, ServerWrites DEF pieces
<1>6. /\ response.finish = None /\ parser.finish = None /\ provider' = provider /\ ~ over
      /\ reason' \in Reasons \cup {None}
      /\ response.parts = <<>> /\ parser.started = DOMAIN parser.slot
      /\ Slotted(parser, response, said, lines)
  BY <1>b, <1>2, <1>5, NotFinished, NoBuffer DEF Inv, FinishInv, OpenInv, PartsInv, Wrote
<1>7. parser \in Parser(DOMAIN parser.slot) /\ DOMAIN parser.slot \subseteq Keys
  BY <1>2, ParserType
<1>8. parser.started = {}
  BY <1>6 DEF Slotted
<1>9. response.open = {}
  <2>1. response.open = {parser.slot[k] : k \in OpenKeys(parser)}
    BY <1>6 DEF Inv, OpenInv
  <2>2. OpenKeys(parser) = {}
    BY <1>8 DEF OpenKeys
  <2>3. QED
    BY <2>1, <2>2
<1>10. CASE lost' = TRUE /\ UNCHANGED <<parser, response>>
  BY <1>b, <1>2, <1>5, <1>10, NothingArrives
<1> DEFINE parsed == HuggingFaceParse([pieces |-> pieces, finish |-> f])
           u == Collect(response, PartDelta(0, piece))
           v == Collect(u, PartEnd(0))
           w == Collect(v, StreamComplete(f))
<1>11. parsed = [parser |-> parser,
                 events |-> IF f = None THEN <<PartDelta(0, piece)>>
                            ELSE <<PartDelta(0, piece), PartEnd(0), StreamComplete(f)>>]
  BY <1>3 DEF HuggingFaceParse
<1>12. CASE /\ parser' = parsed.parser
            /\ response' = Collected(response, parsed.events)
            /\ lost' = lost
  <2>1. lost' = lost /\ lost' \in BOOLEAN
    BY <1>2, <1>12, Zenon
  <2>2. parser' = parser /\ response' = IF f = None THEN u ELSE w
    <3>1. CASE f = None
      <4>1. parsed = [parser |-> parser, events |-> <<PartDelta(0, piece)>>]
        BY <1>11, <3>1
      <4> HIDE DEF parsed
      <4>2. parser' = parser /\ response' = Collected(response, <<PartDelta(0, piece)>>)
        BY <1>12, <4>1
      <4>3. QED
        BY <3>1, <4>2, CollectedFew
    <3>2. CASE f # None
      BY <1>11, <1>12, <3>2, CollectedThree
    <3>3. QED
      BY <3>1, <3>2
  <2>3. u \in Response /\ u.parts = <<>> /\ u.open = {} /\ u.finish = None
    <3>1. Fits(response, 0, piece)
      BY <1>6 DEF Fits
    <3>2. piece \in [key : Keys, content : Seq(Nat)]
      <4>1. <<lines + 1>> \in Seq(Nat)
        BY <1>2
      <4>2. QED
        BY <4>1 DEF Keys
    <3>3. Goes(response, 0, piece, u)
      <4> HIDE DEF piece
      <4>1. QED
        BY <1>2, <3>1, <3>2, DeltaType
    <3> HIDE DEF u, piece
    <3>4. u \in Response /\ Len(u.parts) = 0 /\ u.open = {} /\ u.finish = None
      BY <1>6, <1>9, <3>3 DEF Goes
    <3>5. u.parts \in Seq(Part)
      BY <3>4 DEF Response
    <3>6. QED
      BY <3>4, <3>5
  <2> HIDE DEF u
  <2>4. v \in Response /\ v.parts = <<>> /\ v.open = {} /\ v.finish = None
    BY <2>3, EndType
  <2> HIDE DEF v
  <2>5. w \in Response /\ w.parts = <<>> /\ w.open = {} /\ w.finish = f
    BY <2>4, CompleteType
  <2> HIDE DEF w
  <2>6. response' \in Response /\ response'.parts = <<>> /\ response'.open = {}
        /\ response'.finish = f
    BY <2>2, <2>3, <2>5
  <2>7. Slotted(parser', response', said', lines + 1)
    <3>1. Grown(said, said') /\ lines + 1 \in Nat /\ lines <= lines + 1
      BY <1>2, <1>5 DEF Wrote
    <3>2. Slotted(parser, response, said', lines + 1)
      BY <1>2, <1>6, <3>1, SlottedStill
    <3>3. QED
      BY <1>6, <2>2, <2>6, <3>2 DEF Slotted
  <2>8. OpenInv'
    <3>1. OpenKeys(parser)' = {}
      BY <1>8, <2>2 DEF OpenKeys
    <3>2. QED
      BY <1>2, <1>6, <2>2, <2>6, <3>1 DEF OpenInv
  <2>9. FinishInv'
    BY <1>1, <1>2, <1>6, <2>1, <2>2, <2>6 DEF FinishInv
  <2>10. CohereInv' /\ EventsInPlace'
    BY <1>2, <1>6 DEF CohereInv, EventsInPlace
  <2>11. provider # "chatgpt" /\ provider \notin ByIndex
    BY <1>2 DEF ByIndex
  <2>12. QED
    BY <1>b, <1>2, <1>5, <1>7, <2>1, <2>2, <2>6, <2>7, <2>8, <2>9, <2>10, <2>11, Kept
<1>13. QED
  BY <1>1, <1>2, <1>10, <1>12 DEF Arrives, pieces

----------------------------------------------------------------------------
(* Cohere *)

LEMMA TailJoined ==
  ASSUME NEW S, NEW a \in Seq(S), a # <<>>, NEW b \in Seq(S)
  PROVE  a \o b # <<>> /\ Tail(a \o b) = Tail(a) \o b
<1> DEFINE c == a \o b
           d == Tail(a) \o b
<1>1. /\ Len(a) \in Nat \ {0} /\ Len(b) \in Nat
      /\ Tail(a) \in Seq(S) /\ Len(Tail(a)) = Len(a) - 1
      /\ \A n \in 1 .. Len(a) - 1 : Tail(a)[n] = a[n + 1]
  OBVIOUS
<1>2. /\ c \in Seq(S) /\ Len(c) = Len(a) + Len(b)
      /\ \A n \in 1 .. Len(a) : c[n] = a[n]
      /\ \A n \in 1 .. Len(b) : c[Len(a) + n] = b[n]
  BY Concatenation
<1>3. /\ d \in Seq(S) /\ Len(d) = (Len(a) - 1) + Len(b)
      /\ \A n \in 1 .. Len(a) - 1 : d[n] = a[n + 1]
      /\ \A n \in 1 .. Len(b) : d[(Len(a) - 1) + n] = b[n]
  <2> DEFINE t == Tail(a)
  <2>1. t \in Seq(S) /\ Len(t) = Len(a) - 1
    BY <1>1
  <2> HIDE DEF t, d
  <2>2. /\ t \o b \in Seq(S) /\ Len(t \o b) = Len(t) + Len(b)
        /\ \A n \in 1 .. Len(t) : (t \o b)[n] = t[n]
        /\ \A n \in 1 .. Len(b) : (t \o b)[Len(t) + n] = b[n]
    <3>1. t \in Seq(S)
      BY <2>1
    <3>2. QED
      BY <3>1, Concatenation
  <2>3. QED
    BY <1>1, <2>1, <2>2 DEF t, d
<1> HIDE DEF c, d
<1>4. c # <<>>
  BY <1>1, <1>2
<1>5. /\ Tail(c) \in Seq(S) /\ Len(Tail(c)) = Len(c) - 1
      /\ \A n \in 1 .. Len(c) - 1 : Tail(c)[n] = c[n + 1]
  BY <1>2, <1>4
<1>6. \A n \in 1 .. Len(Tail(c)) : Tail(c)[n] = d[n]
  <2> TAKE n \in 1 .. Len(Tail(c))
  <2>1. n \in 1 .. (Len(a) - 1) + Len(b) /\ Tail(c)[n] = c[n + 1]
    BY <1>1, <1>2, <1>5
  <2>2. CASE n \in 1 .. Len(a) - 1
    BY <1>1, <1>2, <1>3, <2>1, <2>2
  <2>3. CASE n \notin 1 .. Len(a) - 1
    <3> DEFINE m == n - (Len(a) - 1)
    <3>1. m \in 1 .. Len(b) /\ n = (Len(a) - 1) + m /\ n + 1 = Len(a) + m
      BY <1>1, <2>1, <2>3
    <3> HIDE DEF m
    <3>2. QED
      BY <1>2, <1>3, <2>1, <3>1
  <2>4. QED
    BY <2>2, <2>3
<1>7. Tail(c) = d
  BY <1>1, <1>2, <1>3, <1>5, <1>6, SameSequence
<1>8. QED
  BY <1>4, <1>7 DEF c, d

(* What a piece of another key leaves of a key. *)
LEMMA SaysOther ==
  ASSUME NEW s \in Seq(SaidPart), Keyed(s),
         NEW piece, piece.key \in Keys, piece.content \in Content,
         NEW k, k # piece.key
  PROVE  LET t == Says(s, piece)
         IN \A j \in DOMAIN t : t[j].key = k => j \in DOMAIN s /\ t[j] = s[j]
<1> DEFINE t == Says(s, piece)
<1>1. CASE \A i \in DOMAIN s : s[i].key # piece.key
  <2>1. /\ t \in Seq(SaidPart)
        /\ Len(t) = Len(s) + 1
        /\ \A i \in 1 .. Len(s) : t[i] = s[i]
        /\ t[Len(s) + 1] = [key |-> piece.key, kind |-> Kind(piece.key),
                            content |-> piece.content]
    BY <1>1, SaysNew
  <2> HIDE DEF t
  <2>2. /\ DOMAIN s = 1 .. Len(s) /\ Len(s) \in Nat /\ DOMAIN t = 1 .. Len(s) + 1
        /\ t[Len(s) + 1].key # k
    BY <2>1
  <2>3. \A j \in DOMAIN t : j = Len(s) + 1 \/ j \in DOMAIN s
    BY <2>2
  <2>4. QED
    BY <2>1, <2>2, <2>3 DEF t
<1>2. ASSUME NEW i \in DOMAIN s, s[i].key = piece.key
      PROVE  \A j \in DOMAIN t : t[j].key = k => j \in DOMAIN s /\ t[j] = s[j]
  <2>1. /\ t \in Seq(SaidPart)
        /\ Len(t) = Len(s)
        /\ \A j \in 1 .. Len(s) : j # i => t[j] = s[j]
        /\ t[i] = [key |-> piece.key, kind |-> Kind(piece.key),
                   content |-> s[i].content \o piece.content]
    BY <1>2, SaysMore
  <2> HIDE DEF t
  <2>2. DOMAIN t = DOMAIN s /\ DOMAIN s = 1 .. Len(s) /\ t[i].key # k
    BY <2>1
  <2>3. QED
    BY <2>1, <2>2
<1>3. QED
  BY <1>1, <1>2

LEMMA CohereNow ==
  ASSUME Inv, Wrote, provider = "cohere"
  PROVE  /\ Live(parser, response) /\ Slotted(parser, response, said', lines)
         /\ provider' = provider /\ response.outcome = "streaming"
         /\ parser.finish = None /\ parser.started = DOMAIN parser.slot
         /\ parser.started \subseteq {"text"}
         /\ "text" \in parser.started => parser.slot["text"] = 0
         /\ ~ lost => ("text" \in parser.started <=> \E j \in DOMAIN said : said[j].key = "text")
         /\ ~ lost => \A j \in DOMAIN said :
                        said[j].key = "text" => /\ said[j].content # <<>>
                                                /\ response.parts[1].content = Tail(said[j].content)
<1>1. OpenKeys(parser) = parser.started
  BY DEF OpenKeys
<1>2. Live(parser, response) /\ Slotted(parser, response, said', lines)
  BY <1>1, NowLive DEF Bytewise
<1>3. parser.started = DOMAIN parser.slot
  BY DEF Inv, OpenInv
<1>4. parser.finish = None /\ provider' = provider /\ response.outcome = "streaming"
  BY DEF Inv, FinishInv, Wrote
<1>5. QED
  BY <1>2, <1>3, <1>4 DEF Inv, CohereInv

(* The invariant of a Cohere stream under way. *)
LEMMA CohereKept ==
  ASSUME Inv, Wrote, provider = "cohere", UNCHANGED buffer, whole' = whole, over' = over, reason' = reason,
         lost' = lost, Live(parser', response'), Slotted(parser', response', said', lines + 1),
         parser'.finish = None, parser'.started = DOMAIN parser'.slot,
         CohereInv'
  PROVE  Inv'
<1>1. /\ DOMAIN parser'.slot \subseteq Keys /\ parser' \in Parser(DOMAIN parser'.slot)
      /\ response' \in Response
      /\ response'.open = {parser'.slot[k] : k \in parser'.started}
      /\ response'.finish = None /\ response'.stray = {}
  BY DEF Live
<1>2. /\ provider' = provider /\ lost \in BOOLEAN /\ over \in BOOLEAN
      /\ reason \in Reasons \cup {None}
  BY DEF Inv, TypeOK, Wrote
<1>b. provider \notin Bytewise /\ ~ overtaken'
  BY NoBuffer DEF buffer, Bytewise
<1>3. OpenInv'
  BY <1>1, <1>2 DEF OpenInv, OpenKeys
<1>4. FinishInv'
  BY <1>1, <1>2 DEF FinishInv
<1>5. EventsInPlace'
  BY <1>1, <1>2, <1>b DEF EventsInPlace
<1>6. provider # "chatgpt" /\ provider # "huggingface" /\ provider \notin ByIndex
  BY DEF ByIndex
<1>7. QED
  BY <1>1, <1>2, <1>b, <1>3, <1>4, <1>5, <1>6, Kept

LEMMA CohereTextKept ==
  ASSUME Inv, CohereTextArrives
  PROVE  Inv'
<1>1. PICK k \in {"text"} \cup Calls :
        /\ Write(One(k, <<lines + 1>>))
        /\ Arrives(CohereParse([type |-> "generation", pieces |-> One(k, <<lines + 1>>)]))
  BY DEF CohereTextArrives
<1>2. /\ provider = "cohere" /\ reason' = reason /\ over' = over /\ whole' = whole
      /\ TypeOK /\ Keyed(said) /\ lines \in Nat /\ lost \in BOOLEAN /\ over \in BOOLEAN
      /\ reason \in Reasons \cup {None} /\ response \in Response
      /\ said \in Seq(SaidPart)
  BY DEF CohereTextArrives, Inv, PartsInv, TypeOK
<1>b. UNCHANGED buffer /\ provider \notin Bytewise
  BY <1>1, <1>2 DEF Arrives, Bytewise
<1> DEFINE piece == [key |-> k, content |-> <<lines + 1>>]
           pieces == One(k, <<lines + 1>>)
<1>3. pieces = <<piece>> /\ piece \in Sayable /\ Head(pieces) = piece /\ k \in Keys
  BY DEF One, Sayable, Keys
<1>4. pieces \in Seq(Sayable) /\ Len(pieces) \in 0 .. 2 /\ Len(pieces) = 1 /\ pieces # <<>>
  <2> HIDE DEF piece, pieces
  <2>1. QED
    BY <1>3
<1>5. piece.key = k /\ piece.content = <<lines + 1>>
  OBVIOUS
<1> HIDE DEF pieces, piece
<1>6. Wrote /\ said' = Says(said, piece) /\ Brought(said', piece, lines)
  <2>1. Write(pieces)
    BY <1>1 DEF pieces
  <2>2. /\ Wrote
        /\ Len(pieces) = 1 => said' = Says(said, Head(pieces))
        /\ pieces # <<>> => Brought(said', Head(pieces), lines)
    BY <1>2, <1>4, <2>1, ServerWrites
  <2>3. QED
    BY <1>3, <1>4, <2>2
<1>7. /\ Live(parser, response) /\ Slotted(parser, response, said', lines)
      /\ provider' = provider /\ response.outcome = "streaming"
      /\ parser.finish = None /\ parser.started = DOMAIN parser.slot
      /\ parser.started \subseteq {"text"}
      /\ "text" \in parser.started => parser.slot["text"] = 0
      /\ ~ lost => ("text" \in parser.started <=> \E j \in DOMAIN said : said[j].key = "text")
      /\ ~ lost => \A j \in DOMAIN said :
                     said[j].key = "text" => /\ said[j].content # <<>>
                                             /\ response.parts[1].content = Tail(said[j].content)
  BY <1>2, <1>6, CohereNow
<1>8. piece.key \in Keys /\ piece.content \in Content
  <2>1. <<lines + 1>> \in Seq(1 .. lines + 1)
    BY <1>2
  <2>2. QED
    BY <1>3, <1>5, <1>6, <2>1 DEF Wrote
<1> DEFINE parsed == CohereParse([type |-> "generation", pieces |-> pieces])
<1>9. CASE lost' = TRUE /\ UNCHANGED <<parser, response>>
  <2>1. over' \in BOOLEAN /\ reason' \in Reasons \cup {None}
    BY <1>2
  <2>2. QED
    BY <1>b, <1>2, <1>6, <1>9, <2>1, NothingArrives
<1>10. CASE /\ parser' = parsed.parser
            /\ response' = Collected(response, parsed.events)
            /\ lost' = lost
  <2>1. lost' = lost
    BY <1>2, <1>10, Zenon
  <2>2. parser \in Parser(DOMAIN parser.slot)
    BY <1>7 DEF Live
  <2>3. CASE k # "text"
    <3>1. parsed = [parser |-> parser, events |-> <<>>]
      BY <1>3, <1>5, <2>3 DEF CohereParse
    <3>2. parser' = parser /\ response' = response
      BY <1>10, <3>1, CollectedFew
    <3>3. Slotted(parser', response', said', lines + 1)
      <4>1. Grown(said', said') /\ lines + 1 \in Nat /\ lines <= lines + 1
        BY <1>2 DEF Grown
      <4>2. Slotted(parser, response, said', lines + 1)
        BY <1>2, <1>7, <4>1, SlottedStill
      <4>3. QED
        BY <3>2, <4>2
    <3>4. \A j \in DOMAIN said' : said'[j].key = "text" => j \in DOMAIN said /\ said'[j] = said[j]
      <4>1. LET t == Says(said, piece)
            IN \A j \in DOMAIN t : t[j].key = "text" => j \in DOMAIN said /\ t[j] = said[j]
        BY <1>2, <1>5, <1>8, <2>3, SaysOther
      <4>2. QED
        BY <1>6, <4>1
    <3>5. \A j \in DOMAIN said : said[j].key = "text" => \E i \in DOMAIN said' : said'[i].key = "text"
      <4>1. Grown(said, said')
        BY <1>6 DEF Wrote
      <4>2. QED
        BY <4>1 DEF Grown
    <3>6. CohereInv'
      <4>1. ~ lost' => ("text" \in DOMAIN parser'.slot
                          <=> \E j \in DOMAIN said' : said'[j].key = "text")
        BY <1>7, <2>1, <3>2, <3>4, <3>5
      <4>2. ~ lost' => \A j \in DOMAIN said' :
                         said'[j].key = "text" => /\ said'[j].content # <<>>
                                                  /\ response'.parts[1].content
                                                       = Tail(said'[j].content)
        BY <1>7, <2>1, <3>2, <3>4
      <4>3. ~ over' => response'.stray = {}
        BY <1>7, <3>2 DEF Live
      <4>4. /\ DOMAIN parser'.slot \subseteq {"text"}
            /\ "text" \in DOMAIN parser'.slot => parser'.slot["text"] = 0
        BY <1>7, <3>2
      <4>5. QED
        BY <4>1, <4>2, <4>3, <4>4 DEF CohereInv
    <3>7. QED
      BY <1>b, <1>2, <1>6, <1>7, <2>1, <3>2, <3>3, <3>6, CohereKept
  <2>4. CASE k = "text" /\ parser.started = {}
    <3> DEFINE first == [key |-> "text", content |-> <<>>]
               w == Collect(response, PartStart(0, first))
               slot == Assigned(parser.slot, "text", 0)
               q == Begun(parser, "text", 0)
    <3>1. Len(response.parts) = 0
      <4>1. DOMAIN parser.slot = {}
        BY <1>7, <2>4
      <4>2. response.parts = <<>>
        <5>1. \A i \in DOMAIN response.parts : FALSE
          BY <1>7, <4>1 DEF Slotted
        <5>2. response.parts \in Seq(Part)
          BY <1>2 DEF Response
        <5>3. DOMAIN response.parts = 1 .. Len(response.parts) /\ Len(response.parts) \in Nat
          BY <5>2
        <5>4. 1 \notin 1 .. Len(response.parts)
          BY <5>1, <5>3
        <5> DEFINE l == Len(response.parts)
        <5>5. l \in Nat /\ 1 \notin 1 .. l
          BY <5>3, <5>4
        <5> HIDE DEF l
        <5>6. l = 0
          BY <5>5
        <5>7. Len(response.parts) = 0
          BY <5>6 DEF l
        <5>8. QED
          BY <5>2, <5>7
      <4>3. QED
        BY <4>2
    <3>2. Brought(said', first, lines)
      <4>1. PICK j \in DOMAIN said' : said'[j].key = k
        BY <1>5, <1>6 DEF Brought
      <4>2. ToSet(<<>>) = {}
        BY DEF ToSet
      <4>3. \E i \in DOMAIN said' : said'[i].key = first.key
                                    /\ ToSet(first.content) \subseteq ToSet(said'[i].content)
        BY <2>4, <4>1, <4>2
      <4>4. first \in [key : Keys, content : {<<>>, <<lines + 1>>}]
        BY DEF Keys
      <4> HIDE DEF first
      <4>5. QED
        BY <4>3, <4>4 DEF Brought
    <3>3. Live(q, w) /\ Slotted(q, w, said', lines + 1) /\ w.parts = <<[kind |-> "text", content |-> <<>>]>>
      <4> DEFINE i == Len(response.parts)
                 x == Begun(parser, first.key, i)
                 y == Collect(response, PartStart(i, first))
      <4>1. lines \in Nat /\ Seq(1 .. lines + 1) \subseteq Content
        BY <1>2, <1>6 DEF Wrote
      <4>2. first.key = "text" /\ first.content = <<>> /\ first.key \notin DOMAIN parser.slot
        BY <1>7, <2>4
      <4> HIDE DEF first
      <4>3. Live(x, y) /\ Slotted(x, y, said', lines + 1)
            /\ y.parts = Append(response.parts, [kind |-> Kind(first.key), content |-> first.content])
        BY <1>7, <3>2, <4>1, <4>2, PartStarts
      <4>4. x = q /\ y = w
        BY <3>1, <4>2
      <4> HIDE DEF x, y
      <4>5. response.parts = <<>>
        <5>1. response.parts \in Seq(Part)
          BY <1>2 DEF Response
        <5>2. QED
          BY <3>1, <5>1
      <4>6. Kind(first.key) = "text"
        BY <4>2, StreamAssumption DEF Kind
      <4>7. y.parts = <<[kind |-> "text", content |-> <<>>]>>
        BY <4>2, <4>3, <4>5, <4>6
      <4>8. QED
        BY <4>3, <4>4, <4>7
    <3>4. parsed = [parser |-> [parser EXCEPT !.slot = slot, !.started = {"text"}],
                    events |-> <<PartStart(0, first)>>]
      BY <1>3, <1>5, <2>4 DEF CohereParse
    <3>5. q = [slot |-> slot, started |-> {"text"}, finish |-> parser.finish, body |-> parser.body]
      BY <2>4 DEF Begun
    <3>6. DOMAIN slot = {"text"} /\ slot["text"] = 0
      BY <1>7, <2>4 DEF Assigned
    <3> HIDE DEF first, w, slot, q
    <3>7. [parser EXCEPT !.slot = slot, !.started = {"text"}] = q
      <4> DEFINE next == [parser EXCEPT !.slot = slot, !.started = {"text"}]
      <4>1. parser \in [slot : {parser.slot}, started : {parser.started},
                        finish : {parser.finish}, body : {parser.body}]
        BY <2>2 DEF Parser
      <4>2. next \in [slot : {slot}, started : {{"text"}},
                      finish : {parser.finish}, body : {parser.body}]
        BY <4>1
      <4> HIDE DEF next
      <4>3. next = [slot |-> slot, started |-> {"text"},
                    finish |-> parser.finish, body |-> parser.body]
        BY <4>2
      <4>4. QED
        BY <3>5, <4>3 DEF next
    <3>8. parser' = q /\ response' = w
      BY <1>10, <3>4, <3>7, CollectedFew DEF w
    <3>9. q.slot = slot /\ q.started = {"text"} /\ q.finish = None
      BY <1>7, <3>5
    <3>10. ASSUME ~ lost'
           PROVE  /\ \E j \in DOMAIN said' : said'[j].key = "text"
                  /\ \A j \in DOMAIN said' :
                       said'[j].key = "text" => /\ said'[j].content # <<>>
                                                /\ w.parts[1].content = Tail(said'[j].content)
      <4> DEFINE t == Says(said, piece)
      <4>1. \A i \in DOMAIN said : said[i].key # piece.key
        BY <1>5, <1>7, <2>1, <2>4, <3>10
      <4>2. /\ Len(t) = Len(said) + 1
            /\ t \in Seq(SaidPart)
            /\ \A i \in 1 .. Len(said) : t[i] = said[i]
            /\ t[Len(said) + 1] = [key |-> piece.key, kind |-> Kind(piece.key),
                                   content |-> piece.content]
        BY <1>2, <1>8, <4>1, SaysNew
      <4> HIDE DEF t
      <4>3. said' = t
        BY <1>6 DEF t
      <4>4. DOMAIN t = 1 .. Len(said) + 1 /\ Len(said) \in Nat /\ DOMAIN said = 1 .. Len(said)
        BY <1>2, <4>2
      <4>5. \A j \in DOMAIN t : t[j].key = "text" => j = Len(said) + 1
        BY <1>5, <2>4, <4>1, <4>2, <4>4
      <4>6. t[Len(said) + 1].key = "text" /\ t[Len(said) + 1].content = <<lines + 1>>
            /\ Len(said) + 1 \in DOMAIN t
        BY <1>5, <2>4, <4>2, <4>4
      <4>7. Tail(<<lines + 1>>) = <<>> /\ <<lines + 1>> # <<>>
        OBVIOUS
      <4>8. w.parts[1].content = <<>>
        BY <3>3
      <4>9. QED
        BY <4>3, <4>5, <4>6, <4>7, <4>8
    <3>11. CohereInv'
      <4>1. ~ over' => response'.stray = {}
        BY <3>3, <3>8 DEF Live
      <4>2. DOMAIN parser'.slot = {"text"} /\ parser'.slot["text"] = 0
        BY <3>6, <3>8, <3>9
      <4>3. response' = w
        BY <3>8
      <4>4. QED
        BY <3>10, <4>1, <4>2, <4>3 DEF CohereInv
    <3>12. parser'.started = DOMAIN parser'.slot /\ parser'.finish = None
      BY <3>6, <3>8, <3>9
    <3>13. Live(parser', response') /\ Slotted(parser', response', said', lines + 1)
      BY <3>3, <3>8
    <3>14. QED
      BY <1>b, <1>2, <1>6, <2>1, <3>11, <3>12, <3>13, CohereKept
  <2>5. CASE k = "text" /\ parser.started # {}
    <3> DEFINE w == Collect(response, PartDelta(0, piece))
    <3>1. "text" \in parser.started /\ parser.slot["text"] = 0
      BY <1>7, <2>5
    <3>2. parsed = [parser |-> parser, events |-> <<PartDelta(0, piece)>>]
      BY <1>3, <1>5, <2>5 DEF CohereParse
    <3>3. parser' = parser /\ response' = w
      BY <1>10, <3>2, CollectedFew
    <3> HIDE DEF w
    <3>4. Extends(parser, response, said', lines, piece, w)
      <4>1. Extends(parser, response, said', lines, piece,
                    Collect(response, PartDelta(parser.slot[piece.key], piece)))
        <5>1. lines \in Nat /\ Seq(1 .. lines + 1) \subseteq Content /\ Keyed(said')
          BY <1>2, <1>6 DEF Wrote
        <5>2. piece.content = <<lines + 1>> /\ piece.key \in parser.started
          BY <1>5, <2>5, <3>1
        <5>3. QED
          BY <1>6, <1>7, <5>1, <5>2, PartGoesOn
      <4>2. parser.slot[piece.key] = 0
        BY <1>5, <2>5, <3>1
      <4>3. QED
        BY <4>1, <4>2 DEF w
    <3>5. /\ Live(parser, w) /\ Slotted(parser, w, said', lines + 1)
          /\ w.parts[1].content = response.parts[1].content \o <<lines + 1>>
      <4>1. parser.slot[piece.key] + 1 = 1
        BY <1>5, <2>5, <3>1
      <4>2. w.parts[1] = [kind |-> Kind(piece.key),
                          content |-> response.parts[1].content \o piece.content]
        BY <3>4, <4>1 DEF Extends
      <4>3. w.parts[1].content = response.parts[1].content \o piece.content
        <5> DEFINE c == response.parts[1].content \o piece.content
        <5>1. w.parts[1] = [kind |-> Kind(piece.key), content |-> c]
          BY <4>2
        <5> HIDE DEF c
        <5>2. w.parts[1].content = c
          BY <5>1
        <5>3. QED
          BY <5>2 DEF c
      <4>4. QED
        BY <1>5, <3>4, <4>3 DEF Extends
    <3>6. ASSUME ~ lost'
          PROVE  /\ \E j \in DOMAIN said' : said'[j].key = "text"
                 /\ \A j \in DOMAIN said' :
                      said'[j].key = "text" => /\ said'[j].content # <<>>
                                               /\ w.parts[1].content = Tail(said'[j].content)
      <4>1. PICK i \in DOMAIN said : said[i].key = "text"
        BY <1>7, <2>1, <3>1, <3>6
      <4>2. said[i].content # <<>> /\ response.parts[1].content = Tail(said[i].content)
        BY <1>7, <2>1, <3>6, <4>1
      <4> DEFINE t == Says(said, piece)
      <4>3. /\ t \in Seq(SaidPart) /\ Keyed(t) /\ Len(t) = Len(said)
            /\ t[i] = [key |-> piece.key, kind |-> Kind(piece.key),
                       content |-> said[i].content \o piece.content]
        <5>1. said[i].key = piece.key
          BY <1>5, <2>5, <4>1
        <5>2. QED
          BY <1>2, <1>8, <5>1, SaysMore
      <4> HIDE DEF t
      <4> DEFINE c == said[i].content \o piece.content
      <4>4. said[i].content \in Content
        <5>1. said[i] \in SaidPart
          BY <1>2
        <5>2. QED
          BY <5>1 DEF SaidPart
      <4>5. c # <<>> /\ Tail(c) = Tail(said[i].content) \o piece.content
        BY <1>8, <4>2, <4>4, TailJoined DEF Content
      <4> HIDE DEF c
      <4>6. t[i].key = "text" /\ t[i].content = c
        <5>1. t[i] = [key |-> piece.key, kind |-> Kind(piece.key), content |-> c]
          BY <4>3 DEF c
        <5>2. QED
          BY <1>5, <2>5, <5>1
      <4>7. w.parts[1].content = Tail(c)
        BY <1>5, <3>5, <4>2, <4>5
      <4>8. said' = t /\ i \in DOMAIN t
        BY <1>2, <1>6, <4>3, SMTT(60) DEF t
      <4>9. \A j \in DOMAIN t : t[j].key = "text" => j = i
        BY <4>3, <4>6, <4>8 DEF Keyed
      <4>10. QED
        BY <4>5, <4>6, <4>7, <4>8, <4>9
    <3>7. CohereInv'
      <4>1. ~ over' => response'.stray = {}
        BY <3>3, <3>5 DEF Live
      <4>2. /\ DOMAIN parser'.slot \subseteq {"text"} /\ "text" \in DOMAIN parser'.slot
            /\ parser'.slot["text"] = 0
        BY <1>7, <3>1, <3>3
      <4>3. response' = w
        BY <3>3
      <4>4. QED
        BY <3>6, <4>1, <4>2, <4>3 DEF CohereInv
    <3>8. parser'.started = DOMAIN parser'.slot /\ parser'.finish = None
      BY <1>7, <3>3
    <3>9. Live(parser', response') /\ Slotted(parser', response', said', lines + 1)
      BY <3>3, <3>5
    <3>10. QED
      BY <1>b, <1>2, <1>6, <2>1, <3>7, <3>8, <3>9, CohereKept
  <2>6. QED
    BY <2>3, <2>4, <2>5
<1>11. QED
  BY <1>1, <1>2, <1>9, <1>10 DEF Arrives, pieces

LEMMA CohereEndsKept ==
  ASSUME Inv, CohereEnds
  PROVE  Inv'
<1>1. PICK f \in Reasons \cup {None} :
        /\ Write(<<>>)
        /\ reason' = f
        /\ over' = TRUE
        /\ Arrives(CohereParse([type |-> "stream_end", finish |-> f]))
  BY DEF CohereEnds
<1>2. /\ provider = "cohere" /\ whole' = whole
      /\ TypeOK /\ Keyed(said) /\ lines \in Nat /\ lost \in BOOLEAN /\ over' \in BOOLEAN
      /\ reason' \in Reasons \cup {None} /\ response \in Response
  BY <1>1 DEF CohereEnds, Inv, PartsInv, TypeOK
<1>b. UNCHANGED buffer /\ provider \notin Bytewise
  BY <1>1, <1>2 DEF Arrives, Bytewise
<1>3. <<>> \in Seq(Sayable) /\ Len(<<>>) \in 0 .. 2
  OBVIOUS
<1>4. Wrote /\ said' = said
  BY <1>1, <1>2, <1>3, ServerWrites
<1>5. /\ Live(parser, response) /\ Slotted(parser, response, said', lines)
      /\ provider' = provider /\ response.outcome = "streaming"
      /\ parser.finish = None /\ parser.started = DOMAIN parser.slot
      /\ parser.started \subseteq {"text"}
      /\ "text" \in parser.started => parser.slot["text"] = 0
  BY <1>2, <1>4, CohereNow
<1>6. CASE lost' = TRUE /\ UNCHANGED <<parser, response>>
  BY <1>1, <1>b, <1>2, <1>4, <1>6, NothingArrives
<1> DEFINE given == IF f = None THEN Stop ELSE f
           parsed == CohereParse([type |-> "stream_end", finish |-> f])
           v == Collect(response, PartEnd(0))
           w == Collect(v, StreamComplete(given))
<1>7. parsed = [parser |-> parser, events |-> <<PartEnd(0), StreamComplete(given)>>]
  BY DEF CohereParse
<1>8. given \in Reasons \cup {None} /\ given # None
  BY StreamAssumption
<1>9. given = IF reason' = None THEN Stop ELSE reason'
  BY <1>1
<1> HIDE DEF given
<1>10. CASE /\ parser' = parsed.parser
            /\ response' = Collected(response, parsed.events)
            /\ lost' = lost
  <2>1. lost' = lost /\ lost' \in BOOLEAN
    BY <1>2, <1>10, Zenon
  <2>2. parser' = parser /\ response' = w
    BY <1>7, <1>10, CollectedTwo
  <2>3. /\ v \in Response /\ v.parts = response.parts /\ v.finish = None
        /\ v.open = response.open \ {0} /\ v.outcome = response.outcome
        /\ v.stray = IF 0 \in response.open THEN {} ELSE {"end"}
    <3>1. response.finish = None /\ response.stray = {}
      BY <1>5 DEF Live
    <3>2. /\ v \in Response /\ v.parts = response.parts /\ v.finish = response.finish
          /\ v.open = response.open \ {0} /\ v.outcome = response.outcome
          /\ v.stray = IF response.finish = None /\ 0 \in response.open THEN response.stray
                      ELSE response.stray \cup {"end"}
      BY <1>2, EndType
    <3> HIDE DEF v
    <3>3. QED
      BY <3>1, <3>2
  <2> HIDE DEF v
  <2>4. /\ w \in Response /\ w.parts = response.parts /\ w.finish = given
        /\ w.open = response.open \ {0} /\ w.outcome = response.outcome
        /\ w.stray = IF 0 \in response.open THEN {} ELSE {"end"}
    BY <1>8, <2>3, CompleteType
  <2> HIDE DEF w
  <2>5. /\ response.open = IF "text" \in parser.started THEN {0} ELSE {}
        /\ "text" \notin parser.started => response.parts = <<>>
    <3>1. response.open = {parser.slot[k] : k \in parser.started}
      BY <1>5 DEF Live
    <3>2. CASE "text" \in parser.started
      <4>1. parser.started = {"text"} /\ parser.slot["text"] = 0
        BY <1>5, <3>2
      <4>2. QED
        BY <3>1, <3>2, <4>1
    <3>3. CASE "text" \notin parser.started
      <4>1. parser.started = {} /\ DOMAIN parser.slot = {}
        BY <1>5, <3>3
      <4>2. response.open = {}
        BY <3>1, <4>1
      <4>3. Len(response.parts) = 0
        BY <1>5, <4>1, FS_EmptySet DEF Slotted
      <4>4. response.parts \in Seq(Part)
        BY <1>2 DEF Response
      <4>5. response.parts = <<>>
        BY <4>3, <4>4
      <4>6. QED
        BY <3>3, <4>2, <4>5
    <3>4. QED
      BY <3>2, <3>3
  <2>6. /\ response' \in Response /\ response'.parts = response.parts /\ response'.finish = given
        /\ response'.open = {} /\ response'.outcome = "streaming"
        /\ response'.stray # {} => response'.stray = {"end"} /\ response'.parts = <<>>
    <3>1. /\ w.open = {}
          /\ w.stray # {} => w.stray = {"end"} /\ w.parts = <<>>
      BY <2>4, <2>5
    <3>2. QED
      BY <1>5, <2>2, <2>4, <3>1
  <2>7. /\ DOMAIN parser'.slot \subseteq Keys /\ parser' \in Parser(DOMAIN parser'.slot)
        /\ Slotted(parser', response', said', lines + 1)
    <3>1. Grown(said', said') /\ lines + 1 \in Nat /\ lines <= lines + 1
      BY <1>2 DEF Grown
    <3>2. Slotted(parser, response, said', lines + 1)
      BY <1>2, <1>5, <3>1, SlottedStill
    <3>3. QED
      BY <1>5, <2>2, <2>6, <3>2 DEF Slotted, Live
  <2>8. OpenInv'
    BY <1>2, <1>5, <1>8, <2>2, <2>6 DEF OpenInv
  <2>9. FinishInv'
    BY <1>1, <1>2, <1>5, <1>9, <2>2, <2>6 DEF FinishInv
  <2>10. CohereInv'
    BY <1>1, <1>2, <1>4, <1>5, <2>1, <2>2, <2>6 DEF CohereInv, Inv
  <2>11. EventsInPlace'
    BY <1>2, <1>5, <2>6 DEF EventsInPlace
  <2>12. provider # "chatgpt" /\ provider # "huggingface" /\ provider \notin ByIndex
    BY <1>2 DEF ByIndex
  <2>13. QED
    BY <1>1, <1>b, <1>2, <1>4, <2>1, <2>6, <2>7, <2>8, <2>9, <2>10, <2>11, <2>12, Kept
<1>11. QED
  BY <1>1, <1>2, <1>6, <1>10 DEF Arrives

----------------------------------------------------------------------------
(* A body *)

(* What may be said of a part in n lines. *)
PartOf(k, c) == [key |-> k, kind |-> Kind(k), content |-> c]

LEMMA PartOfType ==
  ASSUME NEW k \in Keys, NEW c \in Content
  PROVE  /\ PartOf(k, c) \in SaidPart
         /\ PartOf(k, c).key = k /\ PartOf(k, c).kind = Kind(k) /\ PartOf(k, c).content = c
<1>1. Kind(k) \in Kinds
  BY DEF Kind, Kinds, Keys
<1>2. QED
  BY <1>1 DEF PartOf, SaidPart

LEMMA TellsStill ==
  ASSUME NEW s, NEW t, NEW body, NEW n \in Nat, NEW m \in Nat, n <= m,
         Tells(s, body, n), Grown(s, t)
  PROVE  Tells(t, body, m)
<1>1. \A i \in DOMAIN body : Told(t, body[i], body[i].key, m)
  <2>1. SUFFICES ASSUME NEW i \in DOMAIN body
                 PROVE  Told(t, body[i], body[i].key, m)
    OBVIOUS
  <2>2. Told(s, body[i], body[i].key, n)
    BY DEF Tells
  <2>3. QED
    BY <2>2, ToldStill
<1>2. QED
  BY <1>1 DEF Tells

(* A part more. *)
LEMMA TellsNew ==
  ASSUME NEW t, NEW body, NEW n \in Nat, Tells(t, body, n),
         NEW k \in Keys, NEW c \in Content, Told(t, PartOf(k, c), k, n),
         \A i \in DOMAIN body : body[i].key # k
  PROVE  Tells(t, Append(body, PartOf(k, c)), n)
<1> DEFINE e == PartOf(k, c)
           l == Len(body)
           b == Append(body, e)
<1>1. e \in SaidPart /\ e.key = k /\ e.kind = Kind(k)
  BY PartOfType
<1>2. body \in Seq(SaidPart) /\ Keyed(body)
      /\ \A i \in DOMAIN body : Told(t, body[i], body[i].key, n)
  BY DEF Tells
<1>3. Told(t, e, k, n)
  OBVIOUS
<1> HIDE DEF e
<1>4. /\ b \in Seq(SaidPart)
      /\ DOMAIN body = 1 .. l /\ l \in Nat
      /\ DOMAIN b = DOMAIN body \cup {l + 1}
      /\ \A i \in DOMAIN body : b[i] = body[i]
      /\ b[l + 1] = e
  BY <1>1, <1>2
<1> HIDE DEF b, l
<1>5. Keyed(b)
  BY <1>1, <1>2, <1>4 DEF Keyed
<1>6. \A i \in DOMAIN b : Told(t, b[i], b[i].key, n)
  BY <1>1, <1>2, <1>3, <1>4
<1>7. Tells(t, b, n)
  BY <1>4, <1>5, <1>6 DEF Tells
<1>8. QED
  BY <1>7 DEF b, e

(* Other content for a part. *)
LEMMA TellsArgs ==
  ASSUME NEW t, NEW body, NEW n \in Nat, Tells(t, body, n),
         NEW k \in Keys, NEW c \in Content, Told(t, PartOf(k, c), k, n)
  PROVE  Tells(t, WithArgs(body, k, c), n)
<1> DEFINE e == PartOf(k, c)
           b == WithArgs(body, k, c)
<1>1. e \in SaidPart /\ e.key = k /\ e.kind = Kind(k)
  BY PartOfType
<1>2. body \in Seq(SaidPart) /\ Keyed(body)
      /\ \A i \in DOMAIN body : Told(t, body[i], body[i].key, n)
  BY DEF Tells
<1>3. DOMAIN b = DOMAIN body /\ \A i \in DOMAIN body : b[i] = IF body[i].key = k THEN e ELSE body[i]
  <2>1. DOMAIN b = DOMAIN body
        /\ \A i \in DOMAIN body : b[i] = IF body[i].key = k THEN [body[i] EXCEPT !.content = c]
                                         ELSE body[i]
    BY DEF WithArgs
  <2>2. \A i \in DOMAIN body : body[i].key = k => [body[i] EXCEPT !.content = c] = e
    <3>1. \A i \in DOMAIN body : body[i] \in SaidPart /\ body[i].kind = Kind(body[i].key)
      BY <1>2 DEF Keyed
    <3>2. QED
      BY <3>1 DEF SaidPart, PartOf
  <2> HIDE DEF b, e
  <2>3. QED
    BY <2>1, <2>2
<1>4. Told(t, e, k, n)
  OBVIOUS
<1> HIDE DEF e
<1>5. b \in Seq(SaidPart)
  <2>1. b = [i \in 1 .. Len(body) |-> IF body[i].key = k THEN [body[i] EXCEPT !.content = c]
                                      ELSE body[i]]
    BY <1>2 DEF WithArgs
  <2>2. \A i \in 1 .. Len(body) : b[i] \in SaidPart
    BY <1>1, <1>2, <1>3
  <2> DEFINE g == [i \in 1 .. Len(body) |-> b[i]]
  <2>3. b = g
    BY <2>1
  <2>4. g \in [1 .. Len(body) -> SaidPart] /\ Len(body) \in Nat
    BY <1>2, <2>2
  <2> HIDE DEF b, g
  <2>5. QED
    BY <2>3, <2>4, FunctionSequence
<1> HIDE DEF b
<1>6. Keyed(b)
  BY <1>1, <1>2, <1>3 DEF Keyed
<1>7. \A i \in DOMAIN b : Told(t, b[i], b[i].key, n)
  BY <1>1, <1>2, <1>3, <1>4
<1>8. Tells(t, b, n)
  BY <1>5, <1>6, <1>7 DEF Tells
<1>9. QED
  BY <1>8 DEF b

(* What a line brings is told. *)
LEMMA BroughtTold ==
  ASSUME NEW t, NEW n \in Nat, NEW piece, Brought(t, piece, n)
  PROVE  Told(t, PartOf(piece.key, piece.content), piece.key, n + 1)
<1> DEFINE c == piece.content
           e == PartOf(piece.key, c)
<1>1. /\ c = <<>> \/ c = <<n + 1>>
      /\ \E j \in DOMAIN t : t[j].key = piece.key /\ ToSet(c) \subseteq ToSet(t[j].content)
  BY DEF Brought
<1>2. e.kind = Kind(piece.key) /\ e.content = c
  BY DEF PartOf
<1> HIDE DEF e, c
<1>3. c \in Seq(1 .. n + 1)
  <2>1. <<>> \in Seq(1 .. n + 1) /\ <<n + 1>> \in Seq(1 .. n + 1)
    OBVIOUS
  <2>2. QED
    BY <1>1, <2>1
<1>4. Ascends(c)
  <2>1. \A a, b \in DOMAIN c : a = b
    BY <1>1
  <2>2. \A a \in DOMAIN c : a \in Nat
    BY <1>1
  <2>3. \A a, b \in DOMAIN c : ~ (a < b)
    BY <2>1, <2>2
  <2>4. QED
    BY <2>3 DEF Ascends
<1>5. Told(t, e, piece.key, n + 1)
  BY <1>1, <1>2, <1>3, <1>4 DEF Told
<1>6. QED
  BY <1>5 DEF e, c

(* A piece more of a body, by the rule of the server. *)
LEMMA TellsSays ==
  ASSUME NEW t, NEW body, NEW n \in Nat, Tells(t, body, n), Keyed(t),
         Seq(1 .. n + 1) \subseteq Content,
         NEW piece, Brought(t, piece, n),
         \/ piece.content = <<n + 1>>
         \/ \A i \in DOMAIN body : body[i].key # piece.key
  PROVE  Tells(t, Says(body, piece), n + 1)
<1> DEFINE k == piece.key
           c == piece.content
           b == Says(body, piece)
<1>1. body \in Seq(SaidPart) /\ Keyed(body)
      /\ \A i \in DOMAIN body : Told(t, body[i], body[i].key, n)
  BY DEF Tells
<1>2. Tells(t, body, n + 1)
  <2>1. Grown(t, t) /\ n + 1 \in Nat /\ n <= n + 1
    BY DEF Grown
  <2>2. QED
    BY <2>1, TellsStill
<1>3. k \in Keys /\ c \in Content
  <2>1. k \in Keys /\ (c = <<>> \/ c = <<n + 1>>)
    BY DEF Brought
  <2> HIDE DEF c, k
  <2>2. <<>> \in Seq(1 .. n + 1) /\ <<n + 1>> \in Seq(1 .. n + 1)
    OBVIOUS
  <2>3. c \in Seq(1 .. n + 1)
    BY <2>1, <2>2
  <2>4. QED
    BY <2>1, <2>3
<1>4. CASE \A i \in DOMAIN body : body[i].key # k
  <2>1. b = Append(body, PartOf(k, c))
    BY <1>4 DEF Says, PartOf
  <2>2. Told(t, PartOf(k, c), k, n + 1)
    BY BroughtTold
  <2> HIDE DEF k, c, b
  <2>3. n + 1 \in Nat
    OBVIOUS
  <2>4. Tells(t, Append(body, PartOf(k, c)), n + 1)
    BY <1>2, <1>3, <1>4, <2>2, <2>3, TellsNew
  <2>5. QED
    BY <2>1, <2>4 DEF b
<1>5. CASE \E i \in DOMAIN body : body[i].key = k
  <2>1. PICK i \in DOMAIN body : body[i].key = k
    BY <1>5
  <2>2. c = <<n + 1>>
    BY <1>5
  <2> DEFINE old == body[i].content
             new == old \o c
  <2>3. /\ b \in Seq(SaidPart) /\ Keyed(b)
        /\ DOMAIN b = DOMAIN body
        /\ \A j \in DOMAIN body : j # i => b[j] = body[j]
        /\ b[i] = [key |-> k, kind |-> Kind(k), content |-> new]
    <3>1. /\ b \in Seq(SaidPart) /\ Keyed(b) /\ Len(b) = Len(body)
          /\ \A j \in 1 .. Len(body) : j # i => b[j] = body[j]
          /\ b[i] = [key |-> k, kind |-> Kind(k), content |-> body[i].content \o c]
      BY <1>1, <1>3, <2>1, SaysMore
    <3> HIDE DEF b
    <3>2. QED
      BY <1>1, <3>1
  <2>4. Told(t, body[i], k, n)
    BY <1>1, <2>1
  <2>5. old \in Seq(1 .. n) /\ Ascends(old)
    BY <2>4 DEF Told
  <2> HIDE DEF b
  <2>6. new \in Seq(1 .. n + 1) /\ Ascends(new) /\ ToSet(new) = ToSet(old) \cup ToSet(c)
    <3> HIDE DEF old, c
    <3>1. old \in Seq(1 .. n + 1) /\ c \in Seq(1 .. n + 1)
      BY <2>2, <2>5
    <3>2. /\ new \in Seq(1 .. n + 1)
          /\ Len(new) = Len(old) + Len(c)
          /\ \A j \in 1 .. Len(old) : new[j] = old[j]
          /\ \A j \in 1 .. Len(c) : new[Len(old) + j] = c[j]
          /\ ToSet(new) = ToSet(old) \cup ToSet(c)
      BY <3>1, Concatenation
    <3> HIDE DEF new
    <3>3. Len(c) = 1 /\ c[1] = n + 1 /\ Len(old) \in Nat
      BY <2>2, <2>5
    <3>4. DOMAIN new = 1 .. Len(old) + 1 /\ new[Len(old) + 1] = n + 1
      BY <3>2, <3>3
    <3>5. ASSUME NEW x \in DOMAIN new, NEW y \in DOMAIN new, x < y
          PROVE  new[x] < new[y]
      <4>1. x \in 1 .. Len(old) /\ new[x] = old[x] /\ old[x] \in 1 .. n
        BY <2>5, <3>2, <3>3, <3>4, <3>5
      <4>2. CASE y \in 1 .. Len(old)
        <5>1. DOMAIN old = 1 .. Len(old)
          BY <2>5
        <5>2. old[x] < old[y]
          BY <2>5, <3>5, <4>1, <4>2, <5>1 DEF Ascends
        <5>3. QED
          BY <3>2, <4>1, <4>2, <5>2
      <4>3. CASE y = Len(old) + 1
        BY <3>4, <4>1, <4>3
      <4>4. QED
        BY <3>3, <3>4, <4>2, <4>3
    <3>6. QED
      BY <3>2, <3>5 DEF Ascends
  <2>7. \E j \in DOMAIN t : t[j].key = k /\ ToSet(new) \subseteq ToSet(t[j].content)
    <3>1. PICK j \in DOMAIN t : t[j].key = k /\ ToSet(old) \subseteq ToSet(t[j].content)
      BY <2>4 DEF Told
    <3>2. PICK m \in DOMAIN t : t[m].key = k /\ ToSet(c) \subseteq ToSet(t[m].content)
      BY DEF Brought
    <3>3. j = m
      BY <3>1, <3>2 DEF Keyed
    <3> HIDE DEF old, c, new
    <3>4. QED
      BY <2>6, <3>1, <3>2, <3>3
  <2>8. b[i].key = k /\ b[i].kind = Kind(k) /\ b[i].content = new
    <3> HIDE DEF new, k
    <3>1. QED
      BY <2>3
  <2> HIDE DEF new, old
  <2>9. Told(t, b[i], k, n + 1)
    BY <2>6, <2>7, <2>8 DEF Told
  <2>10. \A j \in DOMAIN b : Told(t, b[j], b[j].key, n + 1)
    BY <1>2, <2>3, <2>8, <2>9 DEF Tells
  <2>11. Tells(t, b, n + 1)
    BY <2>3, <2>10 DEF Tells
  <2>12. QED
    BY <2>11 DEF b
<1>6. QED
  BY <1>4, <1>5

(* The server and the body get the same part more. *)
LEMMA MirrorsNew ==
  ASSUME NEW s \in Seq(SaidPart), NEW body \in Seq(SaidPart), NEW done,
         Mirrors(s, body, done), NEW k \in Keys, NEW c \in Content,
         \A i \in DOMAIN s : s[i].key # k,
         NEW more, more \subseteq done \cup {k}
  PROVE  Mirrors(Append(s, PartOf(k, c)), Append(body, PartOf(k, c)), more)
<1> DEFINE e == PartOf(k, c)
           t == Append(s, e)
           b == Append(body, e)
           l == Len(s)
<1>1. e \in SaidPart /\ e.key = k
  BY PartOfType
<1>2. DOMAIN body = DOMAIN s
  BY DEF Mirrors
<1> HIDE DEF e
<1>3. DOMAIN s = 1 .. l /\ l \in Nat /\ Len(body) = l
  BY <1>2
<1>4. /\ DOMAIN t = DOMAIN s \cup {l + 1} /\ DOMAIN b = DOMAIN t
      /\ t[l + 1] = e /\ b[l + 1] = e
      /\ \A i \in DOMAIN s : t[i] = s[i] /\ b[i] = body[i]
  BY <1>1, <1>2, <1>3
<1> HIDE DEF t, b, l
<1>5. \A i \in DOMAIN s : s[i].key \in Calls \ done => s[i].key \in Calls \ more
  OBVIOUS
<1>6. Mirrors(t, b, more)
  BY <1>4, <1>5 DEF Mirrors
<1>7. QED
  BY <1>6 DEF t, b, e

(* They get more of the same part, which is no call. *)
LEMMA MirrorsText ==
  ASSUME NEW s \in Seq(SaidPart), NEW body \in Seq(SaidPart), NEW done,
         Keyed(s), Keyed(body), Mirrors(s, body, done),
         NEW piece, piece.key \in Keys \ Calls, piece.content \in Content,
         NEW i \in DOMAIN s, s[i].key = piece.key
  PROVE  Mirrors(Says(s, piece), Says(body, piece), done)
<1> DEFINE t == Says(s, piece)
           b == Says(body, piece)
           c == s[i].content \o piece.content
<1>1. DOMAIN body = DOMAIN s /\ body[i].key = piece.key /\ body[i].content = s[i].content
  BY DEF Mirrors
<1>2. /\ t \in Seq(SaidPart) /\ Len(t) = Len(s)
      /\ \A j \in 1 .. Len(s) : j # i => t[j] = s[j]
      /\ t[i] = [key |-> piece.key, kind |-> Kind(piece.key), content |-> c]
  <2>1. i \in DOMAIN s /\ s[i].key = piece.key /\ piece.key \in Keys
    OBVIOUS
  <2>2. Longer(s, i, piece, Says(s, piece))
    BY <2>1, SaysLonger
  <2>3. QED
    BY <2>2 DEF Longer
<1>3. /\ b \in Seq(SaidPart) /\ Len(b) = Len(body)
      /\ \A j \in 1 .. Len(body) : j # i => b[j] = body[j]
      /\ b[i] = [key |-> piece.key, kind |-> Kind(piece.key), content |-> c]
  <2>1. i \in DOMAIN body /\ body[i].key = piece.key /\ piece.key \in Keys
    BY <1>1
  <2>2. /\ b \in Seq(SaidPart) /\ Len(b) = Len(body)
        /\ \A j \in 1 .. Len(body) : j # i => b[j] = body[j]
        /\ b[i] = [key |-> piece.key, kind |-> Kind(piece.key),
                   content |-> body[i].content \o piece.content]
    <3>1. Longer(body, i, piece, Says(body, piece))
      BY <2>1, SaysLonger
    <3>2. QED
      BY <3>1 DEF Longer
  <2> HIDE DEF b
  <2>3. QED
    BY <1>1, <2>2
<1> HIDE DEF t, b, c
<1>4. /\ DOMAIN s = 1 .. Len(s) /\ DOMAIN body = 1 .. Len(body)
      /\ DOMAIN t = 1 .. Len(t) /\ DOMAIN b = 1 .. Len(b)
  BY <1>2, <1>3
<1>5. DOMAIN t = DOMAIN s /\ DOMAIN b = DOMAIN s
  BY <1>1, <1>2, <1>3, <1>4
<1>6. t[i].key = piece.key /\ t[i].content = c /\ b[i].key = piece.key /\ b[i].content = c
  BY <1>2, <1>3
<1>7. \A j \in DOMAIN s : j # i => t[j] = s[j] /\ b[j] = body[j]
  BY <1>1, <1>2, <1>3, <1>4
<1>8. Mirrors(t, b, done)
  BY <1>5, <1>6, <1>7 DEF Mirrors
<1>9. QED
  BY <1>8 DEF t, b

(* What the server said of one call. *)
Amended(s, t, k, c) ==
  /\ DOMAIN t = DOMAIN s
  /\ \A i \in DOMAIN s :
       /\ t[i].key = s[i].key
       /\ t[i].content = IF s[i].key = k THEN c ELSE s[i].content

(* The arguments of a call reach the body. *)
LEMMA MirrorsArgs ==
  ASSUME NEW s \in Seq(SaidPart), NEW body \in Seq(SaidPart), NEW done,
         Mirrors(s, body, done), NEW k, NEW c, NEW t, Amended(s, t, k, c),
         NEW more, more \subseteq done \cup {k}
  PROVE  Mirrors(t, WithArgs(body, k, c), more)
<1> DEFINE b == WithArgs(body, k, c)
<1>1. \A i \in DOMAIN body : body[i] \in [key : Keys, kind : Kinds, content : Content]
  <2>1. \A i \in DOMAIN body : body[i] \in SaidPart
    OBVIOUS
  <2>2. QED
    BY <2>1 DEF SaidPart
<1>2. DOMAIN b = DOMAIN body
      /\ \A i \in DOMAIN body : /\ b[i].key = body[i].key
                                /\ b[i].content = IF body[i].key = k THEN c ELSE body[i].content
  <2>1. \A i \in DOMAIN body : b[i] = IF body[i].key = k THEN [body[i] EXCEPT !.content = c]
                                      ELSE body[i]
    BY DEF WithArgs
  <2>2. \A i \in DOMAIN body : LET x == [body[i] EXCEPT !.content = c]
                               IN x.key = body[i].key /\ x.content = c
    BY <1>1
  <2>3. DOMAIN b = DOMAIN body
    BY DEF WithArgs
  <2> HIDE DEF b
  <2>4. QED
    BY <2>1, <2>2, <2>3
<1> HIDE DEF b
<1>3. \A i \in DOMAIN s : s[i].key \in Calls \ done => s[i].key \in Calls \ more \/ s[i].key = k
  OBVIOUS
<1>4. Mirrors(t, b, more)
  BY <1>2, <1>3 DEF Mirrors, Amended
<1>5. QED
  BY <1>4 DEF b

(* They do not, but are to come. *)
LEMMA MirrorsLate ==
  ASSUME NEW s, NEW body, NEW done, Mirrors(s, body, done),
         NEW k \in Calls \ done, NEW c, NEW t, Amended(s, t, k, c),
         \A i \in DOMAIN s : s[i].key = k => s[i].content = <<>>
  PROVE  Mirrors(t, body, done)
BY DEF Mirrors, Amended

(* The calls of which s holds arguments. *)
SpokenIn(s) == {s[i].key : i \in {j \in DOMAIN s : s[j].kind = "call" /\ s[j].content # <<>>}}

LEMMA SpokenCalls ==
  ASSUME NEW s \in Seq(SaidPart), Keyed(s), NEW k
  PROVE  k \in SpokenIn(s) <=> k \in Calls /\ \E i \in DOMAIN s : s[i].key = k /\ s[i].content # <<>>
<1>1. \A i \in DOMAIN s : s[i].key \in Keys /\ s[i].kind = Kind(s[i].key)
  <2>1. \A i \in DOMAIN s : s[i] \in SaidPart
    OBVIOUS
  <2>2. QED
    BY <2>1 DEF SaidPart, Keyed
<1>2. \A x \in Keys : Kind(x) = "call" <=> x \in Calls
  BY DEF Kind, Keys
<1>3. \A i \in DOMAIN s : s[i].kind = "call" <=> s[i].key \in Calls
  BY <1>1, <1>2
<1>4. QED
  BY <1>3 DEF SpokenIn

LEMMA SpokenStill ==
  ASSUME NEW s \in Seq(SaidPart), Keyed(s), NEW t \in Seq(SaidPart), Keyed(t), Grown(s, t)
  PROVE  SpokenIn(s) \subseteq SpokenIn(t)
<1>1. SUFFICES ASSUME NEW k \in SpokenIn(s)
               PROVE  k \in SpokenIn(t)
  OBVIOUS
<1>2. k \in Calls /\ \E i \in DOMAIN s : s[i].key = k /\ s[i].content # <<>>
  BY SpokenCalls
<1>3. PICK i \in DOMAIN s : s[i].key = k /\ s[i].content # <<>>
  BY <1>2
<1>4. PICK j \in DOMAIN t : t[j].key = k /\ ToSet(s[i].content) \subseteq ToSet(t[j].content)
  BY <1>3 DEF Grown
<1>5. s[i].content \in Content
  <2>1. s[i] \in SaidPart
    OBVIOUS
  <2>2. QED
    BY <2>1 DEF SaidPart
<1>6. t[j].content # <<>>
  <2>1. ToSet(<<>>) = {}
    BY DEF ToSet
  <2> DEFINE c == s[i].content
  <2>2. c # <<>> /\ c \in Content
    BY <1>3, <1>5
  <2> HIDE DEF c
  <2>3. 1 \in DOMAIN c
    BY <2>2 DEF Content
  <2>4. c[1] \in ToSet(c)
    BY <2>3 DEF ToSet
  <2>5. QED
    BY <1>4, <2>1, <2>4 DEF c
<1>7. QED
  BY <1>2, <1>4, <1>6, SpokenCalls

(* The arguments of a call that had none. *)
LEMMA SaysAmended ==
  ASSUME NEW s \in Seq(SaidPart), Keyed(s), NEW piece, piece.key \in Keys, piece.content \in Content,
         NEW i \in DOMAIN s, s[i].key = piece.key, s[i].content = <<>>
  PROVE  Amended(s, Says(s, piece), piece.key, piece.content)
<1> DEFINE t == Says(s, piece)
           c == piece.content
<1>1. /\ t \in Seq(SaidPart) /\ Len(t) = Len(s)
      /\ \A j \in 1 .. Len(s) : j # i => t[j] = s[j]
      /\ t[i] = [key |-> piece.key, kind |-> Kind(piece.key), content |-> s[i].content \o c]
  BY SaysMore
<1>2. s[i].content \o c = c
  <2> HIDE DEF c
  <2>1. c \in Content
    BY DEF c
  <2>2. <<>> \o c = c
    BY <2>1 DEF Content
  <2>3. QED
    BY <2>2
<1> HIDE DEF t, c
<1>3. t[i].key = piece.key /\ t[i].content = c
  BY <1>1, <1>2
<1>4. DOMAIN t = 1 .. Len(t) /\ DOMAIN s = 1 .. Len(s)
  BY <1>1
<1>5. \A j \in DOMAIN s : s[j].key = piece.key => j = i
  BY DEF Keyed
<1>6. Amended(s, t, piece.key, c)
  BY <1>1, <1>3, <1>4, <1>5 DEF Amended
<1>7. QED
  BY <1>6 DEF t, c

(* The keys of what the server said are those it said before, and a new one. *)
LEMMA SaysKeys ==
  ASSUME NEW s, NEW piece, NEW i \in DOMAIN Says(s, piece), NEW S, s \in Seq(S)
  PROVE  \/ Says(s, piece)[i].key = piece.key
         \/ \E j \in DOMAIN s : Says(s, piece)[i].key = s[j].key
<1>1. CASE \E j \in DOMAIN s : s[j].key = piece.key
  <2>1. DOMAIN Says(s, piece) = DOMAIN s
    BY <1>1 DEF Says
  <2>2. Says(s, piece)[i] = IF s[i].key = piece.key
                            THEN [s[i] EXCEPT !.content = s[i].content \o piece.content] ELSE s[i]
    BY <1>1, <2>1 DEF Says
  <2>3. QED
    BY <2>1, <2>2
<1>2. CASE ~ \E j \in DOMAIN s : s[j].key = piece.key
  <2> DEFINE e == [key |-> piece.key, kind |-> Kind(piece.key), content |-> piece.content]
             l == Len(s)
  <2>1. Says(s, piece) = Append(s, e)
    BY <1>2 DEF Says
  <2>2. e.key = piece.key
    OBVIOUS
  <2> HIDE DEF e
  <2>3. /\ DOMAIN Append(s, e) = 1 .. l + 1 /\ l \in Nat /\ DOMAIN s = 1 .. l
        /\ \A j \in 1 .. l : Append(s, e)[j] = s[j]
        /\ Append(s, e)[l + 1] = e
    OBVIOUS
  <2> HIDE DEF l
  <2>4. i \in 1 .. l \/ i = l + 1
    BY <2>1, <2>3
  <2>5. QED
    BY <2>1, <2>2, <2>3, <2>4
<1>3. QED
  BY <1>1, <1>2

(* The invariant of a ChatGPT stream, of which the agent has nothing yet.  *)
LEMMA ChatGPTKept ==
  ASSUME Inv, Wrote, provider = "chatgpt", UNCHANGED buffer, reason' = reason, response' = response,
         over' \in BOOLEAN, lost' \in BOOLEAN, whole' \subseteq Calls,
         parser'.slot = parser.slot, parser'.started = parser.started,
         parser'.finish = parser.finish, parser' \in Parser(DOMAIN parser.slot),
         Tells(said', said', lines + 1), Tells(said', parser'.body, lines + 1),
         \A i \in DOMAIN said' : said'[i].key # "thinking",
         whole' \subseteq Spoken', over' => Mentioned' \cap Calls \subseteq whole',
         ~ lost' => Mirrors(said', parser'.body, whole')
  PROVE  Inv'
<1>1. /\ provider' = provider /\ provider \in Providers /\ lines' \in 0 .. MaxLines[provider]
      /\ said' \in Seq(SaidPart) /\ Keyed(said')
      /\ response.outcome = "streaming" /\ response \in Response
      /\ reason \in Reasons \cup {None}
  BY DEF Inv, TypeOK, Wrote
<1>2. DOMAIN parser.slot \subseteq Keys
  BY ParserType DEF Inv
<1>b. /\ held' \in Keys \cup {None} /\ joined' \in BOOLEAN /\ overtaken' \in BOOLEAN
      /\ ~ joined' /\ ~ overtaken'
  BY BufferType, NoBuffer DEF buffer, Inv, Bytewise
<1>3. TypeOK'
  BY <1>1, <1>2, <1>b, TypeKept
<1>4. response.finish = None /\ parser.finish = None
  BY <1>1 DEF Inv, BodyInv, FinishInv
<1>5. PartsInv' /\ BufferInv' /\ OpenAIInv'
  BY <1>1, <1>b DEF PartsInv, BufferInv, OpenAIInv, ByIndex, Bytewise
<1>6. OpenInv'
  <2>1. response.open = {parser.slot[k] : k \in OpenKeys(parser)}
    BY <1>4 DEF Inv, OpenInv
  <2>2. OpenKeys(parser)' = OpenKeys(parser)
    BY <1>1 DEF OpenKeys
  <2>3. QED
    BY <1>1, <1>4, <2>1, <2>2 DEF OpenInv
<1>7. FinishInv'
  BY <1>1, <1>4 DEF FinishInv
<1>8. CohereInv' /\ EventsInPlace'
  BY <1>1, <1>b, NoBuffer DEF CohereInv, EventsInPlace, Inv, Bytewise
<1>9. BodyInv'
  <2>1. parser.slot = <<>> /\ parser.started = {} /\ reason = None /\ response.parts = <<>>
    BY <1>4 DEF Inv, BodyInv
  <2>2. lines' = lines + 1
    BY DEF Wrote
  <2>3. Tells(said, said, lines)' /\ Tells(said, parser.body, lines)'
    <3>1. SaidPart' = SaidPart
      BY <1>1 DEF SaidPart, Content
    <3>2. QED
      BY <2>2, <3>1 DEF Tells
  <2>4. /\ parser'.slot = <<>> /\ parser'.started = {} /\ reason' = None
        /\ response'.parts = <<>> /\ response'.finish = None
    BY <1>4, <2>1
  <2>5. response'.outcome = "streaming" => response'.finish = None
    BY <2>4
  <2>6. IF response'.finish = None THEN response'.parts = <<>>
        ELSE response'.finish = Stop /\ response'.parts = Bare(TextFirst(parser'.body))
    BY <2>4
  <2>7. QED
    BY <2>3, <2>4, <2>5, <2>6 DEF BodyInv
<1>10. QED
  BY <1>3, <1>5, <1>6, <1>7, <1>8, <1>9 DEF Inv

(* A body with other contents. *)
LEMMA BodyType ==
  ASSUME NEW p, NEW known, p \in Parser(known), NEW b \in Seq(SaidPart)
  PROVE  LET q == [p EXCEPT !.body = b]
         IN /\ q \in Parser(known)
            /\ q.slot = p.slot /\ q.started = p.started /\ q.finish = p.finish /\ q.body = b
BY DEF Parser

LEMMA ChatGPTCompletesKept ==
  ASSUME Inv, ChatGPTCompletes
  PROVE  Inv'
<1>1. /\ provider = "chatgpt" /\ Mentioned \cap Calls \subseteq whole /\ Write(<<>>)
      /\ over' = TRUE /\ reason' = reason /\ whole' = whole /\ lost' = lost
      /\ parser' = parser /\ response' = response /\ UNCHANGED buffer
  BY DEF ChatGPTCompletes
<1>2. TypeOK /\ Keyed(said) /\ lines \in Nat /\ whole \subseteq Calls /\ lost \in BOOLEAN
  BY DEF Inv, PartsInv, TypeOK
<1>3. <<>> \in Seq(Sayable) /\ Len(<<>>) \in 0 .. 2
  OBVIOUS
<1>4. Wrote /\ said' = said
  BY <1>1, <1>2, <1>3, ServerWrites
<1>5. BodyInv /\ response.outcome = "streaming"
  BY <1>4 DEF Inv, Wrote
<1>6. Tells(said', said', lines + 1) /\ Tells(said', parser'.body, lines + 1)
  <2>1. Grown(said, said) /\ lines + 1 \in Nat /\ lines <= lines + 1
    BY <1>2 DEF Grown
  <2>2. Tells(said, said, lines) /\ Tells(said, parser.body, lines)
    BY <1>1, <1>5 DEF BodyInv
  <2>3. Tells(said, said, lines + 1) /\ Tells(said, parser.body, lines + 1)
    BY <1>2, <2>1, <2>2, TellsStill
  <2>4. QED
    BY <1>1, <1>4, <2>3
<1>7. Spoken' = Spoken /\ Mentioned' = Mentioned
  BY <1>4 DEF Spoken, Mentioned
<1>8. /\ \A i \in DOMAIN said' : said'[i].key # "thinking"
      /\ whole' \subseteq Spoken' /\ Mentioned' \cap Calls \subseteq whole'
  BY <1>1, <1>4, <1>5, <1>7 DEF BodyInv
<1>9. ~ lost' => Mirrors(said', parser'.body, whole')
  BY <1>1, <1>4, <1>5 DEF BodyInv
<1>10. parser' \in Parser(DOMAIN parser.slot)
  BY <1>1, <1>2, ParserType
<1>11. over' \in BOOLEAN
  BY <1>1
<1>12. parser'.slot = parser.slot /\ parser'.started = parser.started /\ parser'.finish = parser.finish
  BY <1>1
<1>13. whole' \subseteq Calls /\ lost' \in BOOLEAN
  BY <1>1, <1>2
<1>14. QED
  BY <1>1, <1>4, <1>6, <1>8, <1>9, <1>10, <1>11, <1>12, <1>13, ChatGPTKept

(* What a line of a ChatGPT stream says of one part. *)
Speaks(line, k, c) ==
  /\ line = BodyLine(line.type, k, c)
  /\ \/ line.type = "text" /\ k = "text" /\ c = <<lines + 1>>
     \/ line.type = "item" /\ k \in Calls \ Mentioned /\ c = <<>>
     \/ line.type = "arguments_done" /\ k \in Calls \ Spoken /\ c = <<lines + 1>>
     \/ line.type \in {"item", "call_done"} /\ k \in Calls \ whole /\ c = ArgumentsOf(k)

LEMMA BodyLineSpeaks ==
  ASSUME NEW line \in BodyLines
  PROVE  \E k \in {"text"} \cup Calls : \E c : Speaks(line, k, c)
<1>1. \A type, k, c : BodyLine(type, k, c).type = type
  BY DEF BodyLine
<1>2. CASE line = BodyLine("text", "text", <<lines + 1>>)
  <2>1. Speaks(line, "text", <<lines + 1>>)
    BY <1>1, <1>2 DEF Speaks
  <2>2. QED
    BY <2>1
<1>3. CASE \E k \in Calls \ Mentioned : line = BodyLine("item", k, <<>>)
  <2>1. PICK k \in Calls \ Mentioned : line = BodyLine("item", k, <<>>)
    BY <1>3
  <2>2. Speaks(line, k, <<>>)
    BY <1>1, <2>1 DEF Speaks
  <2>3. QED
    BY <2>2
<1>4. CASE \E k \in Calls \ Spoken : line = BodyLine("arguments_done", k, ArgumentsOf(k))
  <2>1. PICK k \in Calls \ Spoken : line = BodyLine("arguments_done", k, ArgumentsOf(k))
    BY <1>4
  <2>2. Speaks(line, k, <<lines + 1>>)
    BY <1>1, <2>1 DEF Speaks, ArgumentsOf
  <2>3. QED
    BY <2>2
<1>5. CASE \E type \in {"item", "call_done"}, k \in Calls \ whole :
             line = BodyLine(type, k, ArgumentsOf(k))
  <2>1. PICK type \in {"item", "call_done"}, k \in Calls \ whole :
               line = BodyLine(type, k, ArgumentsOf(k))
    BY <1>5
  <2>2. Speaks(line, k, ArgumentsOf(k))
    BY <1>1, <2>1 DEF Speaks
  <2>3. QED
    BY <2>2
<1>6. QED
  BY <1>2, <1>3, <1>4, <1>5 DEF BodyLines

(* What a line makes of what the server said.                              *)
LEMMA SpeaksSaid ==
  ASSUME Inv, provider = "chatgpt", NEW line, NEW k \in {"text"} \cup Calls, NEW c,
         Speaks(line, k, c), Write(IF k \in Spoken THEN <<>> ELSE line.pieces)
  PROVE  /\ Wrote /\ k \in Keys /\ c \in Content /\ k # "thinking"
         /\ Tells(said', said', lines + 1) /\ Tells(said', parser.body, lines + 1)
         /\ Told(said', PartOf(k, c), k, lines + 1)
         /\ \A i \in DOMAIN said' : said'[i].key # "thinking"
         /\ k \in Spoken => /\ said' = said /\ c # <<>>
                            /\ \A i \in DOMAIN said : said[i].key = k => said[i].content = c
         /\ k \notin Spoken => /\ said' = Says(said, [key |-> k, content |-> c])
                               /\ Brought(said', [key |-> k, content |-> c], lines)
                               /\ c = <<lines + 1>> \/ (c = <<>> /\ k \notin Mentioned)
<1> DEFINE piece == [key |-> k, content |-> c]
<1>1. /\ TypeOK /\ Keyed(said) /\ lines \in Nat /\ said \in Seq(SaidPart)
      /\ Tells(said, said, lines) /\ Tells(said, parser.body, lines)
      /\ \A i \in DOMAIN said : said[i].key # "thinking"
  BY DEF Inv, PartsInv, BodyInv, TypeOK
<1>2. k \in Keys /\ k # "thinking"
  BY StreamAssumption DEF Keys
<1>3. line.pieces = <<piece>>
  BY DEF Speaks, BodyLine, One
<1>4. Spoken = SpokenIn(said)
  BY DEF Spoken, SpokenIn
<1>5. Mentioned = {said[i].key : i \in DOMAIN said}
  BY DEF Mentioned
<1>6. piece.key = k /\ piece.content = c
  OBVIOUS
<1> HIDE DEF piece
<1>7. \A s : Grown(said, said') /\ s = said' => Tells(s, said, lines + 1) /\ Tells(s, parser.body, lines + 1)
  <2>1. lines + 1 \in Nat /\ lines <= lines + 1
    BY <1>1
  <2>2. QED
    BY <1>1, <2>1, TellsStill
<1>8. CASE k \in Spoken
  <2>1. k \in Calls /\ \E i \in DOMAIN said : said[i].key = k /\ said[i].content # <<>>
    BY <1>1, <1>4, <1>8, SpokenCalls
  <2>2. PICK i \in DOMAIN said : said[i].key = k /\ said[i].content # <<>>
    BY <2>1
  <2>3. k \in Mentioned /\ k # "text"
    BY <1>5, <2>1, <2>2, StreamAssumption
  <2>4. c = ArgumentsOf(k)
    BY <1>8, <2>3 DEF Speaks
  <2>5. \A j \in DOMAIN said : said[j].key = k <=> j = i
    BY <1>1, <2>2 DEF Keyed
  <2>6. c = said[i].content
    <3>1. ArgumentsOf(k) = said[CHOOSE j \in DOMAIN said : said[j].key = k].content
      BY <1>8 DEF ArgumentsOf, Arguments
    <3>2. (CHOOSE j \in DOMAIN said : said[j].key = k) = i
      BY <2>5
    <3>3. QED
      BY <2>4, <3>1, <3>2
  <2>7. Wrote /\ said' = said
    <3>1. <<>> \in Seq(Sayable) /\ Len(<<>>) \in 0 .. 2
      OBVIOUS
    <3>2. QED
      BY <1>1, <1>8, <3>1, ServerWrites
  <2>8. c \in Content
    <3>1. said[i] \in SaidPart
      BY <1>1
    <3>2. QED
      BY <2>6, <3>1 DEF SaidPart
  <2>9. Tells(said', said', lines + 1) /\ Tells(said', parser.body, lines + 1)
    BY <1>7, <2>7 DEF Wrote
  <2>10. Told(said', PartOf(k, c), k, lines + 1)
    <3>1. Told(said', said[i], k, lines + 1)
      BY <2>2, <2>7, <2>9 DEF Tells
    <3>2. PartOf(k, c).kind = said[i].kind /\ PartOf(k, c).content = said[i].content
      BY <1>1, <2>2, <2>6 DEF PartOf, Keyed
    <3>3. QED
      BY <3>1, <3>2 DEF Told
  <2>11. QED
    BY <1>1, <1>2, <1>8, <2>2, <2>5, <2>6, <2>7, <2>8, <2>9, <2>10
<1>9. CASE k \notin Spoken
  <2>1. c = <<lines + 1>> \/ (c = <<>> /\ k \notin Mentioned)
    BY <1>9 DEF Speaks, ArgumentsOf
  <2>2. piece \in Sayable
    <3>1. piece \in [key : {k}, content : {c}]
      BY DEF piece
    <3>2. QED
      BY <1>2, <2>1, <3>1 DEF Sayable
  <2>3. line.pieces \in Seq(Sayable) /\ Len(line.pieces) \in 0 .. 2 /\ Len(line.pieces) = 1
        /\ Head(line.pieces) = piece /\ line.pieces # <<>>
    BY <1>3, <2>2
  <2>4. Wrote /\ said' = Says(said, piece) /\ Brought(said', piece, lines)
    <3>1. Write(line.pieces)
      BY <1>9
    <3>2. /\ Wrote
          /\ Len(line.pieces) = 1 => said' = Says(said, Head(line.pieces))
          /\ line.pieces # <<>> => Brought(said', Head(line.pieces), lines)
      BY <1>1, <2>3, <3>1, ServerWrites
    <3>3. QED
      BY <2>3, <3>2
  <2>5. c \in Content
    <3>1. <<lines + 1>> \in Seq(1 .. lines + 1) /\ <<>> \in Seq(1 .. lines + 1)
      BY <1>1
    <3>2. QED
      BY <2>1, <2>4, <3>1 DEF Wrote
  <2>6. Tells(said', said, lines) /\ Keyed(said') /\ Seq(1 .. lines + 1) \subseteq Content
        /\ Tells(said', parser.body, lines + 1)
    <3>1. lines <= lines
      BY <1>1
    <3>2. QED
      BY <1>1, <1>7, <2>4, <3>1, TellsStill DEF Wrote
  <2>7. Tells(said', said', lines + 1)
    <3>1. \/ piece.content = <<lines + 1>>
          \/ \A i \in DOMAIN said : said[i].key # piece.key
      BY <1>5, <1>6, <2>1
    <3>2. Tells(said', Says(said, piece), lines + 1)
      BY <1>1, <2>4, <2>6, <3>1, TellsSays
    <3>3. QED
      BY <2>4, <3>2
  <2>8. Told(said', PartOf(k, c), k, lines + 1)
    BY <1>1, <1>6, <2>4, BroughtTold
  <2>9. \A i \in DOMAIN said' : said'[i].key # "thinking"
    BY <1>1, <1>2, <1>6, <2>4, SaysKeys
  <2>10. QED
    BY <1>2, <1>9, <2>1, <2>4, <2>5, <2>6, <2>7, <2>8, <2>9 DEF piece
<1>10. QED
  BY <1>8, <1>9

LEMMA SpeaksPieces ==
  ASSUME NEW line, NEW k, NEW c, Speaks(line, k, c)
  PROVE  /\ line.pieces = <<[key |-> k, content |-> c]>>
         /\ Ends(line) = IF line.type \in {"item", "call_done"} /\ c # <<>> THEN {k} ELSE {}
<1> DEFINE piece == [key |-> k, content |-> c]
<1>1. line.pieces = <<piece>>
  BY DEF Speaks, BodyLine, One
<1>2. piece.key = k /\ piece.content = c
  OBVIOUS
<1> HIDE DEF piece
<1>3. Head(line.pieces) = piece
  BY <1>1
<1>4. Ends(line) = IF line.type \in {"item", "call_done"} /\ c # <<>> THEN {k} ELSE {}
  BY <1>2, <1>3 DEF Ends
<1>5. QED
  BY <1>1, <1>4 DEF piece

(* What a line makes of a body that it reaches.                            *)
LEMMA SpeaksBody ==
  ASSUME Inv, provider = "chatgpt", NEW line, NEW k \in {"text"} \cup Calls, NEW c,
         Speaks(line, k, c), Write(IF k \in Spoken THEN <<>> ELSE line.pieces)
  PROVE  /\ Tells(said', ChatGPTParse(line), lines + 1)
         /\ Mirrors(said, parser.body, whole) =>
              Mirrors(said', ChatGPTParse(line), whole \cup Ends(line))
<1> DEFINE piece == [key |-> k, content |-> c]
           body == parser.body
           done == whole \cup Ends(line)
           b == ChatGPTParse(line)
<1>1. /\ Wrote /\ k \in Keys /\ c \in Content /\ k # "thinking"
      /\ Tells(said', said', lines + 1) /\ Tells(said', body, lines + 1)
      /\ Told(said', PartOf(k, c), k, lines + 1)
      /\ \A i \in DOMAIN said' : said'[i].key # "thinking"
      /\ k \in Spoken => /\ said' = said /\ c # <<>>
                         /\ \A i \in DOMAIN said : said[i].key = k => said[i].content = c
      /\ k \notin Spoken => /\ said' = Says(said, piece)
                            /\ Brought(said', piece, lines)
                            /\ c = <<lines + 1>> \/ (c = <<>> /\ k \notin Mentioned)
  BY SpeaksSaid
<1>2. /\ lines \in Nat /\ said \in Seq(SaidPart) /\ Keyed(said)
      /\ Tells(said, body, lines) /\ body \in Seq(SaidPart) /\ Keyed(body)
      /\ whole \subseteq Spoken
  BY DEF Inv, PartsInv, BodyInv, TypeOK, Tells
<1>3. /\ Spoken = SpokenIn(said) /\ Mentioned = {said[i].key : i \in DOMAIN said}
      /\ Keyed(said') /\ said' \in Seq(SaidPart) /\ Grown(said, said')
      /\ Seq(1 .. lines + 1) \subseteq Content /\ lines + 1 \in Nat
  BY <1>1, <1>2 DEF Spoken, SpokenIn, Mentioned, Wrote
<1>4. /\ line.pieces = <<piece>>
      /\ Ends(line) = IF line.type \in {"item", "call_done"} /\ c # <<>> THEN {k} ELSE {}
  BY SpeaksPieces
<1>5. piece.key = k /\ piece.content = c /\ Head(line.pieces) = piece
  BY <1>4
<1>6. b = IF ~ \E i \in DOMAIN body : body[i].key = k THEN Append(body, PartOf(k, c))
          ELSE CASE line.type = "text" -> Says(body, piece)
                 [] line.type = "arguments_done" -> body
                 [] line.type = "item" /\ c = <<>> -> body
                 [] OTHER -> WithArgs(body, k, c)
  BY <1>5 DEF ChatGPTParse, Known, PartOf
<1> HIDE DEF piece, body, b, done
<1>7. done = whole \/ (done = whole \cup {k} /\ line.type \in {"item", "call_done"} /\ c # <<>>)
  BY <1>4 DEF done
<1>8. CASE ~ \E i \in DOMAIN body : body[i].key = k
  <2>1. b = Append(body, PartOf(k, c))
    BY <1>6, <1>8
  <2>2. Tells(said', b, lines + 1)
    BY <1>1, <1>3, <1>8, <2>1, TellsNew
  <2>3. ASSUME Mirrors(said, body, whole)
        PROVE  Mirrors(said', b, done)
    <3>1. \A i \in DOMAIN said : said[i].key # k
      BY <1>8, <2>3 DEF Mirrors
    <3>2. k \notin Spoken
      BY <1>2, <1>3, <3>1, SpokenCalls
    <3>3. said' = Append(said, PartOf(k, c))
      BY <1>1, <1>5, <3>1, <3>2 DEF Says, PartOf
    <3>4. done \subseteq whole \cup {k}
      BY <1>7
    <3>5. Mirrors(Append(said, PartOf(k, c)), Append(body, PartOf(k, c)), done)
      BY <1>1, <1>2, <2>3, <3>1, <3>4, MirrorsNew
    <3>6. QED
      BY <2>1, <3>3, <3>5
  <2>4. QED
    BY <2>2, <2>3 DEF b, body, done
<1>9. ASSUME NEW m \in DOMAIN body, body[m].key = k
      PROVE  /\ Tells(said', b, lines + 1)
             /\ Mirrors(said, body, whole) => Mirrors(said', b, done)
  <2>1. k \in Mentioned
    <3>1. \E j \in DOMAIN said : said[j].key = k
      BY <1>2, <1>9 DEF Tells, Told
    <3>2. QED
      BY <1>3, <3>1
  <2>2. c # <<>> /\ (k \notin Spoken => c = <<lines + 1>>)
    <3>1. <<lines + 1>> # <<>>
      OBVIOUS
    <3>2. QED
      BY <1>1, <2>1, <3>1
  <2>3. ASSUME k \notin Spoken, k \in Calls, NEW i \in DOMAIN said, said[i].key = k
        PROVE  said[i].content = <<>> /\ Amended(said, said', k, c)
    <3>1. said[i].content = <<>>
      BY <1>2, <1>3, <2>3, SpokenCalls
    <3>2. Amended(said, Says(said, piece), piece.key, piece.content)
      BY <1>1, <1>2, <1>5, <2>3, <3>1, SaysAmended
    <3>3. QED
      BY <1>1, <1>5, <2>3, <3>1, <3>2
  <2>4. CASE line.type = "text"
    <3>1. k = "text" /\ c = <<lines + 1>> /\ k \notin Calls
      BY <2>2, <2>4, StreamAssumption DEF Speaks
    <3>2. k \notin Spoken
      BY <1>2, <1>3, <3>1, SpokenCalls
    <3>3. b = Says(body, piece)
      BY <1>6, <1>9, <2>4
    <3>4. Tells(said', b, lines + 1)
      <4>1. Tells(said', body, lines)
        <5>1. lines <= lines
          BY <1>2
        <5>2. QED
          BY <1>2, <1>3, <5>1, TellsStill
      <4>2. Brought(said', piece, lines)
        BY <1>1, <3>2
      <4>3. QED
        BY <1>2, <1>3, <1>5, <3>1, <3>3, <4>1, <4>2, TellsSays
    <3>5. ASSUME Mirrors(said, body, whole)
          PROVE  Mirrors(said', b, done)
      <4>1. m \in DOMAIN said /\ said[m].key = k
        BY <1>9, <3>5 DEF Mirrors
      <4>2. done = whole
        BY <1>7, <2>4
      <4>3. Mirrors(Says(said, piece), Says(body, piece), whole)
        BY <1>1, <1>2, <1>5, <3>1, <3>5, <4>1, MirrorsText
      <4>4. QED
        BY <1>1, <3>2, <3>3, <4>2, <4>3
    <3>6. QED
      BY <3>4, <3>5
  <2>5. CASE line.type = "arguments_done"
    <3>1. k \in Calls /\ k \notin Spoken /\ c = <<lines + 1>>
      BY <2>2, <2>5 DEF Speaks
    <3>2. b = body
      BY <1>6, <1>9, <2>5
    <3>3. ASSUME Mirrors(said, body, whole)
          PROVE  Mirrors(said', b, done)
      <4>1. m \in DOMAIN said /\ said[m].key = k
        BY <1>9, <3>3 DEF Mirrors
      <4>2. Amended(said, said', k, c)
        BY <2>3, <3>1, <4>1
      <4>3. \A i \in DOMAIN said : said[i].key = k => said[i].content = <<>>
        BY <2>3, <3>1
      <4>4. k \in Calls \ whole
        BY <1>2, <3>1
      <4>5. done = whole
        BY <1>7, <2>5
      <4>6. QED
        BY <3>2, <3>3, <4>2, <4>3, <4>4, <4>5, MirrorsLate
    <3>4. QED
      BY <1>1, <3>2, <3>3 DEF body
  <2>6. CASE line.type \in {"item", "call_done"}
    <3>1. k \in Calls
      BY <2>6 DEF Speaks
    <3>2. b = WithArgs(body, k, c)
      BY <1>6, <1>9, <2>2, <2>6
    <3>3. Tells(said', b, lines + 1)
      BY <1>1, <1>3, <3>2, TellsArgs DEF body
    <3>4. ASSUME Mirrors(said, body, whole)
          PROVE  Mirrors(said', b, done)
      <4>1. m \in DOMAIN said /\ said[m].key = k
        BY <1>9, <3>4 DEF Mirrors
      <4>2. Amended(said, said', k, c)
        <5>1. CASE k \in Spoken
          BY <1>1, <5>1 DEF Amended
        <5>2. CASE k \notin Spoken
          BY <2>3, <3>1, <4>1, <5>2
        <5>3. QED
          BY <5>1, <5>2
      <4>3. done \subseteq whole \cup {k}
        BY <1>7
      <4>4. Mirrors(said', WithArgs(body, k, c), done)
        BY <1>2, <3>4, <4>2, <4>3, MirrorsArgs
      <4>5. QED
        BY <3>2, <4>4
    <3>5. QED
      BY <3>3, <3>4
  <2>7. QED
    BY <2>4, <2>5, <2>6 DEF Speaks
<1>10. QED
  BY <1>8, <1>9 DEF b, body, done

LEMMA ChatGPTLineKept ==
  ASSUME Inv, ChatGPTLineArrives
  PROVE  Inv'
<1>1. PICK line \in BodyLines :
        /\ Write(IF Head(line.pieces).key \in Spoken THEN <<>> ELSE line.pieces)
        /\ whole' = whole \cup Ends(line)
        /\ \/ parser' = [parser EXCEPT !.body = ChatGPTParse(line)] /\ UNCHANGED lost
           \/ lost' = TRUE /\ UNCHANGED parser
  BY DEF ChatGPTLineArrives
<1>2. /\ provider = "chatgpt" /\ reason' = reason /\ over' = over /\ response' = response
      /\ UNCHANGED buffer
  BY DEF ChatGPTLineArrives
<1>k. PICK k \in {"text"} \cup Calls : \E c : Speaks(line, k, c)
  BY BodyLineSpeaks
<1>3. PICK c : Speaks(line, k, c)
  BY <1>k
<1>4. /\ line.pieces = <<[key |-> k, content |-> c]>>
      /\ Ends(line) = IF line.type \in {"item", "call_done"} /\ c # <<>> THEN {k} ELSE {}
  BY <1>3, SpeaksPieces
<1>5. Write(IF k \in Spoken THEN <<>> ELSE line.pieces)
  <2>1. Head(line.pieces).key = k
    BY <1>4
  <2>2. QED
    BY <1>1, <2>1
<1>6. /\ Wrote
      /\ Tells(said', said', lines + 1) /\ Tells(said', parser.body, lines + 1)
      /\ Told(said', PartOf(k, c), k, lines + 1)
      /\ \A i \in DOMAIN said' : said'[i].key # "thinking"
      /\ k \in Spoken => said' = said
      /\ k \notin Spoken => /\ Brought(said', [key |-> k, content |-> c], lines)
                            /\ c = <<lines + 1>> \/ (c = <<>> /\ k \notin Mentioned)
  BY <1>2, <1>3, <1>5, SpeaksSaid
<1>7. /\ Tells(said', ChatGPTParse(line), lines + 1)
      /\ Mirrors(said, parser.body, whole) =>
           Mirrors(said', ChatGPTParse(line), whole \cup Ends(line))
  BY <1>2, <1>3, <1>5, SpeaksBody
<1>8. /\ TypeOK /\ said \in Seq(SaidPart) /\ Keyed(said) /\ whole \subseteq Spoken
      /\ ~ over /\ over \in BOOLEAN /\ lost \in BOOLEAN /\ whole \subseteq Calls
      /\ said' \in Seq(SaidPart) /\ Keyed(said') /\ Grown(said, said')
      /\ ~ lost => Mirrors(said, parser.body, whole)
  BY <1>2, <1>6 DEF Inv, PartsInv, BodyInv, TypeOK, Wrote
<1>9. Spoken = SpokenIn(said) /\ Spoken' = SpokenIn(said')
  BY DEF Spoken, SpokenIn
<1>10. Ends(line) \subseteq Spoken' /\ Ends(line) \subseteq Calls
  <2>1. SUFFICES ASSUME line.type \in {"item", "call_done"}, c # <<>>
                 PROVE  k \in Spoken' /\ k \in Calls
    BY <1>4
  <2>2. k \in Calls
    BY <1>3, <2>1 DEF Speaks
  <2>3. CASE k \in Spoken
    BY <1>6, <1>9, <2>2, <2>3
  <2>4. CASE k \notin Spoken
    <3>1. c = <<lines + 1>>
      BY <1>6, <2>1, <2>4
    <3> DEFINE piece == [key |-> k, content |-> c]
    <3>2. piece.key = k /\ piece.content = c
      OBVIOUS
    <3>3. Brought(said', piece, lines)
      BY <1>6, <2>4
    <3> HIDE DEF piece
    <3>4. PICK j \in DOMAIN said' : said'[j].key = k /\ ToSet(c) \subseteq ToSet(said'[j].content)
      BY <3>2, <3>3 DEF Brought
    <3>5. said'[j].content # <<>>
      <4>1. ToSet(<<>>) = {} /\ lines + 1 \in ToSet(<<lines + 1>>)
        BY DEF ToSet
      <4>2. QED
        BY <3>1, <3>4, <4>1
    <3>6. k \in SpokenIn(said')
      <4> DEFINE S == SaidPart
      <4>1. \A s \in Seq(S) : Keyed(s) /\ s = said' => k \in SpokenIn(s)
        BY <2>2, <3>4, <3>5, SpokenCalls
      <4>2. QED
        BY <1>8, <4>1
    <3>7. QED
      BY <1>9, <2>2, <3>6
  <2>5. QED
    BY <2>3, <2>4
<1>11. whole' \subseteq Spoken' /\ whole' \subseteq Calls
  <2>1. SpokenIn(said) \subseteq SpokenIn(said')
    BY <1>8, SpokenStill
  <2>2. QED
    BY <1>1, <1>8, <1>9, <1>10, <2>1
<1>12. DOMAIN parser.slot \subseteq Keys /\ parser \in Parser(DOMAIN parser.slot)
  BY <1>8, ParserType
<1>13. CASE lost' = TRUE /\ UNCHANGED parser
  <2>1. lost' \in BOOLEAN /\ over' \in BOOLEAN /\ ~ over'
    BY <1>2, <1>8, <1>13
  <2>2. QED
    BY <1>2, <1>6, <1>11, <1>12, <1>13, <2>1, ChatGPTKept
<1>14. CASE parser' = [parser EXCEPT !.body = ChatGPTParse(line)] /\ UNCHANGED lost
  <2> DEFINE b == ChatGPTParse(line)
             ended == whole \cup Ends(line)
  <2>1. b \in Seq(SaidPart)
    BY <1>7 DEF Tells
  <2>2. Tells(said', b, lines + 1) /\ (Mirrors(said, parser.body, whole) => Mirrors(said', b, ended))
    BY <1>7
  <2>3. parser' = [parser EXCEPT !.body = b] /\ whole' = ended /\ lost' = lost
    BY <1>1, <1>14
  <2> HIDE DEF b, ended
  <2>4. /\ parser' \in Parser(DOMAIN parser.slot)
        /\ parser'.slot = parser.slot /\ parser'.started = parser.started
        /\ parser'.finish = parser.finish /\ parser'.body = b
    BY <1>12, <2>1, <2>3, BodyType
  <2>5. lost' \in BOOLEAN /\ over' \in BOOLEAN /\ ~ over'
    BY <1>2, <1>8, <2>3
  <2>6. Tells(said', parser'.body, lines + 1)
        /\ (~ lost' => Mirrors(said', parser'.body, whole'))
    BY <1>8, <2>2, <2>3, <2>4
  <2>7. QED
    BY <1>2, <1>6, <1>11, <2>4, <2>5, <2>6, ChatGPTKept
<1>15. QED
  BY <1>1, <1>13, <1>14

----------------------------------------------------------------------------
(* The end *)

Starts(parts) ==
  [i \in DOMAIN parts |-> PartStart(i - 1, [key |-> parts[i].key, content |-> parts[i].content])]

StartEvent == [type : {"start"}, index : Nat, kind : Kinds, content : Content]

(* Parts that start whole, one after the other.                            *)
LEMMA StartsCollected ==
  ASSUME NEW r \in Response, r.parts = <<>>, r.finish = None,
         NEW body \in Seq(SaidPart), Keyed(body)
  PROVE  LET w == Collected(r, Starts(body))
         IN /\ Starts(body) \in Seq(StartEvent)
            /\ w \in Response
            /\ w.parts = Bare(body)
            /\ w.finish = None /\ w.outcome = r.outcome /\ w.stray = r.stray
<1> DEFINE l == Len(body)
           starts == Starts(body)
           Piece1(n) == [key |-> body[n].key, content |-> body[n].content]
           WholePart(n) == [kind |-> body[n].kind, content |-> body[n].content]
<1>1. l \in Nat /\ DOMAIN body = 1 .. l
  OBVIOUS
<1>2. \A n \in 1 .. l : /\ body[n].key \in Keys /\ body[n].content \in Content
                        /\ body[n].kind = Kind(body[n].key) /\ body[n].kind \in Kinds
  <2>1. \A n \in 1 .. l : body[n] \in SaidPart
    OBVIOUS
  <2>2. QED
    BY <1>1, <2>1 DEF SaidPart, Keyed
<1>3. \A n \in 1 .. l : /\ starts[n] = PartStart(n - 1, Piece1(n))
                        /\ starts[n] \in StartEvent
  <2>1. SUFFICES ASSUME NEW n \in 1 .. l
                 PROVE  /\ starts[n] = PartStart(n - 1, Piece1(n))
                        /\ starts[n] \in StartEvent
    OBVIOUS
  <2>2. starts[n] = PartStart(n - 1, Piece1(n))
    BY <1>1 DEF Starts
  <2>3. PartStart(n - 1, Piece1(n)) = [type |-> "start", index |-> n - 1,
                                       kind |-> body[n].kind, content |-> body[n].content]
    BY <1>2 DEF PartStart
  <2>4. n - 1 \in Nat
    BY <1>1
  <2> HIDE DEF Piece1, starts
  <2>5. starts[n] \in StartEvent
    BY <1>2, <2>2, <2>3, <2>4 DEF StartEvent
  <2>6. QED
    BY <2>2, <2>5
<1>4. starts \in Seq(StartEvent) /\ Len(starts) = l
  <2>1. starts = [n \in 1 .. l |-> starts[n]]
    BY <1>1 DEF Starts
  <2> HIDE DEF starts, l
  <2>2. starts \in [1 .. l -> StartEvent]
    BY <1>3, <2>1
  <2>3. QED
    BY <1>1, <2>2, FunctionSequence
<1> HIDE DEF l, starts
<1>5. PICK f : /\ Collected(r, starts) = f[l]
               /\ f[0] = r
               /\ \A n \in 1 .. l : f[n] = Collect(f[n - 1], starts[n])
  <2>1. Len(starts) \in Nat /\ Len(starts) = l
    BY <1>1, <1>4
  <2>2. \E f : Collecting(r, starts, f)
    BY <2>1, CollectedUnfolds
  <2>3. QED
    BY <2>1, <2>2 DEF Collecting
<1> DEFINE Good(n) ==
      /\ f[n] \in Response
      /\ Len(f[n].parts) = n
      /\ \A i \in 1 .. n : f[n].parts[i] = WholePart(i)
      /\ f[n].finish = None /\ f[n].outcome = r.outcome /\ f[n].stray = r.stray
<1>6. ASSUME NEW n \in 1 .. l, Good(n - 1)
      PROVE  Good(n)
  <2> DEFINE v == f[n - 1]
             piece == Piece1(n)
             part == WholePart(n)
             w == Collect(v, PartStart(n - 1, piece))
  <2>1. /\ v \in Response /\ Len(v.parts) = n - 1
        /\ \A i \in 1 .. n - 1 : v.parts[i] = WholePart(i)
        /\ v.finish = None /\ v.outcome = r.outcome /\ v.stray = r.stray
    BY <1>6
  <2>2. f[n] = w
    BY <1>3, <1>5
  <2>3. n - 1 \in Nat /\ piece.key \in Keys /\ piece.content \in Content
    BY <1>1, <1>2
  <2>4. [kind |-> Kind(piece.key), content |-> piece.content] = part
    BY <1>2
  <2> HIDE DEF v, piece, Good, WholePart
  <2>5. /\ w \in Response
        /\ w.parts = Append(v.parts, [kind |-> Kind(piece.key), content |-> piece.content])
        /\ w.finish = v.finish /\ w.outcome = v.outcome
        /\ v.finish = None /\ n - 1 = Len(v.parts) => w.stray = v.stray
    <3>1. Opens(v, n - 1, piece, Collect(v, PartStart(n - 1, piece)))
      BY <2>1, <2>3, StartOpens
    <3>2. QED
      BY <3>1 DEF Opens, w
  <2> HIDE DEF w
  <2>6. w.parts = Append(v.parts, part)
    BY <2>4, <2>5
  <2>7. v.parts \in Seq(Part)
    BY <2>1 DEF Response
  <2>8. Len(w.parts) = n /\ \A i \in 1 .. n : w.parts[i] = WholePart(i)
    <3> HIDE DEF part
    <3>1. /\ Len(w.parts) = n - 1 + 1
          /\ \A i \in 1 .. n - 1 : w.parts[i] = v.parts[i]
          /\ w.parts[n] = part
      BY <1>1, <2>1, <2>6, <2>7
    <3>2. \A i \in 1 .. n : i \in 1 .. n - 1 \/ i = n
      BY <1>1
    <3>3. n - 1 + 1 = n
      BY <1>1
    <3>4. QED
      BY <2>1, <3>1, <3>2, <3>3 DEF part
  <2>9. QED
    BY <2>1, <2>2, <2>5, <2>8 DEF Good
<1>7. Good(0)
  BY <1>5
<1> HIDE DEF Good
<1> DEFINE Bad == {n \in 0 .. l : ~ Good(n)}
<1>8. Bad = {}
  <2>1. SUFFICES ASSUME Bad # {} PROVE FALSE
    OBVIOUS
  <2>2. PICK n \in Bad : \A m \in Bad : n <= m
    <3>1. Bad \subseteq Nat
      OBVIOUS
    <3>2. QED
      BY <2>1, <3>1, Least
  <2>3. n \in 1 .. l /\ n - 1 \in 0 .. l
    BY <1>1, <1>7, <2>2
  <2>4. Good(n - 1)
    BY <2>2, <2>3
  <2>5. QED
    BY <1>6, <2>2, <2>3, <2>4
<1>9. Good(l)
  <2>1. l \in 0 .. l
    BY <1>1
  <2>2. QED
    BY <1>8, <2>1
<1>10. f[l].parts = Bare(body)
  <2> DEFINE v == f[l].parts
             u == Bare(body)
  <2>1. u \in Seq(Part) /\ Len(u) = l /\ \A i \in 1 .. l : u[i] = WholePart(i)
    BY BareParts DEF l
  <2>2. v \in Seq(Part) /\ Len(v) = l /\ \A i \in 1 .. l : v[i] = WholePart(i)
    BY <1>9 DEF Good, Response
  <2> HIDE DEF v, u, WholePart
  <2>3. v = u
    BY <2>1, <2>2, SameSequence
  <2>4. QED
    BY <2>3 DEF v, u
<1>11. QED
  BY <1>4, <1>5, <1>9, <1>10 DEF Good, starts

(* The parts of one kind. *)
LEMMA OfKindPlaces ==
  ASSUME NEW body \in Seq(SaidPart), NEW kind
  PROVE  /\ OfKind(body, kind) \in Seq(SaidPart)
         /\ \E g : /\ g \in [DOMAIN OfKind(body, kind) -> DOMAIN body]
                   /\ \A i \in DOMAIN OfKind(body, kind) :
                        OfKind(body, kind)[i] = body[g[i]] /\ body[g[i]].kind = kind
                   /\ \A i, j \in DOMAIN OfKind(body, kind) : g[i] = g[j] => i = j
                   /\ \A j \in DOMAIN body :
                        body[j].kind = kind => \E i \in DOMAIN OfKind(body, kind) : g[i] = j
<1> DEFINE kept == [key : Keys, kind : {kind}, content : Seq(Nat)]
           r == Only(body, kept)
<1>1. r \in Seq(SaidPart) /\ \E g : Places(body, kept, Len(body), r, g)
  BY OnlyPlaces
<1>2. \A i \in DOMAIN body : body[i] \in kept <=> body[i].kind = kind
  <2>1. Content \subseteq Seq(Nat)
    <3> DEFINE S == 1 .. MaxLines[provider]
    <3>1. S \subseteq Nat
      OBVIOUS
    <3> HIDE DEF S
    <3>2. Seq(S) \subseteq Seq(Nat)
      BY <3>1, Wider
    <3>3. QED
      BY <3>2 DEF Content, S
  <2>2. \A i \in DOMAIN body : body[i] \in SaidPart
    OBVIOUS
  <2>3. QED
    BY <2>1, <2>2 DEF SaidPart
<1>3. OfKind(body, kind) = r
  BY DEF OfKind
<1> HIDE DEF kept, r
<1>4. PICK g : Places(body, kept, Len(body), r, g)
  BY <1>1
<1>5. DOMAIN r = 1 .. Len(r) /\ DOMAIN body = 1 .. Len(body) /\ Len(r) \in Nat
  BY <1>1
<1>6. /\ g \in [DOMAIN r -> DOMAIN body]
      /\ \A i \in DOMAIN r : r[i] = body[g[i]] /\ body[g[i]] \in kept
      /\ \A i, j \in DOMAIN r : i < j => g[i] < g[j]
      /\ \A j \in DOMAIN body : body[j] \in kept => \E i \in DOMAIN r : g[i] = j
  BY <1>4, <1>5 DEF Places
<1>7. \A i, j \in DOMAIN r : g[i] = g[j] => i = j
  <2>1. SUFFICES ASSUME NEW i \in DOMAIN r, NEW j \in DOMAIN r, i < j
                 PROVE  g[i] # g[j]
    BY <1>5
  <2>2. g[i] < g[j] /\ g[i] \in DOMAIN body
    BY <1>6, <2>1
  <2>3. QED
    BY <1>5, <2>2
<1>8. \A i \in DOMAIN r : body[g[i]].kind = kind
  BY <1>2, <1>6
<1>9. QED
  BY <1>1, <1>2, <1>3, <1>6, <1>7, <1>8

(* Texts before calls, and each part of the body once.                     *)
LEMMA TextFirstType ==
  ASSUME NEW body \in Seq(SaidPart), Keyed(body)
  PROVE  /\ TextFirst(body) \in Seq(SaidPart)
         /\ Keyed(TextFirst(body))
         /\ \A i \in DOMAIN TextFirst(body) : \E j \in DOMAIN body : TextFirst(body)[i] = body[j]
<1> DEFINE x == OfKind(body, "text")
           y == OfKind(body, "call")
           z == x \o y
<1>1. x \in Seq(SaidPart) /\ y \in Seq(SaidPart)
  BY OfKindPlaces
<1>2. PICK g : /\ g \in [DOMAIN x -> DOMAIN body]
               /\ \A i \in DOMAIN x : x[i] = body[g[i]] /\ body[g[i]].kind = "text"
               /\ \A i, j \in DOMAIN x : g[i] = g[j] => i = j
  BY OfKindPlaces
<1>3. PICK h : /\ h \in [DOMAIN y -> DOMAIN body]
               /\ \A i \in DOMAIN y : y[i] = body[h[i]] /\ body[h[i]].kind = "call"
               /\ \A i, j \in DOMAIN y : h[i] = h[j] => i = j
  BY OfKindPlaces
<1> HIDE DEF x, y
<1>4. /\ z \in Seq(SaidPart) /\ Len(z) = Len(x) + Len(y)
      /\ \A n \in 1 .. Len(x) : z[n] = x[n]
      /\ \A n \in 1 .. Len(y) : z[Len(x) + n] = y[n]
  BY <1>1, Concatenation
<1> HIDE DEF z
<1>5. /\ DOMAIN x = 1 .. Len(x) /\ DOMAIN y = 1 .. Len(y) /\ DOMAIN z = 1 .. Len(x) + Len(y)
      /\ Len(x) \in Nat /\ Len(y) \in Nat
  BY <1>1, <1>4
<1> DEFINE at == [n \in DOMAIN z |-> IF n \in 1 .. Len(x) THEN g[n] ELSE h[n - Len(x)]]
<1>6. ASSUME NEW n \in DOMAIN z
      PROVE  /\ at[n] \in DOMAIN body /\ z[n] = body[at[n]]
             /\ n \in 1 .. Len(x) => at[n] = g[n] /\ body[at[n]].kind = "text"
             /\ n \notin 1 .. Len(x) => /\ at[n] = h[n - Len(x)] /\ n - Len(x) \in DOMAIN y
                                        /\ body[at[n]].kind = "call"
  <2>1. CASE n \in 1 .. Len(x)
    BY <1>2, <1>4, <1>5, <2>1
  <2>2. CASE n \notin 1 .. Len(x)
    <3>1. n - Len(x) \in 1 .. Len(y) /\ n = Len(x) + (n - Len(x))
      BY <1>5, <2>2
    <3>2. z[n] = y[n - Len(x)]
      BY <1>4, <3>1
    <3>3. QED
      BY <1>3, <1>5, <2>2, <3>1, <3>2
  <2>3. QED
    BY <2>1, <2>2
<1> HIDE DEF at
<1>7. \A i, j \in DOMAIN z : at[i] = at[j] => i = j
  <2>1. SUFFICES ASSUME NEW i \in DOMAIN z, NEW j \in DOMAIN z, at[i] = at[j]
                 PROVE  i = j
    OBVIOUS
  <2>2. CASE i \in 1 .. Len(x)
    <3>1. j \in 1 .. Len(x)
      BY <1>6, <2>1, <2>2
    <3>2. QED
      BY <1>2, <1>5, <1>6, <2>1, <2>2, <3>1
  <2>3. CASE i \notin 1 .. Len(x)
    <3>1. j \notin 1 .. Len(x)
      BY <1>6, <2>1, <2>3
    <3>2. i - Len(x) = j - Len(x)
      BY <1>3, <1>6, <2>1, <2>3, <3>1
    <3>3. QED
      BY <1>5, <3>2
  <2>4. QED
    BY <2>2, <2>3
<1>8. Keyed(z)
  <2>1. \A i \in DOMAIN z : z[i].kind = Kind(z[i].key)
    BY <1>6 DEF Keyed
  <2>2. \A i, j \in DOMAIN z : z[i].key = z[j].key => i = j
    BY <1>6, <1>7 DEF Keyed
  <2>3. QED
    BY <2>1, <2>2 DEF Keyed
<1>9. TextFirst(body) = z
  BY DEF TextFirst, x, y, z
<1>10. QED
  BY <1>4, <1>6, <1>8, <1>9

(* The agent goes on, or gives up: nothing but the outcome changes.        *)
LEMMA OutcomeKept ==
  ASSUME Inv, response.outcome = "streaming", UNCHANGED <<serverVars, buffer, parser>>,
         response' \in Response,
         response'.parts = response.parts, response'.finish = response.finish,
         response'.open = response.open, response'.stray = response.stray,
         response'.outcome # "streaming",
         provider = "anthropic" /\ response'.outcome = "accepted" => response.finish # None
  PROVE  Inv'
<1>1. /\ provider' = provider /\ said' = said /\ reason' = reason /\ over' = over
      /\ whole' = whole /\ lost' = lost /\ lines' = lines /\ parser' = parser
      /\ held' = held /\ joined' = joined /\ overtaken' = overtaken
  BY DEF serverVars, buffer
<1>2. TypeOK /\ provider \in Providers
  BY DEF Inv, TypeOK
<1>3. TypeOK'
  <2>1. /\ said \in Seq(SaidPart) /\ reason \in Reasons \cup {None} /\ whole \subseteq Calls
        /\ over \in BOOLEAN /\ lost \in BOOLEAN /\ lines \in 0 .. MaxLines[provider]
    BY <1>2 DEF TypeOK
  <2>2. DOMAIN parser.slot \in SUBSET Keys /\ parser' \in Parser(DOMAIN parser.slot)
    BY <1>1, <1>2, ParserType
  <2>3. /\ said' \in Seq(SaidPart) /\ reason' \in Reasons \cup {None} /\ whole' \subseteq Calls
        /\ over' \in BOOLEAN /\ lost' \in BOOLEAN /\ lines' \in 0 .. MaxLines[provider]
    BY <1>1, <2>1
  <2>4. held' \in Keys \cup {None} /\ joined' \in BOOLEAN /\ overtaken' \in BOOLEAN
    BY <1>1, <1>2, BufferType
  <2>5. QED
    BY <1>1, <1>2, <2>2, <2>3, <2>4, TypeKept
<1>s. Source' = Source
  BY <1>1 DEF Source, All
<1>4. PartsInv'
  <2>1. Slotted(parser, response, Source, lines) => Slotted(parser', response', Source', lines')
    BY <1>1, <1>s DEF Slotted
  <2>2. Same(parser, response, said) => Same(parser', response', said')
    BY <1>1 DEF Same
  <2>3. PartsInv
    BY DEF Inv
  <2>4. QED
    BY <1>1, <2>1, <2>2, <2>3 DEF PartsInv
<1>o. BufferInv' /\ OpenAIInv'
  <2>1. Mentioned' = Mentioned
    BY <1>1 DEF Mentioned
  <2>2. Slotted(Placed(parser), response, Source, lines) =>
          Slotted(Placed(parser'), response', Source', lines')
    BY <1>1, <1>s DEF Slotted
  <2>3. SameStarted(parser, response, said) => SameStarted(parser', response', said')
    BY <1>1 DEF SameStarted
  <2>4. Numbered(parser) => Numbered(parser')
    BY <1>1
  <2>5. BufferInv /\ OpenAIInv
    BY DEF Inv
  <2>6. BufferInv'
    BY <1>1, <2>1, <2>5 DEF BufferInv
  <2>7. OpenAIInv'
    BY <1>1, <2>2, <2>3, <2>4, <2>5 DEF OpenAIInv
  <2>8. QED
    BY <2>6, <2>7
<1>5. OpenInv'
  <2>1. OpenKeys(parser)' = OpenKeys(parser)
    BY <1>1 DEF OpenKeys
  <2>2. QED
    BY <1>1, <2>1 DEF OpenInv, Inv
<1>6. FinishInv'
  <2>1. FinishInv
    BY DEF Inv
  <2>2. QED
    BY <1>1, <2>1 DEF FinishInv
<1>7. CohereInv' /\ EventsInPlace'
  BY <1>1 DEF CohereInv, EventsInPlace, Inv
<1>8. BodyInv'
  <2>1. BodyInv
    BY DEF Inv
  <2>2. Spoken' = Spoken /\ Mentioned' = Mentioned
    BY <1>1 DEF Spoken, Mentioned
  <2>3. /\ Tells(said, said, lines)' <=> Tells(said, said, lines)
        /\ Tells(said, parser.body, lines)' <=> Tells(said, parser.body, lines)
    <3>1. SaidPart' = SaidPart
      BY <1>1 DEF SaidPart, Content
    <3>2. QED
      BY <1>1, <3>1 DEF Tells
  <2>4. QED
    BY <1>1, <2>1, <2>2, <2>3 DEF BodyInv
<1>9. QED
  BY <1>3, <1>4, <1>o, <1>5, <1>6, <1>7, <1>8 DEF Inv

LEMMA OutcomeType ==
  ASSUME NEW r \in Response, NEW outcome \in {"streaming", "accepted", "failed"}
  PROVE  LET w == [r EXCEPT !.outcome = outcome]
         IN /\ w \in Response
            /\ w.parts = r.parts /\ w.finish = r.finish /\ w.open = r.open
            /\ w.stray = r.stray /\ w.outcome = outcome
BY DEF Response

LEMMA ConnectionFailsKept ==
  ASSUME Inv, ConnectionFails
  PROVE  Inv'
<1>1. /\ response.outcome = "streaming" /\ response' = [response EXCEPT !.outcome = "failed"]
      /\ UNCHANGED <<serverVars, buffer, parser>>
  BY DEF ConnectionFails, Failed
<1>2. response \in Response
  BY DEF Inv, TypeOK
<1>3. /\ response' \in Response
      /\ response'.parts = response.parts /\ response'.finish = response.finish
      /\ response'.open = response.open /\ response'.stray = response.stray
      /\ response'.outcome = "failed"
  BY <1>1, <1>2, OutcomeType
<1>4. QED
  BY <1>1, <1>3, OutcomeKept

LEMMA WholeResponseCollected ==
  ASSUME Inv, provider = "chatgpt", response.outcome = "streaming"
  PROVE  LET w == Collected(response, WholeResponse)
         IN /\ w \in Response
            /\ w.parts = Bare(TextFirst(parser.body))
            /\ w.finish = Stop /\ w.outcome = "streaming" /\ w.stray = response.stray
<1> DEFINE parts == TextFirst(parser.body)
           starts == Starts(parts)
           c == StreamComplete(Stop)
           S == StartEvent \cup {c}
           v == Collected(response, starts)
           w == Collect(v, c)
<1>1. response \in Response /\ response.parts = <<>> /\ response.finish = None
  BY DEF Inv, TypeOK, BodyInv
<1>2. parser.body \in Seq(SaidPart) /\ Keyed(parser.body)
  BY DEF Inv, BodyInv, Tells
<1>3. parts \in Seq(SaidPart) /\ Keyed(parts)
  BY <1>2, TextFirstType
<1>4. WholeResponse = starts \o <<c>>
  BY DEF WholeResponse, Starts
<1> HIDE DEF parts
<1>5. /\ starts \in Seq(StartEvent)
      /\ v \in Response
      /\ v.parts = Bare(parts)
      /\ v.finish = None /\ v.outcome = response.outcome /\ v.stray = response.stray
  BY <1>1, <1>3, StartsCollected
<1> HIDE DEF v, starts, c
<1>6. Collected(response, starts \o <<c>>) = w
  <2>1. StartEvent \subseteq S /\ c \in S
    OBVIOUS
  <2> HIDE DEF S
  <2>2. Seq(StartEvent) \subseteq Seq(S)
    BY <2>1, Wider
  <2>3. starts \in Seq(S) /\ <<c>> \in Seq(S)
    BY <1>5, <2>1, <2>2
  <2>4. Collected(response, starts \o <<c>>) = Collected(Collected(response, starts), <<c>>)
    BY <2>3, CollectedMore
  <2>5. Collected(v, <<c>>) = Collect(v, c)
    BY CollectedFew
  <2>6. QED
    BY <2>4, <2>5 DEF v
<1>7. Stop \in Reasons \cup {None}
  BY StreamAssumption
<1>8. /\ w \in Response
      /\ w.parts = v.parts /\ w.outcome = v.outcome /\ w.finish = Stop
      /\ v.finish = None => w.stray = v.stray
  BY <1>5, <1>7, CompleteType DEF c
<1> HIDE DEF w
<1>9. /\ w \in Response /\ w.parts = Bare(parts) /\ w.finish = Stop
      /\ w.outcome = "streaming" /\ w.stray = response.stray
  BY <1>5, <1>8
<1>10. Collected(response, WholeResponse) = w
  BY <1>4, <1>6
<1>11. QED
  BY <1>9, <1>10 DEF parts

LEMMA EndOfStreamKept ==
  ASSUME Inv, EndOfStream
  PROVE  Inv'
<1> DEFINE outcome(r) == IF r.parts = <<>> THEN "failed" ELSE "accepted"
<1>1. response.outcome = "streaming" /\ UNCHANGED <<serverVars, buffer, parser>> /\ response \in Response
  BY DEF EndOfStream, Inv, TypeOK
<1>2. \A r : outcome(r) \in {"streaming", "accepted", "failed"} \ {"streaming"}
  OBVIOUS
<1>3. CASE ~ EndsWell
  <2>1. response' = [response EXCEPT !.outcome = "failed"]
    BY <1>3 DEF EndOfStream, Failed
  <2>2. /\ response' \in Response
        /\ response'.parts = response.parts /\ response'.finish = response.finish
        /\ response'.open = response.open /\ response'.stray = response.stray
        /\ response'.outcome = "failed"
    BY <1>1, <2>1, OutcomeType
  <2>3. QED
    BY <1>1, <2>2, OutcomeKept
<1>4. CASE EndsWell /\ provider # "chatgpt"
  <2>1. response' = [response EXCEPT !.outcome = outcome(response)]
    BY <1>4, CollectedFew DEF EndOfStream, Finished
  <2> DEFINE o == outcome(response)
  <2>2. o \in {"streaming", "accepted", "failed"} /\ o # "streaming"
    OBVIOUS
  <2>3. response' = [response EXCEPT !.outcome = o]
    BY <2>1
  <2> HIDE DEF o, outcome
  <2>4. /\ response' \in Response
        /\ response'.parts = response.parts /\ response'.finish = response.finish
        /\ response'.open = response.open /\ response'.stray = response.stray
        /\ response'.outcome = o
    BY <1>1, <2>2, <2>3, OutcomeType
  <2>5. QED
    BY <1>1, <1>4, <2>2, <2>4, OutcomeKept DEF EndsWell
<1>5. CASE EndsWell /\ provider = "chatgpt"
  <2> DEFINE w == Collected(response, WholeResponse)
             o == outcome(w)
  <2>1. /\ w \in Response
        /\ w.parts = Bare(TextFirst(parser.body))
        /\ w.finish = Stop /\ w.stray = response.stray
    BY <1>1, <1>5, WholeResponseCollected
  <2>2. response' = [w EXCEPT !.outcome = o]
    BY <1>5 DEF EndOfStream, Finished
  <2>3. o \in {"streaming", "accepted", "failed"} /\ o # "streaming"
    OBVIOUS
  <2> HIDE DEF o, outcome, w
  <2>4. /\ response' \in Response
        /\ response'.parts = w.parts /\ response'.finish = w.finish
        /\ response'.stray = w.stray /\ response'.outcome = o
    BY <2>1, <2>2, <2>3, OutcomeType
  <2>5. /\ response' \in Response
        /\ response'.parts = Bare(TextFirst(parser.body)) /\ response'.finish = Stop
        /\ response'.stray = response.stray /\ response'.outcome # "streaming" /\ Stop # None
    BY <2>1, <2>3, <2>4, StreamAssumption
  <2>6. /\ provider' = provider /\ said' = said /\ reason' = reason /\ over' = over
        /\ whole' = whole /\ lost' = lost /\ lines' = lines /\ parser' = parser
    BY <1>1 DEF serverVars
  <2>b. /\ held' \in Keys \cup {None} /\ joined' \in BOOLEAN /\ overtaken' \in BOOLEAN
        /\ ~ joined' /\ ~ overtaken' /\ ~ overtaken /\ Source = said
    BY <1>1, <1>5, BufferType, NoBuffer DEF buffer, Inv, Bytewise
  <2>7. TypeOK'
    <3>1. /\ said \in Seq(SaidPart) /\ reason \in Reasons \cup {None} /\ whole \subseteq Calls
          /\ over \in BOOLEAN /\ lost \in BOOLEAN /\ lines \in 0 .. MaxLines[provider]
          /\ provider \in Providers
      BY DEF Inv, TypeOK
    <3>2. DOMAIN parser.slot \in SUBSET Keys /\ parser' \in Parser(DOMAIN parser.slot)
      BY <2>6, ParserType DEF Inv
    <3>3. /\ said' \in Seq(SaidPart) /\ reason' \in Reasons \cup {None} /\ whole' \subseteq Calls
          /\ over' \in BOOLEAN /\ lost' \in BOOLEAN /\ lines' \in 0 .. MaxLines[provider]
      BY <2>6, <3>1
    <3>4. QED
      BY <2>5, <2>6, <2>b, <3>1, <3>2, <3>3, TypeKept
  <2>8. PartsInv' /\ BufferInv' /\ OpenAIInv'
    BY <1>5, <2>6, <2>b DEF Inv, PartsInv, BufferInv, OpenAIInv, ByIndex, Bytewise
  <2>9. OpenInv'
    BY <1>5, <2>5, <2>6 DEF OpenInv
  <2>10. reason = None /\ parser.finish = None
    BY <1>5 DEF Inv, BodyInv, FinishInv
  <2>11. FinishInv'
    BY <1>5, <2>5, <2>6, <2>10 DEF FinishInv
  <2>12. CohereInv' /\ EventsInPlace'
    BY <1>5, <2>5, <2>6, <2>b DEF CohereInv, EventsInPlace, Inv
  <2>13. BodyInv'
    <3>1. BodyInv
      BY DEF Inv
    <3>2. Spoken' = Spoken /\ Mentioned' = Mentioned
      BY <2>6 DEF Spoken, Mentioned
    <3>3. /\ Tells(said, said, lines)' <=> Tells(said, said, lines)
          /\ Tells(said, parser.body, lines)' <=> Tells(said, parser.body, lines)
      <4>1. SaidPart' = SaidPart
        BY <2>6 DEF SaidPart, Content
      <4>2. QED
        BY <2>6, <4>1 DEF Tells
    <3>4. TextFirst(parser.body)' = TextFirst(parser.body)
      BY <2>6
    <3>5. Bare(TextFirst(parser.body))' = Bare(TextFirst(parser.body))
      BY <2>6
    <3>6. QED
      BY <1>5, <2>5, <2>6, <3>1, <3>2, <3>3, <3>5 DEF BodyInv
  <2>14. QED
    BY <2>7, <2>8, <2>9, <2>11, <2>12, <2>13 DEF Inv
<1>6. QED
  BY <1>3, <1>4, <1>5

----------------------------------------------------------------------------
(* The invariant holds *)

LEMMA InvInit ==
  ASSUME Init
  PROVE  Inv
<1>1. /\ provider \in Providers
      /\ said = <<>> /\ reason = None /\ over = FALSE /\ whole = {} /\ lost = FALSE /\ lines = 0
      /\ held = None /\ joined = FALSE /\ overtaken = FALSE
      /\ parser = [slot |-> <<>>, started |-> {}, finish |-> None, body |-> <<>>]
      /\ response = [parts |-> <<>>, finish |-> None, open |-> {}, stray |-> {},
                     outcome |-> "streaming"]
  BY DEF Init
<1>2. /\ parser.slot = <<>> /\ parser.started = {} /\ parser.finish = None /\ parser.body = <<>>
      /\ response.parts = <<>> /\ response.finish = None /\ response.open = {}
      /\ response.stray = {} /\ response.outcome = "streaming"
  BY <1>1
<1>3. DOMAIN parser.slot = {} /\ \A s : s = <<>> => DOMAIN s = {}
  BY <1>2
<1>4. TypeOK
  <2>1. parser \in Parser({})
    <3>1. <<>> \in [{} -> Nat] /\ <<>> \in Seq(SaidPart)
      OBVIOUS
    <3>2. QED
      BY <1>1, <3>1 DEF Parser
  <2>2. response \in Response
    <3>1. <<>> \in Seq(Part)
      OBVIOUS
    <3>2. QED
      BY <1>1, <3>1 DEF Response
  <2>3. said \in Seq(SaidPart) /\ reason \in Reasons \cup {None}
    BY <1>1
  <2>4. lines \in 0 .. MaxLines[provider]
    BY <1>1, StreamAssumption
  <2>5. over \in BOOLEAN /\ lost \in BOOLEAN /\ whole \subseteq Calls /\ {} \in SUBSET Keys
    BY <1>1
  <2>6. \E known \in SUBSET Keys : parser \in Parser(known)
    BY <2>1, <2>5
  <2>h. held \in Keys \cup {None} /\ joined \in BOOLEAN /\ overtaken \in BOOLEAN
    BY <1>1
  <2>7. QED
    BY <1>1, <2>2, <2>3, <2>4, <2>5, <2>6, <2>h DEF TypeOK
<1>5. DOMAIN said = {} /\ DOMAIN response.parts = {} /\ DOMAIN parser.body = {}
  BY <1>1, <1>2, <1>3
<1>6. Keyed(said) /\ Keyed(parser.body)
  BY <1>5 DEF Keyed
<1>e. IsFiniteSet({}) /\ Cardinality({}) = 0 /\ Source = said /\ Len(response.parts) = 0
      /\ Len(said) = 0
  BY <1>1, <1>2, FS_EmptySet DEF Source
<1>7. PartsInv
  <2>1. Slotted(parser, response, Source, lines)
    BY <1>3, <1>5, <1>e DEF Slotted
  <2>2. Same(parser, response, said)
    <3>1. Bare(said) = <<>>
      BY <1>1 DEF Bare
    <3>2. QED
      BY <1>2, <1>3, <1>5, <3>1 DEF Same
  <2>3. QED
    BY <1>2, <1>6, <2>1, <2>2 DEF PartsInv
<1>o. BufferInv /\ OpenAIInv
  <2>1. Numbered(parser)
    BY <1>3, <1>e DEF Numbered
  <2>2. Slotted(Placed(parser), response, Source, lines)
    <3>1. DOMAIN Placed(parser).slot = {}
      BY <1>2 DEF Placed
    <3>2. QED
      BY <1>5, <1>e, <3>1 DEF Slotted
  <2>3. SameStarted(parser, response, said)
    BY <1>3, <1>5, <1>e DEF SameStarted
  <2>4. None \notin Calls
    BY StreamAssumption
  <2>5. QED
    BY <1>1, <1>3, <2>1, <2>2, <2>3, <2>4 DEF BufferInv, OpenAIInv
<1>8. OpenInv
  <2>1. OpenKeys(parser) = {}
    BY <1>2 DEF OpenKeys
  <2>2. QED
    BY <1>2, <1>3, <2>1 DEF OpenInv
<1>9. FinishInv
  BY <1>1, <1>2 DEF FinishInv
<1>10. CohereInv
  BY <1>2, <1>3, <1>5 DEF CohereInv
<1>11. BodyInv
  <2>1. Tells(said, said, lines) /\ Tells(said, parser.body, lines)
    BY <1>1, <1>2, <1>5, <1>6 DEF Tells
  <2>2. Mirrors(said, parser.body, whole)
    BY <1>5 DEF Mirrors
  <2>3. QED
    BY <1>1, <1>2, <1>5, <2>1, <2>2 DEF BodyInv
<1>12. EventsInPlace
  BY <1>2 DEF EventsInPlace
<1>13. QED
  BY <1>4, <1>7, <1>o, <1>8, <1>9, <1>10, <1>11, <1>12 DEF Inv

LEMMA InvStutters ==
  ASSUME Inv, UNCHANGED vars
  PROVE  Inv'
<1>1. /\ provider' = provider /\ said' = said /\ reason' = reason /\ over' = over
      /\ whole' = whole /\ lost' = lost /\ lines' = lines /\ parser' = parser
      /\ response' = response /\ held' = held /\ joined' = joined /\ overtaken' = overtaken
  BY DEF vars, serverVars, buffer
<1>2. TypeOK'
  BY <1>1 DEF Inv, TypeOK, SaidPart, Content, Parser, Response, Part
<1>s. Source' = Source /\ Mentioned' = Mentioned
  BY <1>1 DEF Source, All, Mentioned
<1>o. BufferInv' /\ OpenAIInv'
  <2>1. BufferInv'
    BY <1>1, <1>s DEF Inv, BufferInv
  <2>2. Numbered(parser) => Numbered(parser')
    BY <1>1
  <2>3. Slotted(Placed(parser), response, Source, lines) =>
          Slotted(Placed(parser'), response', Source', lines')
    BY <1>1, <1>s
  <2>4. SameStarted(parser, response, said) => SameStarted(parser', response', said')
    BY <1>1
  <2>5. QED
    BY <1>1, <2>1, <2>2, <2>3, <2>4 DEF Inv, OpenAIInv
<1>3. PartsInv'
  <2>1. Slotted(parser, response, Source, lines) => Slotted(parser', response', Source', lines')
    BY <1>1, <1>s
  <2>2. Same(parser, response, said) => Same(parser', response', said')
    BY <1>1
  <2>3. QED
    BY <1>1, <2>1, <2>2 DEF Inv, PartsInv
<1>4. OpenInv'
  <2>1. OpenKeys(parser)' = OpenKeys(parser)
    BY <1>1 DEF OpenKeys
  <2>2. QED
    BY <1>1, <2>1 DEF OpenInv, Inv
<1>5. FinishInv' /\ CohereInv' /\ EventsInPlace'
  BY <1>1 DEF Inv, FinishInv, CohereInv, EventsInPlace
<1>6. BodyInv'
  <2>1. SaidPart' = SaidPart /\ Spoken' = Spoken /\ Mentioned' = Mentioned
    BY <1>1 DEF SaidPart, Content, Spoken, Mentioned
  <2>2. /\ Tells(said, said, lines)' <=> Tells(said, said, lines)
        /\ Tells(said, parser.body, lines)' <=> Tells(said, parser.body, lines)
    BY <1>1, <2>1 DEF Tells
  <2>3. Bare(TextFirst(parser.body))' = Bare(TextFirst(parser.body))
    BY <1>1
  <2>4. QED
    BY <1>1, <2>1, <2>2, <2>3 DEF Inv, BodyInv
<1>7. QED
  BY <1>2, <1>o, <1>3, <1>4, <1>5, <1>6 DEF Inv

LEMMA InvNext ==
  ASSUME Inv, [Next]_vars
  PROVE  Inv'
<1>1. CASE OpenAIChunkArrives
  BY <1>1, OpenAIChunkKept
<1>2. CASE OpenAIDone
  BY <1>2, OpenAIDoneKept
<1>3. CASE GoogleChunkArrives
  BY <1>3, GoogleChunkKept
<1>4. CASE AnthropicBlockArrives
  BY <1>4, AnthropicBlockKept
<1>5. CASE AnthropicMessageDelta
  BY <1>5, AnthropicDeltaKept
<1>6. CASE AnthropicMessageStop
  BY <1>6, AnthropicStopKept
<1>7. CASE HuggingFaceTokenArrives
  BY <1>7, HuggingFaceKept
<1>8. CASE CohereTextArrives
  BY <1>8, CohereTextKept
<1>9. CASE CohereEnds
  BY <1>9, CohereEndsKept
<1>10. CASE ChatGPTLineArrives
  BY <1>10, ChatGPTLineKept
<1>11. CASE ChatGPTCompletes
  BY <1>11, ChatGPTCompletesKept
<1>12. CASE EndOfStream
  BY <1>12, EndOfStreamKept
<1>13. CASE ConnectionFails
  BY <1>13, ConnectionFailsKept
<1>14. CASE UNCHANGED vars
  BY <1>14, InvStutters
<1>15. QED
  BY <1>1, <1>2, <1>3, <1>4, <1>5, <1>6, <1>7, <1>8, <1>9, <1>10, <1>11, <1>12, <1>13, <1>14
     DEF Next

LEMMA InvAlways == Spec => []Inv
<1>1. Init => Inv
  BY InvInit
<1>2. Inv /\ [Next]_vars => Inv'
  BY InvNext
<1>3. QED
  BY <1>1, <1>2, PTL DEF Spec

----------------------------------------------------------------------------
(* What it says *)

(* The provider writes of a part what the response holds of it. *)
LEMMA PartTold ==
  ASSUME Inv, ~ overtaken, NEW i \in DOMAIN response.parts
  PROVE  \E k : Told(Source, response.parts[i], k, lines)
<1>1. CASE provider # "chatgpt"
  <2>1. PICK p : Slotted(p, response, Source, lines)
    BY <1>1 DEF Inv, PartsInv, OpenAIInv
  <2>2. PICK k \in DOMAIN p.slot : p.slot[k] + 1 = i
    BY <2>1 DEF Slotted
  <2>3. Told(Source, response.parts[i], k, lines)
    BY <2>1, <2>2 DEF Slotted
  <2>4. QED
    BY <2>3
<1>2. CASE provider = "chatgpt"
  <2> DEFINE all == TextFirst(parser.body)
  <2>1. response.parts # <<>>
    <3>1. response.parts = <<>> => DOMAIN response.parts = {}
      OBVIOUS
    <3>2. QED
      BY <3>1
  <2>2. response.parts = Bare(all)
    BY <1>2, <2>1 DEF Inv, BodyInv
  <2>3. Tells(said, parser.body, lines)
    BY <1>2 DEF Inv, BodyInv
  <2>4. /\ all \in Seq(SaidPart)
        /\ \A n \in DOMAIN all : \E j \in DOMAIN parser.body : all[n] = parser.body[j]
    BY <2>3, TextFirstType DEF Tells
  <2> HIDE DEF all
  <2>5. i \in DOMAIN all /\ response.parts[i] = [kind |-> all[i].kind, content |-> all[i].content]
    BY <2>2 DEF Bare
  <2>6. PICK j \in DOMAIN parser.body : all[i] = parser.body[j]
    BY <2>4, <2>5
  <2>7. Told(said, all[i], parser.body[j].key, lines)
    BY <2>3, <2>6 DEF Tells
  <2> DEFINE part == response.parts[i]
  <2>8. part.kind = all[i].kind /\ part.content = all[i].content
    BY <2>5
  <2> HIDE DEF part
  <2>9. Told(said, part, parser.body[j].key, lines)
    BY <2>7, <2>8 DEF Told
  <2>10. Source = said
    BY <1>2, NoBuffer DEF Bytewise
  <2>11. QED
    BY <2>9, <2>10 DEF part
<1>3. QED
  BY <1>1, <1>2

LEMMA InventsNothing ==
  ASSUME Inv
  PROVE  NothingInvented
<1>1. SUFFICES ASSUME ~ overtaken, NEW i \in DOMAIN response.parts
               PROVE  /\ Ascends(response.parts[i].content)
                      /\ ~ joined =>
                           \E j \in DOMAIN said :
                             /\ said[j].kind = response.parts[i].kind
                             /\ ToSet(response.parts[i].content) \subseteq ToSet(said[j].content)
  BY DEF NothingInvented, Ascends
<1>2. PICK k : Told(Source, response.parts[i], k, lines)
  BY <1>1, PartTold
<1>3. ASSUME ~ joined
      PROVE  \E j \in DOMAIN said :
               /\ said[j].kind = response.parts[i].kind
               /\ ToSet(response.parts[i].content) \subseteq ToSet(said[j].content)
  <2>1. Source = said
    BY <1>3 DEF Source
  <2>2. PICK j \in DOMAIN said :
          said[j].key = k /\ ToSet(response.parts[i].content) \subseteq ToSet(said[j].content)
    BY <1>2, <2>1 DEF Told
  <2>3. said[j].kind = response.parts[i].kind
    BY <1>2, <2>2 DEF Told, Inv, PartsInv, Keyed
  <2>4. QED
    BY <2>2, <2>3
<1>4. QED
  BY <1>2, <1>3 DEF Told

(* A body that nothing is missing from is what the server said.            *)
LEMMA BodySaid ==
  ASSUME Inv, provider = "chatgpt", over, ~ lost
  PROVE  parser.body = said
<1> DEFINE body == parser.body
<1>1. /\ body \in Seq(SaidPart) /\ said \in Seq(SaidPart) /\ Keyed(body) /\ Keyed(said)
      /\ Mirrors(said, body, whole) /\ Mentioned \cap Calls \subseteq whole
  BY DEF Inv, TypeOK, PartsInv, BodyInv, Tells
<1> HIDE DEF body
<1>2. Len(body) = Len(said) /\ DOMAIN said = 1 .. Len(said) /\ DOMAIN body = 1 .. Len(body)
  <2>1. DOMAIN body = DOMAIN said
    BY <1>1 DEF Mirrors
  <2>2. DOMAIN said = 1 .. Len(said) /\ DOMAIN body = 1 .. Len(body)
        /\ Len(said) \in Nat /\ Len(body) \in Nat
    BY <1>1
  <2> DEFINE l == Len(said)
             m == Len(body)
  <2>3. 1 .. m = 1 .. l /\ m \in Nat /\ l \in Nat
    BY <2>1, <2>2
  <2> HIDE DEF l, m
  <2>4. m = l
    <3>1. m < l => l \in 1 .. l /\ l \notin 1 .. m
      BY <2>3
    <3>2. l < m => m \in 1 .. m /\ m \notin 1 .. l
      BY <2>3
    <3>3. QED
      BY <2>3, <3>1, <3>2
  <2>5. QED
    BY <2>2, <2>4 DEF l, m
<1>3. ASSUME NEW i \in 1 .. Len(said)
      PROVE  body[i] = said[i]
  <2>1. /\ i \in DOMAIN said /\ i \in DOMAIN body
        /\ body[i].key = said[i].key
        /\ \/ body[i].content = said[i].content
           \/ said[i].key \in Calls \ whole /\ body[i].content = <<>>
    BY <1>1, <1>2 DEF Mirrors
  <2>2. said[i].key \in Mentioned
    BY <2>1 DEF Mentioned
  <2>3. body[i].content = said[i].content
    BY <1>1, <2>1, <2>2
  <2>4. body[i].kind = said[i].kind
    BY <1>1, <2>1 DEF Keyed
  <2>5. body[i] \in SaidPart /\ said[i] \in SaidPart
    BY <1>1, <1>2
  <2>6. QED
    BY <2>1, <2>3, <2>4, <2>5 DEF SaidPart
<1>4. body = said
  BY <1>1, <1>2, <1>3, SameSequence
<1>5. QED
  BY <1>4 DEF body

(* The one text of Cohere, without its first piece. *)
LEMMA CohereText ==
  ASSUME Inv, provider = "cohere", ~ lost
  PROVE  LET texts == OfKind(said, "text")
         IN response.parts = [i \in DOMAIN texts |->
                                [kind |-> "text", content |-> Tail(texts[i].content)]]
<1> DEFINE texts == OfKind(said, "text")
           all == [i \in DOMAIN texts |-> [kind |-> "text", content |-> Tail(texts[i].content)]]
           parts == response.parts
<1>1. /\ Slotted(parser, response, said, lines) /\ Keyed(said) /\ said \in Seq(SaidPart)
      /\ response.parts \in Seq(Part)
      /\ DOMAIN parser.slot \subseteq {"text"}
      /\ "text" \in DOMAIN parser.slot => parser.slot["text"] = 0
      /\ "text" \in DOMAIN parser.slot <=> \E j \in DOMAIN said : said[j].key = "text"
      /\ \A j \in DOMAIN said : said[j].key = "text" => parts[1].content = Tail(said[j].content)
  BY NoBuffer DEF Inv, PartsInv, TypeOK, CohereInv, Response, Bytewise
<1>2. \A j \in DOMAIN said : said[j].kind = "text" <=> said[j].key = "text"
  <2>1. \A j \in DOMAIN said : said[j] \in SaidPart /\ said[j].kind = Kind(said[j].key)
    BY <1>1 DEF Keyed
  <2>2. \A j \in DOMAIN said : said[j].key \in Keys
    BY <2>1 DEF SaidPart
  <2>3. \A k \in Keys : Kind(k) = "text" <=> k = "text"
    BY StreamAssumption DEF Kind, Keys
  <2>4. QED
    BY <2>1, <2>2, <2>3
<1>3. texts \in Seq(SaidPart)
  BY <1>1, OfKindPlaces
<1>4. PICK g : /\ g \in [DOMAIN texts -> DOMAIN said]
               /\ \A i \in DOMAIN texts : texts[i] = said[g[i]] /\ said[g[i]].kind = "text"
               /\ \A i, j \in DOMAIN texts : g[i] = g[j] => i = j
               /\ \A j \in DOMAIN said :
                    said[j].kind = "text" => \E i \in DOMAIN texts : g[i] = j
  BY <1>1, OfKindPlaces
<1> HIDE DEF texts
<1>5. DOMAIN texts = 1 .. Len(texts) /\ Len(texts) \in Nat
  BY <1>3
<1>6. CASE "text" \notin DOMAIN parser.slot
  <2>1. DOMAIN parser.slot = {}
    BY <1>1, <1>6
  <2>2. Len(parts) = 0
    BY <1>1, <2>1, FS_EmptySet DEF Slotted
  <2>3. parts = <<>>
    BY <1>1, <2>2
  <2>4. DOMAIN texts = {}
    <3>1. SUFFICES ASSUME NEW i \in DOMAIN texts
                   PROVE  FALSE
      OBVIOUS
    <3>2. g[i] \in DOMAIN said /\ said[g[i]].kind = "text"
      BY <1>4
    <3>3. said[g[i]].key = "text"
      BY <1>2, <3>2
    <3>4. QED
      BY <1>1, <1>6, <3>2, <3>3
  <2>5. all = <<>>
    BY <2>4
  <2>6. QED
    BY <2>3, <2>5 DEF texts
<1>7. CASE "text" \in DOMAIN parser.slot
  <2>1. PICK j \in DOMAIN said : said[j].key = "text"
    BY <1>1, <1>7
  <2>2. PICK m \in DOMAIN texts : g[m] = j
    BY <1>2, <1>4, <2>1
  <2>3. \A i \in DOMAIN texts : i = m
    <3>1. \A i \in DOMAIN said : said[i].key = "text" => i = j
      BY <1>1, <2>1 DEF Keyed
    <3>2. \A i \in DOMAIN texts : g[i] = j
      BY <1>2, <1>4, <3>1
    <3>3. QED
      BY <1>4, <2>2, <3>2
  <2>4. Len(texts) = 1 /\ m = 1
    <3> DEFINE l == Len(texts)
    <3>1. l \in Nat /\ m \in 1 .. l /\ \A i \in 1 .. l : i = m
      BY <1>5, <2>2, <2>3
    <3> HIDE DEF l
    <3>2. 1 \in 1 .. l /\ l \in 1 .. l
      BY <3>1
    <3>3. QED
      BY <3>1, <3>2 DEF l
  <2>5. DOMAIN parser.slot = {"text"} /\ Len(parts) = 1
    <3>1. DOMAIN parser.slot = {"text"}
      BY <1>1, <1>7
    <3>2. Cardinality({"text"}) = 1
      BY FS_Singleton
    <3>3. QED
      BY <1>1, <3>1, <3>2 DEF Slotted
  <2>6. parts[1].kind = "text"
    <3>1. Told(said, parts[parser.slot["text"] + 1], "text", lines)
      BY <1>1, <1>7 DEF Slotted
    <3>2. parser.slot["text"] + 1 = 1
      BY <1>1, <1>7
    <3>3. Kind("text") = "text"
      BY StreamAssumption DEF Kind
    <3>4. QED
      BY <3>1, <3>2, <3>3 DEF Told
  <2>7. parts[1].content = Tail(said[j].content) /\ texts[1] = said[j]
    BY <1>1, <1>4, <2>1, <2>2, <2>4
  <2>8. parts = <<[kind |-> "text", content |-> Tail(texts[1].content)]>>
    <3> DEFINE c == Tail(texts[1].content)
    <3>1. parts[1] \in Part
      BY <1>1, <2>5
    <3>2. parts[1].kind = "text" /\ parts[1].content = c
      BY <2>6, <2>7
    <3> HIDE DEF c
    <3>3. parts[1] = [kind |-> "text", content |-> c]
      BY <3>1, <3>2 DEF Part
    <3>4. parts = <<parts[1]>>
      BY <1>1, <2>5
    <3>5. QED
      BY <3>3, <3>4 DEF c
  <2>9. all = <<[kind |-> "text", content |-> Tail(texts[1].content)]>>
    <3> DEFINE v == [kind |-> "text", content |-> Tail(texts[1].content)]
    <3>1. DOMAIN texts = 1 .. 1
      BY <1>5, <2>4
    <3>2. all = [i \in 1 .. 1 |-> all[i]] /\ all[1] = v
      BY <3>1
    <3> HIDE DEF all, v
    <3>3. all \in [1 .. 1 -> {v}]
      <4>1. \A i \in 1 .. 1 : i = 1
        OBVIOUS
      <4>2. \A i \in 1 .. 1 : all[i] \in {v}
        BY <3>2, <4>1
      <4>3. QED
        BY <3>2, <4>2
    <3>4. all \in Seq({v}) /\ Len(all) = 1
      BY <3>3, FunctionSequence
    <3>5. all = <<v>>
      BY <3>2, <3>4
    <3>6. QED
      BY <3>5 DEF v
  <2>10. QED
    BY <2>8, <2>9 DEF texts
<1>8. QED
  BY <1>6, <1>7

(* The parts of OpenAI's that have any content, which are the first. *)
LEMMA StartedParts ==
  ASSUME NEW p, NEW r, NEW s, SameStarted(p, r, s), s \in Seq(SaidPart), r.parts \in Seq(Part)
  PROVE  r.parts = WithContent(s)
<1> DEFINE l == Len(r.parts)
           full == {j \in DOMAIN s : s[j].content # <<>>}
           all == [i \in full |-> [kind |-> s[i].kind, content |-> s[i].content]]
<1>1. /\ l <= Len(s)
      /\ \A i \in DOMAIN s :
           IF i <= l THEN /\ s[i].content # <<>>
                          /\ r.parts[i] = [kind |-> s[i].kind, content |-> s[i].content]
           ELSE s[i].content = <<>>
  BY DEF SameStarted
<1>2. DOMAIN s = 1 .. Len(s) /\ Len(s) \in Nat /\ l \in Nat /\ DOMAIN r.parts = 1 .. l
  OBVIOUS
<1> DEFINE m == Len(s)
<1>3. full = 1 .. l
  <2>1. DOMAIN s = 1 .. m /\ m \in Nat /\ l \in Nat /\ l <= m
    BY <1>1, <1>2
  <2> HIDE DEF l, m
  <2>2. \A i \in 1 .. m : s[i].content # <<>> <=> i <= l
    BY <1>1, <2>1
  <2>3. QED
    BY <2>1, <2>2
<1>4. r.parts = [i \in 1 .. l |-> r.parts[i]]
  BY <1>2
<1>5. \A i \in 1 .. l : r.parts[i] = [kind |-> s[i].kind, content |-> s[i].content]
  <2>1. DOMAIN s = 1 .. m /\ m \in Nat /\ l \in Nat /\ l <= m
    BY <1>1, <1>2
  <2> HIDE DEF l, m
  <2>2. QED
    BY <1>1, <2>1
<1> HIDE DEF l, full
<1>6. r.parts = all
  BY <1>3, <1>4, <1>5
<1>7. QED
  BY <1>6 DEF WithContent, full

LEMMA InvFaithful ==
  ASSUME Inv
  PROVE  ResponseFaithful
<1>1. SUFFICES ASSUME provider # "huggingface", ~ lost
               PROVE  /\ /\ ~ overtaken /\ response.outcome # "failed"
                         /\ provider = "chatgpt" => response.finish # None /\ over
                         => response.parts = Expected
                      /\ response.finish # None =>
                           response.finish = (IF reason = None THEN Stop ELSE reason)
  BY DEF ResponseFaithful
<1>2. response.finish # None => response.finish = (IF reason = None THEN Stop ELSE reason)
  BY <1>1 DEF Inv, FinishInv
<1>3. ASSUME ~ overtaken, response.outcome # "failed",
             provider = "chatgpt" => response.finish # None /\ over
      PROVE  response.parts = Expected
  <2>1. CASE provider = "cohere"
    BY <1>1, <2>1, CohereText DEF Expected
  <2>2. CASE provider = "chatgpt"
    <3>1. response.parts = Bare(TextFirst(parser.body))
      BY <1>3, <2>2 DEF Inv, BodyInv
    <3>2. parser.body = said
      BY <1>1, <1>3, <2>2, BodySaid
    <3>3. Expected = Bare(TextFirst(said))
      BY <2>2 DEF Expected
    <3>4. QED
      BY <3>1, <3>2, <3>3
  <2>o. CASE provider = "openai"
    <3>1. SameStarted(parser, response, said)
      BY <1>1, <1>3, <2>o DEF Inv, OpenAIInv
    <3>2. said \in Seq(SaidPart) /\ response.parts \in Seq(Part)
      BY DEF Inv, TypeOK, Response
    <3>3. QED
      BY <2>o, <3>1, <3>2, StartedParts DEF Expected
  <2>3. CASE provider # "cohere" /\ provider # "chatgpt" /\ provider # "openai"
    <3>1. provider \in ByIndex
      <4>1. provider \in Providers
        BY DEF Inv, TypeOK
      <4>2. QED
        BY <1>1, <2>3, <4>1, StreamAssumption DEF ByIndex
    <3>2. Same(parser, response, said)
      BY <1>1, <1>3, <3>1 DEF Inv, PartsInv
    <3>3. QED
      BY <2>3, <3>2 DEF Same, Expected
  <2>4. QED
    BY <2>1, <2>2, <2>o, <2>3
<1>4. QED
  BY <1>2, <1>3

LEMMA InvConfirmed ==
  ASSUME Inv
  PROVE  TerminalConfirmed
<1>1. /\ response.finish # None /\ provider # "chatgpt" => over
      /\ provider = "anthropic" /\ response.outcome = "accepted" => over
  BY DEF Inv, FinishInv
<1>2. ASSUME response.finish # None, parser.finish # None, NEW i \in response.open
      PROVE  provider = "openai" /\ "thinking" \in parser.started /\ i = parser.slot["thinking"]
  <2>1. provider # "chatgpt"
    BY <1>2 DEF Inv, FinishInv
  <2>2. provider = "openai"
    BY <1>2, <2>1 DEF Inv, OpenInv
  <2>3. response.open = {parser.slot[k] : k \in parser.started \cap {"thinking"}}
    BY <1>2, <2>2 DEF Inv, OpenInv, OpenKeys
  <2>4. QED
    BY <1>2, <2>2, <2>3
<1>3. QED
  BY <1>1, <1>2 DEF TerminalConfirmed

(* The agent's response is what the server wrote, or less.  Of a stream of *)
(* which nothing was lost nothing is missing and the finish reason is the  *)
(* server's.  Whatever is lost, each part holds what came in the server's  *)
(* order, and no part gets content of another unless the parser takes two  *)
(* lines for one.  Of OpenAI's this is said as long as no part overtakes a *)
(* call without arguments.  (openai, google, anthropic, cohere and chatgpt *)
(* parsers, and the collector of agent/src/stream.rs.)                     *)
THEOREM ResponseAlwaysTrue == Spec => []ResponseTrue
<1>1. Inv => ResponseTrue
  <2>1. Inv => TypeOK
    BY DEF Inv
  <2>2. QED
    BY <2>1, InventsNothing, InvFaithful DEF ResponseTrue
<1>2. QED
  BY <1>1, InvAlways, PTL

(* The parsers start the parts at the next position, extend and end only   *)
(* open ones, and say nothing after the end, whatever lines are lost or    *)
(* joined; only the starts of OpenAI's may be out of place, once a part    *)
(* has overtaken a call without arguments.                                 *)
THEOREM EventsAlwaysInPlace == Spec => []EventsInPlace
<1>1. Inv => EventsInPlace
  BY DEF Inv
<1>2. QED
  BY <1>1, InvAlways, PTL

(* No stream that was cut off passes for a completed one, and what is      *)
(* completed has no part open but an OpenAI thinking.                      *)
THEOREM CompletionConfirmed == Spec => []TerminalConfirmed
<1>1. Inv => TerminalConfirmed
  BY InvConfirmed
<1>2. QED
  BY <1>1, InvAlways, PTL
=============================================================================
