------------------------- MODULE AgentStreamProofs -------------------------
(***************************************************************************)
(* Theorems about every stream: whatever the options it was started with,  *)
(* the responses of the model, the capacity of the channel and what its    *)
(* consumer does.                                                          *)
(***************************************************************************)
EXTENDS AgentStream, Integers, FiniteSetTheorems, WellFoundedInduction, TLAPS

----------------------------------------------------------------------------
(* Sequences *)

(* The order of the natural numbers, as a relation. *)
LEMMA NatOrder ==
  \E R : IsWellFoundedOn(R, Nat) /\ \A m, n \in Nat : <<n, m>> \in R <=> n < m
<1> DEFINE R == OpToRel(<, Nat)
<1>1. IsWellFoundedOn(R, Nat)
  BY NatLessThanWellFounded
<1>2. \A m, n \in Nat : <<n, m>> \in R <=> n < m
  BY DEF OpToRel
<1> HIDE DEF R
<1>3. QED
  BY <1>1, <1>2

(* A set of natural numbers has a least element.  An induction over data   *)
(* is the absence of a least counterexample.                               *)
LEMMA Least ==
  ASSUME NEW T, T \subseteq Nat, T # {}
  PROVE  \E m \in T : \A n \in T : m <= n
<1>1. PICK R : IsWellFoundedOn(R, Nat) /\ \A m, n \in Nat : <<n, m>> \in R <=> n < m
  BY NatOrder
<1>2. PICK m \in T : \A n \in T : <<n, m>> \notin R
  BY <1>1, WFMin
<1>3. ASSUME NEW n \in T
      PROVE  m <= n
  <2>1. m \in Nat /\ n \in Nat /\ <<n, m>> \notin R
    BY <1>2
  <2>2. QED
    BY <1>1, <2>1
<1>4. QED
  BY <1>3

(* The recursion of Only, one step of it, on a function f.                 *)
OnlyStep(s, kept, f, n) ==
  IF n = 0 THEN <<>>
  ELSE IF s[n] \in kept THEN Append(f[n - 1], s[n]) ELSE f[n - 1]

(* The recursion has a solution. *)
LEMMA OnlyExists ==
  ASSUME NEW s, NEW kept, NEW l \in Nat
  PROVE  \E f : f = [n \in 0 .. l |-> OnlyStep(s, kept, f, n)]
<1> DEFINE Solved(m) == \E f : f = [n \in 0 .. m |-> OnlyStep(s, kept, f, n)]
           Unsolved == {m \in Nat : ~ Solved(m)}
<1>1. SUFFICES ASSUME Unsolved # {} PROVE FALSE
  OBVIOUS
<1>2. PICK m \in Unsolved : \A n \in Unsolved : m <= n
  BY <1>1, Least
<1>3. Solved(0)
  <2> DEFINE f == [n \in 0 .. 0 |-> <<>>]
  <2>1. f = [n \in 0 .. 0 |-> OnlyStep(s, kept, f, n)]
    BY DEF OnlyStep
  <2>2. QED
    BY <2>1
<1>4. m \in Nat /\ m # 0
  BY <1>2, <1>3
<1>5. m - 1 \in Nat /\ m - 1 \notin Unsolved
  BY <1>2, <1>4
<1>6. PICK f : f = [n \in 0 .. m - 1 |-> OnlyStep(s, kept, f, n)]
  BY <1>5
<1> DEFINE g == [n \in 0 .. m |-> IF n = m THEN OnlyStep(s, kept, f, m) ELSE f[n]]
<1>7. \A n \in 0 .. m : OnlyStep(s, kept, g, n) = g[n]
  <2>1. \A n \in 0 .. m - 1 : n # m /\ g[n] = f[n]
    BY <1>4
  <2>2. \A n \in 0 .. m : n # 0 => n - 1 \in 0 .. m - 1
    BY <1>4
  <2>3. \A n \in 0 .. m : OnlyStep(s, kept, g, n) = OnlyStep(s, kept, f, n)
    BY <2>1, <2>2 DEF OnlyStep
  <2>4. \A n \in 0 .. m - 1 : f[n] = OnlyStep(s, kept, f, n)
    BY <1>6
  <2>5. \A n \in 0 .. m : n = m \/ n \in 0 .. m - 1
    BY <1>4
  <2>6. g[m] = OnlyStep(s, kept, f, m)
    BY <1>4
  <2>7. QED
    BY <2>1, <2>3, <2>4, <2>5, <2>6
<1>8. g = [n \in 0 .. m |-> OnlyStep(s, kept, g, n)]
  BY <1>7
<1>9. Solved(m)
  BY <1>8
<1>10. QED
  BY <1>2, <1>9

(* Only is the last value of a function that satisfies its recursion.      *)
LEMMA OnlyUnfolds ==
  ASSUME NEW S, NEW s \in Seq(S), NEW kept
  PROVE  \E f : /\ Only(s, kept) = f[Len(s)]
                /\ f[0] = <<>>
                /\ \A n \in 1 .. Len(s) :
                     f[n] = IF s[n] \in kept THEN Append(f[n - 1], s[n]) ELSE f[n - 1]
<1> DEFINE f == CHOOSE h : h = [n \in 0 .. Len(s) |-> OnlyStep(s, kept, h, n)]
<1>1. f = [n \in 0 .. Len(s) |-> OnlyStep(s, kept, f, n)]
  BY OnlyExists
<1>2. Only(s, kept) = f[Len(s)]
  BY DEF Only, OnlyStep
<1> HIDE DEF f
<1>3. \A n \in 0 .. Len(s) : f[n] = OnlyStep(s, kept, f, n)
  BY <1>1
<1>4. f[0] = <<>>
  BY <1>3 DEF OnlyStep
<1>5. ASSUME NEW n \in 1 .. Len(s)
      PROVE  f[n] = IF s[n] \in kept THEN Append(f[n - 1], s[n]) ELSE f[n - 1]
  <2>1. n \in 0 .. Len(s) /\ n # 0
    OBVIOUS
  <2>2. f[n] = OnlyStep(s, kept, f, n)
    BY <1>3, <2>1
  <2>3. QED
    BY <2>1, <2>2 DEF OnlyStep
<1>6. QED
  BY <1>2, <1>4, <1>5

Members(s) == {s[i] : i \in DOMAIN s}

Distinct(s) == \A i, j \in DOMAIN s : s[i] = s[j] => i = j

(* A sequence that loses its head.                                         *)
LEMMA TailMembers ==
  ASSUME NEW S, NEW s \in Seq(S), s # <<>>
  PROVE  /\ Head(s) \in S
         /\ Tail(s) \in Seq(S)
         /\ Len(Tail(s)) = Len(s) - 1
         /\ Members(s) = Members(Tail(s)) \cup {Head(s)}
         /\ Distinct(s) => Distinct(Tail(s)) /\ Head(s) \notin Members(Tail(s))
<1>1. /\ Head(s) \in S /\ Head(s) = s[1]
      /\ Tail(s) \in Seq(S)
      /\ Len(Tail(s)) = Len(s) - 1
      /\ \A i \in 1 .. Len(s) - 1 : Tail(s)[i] = s[i + 1]
      /\ Len(s) \in Nat \ {0}
  OBVIOUS
<1>2. Members(s) \subseteq Members(Tail(s)) \cup {Head(s)}
  <2>1. SUFFICES ASSUME NEW i \in 1 .. Len(s), i # 1
                 PROVE  s[i] \in Members(Tail(s))
    BY <1>1 DEF Members
  <2>2. i - 1 \in DOMAIN Tail(s) /\ Tail(s)[i - 1] = s[i]
    BY <1>1, <2>1
  <2>3. QED
    BY <2>2 DEF Members
<1>3. Members(Tail(s)) \cup {Head(s)} \subseteq Members(s)
  BY <1>1 DEF Members
<1>4. ASSUME Distinct(s)
      PROVE  Distinct(Tail(s)) /\ Head(s) \notin Members(Tail(s))
  BY <1>1, <1>4 DEF Distinct, Members
<1>5. QED
  BY <1>1, <1>2, <1>3, <1>4

(* A sequence that gets an element more.                                   *)
LEMMA AppendMembers ==
  ASSUME NEW S, NEW s \in Seq(S), NEW e \in S
  PROVE  /\ Append(s, e) \in Seq(S)
         /\ Len(Append(s, e)) = Len(s) + 1
         /\ Members(Append(s, e)) = Members(s) \cup {e}
         /\ Distinct(s) /\ e \notin Members(s) => Distinct(Append(s, e))
<1>1. /\ Append(s, e) \in Seq(S)
      /\ Len(Append(s, e)) = Len(s) + 1
      /\ \A i \in DOMAIN s : Append(s, e)[i] = s[i]
      /\ Append(s, e)[Len(s) + 1] = e
      /\ DOMAIN Append(s, e) = DOMAIN s \cup {Len(s) + 1}
  OBVIOUS
<1>2. QED
  BY <1>1 DEF Members, Distinct

(* g gives the places in s of the elements of r, which are those of the    *)
(* first n places that are kept, in their order.                           *)
Places(s, kept, n, r, g) ==
  /\ g \in [1 .. Len(r) -> 1 .. n]
  /\ \A i \in 1 .. Len(r) : r[i] = s[g[i]] /\ s[g[i]] \in kept
  /\ \A i, j \in 1 .. Len(r) : i < j => g[i] < g[j]
  /\ \A j \in 1 .. n : s[j] \in kept => \E i \in 1 .. Len(r) : g[i] = j

(* One step of the recursion keeps the elements in their places.           *)
LEMMA PlacesStep ==
  ASSUME NEW S, NEW s \in Seq(S), NEW kept, NEW n \in 1 .. Len(s),
         NEW r \in Seq(S), NEW g, Places(s, kept, n - 1, r, g)
  PROVE  /\ s[n] \notin kept => Places(s, kept, n, r, g)
         /\ s[n] \in kept => \E h : Places(s, kept, n, Append(r, s[n]), h)
<1>1. n - 1 \in Nat /\ 1 .. n = 1 .. n - 1 \cup {n} /\ Len(r) \in Nat /\ s[n] \in S
  OBVIOUS
<1>2. ASSUME s[n] \notin kept
      PROVE  Places(s, kept, n, r, g)
  BY <1>1, <1>2 DEF Places
<1>3. ASSUME s[n] \in kept
      PROVE  \E h : Places(s, kept, n, Append(r, s[n]), h)
  <2> DEFINE l == Len(r)
             e == s[n]
             h == [i \in 1 .. l + 1 |-> IF i = l + 1 THEN n ELSE g[i]]
  <2>1. /\ Len(Append(r, e)) = l + 1
        /\ Append(r, e)[l + 1] = e
        /\ \A i \in 1 .. l : Append(r, e)[i] = r[i]
        /\ 1 .. l + 1 = 1 .. l \cup {l + 1}
        /\ l + 1 \notin 1 .. l
    BY <1>1
  <2>2. h[l + 1] = n /\ \A i \in 1 .. l : h[i] = g[i] /\ g[i] \in 1 .. n - 1
    BY <2>1 DEF Places
  <2>3. h \in [1 .. l + 1 -> 1 .. n]
    <3>1. \A i \in 1 .. l + 1 : i = l + 1 \/ i \in 1 .. l
      BY <2>1
    <3>2. n \in 1 .. n /\ \A i \in 1 .. l : h[i] \in 1 .. n
      BY <1>1, <2>2
    <3>3. \A i \in 1 .. l + 1 : h[i] \in 1 .. n
      BY <2>2, <3>1, <3>2
    <3>4. QED
      BY <3>3
  <2> HIDE DEF h, l, e
  <2>4. \A i \in 1 .. l + 1 : Append(r, e)[i] = s[h[i]] /\ s[h[i]] \in kept
    BY <1>3, <2>1, <2>2 DEF Places, e, l
  <2>5. \A i, j \in 1 .. l + 1 : i < j => h[i] < h[j]
    <3>1. ASSUME NEW i \in 1 .. l + 1, NEW j \in 1 .. l + 1, i < j
          PROVE  h[i] < h[j]
      <4>1. i \in 1 .. l
        BY <1>1, <3>1 DEF l
      <4>2. CASE j = l + 1
        <5>1. h[j] = n /\ h[i] \in 1 .. n - 1
          BY <2>2, <4>1, <4>2
        <5>2. QED
          BY <1>1, <5>1
      <4>3. CASE j \in 1 .. l
        BY <2>2, <3>1, <4>1, <4>3 DEF Places, l
      <4>4. QED
        BY <2>1, <4>2, <4>3
    <3>2. QED
      BY <3>1
  <2>6. \A j \in 1 .. n : s[j] \in kept => \E i \in 1 .. l + 1 : h[i] = j
    <3>1. l + 1 \in 1 .. l + 1
      BY <1>1 DEF l
    <3>2. \A j \in 1 .. n - 1 : s[j] \in kept => \E i \in 1 .. l : g[i] = j
      BY DEF Places, l
    <3>3. \A j \in 1 .. n - 1 : s[j] \in kept => \E i \in 1 .. l + 1 : h[i] = j
      BY <2>1, <2>2, <3>2
    <3>4. QED
      BY <1>1, <2>2, <3>1, <3>3
  <2>7. Places(s, kept, n, Append(r, e), h)
    BY <2>1, <2>3, <2>4, <2>5, <2>6 DEF Places
  <2>8. QED
    BY <2>7 DEF e
<1>4. QED
  BY <1>2, <1>3

(* retain keeps the elements of the set, in their order.                   *)
LEMMA OnlyPlaces ==
  ASSUME NEW S, NEW s \in Seq(S), NEW kept
  PROVE  /\ Only(s, kept) \in Seq(S)
         /\ Len(Only(s, kept)) <= Len(s)
         /\ \E g : Places(s, kept, Len(s), Only(s, kept), g)
<1>1. PICK f : /\ Only(s, kept) = f[Len(s)]
               /\ f[0] = <<>>
               /\ \A n \in 1 .. Len(s) :
                    f[n] = IF s[n] \in kept THEN Append(f[n - 1], s[n]) ELSE f[n - 1]
  BY OnlyUnfolds
<1> DEFINE Good(n) == /\ f[n] \in Seq(S)
                      /\ Len(f[n]) <= n
                      /\ \E g : Places(s, kept, n, f[n], g)
           Bad == {n \in 0 .. Len(s) : ~ Good(n)}
<1>2. Good(0)
  <2>1. f[0] = <<>> /\ <<>> \in Seq(S) /\ Len(<<>>) = 0
    BY <1>1
  <2>2. Places(s, kept, 0, <<>>, [i \in 1 .. 0 |-> 1])
    BY DEF Places
  <2>3. QED
    BY <2>1, <2>2
<1>3. ASSUME NEW n \in 1 .. Len(s), Good(n - 1)
      PROVE  Good(n)
  <2>1. PICK g : Places(s, kept, n - 1, f[n - 1], g)
    BY <1>3
  <2>2. f[n - 1] \in Seq(S) /\ Len(f[n - 1]) \in Nat /\ Len(f[n - 1]) <= n - 1 /\ s[n] \in S
    BY <1>3
  <2>3. CASE s[n] \in kept
    <3>1. f[n] = Append(f[n - 1], s[n])
      BY <1>1, <2>3
    <3>2. f[n] \in Seq(S) /\ Len(f[n]) <= n
      BY <2>2, <3>1
    <3>3. QED
      BY <2>1, <2>2, <2>3, <3>1, <3>2, PlacesStep
  <2>4. CASE s[n] \notin kept
    <3>1. f[n] = f[n - 1]
      BY <1>1, <2>4
    <3>2. Len(f[n]) <= n
      BY <2>2, <3>1
    <3>3. QED
      BY <2>1, <2>2, <2>4, <3>1, <3>2, PlacesStep
  <2>5. QED
    BY <2>3, <2>4
<1> HIDE DEF Good
<1>4. Bad = {}
  <2>1. SUFFICES ASSUME Bad # {} PROVE FALSE
    OBVIOUS
  <2>2. PICK n \in Bad : \A m \in Bad : n <= m
    <3>1. Bad \subseteq Nat
      OBVIOUS
    <3>2. QED
      BY <2>1, <3>1, Least
  <2>3. n \in 1 .. Len(s) /\ n - 1 \in 0 .. Len(s)
    BY <1>2, <2>2
  <2>4. Good(n - 1)
    BY <2>2, <2>3
  <2>5. QED
    BY <1>3, <2>2, <2>3, <2>4
<1>5. Good(Len(s))
  BY <1>4
<1>6. QED
  BY <1>1, <1>5 DEF Good

(* It keeps no others, and has no element twice if there was none.         *)
LEMMA OnlyMembers ==
  ASSUME NEW S, NEW s \in Seq(S), NEW kept
  PROVE  /\ Only(s, kept) \in Seq(S)
         /\ Len(Only(s, kept)) <= Len(s)
         /\ Members(Only(s, kept)) = Members(s) \cap kept
         /\ Distinct(s) => Distinct(Only(s, kept))
<1> DEFINE r == Only(s, kept)
<1>1. r \in Seq(S) /\ Len(r) <= Len(s)
  BY OnlyPlaces
<1>2. PICK g : Places(s, kept, Len(s), r, g)
  BY OnlyPlaces
<1> HIDE DEF r
<1>3. DOMAIN r = 1 .. Len(r) /\ DOMAIN s = 1 .. Len(s) /\ Len(r) \in Nat
  BY <1>1
<1>4. Members(r) = Members(s) \cap kept
  <2>1. \A i \in 1 .. Len(r) : r[i] \in Members(s) \cap kept
    BY <1>2, <1>3 DEF Members, Places
  <2>2. \A j \in 1 .. Len(s) : s[j] \in kept => \E i \in 1 .. Len(r) : r[i] = s[j]
    BY <1>2 DEF Places
  <2>3. QED
    BY <1>3, <2>1, <2>2 DEF Members
<1>5. ASSUME Distinct(s), NEW i \in DOMAIN r, NEW j \in DOMAIN r, r[i] = r[j]
      PROVE  i = j
  <2>1. g[i] = g[j] /\ g[i] \in 1 .. Len(s)
    BY <1>2, <1>3, <1>5 DEF Places, Distinct
  <2>2. ~ (i < j) /\ ~ (j < i)
    BY <1>2, <1>3, <2>1 DEF Places
  <2>3. QED
    BY <1>3, <2>2
<1>6. QED
  BY <1>1, <1>4, <1>5 DEF r, Distinct

(* The same of one that keeps every element but one.                       *)
LEMMA WithoutMembers ==
  ASSUME NEW S, NEW s \in Seq(S), NEW x
  PROVE  /\ Without(s, x) \in Seq(S)
         /\ Len(Without(s, x)) <= Len(s)
         /\ Members(Without(s, x)) = Members(s) \ {x}
         /\ Distinct(s) => Distinct(Without(s, x))
<1>1. Without(s, x) = Only(s, Members(s) \ {x})
  BY DEF Without, Members
<1>2. Members(s) \cap (Members(s) \ {x}) = Members(s) \ {x}
  OBVIOUS
<1>3. QED
  BY <1>1, <1>2, OnlyMembers

(* What has a place of its own in a finite set is no larger than the set.  *)
LEMMA NoMoreThan ==
  ASSUME NEW S, NEW T, IsFiniteSet(T),
         NEW f \in [S -> T], \A i, j \in S : f[i] = f[j] => i = j
  PROVE  Cardinality(S) <= Cardinality(T)
<1>1. f \in Injection(S, T)
  BY DEF Injection, IsInjective
<1>2. QED
  BY <1>1, FS_Injection

(* The positions of s that hold an element of T. *)
Positions(s, T) == {i \in DOMAIN s : s[i] \in T}

(* An element more is a position more, if it is one of those counted.      *)
LEMMA AppendPositions ==
  ASSUME NEW S, NEW s \in Seq(S), NEW e \in S, NEW T
  PROVE  /\ Cardinality(Positions(s, T)) \in Nat
         /\ Cardinality(Positions(Append(s, e), T)) =
              Cardinality(Positions(s, T)) + IF e \in T THEN 1 ELSE 0
<1>1. /\ DOMAIN s = 1 .. Len(s) /\ Len(s) \in Nat
      /\ DOMAIN Append(s, e) = DOMAIN s \cup {Len(s) + 1}
      /\ \A i \in DOMAIN s : Append(s, e)[i] = s[i]
      /\ Append(s, e)[Len(s) + 1] = e
      /\ Len(s) + 1 \notin DOMAIN s
  OBVIOUS
<1>2. IsFiniteSet(Positions(s, T)) /\ Cardinality(Positions(s, T)) \in Nat
  <2>1. IsFiniteSet(1 .. Len(s)) /\ Positions(s, T) \in SUBSET (1 .. Len(s))
    BY <1>1, FS_Interval DEF Positions
  <2>2. QED
    BY <2>1, FS_Subset, FS_CardinalityType
<1>3. CASE e \in T
  <2>1. Positions(Append(s, e), T) = Positions(s, T) \cup {Len(s) + 1}
    BY <1>1, <1>3 DEF Positions
  <2>2. Len(s) + 1 \notin Positions(s, T)
    BY <1>1 DEF Positions
  <2>3. QED
    BY <1>2, <1>3, <2>1, <2>2, FS_AddElement
<1>4. CASE e \notin T
  <2>1. Positions(Append(s, e), T) = Positions(s, T)
    BY <1>1, <1>4 DEF Positions
  <2>2. QED
    BY <1>2, <1>4, <2>1
<1>5. QED
  BY <1>2, <1>3, <1>4

----------------------------------------------------------------------------
(* Types *)

Names == Tools \cup {OutputTool, UnknownTool}

(* The messages of the conversation. *)
Entry ==
  [kind: {"system", "prompt", "summary"}]
    \cup [kind: {"response"}, of: Nat, ids: BOOLEAN, calls: SUBSET Nat, text: BOOLEAN]
    \cup [kind: {"answers"}, of: Nat, ids: BOOLEAN, answers: SUBSET (Nat \X Verdicts)]

(* The events of the stream. *)
Item ==
  [kind: EventKinds \ {"request_start", "tool_start", "response_complete", "tool_complete",
                       "tool_executed", "run_complete", "cancelled", "failed"}]
    \cup [kind: {"request_start"}, step: Nat]
    \cup [kind: {"tool_start"}, tool: Names]
    \cup [kind: {"response_complete"}, step: Nat, reported: BOOLEAN]
    \cup [kind: {"tool_complete"}, of: Nat, call: Nat, tool: Names]
    \cup [kind: {"tool_executed"}, of: Nat, call: Nat, verdict: Verdicts]
    \cup [kind: {"run_complete"}, messages: Seq(Entry), usage: RunUsage]
    \cup [kind: {"cancelled"}, pending: Seq(Names), usage: RunUsage]
    \cup [kind: {"failed"}, error: {"model", "limit", "cancelled"}]

Calling == {"tools", "announced", "executing"}

Typed ==
  /\ pc \in {"top", "sizing", "asking", "streaming", "ended"} \cup Calling
  /\ options \in RunOptions
  /\ step \in Nat
  /\ messages \in Seq(Entry)
  /\ responses \in Seq(Responses)
  /\ usage \in RunUsage
  /\ pending \in Seq(Names)
  /\ reply \in Responses \cup {None}
  /\ outbox \in Seq(Item)
  /\ log \in Seq(Item)
  /\ read \in 0 .. Len(log)
  /\ Len(log) - read <= Capacity
  /\ open \in BOOLEAN
  /\ cancelled \in BOOLEAN

(* Where the task is tells what it is working on: the parts that have      *)
(* arrived, the calls still to answer, and the steps it has left.          *)
PlaceInv ==
  /\ pc = "streaming" => reply \in Responses
  /\ reply \in Responses => streamed \in 0 .. Len(reply.parts)
  /\ pc \in Calling => /\ responses # <<>>
                       /\ Last = reply
                       /\ OpenCalls # {}
  /\ answers # {} => answers \subseteq StreamCalls(Last) \X Verdicts
  /\ pc \notin Calling \cup {"ended"} => answers = {}
  /\ Len(responses) <= step
  /\ pc \in {"sizing", "asking", "streaming"} => Len(responses) < step
  /\ step <= IF pc \in {"sizing", "asking", "ended"} THEN MaxSteps + 1 ELSE MaxSteps

(* A response is a sequence of parts; its calls have names and numbers.    *)
LEMMA ResponseType ==
  ASSUME NEW r \in Responses
  PROVE  /\ r \in Response
         /\ r.parts \in Seq(Part)
         /\ StreamCalls(r) \subseteq 1 .. Len(r.parts)
         /\ StreamCalls(r) \subseteq Nat
         /\ \A p \in StreamCalls(r) : r.parts[p].tool \in Names
         /\ \A p \in 1 .. Len(r.parts) : r.parts[p].kind = "call" => r.parts[p].tool \in Names
         /\ r.usage # None => r.usage \in RequestUsage
         /\ (r.usage # None) \in BOOLEAN
<1>1. r \in Response /\ r.parts \in Seq(Part) /\ (r.usage # None => r.usage \in RequestUsage)
  BY StreamAssumption DEF Response
<1>2. \A p \in 1 .. Len(r.parts) : r.parts[p].kind = "call" => r.parts[p].tool \in Names
  <2>1. \A part \in Part : part.kind = "call" => part.tool \in Names
    BY DEF Part, Names
  <2>2. QED
    BY <1>1, <2>1
<1>3. QED
  BY <1>1, <1>2 DEF StreamCalls

(* The calls are taken in their order: the next is the first still open.   *)
LEMMA NextCallOpen ==
  ASSUME NEW r \in Responses, Last = r, OpenCalls # {}
  PROVE  /\ NextCall \in OpenCalls
         /\ NextCall \in StreamCalls(r)
         /\ NextCall \in Nat
         /\ NextTool = r.parts[NextCall].tool
         /\ NextTool \in Names
<1>1. OpenCalls \subseteq StreamCalls(r) /\ OpenCalls \subseteq Nat
  BY ResponseType DEF OpenCalls
<1>2. \E p \in OpenCalls : \A q \in OpenCalls : p <= q
  BY <1>1, Least
<1>3. NextCall \in OpenCalls
  BY <1>2 DEF NextCall
<1>4. QED
  BY <1>1, <1>3, ResponseType DEF NextTool

(* Counting a response or its calls keeps usage a record of counters. *)
LEMMA UsageTyped ==
  ASSUME NEW u \in RunUsage
  PROVE  /\ RecordToolCalls(u, 1) \in RunUsage
         /\ RecordToolCalls(u, 1).requests = u.requests
         /\ RecordToolCalls(u, 1).tool_calls = u.tool_calls + 1
         /\ \A r \in RequestUsage : /\ AddRequest(u, r) \in RunUsage
                                    /\ AddRequest(u, r).requests = u.requests + 1
                                    /\ AddRequest(u, r).tool_calls = u.tool_calls
<1>1. /\ RecordToolCalls(u, 1) \in RunUsage
      /\ RecordToolCalls(u, 1).requests = u.requests
      /\ RecordToolCalls(u, 1).tool_calls = u.tool_calls + 1
  BY DEF RecordToolCalls, RunUsage
<1>2. ASSUME NEW r \in RequestUsage
      PROVE  /\ AddRequest(u, r) \in RunUsage
             /\ AddRequest(u, r).requests = u.requests + 1
             /\ AddRequest(u, r).tool_calls = u.tool_calls
  <2> DEFINE request == u.request_tokens + r.request_tokens
             response == u.response_tokens + r.response_tokens
             total == IF r.total_tokens = None THEN request + response
                      ELSE u.total_tokens + r.total_tokens
  <2>1. request \in Nat /\ response \in Nat /\ total \in Nat /\ u.requests + 1 \in Nat
    BY DEF RunUsage, RequestUsage
  <2>2. AddRequest(u, r) =
          [u EXCEPT !.request_tokens = request, !.response_tokens = response,
                    !.total_tokens = total, !.requests = u.requests + 1]
    BY DEF AddRequest
  <2> HIDE DEF request, response, total
  <2>3. QED
    BY <2>1, <2>2 DEF RunUsage
<1>3. QED
  BY <1>1, <1>2

(* The events are events. *)
LEMMA EventTypes ==
  /\ \A kind \in {"run_start", "context_info", "context_compressed", "text", "output_ready",
                  "error"} : Event(kind) \in Item
  /\ \A n \in Nat : RequestStart(n) \in Item
  /\ \A tool \in Names : ToolCallStart(tool) \in Item
  /\ \A n \in Nat, r \in Responses : ResponseComplete(n, r) \in Item
  /\ \A n, p \in Nat, tool \in Names : ToolCallComplete(n, p, tool) \in Item
  /\ \A n, p \in Nat, verdict \in Verdicts : ToolExecuted(n, p, verdict) \in Item
  /\ \A history \in Seq(Entry), used \in RunUsage : RunComplete(history, used) \in Item
  /\ \A tools \in Seq(Names), used \in RunUsage : Cancelled(tools, used) \in Item
  /\ \A error \in {"model", "limit", "cancelled"} : Failed(error) \in Item
<1>1. \A kind \in {"run_start", "context_info", "context_compressed", "text", "output_ready",
                   "error"} : Event(kind) \in Item
  BY DEF Event, Item, EventKinds
<1>2. \A n \in Nat : RequestStart(n) \in Item
  BY DEF RequestStart, Item
<1>3. \A tool \in Names : ToolCallStart(tool) \in Item
  BY DEF ToolCallStart, Item
<1>4. \A n \in Nat, r \in Responses : ResponseComplete(n, r) \in Item
  BY DEF ResponseComplete, Item
<1>5. \A n, p \in Nat, tool \in Names : ToolCallComplete(n, p, tool) \in Item
  BY DEF ToolCallComplete, Item
<1>6. \A n, p \in Nat, verdict \in Verdicts : ToolExecuted(n, p, verdict) \in Item
  BY DEF ToolExecuted, Item
<1>7. \A history \in Seq(Entry), used \in RunUsage : RunComplete(history, used) \in Item
  BY DEF RunComplete, Item
<1>8. \A tools \in Seq(Names), used \in RunUsage : Cancelled(tools, used) \in Item
  BY DEF Cancelled, Item
<1>9. \A error \in {"model", "limit", "cancelled"} : Failed(error) \in Item
  BY DEF Failed, Item
<1>10. QED
  BY <1>1, <1>2, <1>3, <1>4, <1>5, <1>6, <1>7, <1>8, <1>9

----------------------------------------------------------------------------
(* Histories cut short *)

(* Every message of a comes from one of b, with no more answers.           *)
ComesFrom(a, b) ==
  \A i \in 1 .. Len(a) : \E j \in 1 .. Len(b) :
    /\ a[i].kind = b[j].kind
    /\ a[i].kind = "answers" => a[i].of = b[j].of /\ a[i].answers \subseteq b[j].answers

LEMMA ComesFromComesFrom ==
  ASSUME NEW a, NEW b, NEW c, ComesFrom(a, b), ComesFrom(b, c)
  PROVE  ComesFrom(a, c)
<1>1. ASSUME NEW i \in 1 .. Len(a)
      PROVE  \E j \in 1 .. Len(c) :
               /\ a[i].kind = c[j].kind
               /\ a[i].kind = "answers" => a[i].of = c[j].of /\ a[i].answers \subseteq c[j].answers
  <2>1. PICK j \in 1 .. Len(b) :
          /\ a[i].kind = b[j].kind
          /\ a[i].kind = "answers" => a[i].of = b[j].of /\ a[i].answers \subseteq b[j].answers
    BY DEF ComesFrom
  <2>2. PICK l \in 1 .. Len(c) :
          /\ b[j].kind = c[l].kind
          /\ b[j].kind = "answers" => b[j].of = c[l].of /\ b[j].answers \subseteq c[l].answers
    BY DEF ComesFrom
  <2>3. QED
    BY <2>1, <2>2
<1>2. QED
  BY <1>1 DEF ComesFrom

(* What is removed of a message.                                           *)
LEMMA KeptEntry ==
  ASSUME NEW m \in Entry, NEW given
  PROVE  /\ KeepResults(m, given) \in Entry
         /\ KeepResults(m, given).kind = m.kind
         /\ HasIds(m, "answers") =>
              /\ KeepResults(m, given).of = m.of
              /\ KeepResults(m, given).ids = m.ids
              /\ KeepResults(m, given).answers = {a \in m.answers : <<m.of, a[1]>> \in given}
         /\ ~HasIds(m, "answers") => KeepResults(m, given) = m
         /\ KeepUses(m, given) \in Entry
         /\ KeepUses(m, given).kind = m.kind
         /\ HasIds(m, "response") =>
              /\ KeepUses(m, given).of = m.of
              /\ KeepUses(m, given).ids = m.ids
              /\ KeepUses(m, given).text = m.text
              /\ KeepUses(m, given).calls = {p \in m.calls : <<m.of, p>> \in given}
         /\ ~HasIds(m, "response") => KeepUses(m, given) = m
<1>1. CASE HasIds(m, "answers")
  <2>1. m \in [kind: {"answers"}, of: Nat, ids: BOOLEAN, answers: SUBSET (Nat \X Verdicts)]
    BY <1>1 DEF Entry, HasIds, Is
  <2>2. KeepResults(m, given) = [m EXCEPT !.answers = {a \in m.answers : <<m.of, a[1]>> \in given}]
    BY <1>1 DEF KeepResults
  <2>3. KeepUses(m, given) = m /\ ~HasIds(m, "response")
    BY <1>1 DEF KeepUses, HasIds, Is
  <2>4. KeepResults(m, given) \in
          [kind: {"answers"}, of: Nat, ids: BOOLEAN, answers: SUBSET (Nat \X Verdicts)]
    BY <2>1, <2>2
  <2>5. KeepResults(m, given) \in Entry
    BY <2>4 DEF Entry
  <2>6. QED
    BY <1>1, <2>1, <2>2, <2>3, <2>5
<1>2. CASE HasIds(m, "response")
  <2>1. m \in [kind: {"response"}, of: Nat, ids: BOOLEAN, calls: SUBSET Nat, text: BOOLEAN]
    BY <1>2 DEF Entry, HasIds, Is
  <2>2. KeepUses(m, given) = [m EXCEPT !.calls = {p \in m.calls : <<m.of, p>> \in given}]
    BY <1>2 DEF KeepUses
  <2>3. KeepResults(m, given) = m /\ ~HasIds(m, "answers")
    BY <1>2 DEF KeepResults, HasIds, Is
  <2>4. KeepUses(m, given) \in
          [kind: {"response"}, of: Nat, ids: BOOLEAN, calls: SUBSET Nat, text: BOOLEAN]
    BY <2>1, <2>2
  <2>5. KeepUses(m, given) \in Entry
    BY <2>4 DEF Entry
  <2>6. QED
    BY <1>2, <2>1, <2>2, <2>3, <2>5
<1>3. CASE ~HasIds(m, "answers") /\ ~HasIds(m, "response")
  BY <1>3 DEF KeepResults, KeepUses
<1>4. QED
  BY <1>1, <1>2, <1>3

LEMMA NonEmptyComesFrom ==
  ASSUME NEW h \in Seq(Entry)
  PROVE  NonEmpty(h) \in Seq(Entry) /\ ComesFrom(NonEmpty(h), h)
<1> DEFINE kept == {h[k] : k \in {j \in DOMAIN h : ~IsEmpty(h[j])}}
<1>1. NonEmpty(h) = Only(h, kept)
  BY DEF NonEmpty
<1> HIDE DEF kept
<1>2. PICK g : Places(h, kept, Len(h), NonEmpty(h), g)
  BY <1>1, OnlyPlaces
<1>3. NonEmpty(h) \in Seq(Entry)
  BY <1>1, OnlyPlaces
<1>4. \A i \in 1 .. Len(NonEmpty(h)) :
        g[i] \in 1 .. Len(h) /\ NonEmpty(h)[i] = h[g[i]]
  BY <1>2 DEF Places
<1>5. QED
  BY <1>3, <1>4 DEF ComesFrom

(* Repairing a history removes calls, answers and messages, and makes up   *)
(* none.                                                                   *)
LEMMA RepairedComesFrom ==
  ASSUME NEW h \in Seq(Entry)
  PROVE  Repaired(h) \in Seq(Entry) /\ ComesFrom(Repaired(h), h)
<1> DEFINE uses == ToolUseIds(h)
           cut == [k \in DOMAIN h |-> KeepResults(h[k], uses)]
           answered == NonEmpty(cut)
           results == ToolResultIds(answered)
           trimmed == [k \in DOMAIN answered |-> KeepUses(answered[k], results)]
<1>1. Repaired(h) = NonEmpty(trimmed)
  BY DEF Repaired, WithoutOrphanedResults, WithoutOrphanedUses
<1> HIDE DEF uses, results
<1>2. \A k \in 1 .. Len(h) : h[k] \in Entry
  OBVIOUS
<1>3. cut \in Seq(Entry) /\ Len(cut) = Len(h) /\ ComesFrom(cut, h)
  <2>1. DOMAIN h = 1 .. Len(h) /\ Len(h) \in Nat
    OBVIOUS
  <2>2. \A k \in 1 .. Len(h) : cut[k] \in Entry /\ cut[k] = KeepResults(h[k], uses)
    BY <1>2, <2>1, KeptEntry
  <2>3. cut \in [1 .. Len(h) -> Entry]
    BY <2>1, <2>2
  <2> HIDE DEF cut
  <2>4. cut \in Seq(Entry) /\ Len(cut) = Len(h)
    BY <2>1, <2>3
  <2>5. \A k \in 1 .. Len(h) :
          /\ cut[k].kind = h[k].kind
          /\ h[k].kind = "answers" => cut[k].of = h[k].of /\ cut[k].answers \subseteq h[k].answers
    <3>1. TAKE k \in 1 .. Len(h)
    <3>2. h[k] \in Entry /\ cut[k] = KeepResults(h[k], uses)
      BY <1>2, <2>2
    <3>3. cut[k].kind = h[k].kind
      BY <3>2, KeptEntry
    <3>4. HasIds(h[k], "answers") =>
            /\ cut[k].of = h[k].of
            /\ cut[k].answers = {a \in h[k].answers : <<h[k].of, a[1]>> \in uses}
      BY <3>2, KeptEntry
    <3>6. ~HasIds(h[k], "answers") => cut[k] = h[k]
      BY <3>2, KeptEntry
    <3>5. QED
      BY <3>3, <3>4, <3>6
  <2>6. QED
    BY <2>4, <2>5 DEF ComesFrom
<1> HIDE DEF cut
<1>4. answered \in Seq(Entry) /\ ComesFrom(answered, cut)
  BY <1>3, NonEmptyComesFrom
<1> HIDE DEF answered
<1>5. trimmed \in Seq(Entry) /\ Len(trimmed) = Len(answered) /\ ComesFrom(trimmed, answered)
  <2>1. DOMAIN answered = 1 .. Len(answered) /\ Len(answered) \in Nat
    BY <1>4
  <2>2. \A k \in 1 .. Len(answered) :
          /\ answered[k] \in Entry
          /\ trimmed[k] \in Entry
          /\ trimmed[k] = KeepUses(answered[k], results)
    BY <1>4, <2>1, KeptEntry
  <2>3. trimmed \in [1 .. Len(answered) -> Entry]
    BY <2>1, <2>2
  <2> HIDE DEF trimmed
  <2>4. trimmed \in Seq(Entry) /\ Len(trimmed) = Len(answered)
    BY <2>1, <2>3
  <2>5. \A k \in 1 .. Len(answered) :
          /\ trimmed[k].kind = answered[k].kind
          /\ answered[k].kind = "answers" => trimmed[k] = answered[k]
    <3>1. TAKE k \in 1 .. Len(answered)
    <3>2. answered[k] \in Entry /\ trimmed[k] = KeepUses(answered[k], results)
      BY <2>2
    <3>3. QED
      BY <3>2, KeptEntry DEF HasIds, Is
  <2>6. QED
    BY <2>4, <2>5 DEF ComesFrom
<1> HIDE DEF trimmed
<1>6. NonEmpty(trimmed) \in Seq(Entry) /\ ComesFrom(NonEmpty(trimmed), trimmed)
  BY <1>5, NonEmptyComesFrom
<1>7. QED
  BY <1>1, <1>3, <1>4, <1>5, <1>6, ComesFromComesFrom

(* The elements of a concatenation. *)
LEMMA ConcatElements ==
  ASSUME NEW S, NEW a \in Seq(S), NEW b \in Seq(S)
  PROVE  /\ a \o b \in Seq(S)
         /\ Len(a \o b) = Len(a) + Len(b)
         /\ \A i \in 1 .. Len(a) : (a \o b)[i] = a[i]
         /\ \A i \in 1 .. Len(a \o b) : i \notin 1 .. Len(a) =>
              i - Len(a) \in 1 .. Len(b) /\ (a \o b)[i] = b[i - Len(a)]
OBVIOUS

(* Both ends of a history. *)
LEMMA EndsComesFrom ==
  ASSUME NEW h \in Seq(Entry), NEW n \in 0 .. Len(h), NEW recent \in 0 .. Len(h) - n
  PROVE  Ends(h, n, recent) \in Seq(Entry) /\ ComesFrom(Ends(h, n, recent), h)
<1> DEFINE l == Len(h)
           front == SubSeq(h, 1, n)
           back == SubSeq(h, l - recent + 1, l)
<1>1. /\ front \in Seq(Entry) /\ Len(front) = n
      /\ \A i \in 1 .. n : front[i] = h[i] /\ i \in 1 .. l
  OBVIOUS
<1>2. /\ back \in Seq(Entry) /\ Len(back) = recent
      /\ \A i \in 1 .. recent : back[i] = h[l - recent + i] /\ l - recent + i \in 1 .. l
  OBVIOUS
<1>3. Ends(h, n, recent) = front \o back
  BY DEF Ends
<1> HIDE DEF front, back
<1>4. front \o back \in Seq(Entry)
  BY <1>1, <1>2
<1>5. ASSUME NEW i \in 1 .. Len(front \o back)
      PROVE  \E j \in 1 .. l : (front \o back)[i] = h[j]
  <2>1. CASE i \in 1 .. n
    <3>1. (front \o back)[i] = front[i]
      BY <1>1, <1>2, <2>1, ConcatElements
    <3>2. QED
      BY <1>1, <2>1, <3>1
  <2>2. CASE i \notin 1 .. n
    <3>1. i - n \in 1 .. recent /\ (front \o back)[i] = back[i - n]
      <4>1. i - Len(front) \in 1 .. Len(back) /\ (front \o back)[i] = back[i - Len(front)]
        BY <1>1, <1>2, <2>2, ConcatElements
      <4>2. QED
        BY <1>1, <1>2, <4>1
    <3>2. QED
      BY <1>2, <3>1
  <2>3. QED
    BY <2>1, <2>2
<1>6. QED
  BY <1>3, <1>4, <1>5 DEF ComesFrom

(* Two elements, one, and two. *)
LEMMA Bridged ==
  ASSUME NEW S, NEW a \in Seq(S), NEW e \in S, NEW b \in Seq(S)
  PROVE  Len(a) = 2 /\ Len(b) = 2 =>
           /\ a \o <<e>> \o b \in Seq(S)
           /\ Len(a \o <<e>> \o b) = 5
           /\ (a \o <<e>> \o b)[1] = a[1]
           /\ (a \o <<e>> \o b)[2] = a[2]
           /\ (a \o <<e>> \o b)[3] = e
           /\ (a \o <<e>> \o b)[4] = b[1]
           /\ (a \o <<e>> \o b)[5] = b[2]
<1> DEFINE one == <<e>>
           start == a \o one
           whole == start \o b
<1>1. one \in Seq(S) /\ Len(one) = 1 /\ one[1] = e
  OBVIOUS
<1>2. a \o <<e>> \o b = whole
  OBVIOUS
<1> HIDE DEF one
<1>3. /\ start \in Seq(S) /\ Len(start) = Len(a) + Len(one)
      /\ \A i \in 1 .. Len(a) : start[i] = a[i]
      /\ \A i \in 1 .. Len(start) : i \notin 1 .. Len(a) =>
           i - Len(a) \in 1 .. Len(one) /\ start[i] = one[i - Len(a)]
  BY <1>1, ConcatElements, ZenonT(60)
<1> HIDE DEF start
<1>4. Len(a) = 2 => Len(start) = 3 /\ start[1] = a[1] /\ start[2] = a[2] /\ start[3] = e
  BY <1>1, <1>3
<1>5. /\ whole \in Seq(S) /\ Len(whole) = Len(start) + Len(b)
      /\ \A i \in 1 .. Len(start) : whole[i] = start[i]
      /\ \A i \in 1 .. Len(whole) : i \notin 1 .. Len(start) =>
           i - Len(start) \in 1 .. Len(b) /\ whole[i] = b[i - Len(start)]
  <2>1. start \in Seq(S)
    BY <1>3
  <2>2. QED
    BY <2>1, ConcatElements
<1> HIDE DEF whole
<1>6. Len(start) = 3 /\ Len(b) = 2 =>
        /\ Len(whole) = 5
        /\ whole[1] = start[1] /\ whole[2] = start[2] /\ whole[3] = start[3]
        /\ whole[4] = b[1] /\ whole[5] = b[2]
  BY <1>5
<1>7. QED
  BY <1>2, <1>4, <1>5, <1>6

(* A compressed history answers no more calls than the one it is made of.  *)
LEMMA CompressedComesFrom ==
  ASSUME messages \in Seq(Entry), TruncateContext \/ SummarizeContext
  PROVE  /\ messages' \in Seq(Entry)
         /\ \A i \in 1 .. Len(messages') : messages'[i].kind = "answers" =>
              \E j \in 1 .. Len(messages) :
                /\ messages[j].kind = "answers"
                /\ messages'[i].of = messages[j].of
                /\ messages'[i].answers \subseteq messages[j].answers
<1>1. CASE TruncateContext
  <2> DEFINE n == IF 2 <= Len(messages) THEN 2 ELSE Len(messages)
  <2>1. n \in 0 .. Len(messages)
    OBVIOUS
  <2>2. PICK recent \in 0 .. Len(messages) - n : messages' = Repaired(Ends(messages, n, recent))
    BY <1>1 DEF TruncateContext, CompressTo, TruncatedByTokens
  <2> HIDE DEF n
  <2>3. messages' \in Seq(Entry) /\ ComesFrom(messages', messages)
    BY <2>1, <2>2, EndsComesFrom, RepairedComesFrom, ComesFromComesFrom
  <2>4. QED
    BY <2>3 DEF ComesFrom
<1>2. CASE SummarizeContext
  <2> DEFINE l == Len(messages)
             front == SubSeq(messages, 1, 2)
             back == SubSeq(messages, l - 1, l)
             summary == Event("summary")
  <2>1. l \in Nat /\ l > 4 /\ messages' = front \o <<summary>> \o back
    BY <1>2 DEF SummarizeContext, CompressTo
  <2>2. /\ front \in Seq(Entry) /\ Len(front) = 2
        /\ front[1] = messages[1] /\ front[2] = messages[2]
        /\ back \in Seq(Entry) /\ Len(back) = 2
        /\ back[1] = messages[l - 1] /\ back[2] = messages[l]
    BY <2>1
  <2>3. summary \in Entry /\ summary.kind = "summary"
    BY DEF Event, Entry
  <2> HIDE DEF front, back, summary
  <2>4. /\ messages' \in Seq(Entry) /\ Len(messages') = 5
        /\ messages'[1] = messages[1] /\ messages'[2] = messages[2]
        /\ messages'[3] = summary
        /\ messages'[4] = messages[l - 1] /\ messages'[5] = messages[l]
    BY <2>1, <2>2, <2>3, Bridged
  <2>5. ASSUME NEW i \in 1 .. 5, messages'[i].kind = "answers"
        PROVE  \E j \in 1 .. l : messages'[i] = messages[j]
    <3>1. i = 1 \/ i = 2 \/ i = 3 \/ i = 4 \/ i = 5
      OBVIOUS
    <3>2. {1, 2, l - 1, l} \subseteq 1 .. l
      BY <2>1
    <3>3. QED
      BY <2>3, <2>4, <2>5, <3>1, <3>2
  <2>6. QED
    BY <2>4, <2>5, ZenonT(60)
<1>3. QED
  BY <1>1, <1>2

----------------------------------------------------------------------------
(* Type correctness *)

LEMMA StartsTyped == Init => Typed /\ PlaceInv
<1> SUFFICES ASSUME Init PROVE Typed /\ PlaceInv
  OBVIOUS
<1>1. options \in RunOptions
  BY StreamAssumption DEF Init
<1>2. messages \in Seq(Entry)
  <2>1. Event("system") \in Entry /\ Event("prompt") \in Entry
    BY DEF Event, Entry
  <2>2. QED
    BY <2>1 DEF Init
<1>3. outbox \in Seq(Item)
  BY EventTypes DEF Init
<1>4. usage \in RunUsage
  BY DEF Init, ZeroUsage, RunUsage
<1>5. /\ pc \in {"top"} /\ step \in Nat /\ reply \in Responses \cup {None}
      /\ responses \in Seq(Responses) /\ pending \in Seq(Names)
      /\ log \in Seq(Item) /\ Len(log) = 0 /\ read = 0
      /\ open \in BOOLEAN /\ cancelled \in BOOLEAN
  <2>1. /\ pc = "top" /\ step = 0 /\ reply = None /\ responses = <<>> /\ pending = <<>>
        /\ log = <<>> /\ read = 0 /\ open = TRUE /\ cancelled = FALSE
    BY DEF Init
  <2>2. open \in BOOLEAN /\ cancelled \in BOOLEAN
    BY <2>1
  <2>3. responses \in Seq(Responses) /\ pending \in Seq(Names) /\ log \in Seq(Item)
    BY <2>1
  <2>4. QED
    BY <2>1, <2>2, <2>3
<1>6. read \in 0 .. Len(log) /\ Len(log) - read <= Capacity
  BY <1>5, StreamAssumption
<1>7. Typed
  BY <1>1, <1>2, <1>3, <1>4, <1>5, <1>6 DEF Typed
<1>8. PlaceInv
  <2>1. reply \in Responses => streamed \in 0 .. Len(reply.parts)
    BY ResponseType DEF Init
  <2>2. QED
    BY <2>1, StreamAssumption DEF Init, PlaceInv, Calling
<1>9. QED
  BY <1>7, <1>8

(* What the task says is what it says, whatever it is doing. *)
LEMMA PlaceKept ==
  ASSUME PlaceInv, UNCHANGED <<pc, account, streaming, answers>>
  PROVE  PlaceInv'
BY DEF PlaceInv, account, streaming, Last, OpenCalls, StreamCalls, Calling

(* The channel, its consumer and the holder of the token. *)
LEMMA ChannelTyped ==
  ASSUME Typed, PlaceInv, SendEvent \/ SendRefused \/ Receive \/ DropStream \/ Cancel \/ Over,
         UNCHANGED options
  PROVE  Typed' /\ PlaceInv'
<1>1. CASE SendEvent
  <2>1. Head(outbox) \in Item /\ Tail(outbox) \in Seq(Item)
    BY <1>1 DEF SendEvent, Typed
  <2>2. log' \in Seq(Item) /\ Len(log') = Len(log) + 1 /\ outbox' \in Seq(Item)
    BY <1>1, <2>1 DEF SendEvent, Typed
  <2>3. read' \in 0 .. Len(log') /\ Len(log') - read' <= Capacity
    BY <1>1, <2>2, StreamAssumption DEF SendEvent, HasRoom, Typed, consumer
  <2>4. QED
    BY <1>1, <2>2, <2>3, PlaceKept DEF SendEvent, Typed, account, streaming, consumer
<1>2. CASE SendRefused
  <2>1. outbox' \in Seq(Item)
    <3>1. Tail(outbox) \in Seq(Item) /\ <<>> \in Seq(Item)
      BY <1>2 DEF SendRefused, Typed
    <3>2. outbox' = <<>> \/ outbox' = Tail(outbox)
      BY <1>2 DEF SendRefused
    <3>3. QED
      BY <3>1, <3>2
  <2>2. Typed'
    BY <1>2, <2>1 DEF SendRefused, Typed, account, streaming, consumer
  <2>3. CASE pc' = pc
    BY <1>2, <2>2, <2>3, PlaceKept DEF SendRefused
  <2>4. CASE pc' = "ended"
    BY <1>2, <2>2, <2>4, StreamAssumption, SMTT(60)
       DEF SendRefused, PlaceInv, account, streaming, Last, StreamCalls, Calling, Typed
  <2>5. QED
    BY <1>2, <2>3, <2>4 DEF SendRefused
<1>3. CASE Receive
  <2>1. /\ Len(log) \in Nat /\ read \in 0 .. Len(log) /\ Len(log) - read <= Capacity
        /\ read < Len(log) /\ read' = read + 1 /\ Capacity \in Nat
    BY <1>3, StreamAssumption DEF Receive, Typed
  <2>2. read' \in 0 .. Len(log) /\ Len(log) - read' <= Capacity
    BY <2>1
  <2>3. QED
    BY <1>3, <2>2, PlaceKept DEF Receive, Typed, account, streaming
<1>4. CASE DropStream
  BY <1>4, PlaceKept DEF DropStream, Typed, account, streaming
<1>5. CASE Cancel
  BY <1>5, PlaceKept DEF Cancel, Typed, account, streaming, consumer
<1>6. CASE Over
  BY <1>6, PlaceKept DEF Over, Typed, vars, account, streaming, consumer
<1>7. QED
  BY <1>1, <1>2, <1>3, <1>4, <1>5, <1>6

(* The loop up to the model. *)
LEMMA LoopTyped ==
  ASSUME Typed, PlaceInv,
         \/ ObserveCancel \/ BeginStep \/ KeepContext \/ TruncateContext \/ SummarizeContext
         \/ RequestFails \/ \E r \in Responses : RequestOpens(r),
         UNCHANGED options
  PROVE  Typed' /\ PlaceInv'
<1>1. CASE ObserveCancel
  <2>1. outbox' \in Seq(Item)
    BY <1>1, EventTypes DEF ObserveCancel, Emit, Typed
  <2>2. Typed'
    BY <1>1, <2>1 DEF ObserveCancel, Typed, account, streaming, consumer
  <2>3. PlaceInv'
    BY <1>1, StreamAssumption
       DEF ObserveCancel, PlaceInv, account, streaming, Last, StreamCalls, Calling, Typed
  <2>4. QED
    BY <2>2, <2>3
<1>2. CASE BeginStep
  <2>1. pc = "top" /\ pc' \in {"sizing", "ended"} /\ step' = step + 1
    BY <1>2 DEF BeginStep, At
  <2>2. outbox' \in Seq(Item)
    <3>1. /\ Failed("limit") \in Item /\ RequestStart(step + 1) \in Item
          /\ Event("context_info") \in Item
      BY EventTypes DEF Typed
    <3>2. outbox' = <<Failed("limit")>> \/ outbox' = <<RequestStart(step + 1), Event("context_info")>>
      BY <1>2 DEF BeginStep, Emit
    <3>3. /\ <<Failed("limit")>> \in Seq(Item)
          /\ <<RequestStart(step + 1), Event("context_info")>> \in Seq(Item)
      BY <3>1
    <3>4. QED
      BY <3>2, <3>3
  <2>3. Typed'
    BY <1>2, <2>1, <2>2 DEF BeginStep, Typed, streaming, consumer
  <2>4. Len(responses') <= step /\ step <= MaxSteps /\ answers' = {} /\ step \in Nat
    BY <1>2, <2>1 DEF BeginStep, PlaceInv, Calling, Typed
  <2>5. reply' \in Responses => streamed' \in 0 .. Len(reply'.parts)
    BY <1>2 DEF BeginStep, PlaceInv, streaming
  <2>6. PlaceInv'
    BY <2>1, <2>3, <2>4, <2>5, StreamAssumption, SMTT(60) DEF PlaceInv, Calling, Typed
  <2>7. QED
    BY <2>3, <2>6
<1>3. CASE KeepContext
  <2>1. Typed'
    BY <1>3 DEF KeepContext, Typed, account, streaming, consumer
  <2>2. PlaceInv'
    BY <1>3 DEF KeepContext, At, PlaceInv, account, streaming, Last, StreamCalls, Calling
  <2>3. QED
    BY <2>1, <2>2
<1>4. CASE TruncateContext \/ SummarizeContext
  <2>1. PICK history : CompressTo(history)
    BY <1>4 DEF TruncateContext, SummarizeContext
  <2>2. pc = "sizing"
    BY <1>4 DEF TruncateContext, SummarizeContext, At
  <2>3. messages' \in Seq(Entry)
    BY <1>4, CompressedComesFrom DEF Typed
  <2>4. outbox' \in Seq(Item)
    BY <2>1, EventTypes DEF CompressTo, Emit
  <2>5. Typed'
    BY <2>1, <2>3, <2>4 DEF CompressTo, Typed, account, streaming, consumer
  <2>6. PlaceInv'
    BY <2>1, <2>2 DEF CompressTo, PlaceInv, account, streaming, Last, StreamCalls, Calling
  <2>7. QED
    BY <2>5, <2>6
<1>5. CASE RequestFails
  <2>1. outbox' \in Seq(Item)
    BY <1>5, EventTypes DEF RequestFails, ModelFailed, Emit
  <2>2. Typed'
    BY <1>5, <2>1 DEF RequestFails, Typed, account, streaming, consumer
  <2>3. PlaceInv'
    BY <1>5 DEF RequestFails, At, PlaceInv, account, streaming, Last, StreamCalls, Calling
  <2>4. QED
    BY <2>2, <2>3
<1>6. ASSUME NEW r \in Responses, RequestOpens(r)
      PROVE  Typed' /\ PlaceInv'
  <2>1. /\ pc = "asking" /\ pc' = "streaming" /\ reply' = r /\ streamed' = 0 /\ step <= MaxSteps
        /\ UNCHANGED <<account, answers>>
    BY <1>6 DEF RequestOpens, At
  <2>2. Typed'
    BY <1>6 DEF RequestOpens, Typed, account, consumer
  <2>3. streamed' \in 0 .. Len(reply'.parts)
    BY <2>1, ResponseType
  <2>4. PlaceInv'
    BY <2>1, <2>3 DEF PlaceInv, account, Last, Calling
  <2>5. QED
    BY <2>2, <2>4
<1>7. QED
  BY <1>1, <1>2, <1>3, <1>4, <1>5, <1>6

(* A response as it enters the messages, and what it costs. *)
LEMMA ReplyTyped ==
  ASSUME Typed, NEW r \in Responses, reply = r, RecordReply
  PROVE  /\ responses' \in Seq(Responses)
         /\ Len(responses') = Len(responses) + 1
         /\ Last' = reply
         /\ responses' # <<>>
         /\ usage' \in RunUsage
         /\ usage'.requests = usage.requests + IF r.usage = None THEN 0 ELSE 1
         /\ usage'.tool_calls = usage.tool_calls
         /\ Pushed(Len(responses) + 1, reply) \in Entry
         /\ Append(messages, Pushed(Len(responses) + 1, reply)) \in Seq(Entry)
         /\ ResponseComplete(step, reply) \in Item
<1>1. /\ responses' \in Seq(Responses) /\ Len(responses') = Len(responses) + 1
      /\ responses'[Len(responses')] = r
  BY DEF RecordReply, Typed
<1>2. responses' # <<>>
  BY <1>1 DEF Typed
<1>3. usage' \in RunUsage /\ usage'.tool_calls = usage.tool_calls
      /\ usage'.requests = usage.requests + IF r.usage = None THEN 0 ELSE 1
  <2>1. CASE r.usage = None
    <3>1. usage' = usage
      BY <2>1 DEF RecordReply, Charged
    <3>2. usage \in RunUsage /\ usage.requests \in Nat
      BY DEF Typed, RunUsage
    <3>3. QED
      BY <2>1, <3>1, <3>2
  <2>2. CASE r.usage # None
    <3>1. usage' = AddRequest(usage, r.usage) /\ r.usage \in RequestUsage /\ usage \in RunUsage
      BY <2>2, ResponseType DEF RecordReply, Charged, Typed
    <3>2. QED
      BY <2>2, <3>1, UsageTyped
  <2>3. QED
    BY <2>1, <2>2
<1>4. Pushed(Len(responses) + 1, reply) \in Entry
  <2>1. StreamCalls(r) \in SUBSET Nat /\ (StreamCalls(r) # DOMAIN r.parts) \in BOOLEAN
    BY ResponseType
  <2>2. Len(responses) + 1 \in Nat
    BY DEF Typed
  <2>3. QED
    BY <2>1, <2>2 DEF Pushed, HaveIds, Entry
<1>5. Append(messages, Pushed(Len(responses) + 1, reply)) \in Seq(Entry)
  BY <1>4 DEF Typed
<1>6. ResponseComplete(step, reply) \in Item
  BY EventTypes DEF Typed
<1>7. QED
  BY <1>1, <1>2, <1>3, <1>4, <1>5, <1>6 DEF Last

LEMMA StreamTyped ==
  ASSUME Typed, PlaceInv,
         \/ StreamPart \/ StreamFails
         \/ ResponseWithCalls \/ FinalResponse \/ ResponseCutShort,
         UNCHANGED options
  PROVE  Typed' /\ PlaceInv'
<1>1. pc = "streaming" /\ reply \in Responses /\ streamed \in 0 .. Len(reply.parts)
      /\ answers = {} /\ Len(responses) < step /\ step <= MaxSteps
  <2>1. pc = "streaming"
    BY DEF StreamPart, StreamFails, ResponseWithCalls, FinalResponse, ResponseCutShort,
           StreamEnds, Streaming, At
  <2>2. reply \in Responses
    BY <2>1 DEF PlaceInv
  <2>3. QED
    BY <2>1, <2>2 DEF PlaceInv, Calling
<1>2. CASE StreamPart
  <2> DEFINE part == reply.parts[streamed + 1]
  <2>1. streamed + 1 \in 1 .. Len(reply.parts) /\ (part.kind = "call" => part.tool \in Names)
    <3>1. streamed + 1 \in 1 .. Len(reply.parts)
      BY <1>1, <1>2, ResponseType DEF StreamPart
    <3>2. QED
      BY <1>1, <3>1, ResponseType
  <2>2. outbox' \in Seq(Item) /\ pending' \in Seq(Names)
    <3>1. CASE part.kind = "call"
      <4>1. ToolCallStart(part.tool) \in Item /\ part.tool \in Names
        BY <2>1, <3>1, EventTypes
      <4>2. outbox' = <<ToolCallStart(part.tool)>> /\ pending' = Append(pending, part.tool)
        BY <1>2, <3>1 DEF StreamPart, Emit
      <4>3. pending \in Seq(Names)
        BY DEF Typed
      <4> HIDE DEF part
      <4>4. QED
        BY <4>1, <4>2, <4>3
    <3>2. CASE part.kind # "call"
      <4>1. outbox' = <<Event("text")>> /\ pending' = pending
        BY <1>2, <3>2 DEF StreamPart, Emit
      <4>2. Event("text") \in Item /\ pending \in Seq(Names)
        BY EventTypes DEF Typed
      <4> HIDE DEF part
      <4>3. QED
        BY <4>1, <4>2
    <3>3. QED
      BY <3>1, <3>2
  <2>3. Typed'
    BY <1>2, <2>2 DEF StreamPart, Typed, account, consumer
  <2>4. streamed' \in 0 .. Len(reply.parts) /\ reply' = reply
    BY <1>1, <1>2, <2>1 DEF StreamPart
  <2>5. PlaceInv'
    BY <1>1, <1>2, <2>4 DEF StreamPart, PlaceInv, account, Calling
  <2>6. QED
    BY <2>3, <2>5
<1>3. CASE StreamFails
  <2>1. outbox' \in Seq(Item)
    BY <1>3, EventTypes DEF StreamFails, ModelFailed, Emit
  <2>2. Typed'
    BY <1>3, <2>1 DEF StreamFails, Typed, account, streaming, consumer
  <2>3. PlaceInv'
    BY <1>1, <1>3, StreamAssumption
       DEF StreamFails, PlaceInv, account, streaming, Calling, Typed
  <2>4. QED
    BY <2>2, <2>3
<1>4. ASSUME ResponseWithCalls \/ FinalResponse \/ ResponseCutShort
      PROVE  Typed' /\ PlaceInv'
  <2>1. /\ RecordReply
        /\ pc' \in {"tools", "ended", "top"}
        /\ pc' = "tools" => StreamCalls(reply) # {}
        /\ UNCHANGED <<step, reply, streamed, answers, pending, log, read, open, cancelled>>
        /\ messages' \in {messages, Append(messages, Pushed(Len(responses) + 1, reply))}
    BY <1>4 DEF ResponseWithCalls, FinalResponse, ResponseCutShort, streaming, consumer
  <2>2. /\ responses' \in Seq(Responses) /\ Len(responses') = Len(responses) + 1
        /\ Last' = reply /\ responses' # <<>>
        /\ usage' \in RunUsage
        /\ messages' \in Seq(Entry)
        /\ ResponseComplete(step, reply) \in Item
    BY <1>1, <2>1, ReplyTyped DEF Typed
  <2>3. outbox' \in Seq(Item)
    <3>1. RunComplete(messages', usage') \in Item /\ Event("output_ready") \in Item
      BY <2>2, EventTypes
    <3>2. \/ outbox' = <<ResponseComplete(step, reply)>>
          \/ outbox' = <<ResponseComplete(step, reply), Event("output_ready"),
                         RunComplete(messages', usage')>>
      BY <1>4 DEF ResponseWithCalls, FinalResponse, ResponseCutShort, Emit
    <3>3. \A a, b, c \in Item : <<a>> \in Seq(Item) /\ <<a, b, c>> \in Seq(Item)
      OBVIOUS
    <3>4. QED
      BY <2>2, <3>1, <3>2, <3>3
  <2>4. Typed'
    BY <2>1, <2>2, <2>3 DEF Typed, Calling
  <2>5. pc' = "tools" => OpenCalls' # {}
    <3>1. answers' = {} /\ Last' = reply
      BY <1>1, <2>1, <2>2
    <3>2. OpenCalls' = StreamCalls(reply)
      BY <3>1 DEF OpenCalls, StreamCalls
    <3>3. QED
      BY <2>1, <3>2
  <2>6. Len(responses') <= step' /\ step' <= MaxSteps /\ step \in Nat
    BY <1>1, <2>1, <2>2 DEF Typed
  <2>7. PlaceInv'
    BY <1>1, <2>1, <2>2, <2>5, <2>6, StreamAssumption DEF PlaceInv, Calling
  <2>8. QED
    BY <2>4, <2>7
<1>5. QED
  BY <1>2, <1>3, <1>4

(* The answers of a tool: to the next call, and to no other. *)
LEMMA AnswerTyped ==
  ASSUME Typed, PlaceInv, pc = "executing", NEW verdict \in Verdicts, Answer(verdict)
  PROVE  /\ OpenCalls # {NextCall} =>
              /\ messages' = messages
              /\ answers' = answers \cup {<<NextCall, verdict>>}
              /\ pc' = "tools"
         /\ OpenCalls = {NextCall} =>
              /\ messages' = Append(messages, [kind |-> "answers", of |-> Len(responses),
                                               ids |-> HaveIds(Last), answers |-> answers \cup {<<NextCall, verdict>>}])
              /\ answers' = {}
              /\ pc' = "top"
         /\ messages' \in Seq(Entry)
         /\ answers \cup {<<NextCall, verdict>>} \subseteq StreamCalls(Last) \X Verdicts
         /\ answers \cup {<<NextCall, verdict>>} \subseteq Nat \X Verdicts
<1>1. /\ OpenCalls # {NextCall} =>
           /\ messages' = messages
           /\ answers' = answers \cup {<<NextCall, verdict>>}
           /\ pc' = "tools"
      /\ OpenCalls = {NextCall} =>
           /\ messages' = Append(messages, [kind |-> "answers", of |-> Len(responses),
                                            ids |-> HaveIds(Last), answers |-> answers \cup {<<NextCall, verdict>>}])
           /\ answers' = {}
           /\ pc' = "top"
  BY DEF Answer
<1>2. responses # <<>> /\ OpenCalls # {} /\ Last \in Responses
  BY DEF PlaceInv, Calling, Typed, Last
<1>3. NextCall \in StreamCalls(Last) /\ StreamCalls(Last) \subseteq Nat
  BY <1>2, NextCallOpen, ResponseType
<1>4. answers \subseteq StreamCalls(Last) \X Verdicts
  BY DEF PlaceInv
<1>5. answers \cup {<<NextCall, verdict>>} \subseteq StreamCalls(Last) \X Verdicts
  BY <1>3, <1>4
<1>6. answers \cup {<<NextCall, verdict>>} \subseteq Nat \X Verdicts
  BY <1>3, <1>5
<1>7. [kind |-> "answers", of |-> Len(responses), ids |-> HaveIds(Last),
       answers |-> answers \cup {<<NextCall, verdict>>}] \in Entry
  BY <1>6 DEF Entry, HaveIds, Typed
<1>8. messages' \in Seq(Entry)
  <2>1. CASE OpenCalls = {NextCall}
    <3>1. \A m \in Entry : Append(messages, m) \in Seq(Entry)
      BY DEF Typed
    <3>2. QED
      BY <1>1, <1>7, <2>1, <3>1
  <2>2. CASE OpenCalls # {NextCall}
    BY <1>1, <2>2 DEF Typed
  <2>3. QED
    BY <2>1, <2>2
<1>9. QED
  BY <1>1, <1>5, <1>6, <1>8

LEMMA ToolsTyped ==
  ASSUME Typed, PlaceInv,
         CallTool \/ BeginTool \/ \E verdict \in Verdicts : ToolAnswers(verdict),
         UNCHANGED options
  PROVE  Typed' /\ PlaceInv'
<1>1. pc \in Calling
  BY DEF CallTool, BeginTool, ToolAnswers, At, Calling
<1>2. /\ responses # <<>> /\ OpenCalls # {} /\ Last \in Responses /\ Len(responses) \in Nat
      /\ NextCall \in Nat /\ NextTool \in Names
  <2>1. responses # <<>> /\ OpenCalls # {} /\ Last \in Responses /\ Len(responses) \in Nat
    BY <1>1 DEF PlaceInv, Typed, Last
  <2>2. QED
    BY <2>1, NextCallOpen
<1>3. CASE CallTool
  <2>1. ToolCallComplete(Len(responses), NextCall, NextTool) \in Item
    BY <1>2, EventTypes
  <2>2. outbox' \in Seq(Item)
    BY <1>3, <2>1 DEF CallTool, Emit
  <2>3. Typed'
    BY <1>3, <2>2 DEF CallTool, Typed, account, streaming, consumer, Calling
  <2>4. PlaceInv'
    BY <1>1, <1>3
       DEF CallTool, PlaceInv, account, streaming, Last, OpenCalls, StreamCalls, Calling
  <2>5. QED
    BY <2>3, <2>4
<1>4. CASE BeginTool
  <2>1. usage' \in RunUsage
    BY <1>4, UsageTyped DEF BeginTool, Typed
  <2>2. pending' \in Seq(Names)
    BY <1>4, WithoutMembers DEF BeginTool, WithoutTool, Typed
  <2>3. Typed'
    BY <1>4, <2>1, <2>2 DEF BeginTool, Typed, streaming, consumer, Calling
  <2>4. PlaceInv'
    BY <1>1, <1>4
       DEF BeginTool, PlaceInv, streaming, Last, OpenCalls, StreamCalls, Calling
  <2>5. QED
    BY <2>3, <2>4
<1>5. ASSUME NEW verdict \in Verdicts, ToolAnswers(verdict)
      PROVE  Typed' /\ PlaceInv'
  <2>1. pc = "executing" /\ Answer(verdict)
        /\ UNCHANGED <<step, responses, usage, pending, reply, streamed, log, read, open, cancelled>>
    BY <1>5 DEF ToolAnswers, At, account, streaming, consumer
  <2>2. ToolExecuted(Len(responses), NextCall, verdict) \in Item
    BY <1>2, EventTypes
  <2>3. outbox' \in Seq(Item)
    BY <1>5, <2>2 DEF ToolAnswers, Emit
  <2> DEFINE given == answers \cup {<<NextCall, verdict>>}
  <2>4. /\ messages' \in Seq(Entry)
        /\ given \subseteq StreamCalls(Last) \X Verdicts
        /\ OpenCalls # {NextCall} => answers' = given /\ pc' = "tools"
        /\ OpenCalls = {NextCall} => answers' = {} /\ pc' = "top"
    BY <2>1, AnswerTyped
  <2>5. Typed'
    BY <2>1, <2>3, <2>4 DEF Typed, Calling
  <2>6. Last' = Last
    BY <2>1 DEF Last
  <2>7. pc' = "tools" => OpenCalls' # {}
    <3>1. ASSUME pc' = "tools"
          PROVE  \E p \in OpenCalls : p # NextCall
      BY <1>2, <2>4, <3>1
    <3>2. ASSUME pc' = "tools"
          PROVE  OpenCalls' # {}
      <4>1. PICK p \in OpenCalls : p # NextCall
        BY <3>1, <3>2
      <4>2. answers' = given
        BY <2>4, <3>2
      <4>3. p \in OpenCalls'
        BY <2>6, <4>1, <4>2 DEF OpenCalls, StreamCalls
      <4>4. QED
        BY <4>3
    <3>3. QED
      BY <3>2
  <2>8. answers' # {} => answers' \subseteq StreamCalls(Last)' \X Verdicts
    BY <2>4, <2>6 DEF StreamCalls
  <2>9. PlaceInv'
    BY <2>1, <2>4, <2>6, <2>7, <2>8 DEF PlaceInv, Calling
  <2>10. QED
    BY <2>5, <2>9
<1>6. QED
  BY <1>3, <1>4, <1>5

LEMMA NextTyped == Typed /\ PlaceInv /\ [Next]_vars => Typed' /\ PlaceInv'
<1> SUFFICES ASSUME Typed, PlaceInv, [Next]_vars PROVE Typed' /\ PlaceInv'
  OBVIOUS
<1>1. CASE UNCHANGED vars
  BY <1>1, PlaceKept DEF vars, account, streaming, consumer, Typed
<1>2. CASE Next
  BY <1>2, ChannelTyped, LoopTyped, StreamTyped, ToolsTyped DEF Next, Task
<1>3. QED
  BY <1>1, <1>2

LEMMA AlwaysTyped == Spec => [](Typed /\ PlaceInv)
BY StartsTyped, NextTyped, PTL DEF Spec

----------------------------------------------------------------------------
(* What a consumer makes of the events *)

(* The responses that reported usage, the calls announced and the answers  *)
(* seen in a sequence of events.                                           *)
Replies(s) ==
  Cardinality({j \in 1 .. Len(s) : s[j].kind = "response_complete" /\ s[j].reported})

CallsIn(s) == Cardinality({j \in 1 .. Len(s) : s[j].kind = "tool_complete"})

SeenIn(s) ==
  {<<s[j].of, s[j].call, s[j].verdict>> : j \in {i \in 1 .. Len(s) : s[i].kind = "tool_executed"}}

(* The tools with an event of the kind after the last request.             *)
Since(s, kind) ==
  {tool \in Names :
     \E j \in 1 .. Len(s) : /\ s[j].kind = kind
                            /\ s[j].tool = tool
                            /\ \A i \in 1 .. Len(s) : s[i].kind = "request_start" => i < j}

(* What an event more does to them.                                        *)
LEMMA TallyAppended ==
  ASSUME NEW s \in Seq(Item), NEW e \in Item
  PROVE  /\ Replies(s) \in Nat
         /\ CallsIn(s) \in Nat
         /\ Replies(Append(s, e)) =
              Replies(s) + IF e.kind = "response_complete" /\ e.reported THEN 1 ELSE 0
         /\ CallsIn(Append(s, e)) = CallsIn(s) + IF e.kind = "tool_complete" THEN 1 ELSE 0
<1> DEFINE R == {i \in Item : i.kind = "response_complete" /\ i.reported}
           C == {i \in Item : i.kind = "tool_complete"}
<1>1. \A t \in Seq(Item) : /\ Replies(t) = Cardinality(Positions(t, R))
                           /\ CallsIn(t) = Cardinality(Positions(t, C))
  <2>1. TAKE t \in Seq(Item)
  <2>2. \A j \in 1 .. Len(t) : t[j] \in Item
    OBVIOUS
  <2>3. {j \in 1 .. Len(t) : t[j].kind = "response_complete" /\ t[j].reported} = Positions(t, R)
    BY <2>2 DEF Positions
  <2>4. {j \in 1 .. Len(t) : t[j].kind = "tool_complete"} = Positions(t, C)
    BY <2>2 DEF Positions
  <2>5. QED
    BY <2>3, <2>4 DEF Replies, CallsIn
<1>2. e \in R <=> e.kind = "response_complete" /\ e.reported
  OBVIOUS
<1>3. e \in C <=> e.kind = "tool_complete"
  OBVIOUS
<1> HIDE DEF R, C
<1>4. Append(s, e) \in Seq(Item)
  OBVIOUS
<1>5. /\ Cardinality(Positions(s, R)) \in Nat /\ Cardinality(Positions(s, C)) \in Nat
      /\ Cardinality(Positions(Append(s, e), R)) =
           Cardinality(Positions(s, R)) + IF e \in R THEN 1 ELSE 0
      /\ Cardinality(Positions(Append(s, e), C)) =
           Cardinality(Positions(s, C)) + IF e \in C THEN 1 ELSE 0
  BY AppendPositions
<1>6. QED
  BY <1>1, <1>2, <1>3, <1>4, <1>5

LEMMA SeenAppended ==
  ASSUME NEW s \in Seq(Item), NEW e \in Item
  PROVE  SeenIn(Append(s, e)) =
           SeenIn(s) \cup IF e.kind = "tool_executed" THEN {<<e.of, e.call, e.verdict>>} ELSE {}
<1> DEFINE t == Append(s, e)
<1>1. /\ Len(t) = Len(s) + 1 /\ t[Len(s) + 1] = e /\ Len(s) \in Nat
      /\ \A j \in 1 .. Len(s) : t[j] = s[j]
  OBVIOUS
<1>2. 1 .. Len(t) = 1 .. Len(s) \cup {Len(s) + 1}
  BY <1>1
<1> HIDE DEF t
<1>3. SeenIn(t) =
        SeenIn(s) \cup IF e.kind = "tool_executed" THEN {<<e.of, e.call, e.verdict>>} ELSE {}
  BY <1>1, <1>2 DEF SeenIn
<1>4. QED
  BY <1>3 DEF t

LEMMA SinceAppended ==
  ASSUME NEW s \in Seq(Item), NEW e \in Item, NEW kind, kind # "request_start"
  PROVE  /\ e.kind = "request_start" => Since(Append(s, e), kind) = {}
         /\ e.kind = kind /\ e.tool \in Names =>
              Since(Append(s, e), kind) = Since(s, kind) \cup {e.tool}
         /\ e.kind \notin {kind, "request_start"} => Since(Append(s, e), kind) = Since(s, kind)
<1> DEFINE t == Append(s, e)
           n == Len(s) + 1
<1>1. /\ Len(t) = n /\ t[n] = e /\ Len(s) \in Nat /\ n \in Nat
      /\ \A j \in 1 .. Len(s) : t[j] = s[j] /\ j < n /\ j \in Nat
  OBVIOUS
<1>2. 1 .. Len(t) = 1 .. Len(s) \cup {n}
  BY <1>1
<1>3. ASSUME e.kind = "request_start"
      PROVE  Since(t, kind) = {}
  <2>1. \A j \in 1 .. Len(t) : j <= n
    BY <1>1
  <2>2. n \in 1 .. Len(t) /\ t[n].kind = "request_start"
    BY <1>1, <1>3
  <2> HIDE DEF t, n
  <2>3. \A j \in 1 .. Len(t) : ~(n < j)
    BY <1>1, <2>1
  <2>4. \A j \in 1 .. Len(t) : t[j].kind = kind => j # n
    BY <2>2
  <2>5. \A j \in 1 .. Len(t) : \E i \in 1 .. Len(t) : t[i].kind = "request_start" /\ ~(i < j)
    BY <1>1, <2>1, <2>2
  <2>6. QED
    BY <2>5 DEF Since
<1> HIDE DEF t, n
<1>4. ASSUME e.kind # "request_start", NEW tool
      PROVE  (\E j \in 1 .. Len(t) :
                 /\ t[j].kind = kind /\ t[j].tool = tool
                 /\ \A i \in 1 .. Len(t) : t[i].kind = "request_start" => i < j)
             <=> \/ \E j \in 1 .. Len(s) :
                      /\ s[j].kind = kind /\ s[j].tool = tool
                      /\ \A i \in 1 .. Len(s) : s[i].kind = "request_start" => i < j
                 \/ e.kind = kind /\ e.tool = tool
  BY <1>1, <1>2, <1>4
<1>5. ASSUME e.kind = kind, e.tool \in Names
      PROVE  Since(t, kind) = Since(s, kind) \cup {e.tool}
  BY <1>4, <1>5 DEF Since
<1>6. ASSUME e.kind \notin {kind, "request_start"}
      PROVE  Since(t, kind) = Since(s, kind)
  BY <1>4, <1>6 DEF Since
<1>7. QED
  BY <1>3, <1>5, <1>6 DEF t

(* One event after the other. *)
LEMMA OneMore ==
  ASSUME NEW S, NEW s \in Seq(S), NEW a \in S
  PROVE  s \o <<>> = s /\ s \o <<a>> = Append(s, a) /\ Append(s, a) \in Seq(S) /\ <<a>> \in Seq(S)
OBVIOUS

LEMMA TwoMore ==
  ASSUME NEW S, NEW s \in Seq(S), NEW a \in S, NEW b \in S
  PROVE  /\ s \o <<a, b>> = Append(Append(s, a), b)
         /\ <<a, b>> \in Seq(S)
         /\ Append(s, a) \in Seq(S)
         /\ Append(Append(s, a), b) \in Seq(S)
OBVIOUS

LEMMA ThreeMore ==
  ASSUME NEW S, NEW s \in Seq(S), NEW a \in S, NEW b \in S, NEW c \in S
  PROVE  /\ s \o <<a, b, c>> = Append(Append(Append(s, a), b), c)
         /\ <<a, b, c>> \in Seq(S)
OBVIOUS

(* An event is faithful when it reports what the events up to it show: p   *)
(* ends with the event.                                                    *)
Faithful(p) ==
  LET e == p[Len(p)]
  IN /\ e.kind \in {"run_complete", "cancelled"} =>
          e.usage.requests = Replies(p) /\ e.usage.tool_calls = CallsIn(p)
     /\ e.kind = "run_complete" =>
          /\ AnswersIn(e.messages) \subseteq SeenIn(p)
          /\ Compression = "off" => AnswersIn(e.messages) = SeenIn(p)
     /\ e.kind = "cancelled" =>
          Members(e.pending) = Since(p, "tool_start") \ Since(p, "tool_complete")

AllFaithful(s) == \A k \in 1 .. Len(s) : Faithful(SubSeq(s, 1, k))

LEMMA FaithfulPlain ==
  ASSUME NEW s \in Seq(Item), NEW e \in Item, e.kind \notin {"run_complete", "cancelled"}
  PROVE  Faithful(Append(s, e))
<1>1. Append(s, e)[Len(Append(s, e))] = e
  OBVIOUS
<1>2. QED
  BY <1>1 DEF Faithful

LEMMA FaithfulAppended ==
  ASSUME NEW s \in Seq(Item), NEW e \in Item, AllFaithful(s), Faithful(Append(s, e))
  PROVE  AllFaithful(Append(s, e))
<1> DEFINE t == Append(s, e)
<1>1. t \in Seq(Item) /\ Len(t) = Len(s) + 1 /\ Len(s) \in Nat
  OBVIOUS
<1>2. SubSeq(t, 1, Len(s) + 1) = t
  OBVIOUS
<1>3. \A k \in 1 .. Len(s) : SubSeq(t, 1, k) = SubSeq(s, 1, k)
  OBVIOUS
<1> HIDE DEF t
<1>4. 1 .. Len(t) = 1 .. Len(s) \cup {Len(s) + 1}
  BY <1>1
<1>5. \A k \in 1 .. Len(t) : Faithful(SubSeq(t, 1, k))
  <2>1. Faithful(t)
    BY DEF t
  <2>2. \A k \in 1 .. Len(s) : Faithful(SubSeq(s, 1, k))
    BY DEF AllFaithful
  <2>3. TAKE k \in 1 .. Len(t)
  <2>4. CASE k \in 1 .. Len(s)
    BY <1>3, <2>2, <2>4
  <2>5. CASE k = Len(s) + 1
    BY <1>2, <2>1, <2>5
  <2>6. QED
    BY <1>4, <2>4, <2>5
<1>6. QED
  BY <1>5 DEF AllFaithful, t

LEMMA FaithfulPrefix ==
  ASSUME NEW a \in Seq(Item), NEW b \in Seq(Item), AllFaithful(a \o b)
  PROVE  AllFaithful(a)
<1> DEFINE t == a \o b
<1>1. t \in Seq(Item) /\ Len(t) = Len(a) + Len(b) /\ Len(a) \in Nat /\ Len(b) \in Nat
  OBVIOUS
<1>2. \A k \in 1 .. Len(a) : SubSeq(t, 1, k) = SubSeq(a, 1, k)
  OBVIOUS
<1>3. AllFaithful(t)
  OBVIOUS
<1> HIDE DEF t
<1>4. \A k \in 1 .. Len(a) : k \in 1 .. Len(t)
  BY <1>1
<1>5. \A k \in 1 .. Len(a) : Faithful(SubSeq(t, 1, k))
  BY <1>3, <1>4 DEF AllFaithful
<1>6. \A k \in 1 .. Len(a) : Faithful(SubSeq(a, 1, k))
  BY <1>2, <1>5
<1>7. QED
  BY <1>6 DEF AllFaithful

----------------------------------------------------------------------------
(* The pending tools belong to calls that have not begun.                  *)
PendingPlace ==
  /\ pc \in {"top", "sizing", "asking"} => Members(pending) = {}
  /\ pc = "streaming" =>
       \A tool \in Members(pending) :
         \E p \in StreamCalls(reply) : p <= streamed /\ reply.parts[p].tool = tool
  /\ pc \in Calling =>
       \A tool \in Members(pending) : \E p \in OpenCalls : Last.parts[p].tool = tool
  /\ pc = "executing" => NextTool \notin Members(pending)

LEMMA PendingStarts == Init => PendingPlace
BY DEF Init, PendingPlace, Members, Calling

LEMMA PendingNext ==
  Typed /\ PlaceInv /\ PendingPlace /\ [Next]_vars => PendingPlace'
<1> SUFFICES ASSUME Typed, PlaceInv, PendingPlace, [Next]_vars PROVE PendingPlace'
  OBVIOUS
<1>1. ASSUME UNCHANGED <<pc, account, pending, streaming, answers>>
      PROVE  PendingPlace'
  BY <1>1 DEF PendingPlace, account, streaming, Calling, OpenCalls, NextCall, NextTool, Last,
              StreamCalls
<1>2. ASSUME pc' = "ended"
      PROVE  PendingPlace'
  BY <1>2 DEF PendingPlace, Calling
<1>3. CASE SendEvent \/ Receive \/ DropStream \/ Cancel \/ Over \/ UNCHANGED vars
  BY <1>1, <1>3 DEF SendEvent, Receive, DropStream, Cancel, Over, vars
<1>4. CASE SendRefused
  BY <1>1, <1>2, <1>4 DEF SendRefused
<1>5. CASE ObserveCancel \/ RequestFails \/ StreamFails \/ FinalResponse
  BY <1>2, <1>5 DEF ObserveCancel, RequestFails, StreamFails, FinalResponse
<1>6. CASE BeginStep \/ KeepContext \/ TruncateContext \/ SummarizeContext
  BY <1>6 DEF BeginStep, KeepContext, TruncateContext, SummarizeContext, CompressTo, At,
              PendingPlace, Calling
<1>7. ASSUME NEW r \in Responses, RequestOpens(r)
      PROVE  PendingPlace'
  BY <1>7 DEF RequestOpens, At, PendingPlace, Calling
<1>8. CASE StreamPart
  <2>1. /\ pc = "streaming" /\ pc' = "streaming" /\ reply' = reply /\ reply \in Responses
        /\ streamed < Len(reply.parts) /\ streamed' = streamed + 1
        /\ streamed \in 0 .. Len(reply.parts)
    BY <1>8 DEF StreamPart, Streaming, At, PlaceInv
  <2> DEFINE part == reply.parts[streamed + 1]
             Arrived(tool, n) == \E p \in StreamCalls(reply) : p <= n /\ reply.parts[p].tool = tool
  <2>2. \A tool \in Members(pending) : Arrived(tool, streamed)
    BY <2>1 DEF PendingPlace
  <2>3. streamed + 1 \in 1 .. Len(reply.parts)
    BY <2>1, ResponseType
  <2>4. \A tool : Arrived(tool, streamed) => Arrived(tool, streamed + 1)
    <3>1. \A p \in StreamCalls(reply) : p <= streamed => p <= streamed + 1
      BY <2>1, ResponseType
    <3>2. QED
      BY <3>1
  <2>5. part.kind = "call" => Arrived(part.tool, streamed + 1)
    BY <2>1, <2>3, ResponseType DEF StreamCalls
  <2>6. \/ pending' = pending
        \/ part.kind = "call" /\ Members(pending') = Members(pending) \cup {part.tool}
    <3>1. CASE part.kind = "call"
      <4>1. pending' = Append(pending, part.tool)
        BY <1>8, <3>1 DEF StreamPart
      <4>2. part.tool \in Names /\ pending \in Seq(Names)
        BY <2>1, <2>3, <3>1, ResponseType DEF Typed
      <4>3. QED
        BY <3>1, <4>1, <4>2, AppendMembers
    <3>2. CASE part.kind # "call"
      BY <1>8, <3>2 DEF StreamPart
    <3>3. QED
      BY <3>1, <3>2
  <2> HIDE DEF part
  <2>7. \A tool \in Members(pending)' : Arrived(tool, streamed + 1)
    BY <2>2, <2>4, <2>5, <2>6
  <2>8. QED
    BY <2>1, <2>7 DEF PendingPlace, Calling, StreamCalls
<1>9. ASSUME ResponseWithCalls \/ ResponseCutShort
      PROVE  PendingPlace'
  <2>1. /\ pc = "streaming" /\ reply \in Responses /\ RecordReply /\ pending' = pending
        /\ answers = {} /\ answers' = answers
        /\ \/ pc' = "tools"
           \/ pc' = "top" /\ StreamCalls(reply) = {}
    BY <1>9 DEF ResponseWithCalls, ResponseCutShort, StreamEnds, Streaming, At, PlaceInv, Calling
  <2>2. Last' = reply
    BY <2>1, ReplyTyped
  <2>3. OpenCalls' = StreamCalls(reply)
    BY <2>1, <2>2 DEF OpenCalls, StreamCalls
  <2>4. \A tool \in Members(pending) : \E p \in StreamCalls(reply) : reply.parts[p].tool = tool
    BY <2>1 DEF PendingPlace
  <2>5. QED
    BY <2>1, <2>2, <2>3, <2>4 DEF PendingPlace, Calling
<1>10. CASE CallTool
  BY <1>10 DEF CallTool, At, PendingPlace, account, Calling, OpenCalls, Last, StreamCalls
<1>11. CASE BeginTool
  <2>1. /\ pc = "announced" /\ pc' = "executing" /\ UNCHANGED <<responses, answers>>
        /\ pending' = Without(pending, NextTool)
    BY <1>11 DEF BeginTool, At, WithoutTool
  <2>2. Members(pending)' = Members(pending) \ {NextTool}
    BY <2>1, WithoutMembers DEF Typed
  <2>3. Last' = Last /\ OpenCalls' = OpenCalls /\ NextTool' = NextTool
    BY <2>1 DEF Last, OpenCalls, StreamCalls, NextTool, NextCall
  <2>4. QED
    BY <2>1, <2>2, <2>3 DEF PendingPlace, Calling
<1>12. ASSUME NEW verdict \in Verdicts, ToolAnswers(verdict)
       PROVE  PendingPlace'
  <2>1. pc = "executing" /\ Answer(verdict) /\ UNCHANGED <<responses, pending>>
    BY <1>12 DEF ToolAnswers, At, account
  <2>2. /\ OpenCalls # {NextCall} => answers' = answers \cup {<<NextCall, verdict>>} /\ pc' = "tools"
        /\ OpenCalls = {NextCall} => pc' = "top"
    BY <2>1, AnswerTyped
  <2>3. Last' = Last
    BY <2>1 DEF Last
  <2>4. \A tool \in Members(pending) :
          \E p \in OpenCalls : p # NextCall /\ Last.parts[p].tool = tool
    BY <2>1 DEF PendingPlace, Calling, NextTool
  <2>5. CASE OpenCalls = {NextCall}
    BY <2>1, <2>2, <2>4, <2>5 DEF PendingPlace, Calling
  <2>6. CASE OpenCalls # {NextCall}
    <3>1. \A p \in OpenCalls : p # NextCall => p \in OpenCalls'
      BY <2>2, <2>3, <2>6 DEF OpenCalls, StreamCalls
    <3>2. QED
      BY <2>1, <2>2, <2>3, <2>4, <2>6, <3>1 DEF PendingPlace, Calling
  <2>7. QED
    BY <2>5, <2>6
<1>13. QED
  BY <1>3, <1>4, <1>5, <1>6, <1>7, <1>8, <1>9, <1>10, <1>11, <1>12 DEF Next, Task

----------------------------------------------------------------------------
(* What the task has said is what the task knows                           *)

(* The events that are in the channel or will be: with the receiver gone   *)
(* what is still to be sent is lost.                                       *)
Sent == IF open THEN log \o outbox ELSE log

(* The answers in the messages, and those collected for the next one.      *)
AnswersGiven == AnswersIn(messages) \cup {<<Len(responses), a[1], a[2]>> : a \in answers}

UsageKnown ==
  /\ usage.requests = Replies(Sent)
  /\ CallsIn(Sent) = usage.tool_calls + IF pc = "announced" THEN 1 ELSE 0

AnswersKnown ==
  /\ AnswersGiven \subseteq SeenIn(Sent)
  /\ Compression = "off" => SeenIn(Sent) \subseteq AnswersGiven

PendingKnown ==
  /\ Members(pending) \ (IF pc = "announced" THEN {NextTool} ELSE {})
       = Since(Sent, "tool_start") \ Since(Sent, "tool_complete")
  /\ pc \in {"sizing", "asking", "streaming"} => Since(Sent, "tool_complete") = {}

EventInv ==
  /\ AllFaithful(Sent)
  /\ open /\ pc # "ended" => UsageKnown /\ AnswersKnown /\ PendingKnown

(* Kinds of events that leave all of this as it is.                        *)
Plain == {"run_start", "context_info", "context_compressed", "text", "output_ready", "error",
          "failed", "run_complete", "cancelled"}

LEMMA PlainAppended ==
  ASSUME NEW s \in Seq(Item), NEW e \in Item, e.kind \in Plain
  PROVE  /\ Replies(Append(s, e)) = Replies(s)
         /\ CallsIn(Append(s, e)) = CallsIn(s)
         /\ SeenIn(Append(s, e)) = SeenIn(s)
         /\ Since(Append(s, e), "tool_start") = Since(s, "tool_start")
         /\ Since(Append(s, e), "tool_complete") = Since(s, "tool_complete")
<1>1. e.kind \notin {"response_complete", "tool_complete", "tool_executed", "tool_start",
                     "request_start"}
  BY DEF Plain
<1>2. Replies(Append(s, e)) = Replies(s) /\ CallsIn(Append(s, e)) = CallsIn(s)
  BY <1>1, TallyAppended
<1>3. SeenIn(Append(s, e)) = SeenIn(s)
  BY <1>1, SeenAppended
<1>4. /\ Since(Append(s, e), "tool_start") = Since(s, "tool_start")
      /\ Since(Append(s, e), "tool_complete") = Since(s, "tool_complete")
  BY <1>1, SinceAppended
<1>5. QED
  BY <1>2, <1>3, <1>4

(* An await at which everything has been sent. *)
LEMMA EmptySent ==
  ASSUME Typed, outbox = <<>>
  PROVE  Sent = log /\ log \in Seq(Item)
BY DEF Sent, Typed

LEMMA SentGrows ==
  ASSUME Typed, open, UNCHANGED <<log, open>>, outbox' \in Seq(Item)
  PROVE  Sent' = log \o outbox'
BY DEF Sent

(* Nothing is said and nothing changes that is reported.                   *)
LEMMA EventsKept ==
  ASSUME EventInv, Sent' = Sent, open' = open, UNCHANGED options,
         UNCHANGED <<usage, responses, pending, answers, messages>>,
         pc' = pc \/ {pc, pc'} \subseteq {"top", "sizing", "asking", "streaming", "tools"},
         pc' \in {"sizing", "asking", "streaming"} => pc' = pc \/ pc \in {"sizing", "asking"}
  PROVE  EventInv'
<1>1. AllFaithful(Sent)'
  BY DEF EventInv, AllFaithful, Faithful, Compression
<1>2. ASSUME open', pc' # "ended"
      PROVE  (UsageKnown /\ AnswersKnown /\ PendingKnown)'
  <2>1. UsageKnown /\ AnswersKnown /\ PendingKnown
    BY <1>2 DEF EventInv
  <2>2. UsageKnown'
    BY <2>1 DEF UsageKnown
  <2>3. AnswersKnown'
    BY <2>1 DEF AnswersKnown, AnswersGiven, AnswersIn, Compression
  <2>4. NextTool' = NextTool
    BY DEF NextTool, NextCall, OpenCalls, StreamCalls, Last
  <2>5. PendingKnown'
    BY <2>1, <2>4 DEF PendingKnown
  <2>6. QED
    BY <2>2, <2>3, <2>5
<1>3. QED
  BY <1>1, <1>2 DEF EventInv

LEMMA EventsStart == Init => EventInv
<1> SUFFICES ASSUME Init PROVE EventInv
  OBVIOUS
<1> DEFINE e == Event("run_start")
<1>1. e \in Item /\ e.kind = "run_start" /\ <<>> \in Seq(Item)
  BY EventTypes DEF Event
<1>2. Sent = Append(<<>>, e) /\ open
  BY DEF Init, Sent
<1>3. AllFaithful(<<>>)
  BY DEF AllFaithful
<1>4. /\ Replies(<<>>) = 0 /\ CallsIn(<<>>) = 0 /\ SeenIn(<<>>) = {}
      /\ Since(<<>>, "tool_start") = {} /\ Since(<<>>, "tool_complete") = {}
  <2>1. 1 .. Len(<<>>) = {}
    OBVIOUS
  <2>2. SeenIn(<<>>) = {} /\ Since(<<>>, "tool_start") = {} /\ Since(<<>>, "tool_complete") = {}
    BY <2>1 DEF SeenIn, Since
  <2>3. /\ {j \in 1 .. Len(<<>>) : <<>>[j].kind = "response_complete" /\ <<>>[j].reported} = {}
        /\ {j \in 1 .. Len(<<>>) : <<>>[j].kind = "tool_complete"} = {}
    BY <2>1
  <2>4. QED
    BY <2>2, <2>3, FS_EmptySet DEF Replies, CallsIn
<1> HIDE DEF e
<1>5. AllFaithful(Sent)
  BY <1>1, <1>2, <1>3, FaithfulPlain, FaithfulAppended
<1>6. /\ Replies(Sent) = 0 /\ CallsIn(Sent) = 0 /\ SeenIn(Sent) = {}
      /\ Since(Sent, "tool_start") = {} /\ Since(Sent, "tool_complete") = {}
  BY <1>1, <1>2, <1>4, PlainAppended DEF Plain
<1>7. UsageKnown
  BY <1>6 DEF UsageKnown, Init, ZeroUsage
<1>8. AnswersGiven = {}
  <2>1. answers = {} /\ \A k \in DOMAIN messages : messages[k].kind # "answers"
    BY DEF Init, Event
  <2>2. QED
    BY <2>1 DEF AnswersGiven, AnswersIn
<1>9. PendingKnown
  BY <1>6 DEF PendingKnown, Init, Members
<1>10. QED
  BY <1>5, <1>6, <1>7, <1>8, <1>9 DEF EventInv, AnswersKnown

LEMMA FaithfulNow ==
  ASSUME UNCHANGED options, AllFaithful(Sent')
  PROVE  AllFaithful(Sent)'
BY DEF AllFaithful, Faithful, Compression

(* The channel moves events on, or loses them all.                         *)
LEMMA ChannelEvents ==
  ASSUME Typed, EventInv, UNCHANGED options,
         SendEvent \/ SendRefused \/ Receive \/ DropStream \/ Cancel \/ Over
  PROVE  EventInv'
<1>1. CASE SendEvent
  <2>1. Sent' = Sent
    <3>1. /\ outbox \in Seq(Item) /\ outbox # <<>> /\ log \in Seq(Item)
          /\ log' = Append(log, Head(outbox)) /\ outbox' = Tail(outbox) /\ open /\ open' = open
      BY <1>1 DEF SendEvent, Typed, consumer
    <3>2. Append(log, Head(outbox)) \o Tail(outbox) = log \o outbox
      BY <3>1
    <3>3. QED
      BY <3>1, <3>2 DEF Sent
  <2>2. QED
    BY <1>1, <2>1, EventsKept DEF SendEvent, account, consumer
<1>2. CASE SendRefused
  <2>1. ~open /\ ~open' /\ Sent' = Sent
    BY <1>2 DEF SendRefused, consumer, Sent
  <2>2. AllFaithful(Sent)'
    BY <2>1, FaithfulNow DEF EventInv
  <2>3. QED
    BY <2>1, <2>2 DEF EventInv
<1>3. CASE Receive
  <2>1. Sent' = Sent
    BY <1>3 DEF Receive, Sent
  <2>2. QED
    BY <1>3, <2>1, EventsKept DEF Receive, account
<1>4. CASE DropStream
  <2>1. open /\ ~open' /\ Sent = log \o outbox /\ Sent' = log
        /\ log \in Seq(Item) /\ outbox \in Seq(Item)
    BY <1>4 DEF DropStream, Sent, Typed
  <2>2. AllFaithful(Sent')
    BY <2>1, FaithfulPrefix DEF EventInv
  <2>3. QED
    BY <2>1, <2>2, FaithfulNow DEF EventInv
<1>5. CASE Cancel
  <2>1. Sent' = Sent
    BY <1>5 DEF Cancel, Sent, consumer
  <2>2. QED
    BY <1>5, <2>1, EventsKept DEF Cancel, account, consumer
<1>6. CASE Over
  <2>1. Sent' = Sent
    BY <1>6 DEF Over, Sent, vars, consumer
  <2>2. QED
    BY <1>6, <2>1, EventsKept DEF Over, vars, account, consumer
<1>7. QED
  BY <1>1, <1>2, <1>3, <1>4, <1>5, <1>6

(* With the receiver gone nothing more is reported.                        *)
LEMMA DroppedEvents ==
  ASSUME EventInv, ~open, UNCHANGED <<open, log, options>>
  PROVE  EventInv'
<1>1. Sent' = Sent /\ ~open'
  BY DEF Sent
<1>2. AllFaithful(Sent)'
  BY <1>1, FaithfulNow DEF EventInv
<1>3. QED
  BY <1>1, <1>2 DEF EventInv

(* The task ends with plain events. *)
LEMMA EndingEvents ==
  ASSUME Typed, EventInv, open, outbox = <<>>, UNCHANGED <<open, log, options>>, pc' = "ended",
         NEW a \in Item, NEW b \in Item, a.kind \in Plain, b.kind \in Plain,
         Faithful(Append(log, a)), Faithful(Append(Append(log, a), b)),
         outbox' = <<a>> \/ outbox' = <<a, b>>
  PROVE  EventInv'
<1>1. Sent = log /\ log \in Seq(Item)
  BY EmptySent
<1>2. outbox' \in Seq(Item)
  <2>1. <<a>> \in Seq(Item) /\ <<a, b>> \in Seq(Item)
    OBVIOUS
  <2>2. QED
    BY <2>1
<1>3. Sent' = Append(log, a) \/ Sent' = Append(Append(log, a), b)
  <2>1. Sent' = log \o outbox'
    BY <1>2, SentGrows
  <2>2. log \o <<a>> = Append(log, a) /\ log \o <<a, b>> = Append(Append(log, a), b)
    BY <1>1, OneMore, TwoMore
  <2>3. QED
    BY <2>1, <2>2
<1>4. AllFaithful(Append(log, a))
  BY <1>1, FaithfulAppended DEF EventInv
<1>5. AllFaithful(Append(Append(log, a), b))
  <2>1. Append(log, a) \in Seq(Item)
    BY <1>1
  <2>2. QED
    BY <1>4, <2>1, FaithfulAppended
<1>6. AllFaithful(Sent)'
  BY <1>3, <1>4, <1>5, FaithfulNow
<1>7. QED
  BY <1>6 DEF EventInv

LEMMA LoopEvents ==
  ASSUME Typed, PlaceInv, PendingPlace, EventInv, open, UNCHANGED options,
         \/ ObserveCancel \/ BeginStep \/ KeepContext \/ TruncateContext \/ SummarizeContext
         \/ RequestFails \/ \E r \in Responses : RequestOpens(r)
  PROVE  EventInv'
<1>1. outbox = <<>> /\ log' = log /\ open' = open /\ log \in Seq(Item) /\ Sent = log
  <2>1. outbox = <<>> /\ log' = log /\ open' = open
    BY DEF ObserveCancel, BeginStep, KeepContext, TruncateContext, SummarizeContext, CompressTo,
           RequestFails, RequestOpens, At, consumer
  <2>2. QED
    BY <2>1, EmptySent
<1>2. CASE ObserveCancel
  <2> DEFINE a == Cancelled(pending, usage)
             b == Failed("cancelled")
  <2>1. pc \in {"top", "streaming", "tools"} /\ pc' = "ended" /\ outbox' = <<a, b>>
    BY <1>2 DEF ObserveCancel, At, Emit
  <2>2. a \in Item /\ b \in Item /\ a.kind = "cancelled" /\ b.kind = "failed"
        /\ a.usage = usage /\ a.pending = pending
    BY EventTypes DEF Typed, Cancelled, Failed
  <2>3. UsageKnown /\ PendingKnown
    BY <1>1, <2>1 DEF EventInv
  <2> HIDE DEF a, b
  <2>4. Faithful(Append(log, a))
    <3> DEFINE t == Append(log, a)
    <3>1. t[Len(t)] = a
      BY <1>1, <2>2
    <3>2. /\ Replies(t) = Replies(log) /\ CallsIn(t) = CallsIn(log)
          /\ Since(t, "tool_start") = Since(log, "tool_start")
          /\ Since(t, "tool_complete") = Since(log, "tool_complete")
      BY <1>1, <2>2, PlainAppended DEF Plain
    <3> HIDE DEF t
    <3>3. Replies(t) = usage.requests /\ CallsIn(t) = usage.tool_calls
      BY <1>1, <2>1, <2>3, <3>2 DEF UsageKnown, Typed, RunUsage
    <3>4. Members(pending) = Since(t, "tool_start") \ Since(t, "tool_complete")
      BY <1>1, <2>1, <2>3, <3>2 DEF PendingKnown
    <3>5. QED
      BY <2>2, <3>1, <3>3, <3>4 DEF Faithful, t
  <2>5. Faithful(Append(Append(log, a), b))
    <3>1. Append(log, a) \in Seq(Item)
      BY <1>1, <2>2
    <3>2. QED
      BY <2>2, <3>1, FaithfulPlain
  <2>6. QED
    BY <1>1, <2>1, <2>2, <2>4, <2>5, EndingEvents DEF Plain
<1>3. CASE BeginStep /\ pc' = "ended"
  <2> DEFINE a == Failed("limit")
  <2>1. outbox' = <<a>>
    BY <1>3 DEF BeginStep, Emit
  <2>2. a \in Item /\ a.kind = "failed"
    BY EventTypes DEF Failed
  <2> HIDE DEF a
  <2>3. Faithful(Append(log, a)) /\ Faithful(Append(Append(log, a), a))
    BY <1>1, <2>2, FaithfulPlain, OneMore
  <2>4. QED
    BY <1>1, <1>3, <2>1, <2>2, <2>3, EndingEvents DEF Plain
<1>4. CASE BeginStep /\ pc' # "ended"
  <2> DEFINE a == RequestStart(step + 1)
             b == Event("context_info")
             t == Append(log, a)
  <2>1. /\ pc = "top" /\ pc' = "sizing" /\ outbox' = <<a, b>>
        /\ UNCHANGED <<messages, responses, usage, pending, answers>>
    BY <1>4 DEF BeginStep, At, Emit
  <2>2. a \in Item /\ b \in Item /\ a.kind = "request_start" /\ b.kind = "context_info"
    BY EventTypes DEF Typed, RequestStart, Event
  <2> HIDE DEF a, b
  <2>3. t \in Seq(Item) /\ Sent' = Append(t, b)
    BY <1>1, <2>1, <2>2, SentGrows, TwoMore
  <2>4. AllFaithful(t)
    BY <1>1, <2>2, FaithfulPlain, FaithfulAppended DEF EventInv
  <2>5. /\ Replies(t) = Replies(log) /\ CallsIn(t) = CallsIn(log) /\ SeenIn(t) = SeenIn(log)
        /\ Since(t, "tool_start") = {} /\ Since(t, "tool_complete") = {}
    <3>1. Replies(t) = Replies(log) /\ CallsIn(t) = CallsIn(log)
      BY <1>1, <2>2, TallyAppended
    <3>2. SeenIn(t) = SeenIn(log)
      BY <1>1, <2>2, SeenAppended
    <3>3. Since(t, "tool_start") = {} /\ Since(t, "tool_complete") = {}
      BY <1>1, <2>2, SinceAppended
    <3>4. QED
      BY <3>1, <3>2, <3>3
  <2> HIDE DEF t
  <2>6. AllFaithful(Sent')
    BY <2>2, <2>3, <2>4, FaithfulPlain, FaithfulAppended
  <2>7. /\ Replies(Sent') = Replies(log) /\ CallsIn(Sent') = CallsIn(log)
        /\ SeenIn(Sent') = SeenIn(log)
        /\ Since(Sent', "tool_start") = {} /\ Since(Sent', "tool_complete") = {}
    BY <2>2, <2>3, <2>5, PlainAppended DEF Plain
  <2>8. UsageKnown /\ AnswersKnown
    BY <2>1 DEF EventInv
  <2>9. UsageKnown'
    BY <1>1, <2>1, <2>7, <2>8 DEF UsageKnown
  <2>10. AnswersKnown'
    <3>1. AnswersGiven' = AnswersGiven
      BY <2>1 DEF AnswersGiven, AnswersIn
    <3>2. QED
      BY <1>1, <2>7, <2>8, <3>1 DEF AnswersKnown, Compression
  <2>11. PendingKnown'
    <3>1. Members(pending)' = {}
      BY <2>1 DEF PendingPlace
    <3>2. QED
      BY <2>7, <3>1 DEF PendingKnown
  <2>12. QED
    BY <2>6, <2>9, <2>10, <2>11, FaithfulNow DEF EventInv
<1>5. CASE KeepContext
  <2>1. Sent' = Sent
    BY <1>5 DEF KeepContext, Sent, consumer
  <2>2. QED
    BY <1>5, <2>1, EventsKept DEF KeepContext, At, account, consumer
<1>6. CASE RequestFails
  <2> DEFINE a == Event("error")
             b == Failed("model")
  <2>1. pc' = "ended" /\ outbox' = <<a, b>>
    BY <1>6 DEF RequestFails, ModelFailed, Emit
  <2>2. a \in Item /\ b \in Item /\ a.kind = "error" /\ b.kind = "failed"
    BY EventTypes DEF Event, Failed
  <2> HIDE DEF a, b
  <2>3. Faithful(Append(log, a)) /\ Faithful(Append(Append(log, a), b))
    BY <1>1, <2>2, FaithfulPlain, OneMore
  <2>4. QED
    BY <1>1, <2>1, <2>2, <2>3, EndingEvents DEF Plain
<1>7. ASSUME NEW r \in Responses, RequestOpens(r)
      PROVE  EventInv'
  <2>1. Sent' = Sent
    BY <1>7 DEF RequestOpens, Sent, consumer
  <2>2. QED
    BY <1>7, <2>1, EventsKept DEF RequestOpens, At, account, consumer
<1>8. CASE TruncateContext \/ SummarizeContext
  <2> DEFINE a == Event("context_compressed")
  <2>1. /\ pc = "sizing" /\ pc' = "asking" /\ Compression # "off"
        /\ outbox' = <<>> \/ outbox' = <<a>>
        /\ UNCHANGED <<usage, responses, pending, answers>>
    BY <1>8 DEF TruncateContext, SummarizeContext, CompressTo, At, Emit, account
  <2>2. a \in Item /\ a.kind = "context_compressed"
    BY EventTypes DEF Event
  <2> HIDE DEF a
  <2>3. Sent' = log \/ Sent' = Append(log, a)
    <3>1. outbox' \in Seq(Item)
      <4>1. <<>> \in Seq(Item) /\ <<a>> \in Seq(Item)
        BY <2>2
      <4>2. QED
        BY <2>1, <4>1
    <3>2. QED
      BY <1>1, <2>1, <2>2, <3>1, SentGrows, OneMore
  <2>4. AllFaithful(Sent')
    BY <1>1, <2>2, <2>3, FaithfulPlain, FaithfulAppended DEF EventInv
  <2>5. /\ Replies(Sent') = Replies(log) /\ CallsIn(Sent') = CallsIn(log)
        /\ SeenIn(Sent') = SeenIn(log)
        /\ Since(Sent', "tool_start") = Since(log, "tool_start")
        /\ Since(Sent', "tool_complete") = Since(log, "tool_complete")
    BY <1>1, <2>2, <2>3, PlainAppended DEF Plain
  <2>6. UsageKnown /\ AnswersKnown /\ PendingKnown
    BY <2>1 DEF EventInv
  <2>7. UsageKnown'
    BY <1>1, <2>1, <2>5, <2>6 DEF UsageKnown
  <2>8. AnswersKnown'
    <3>1. AnswersIn(messages') \subseteq AnswersIn(messages)
      <4>1. messages \in Seq(Entry)
        BY DEF Typed
      <4>2. /\ messages' \in Seq(Entry)
            /\ \A i \in 1 .. Len(messages') : messages'[i].kind = "answers" =>
                 \E j \in 1 .. Len(messages) :
                   /\ messages[j].kind = "answers"
                   /\ messages'[i].of = messages[j].of
                   /\ messages'[i].answers \subseteq messages[j].answers
        BY <1>8, <4>1, CompressedComesFrom
      <4>3. DOMAIN messages = 1 .. Len(messages) /\ DOMAIN messages' = 1 .. Len(messages')
        BY <4>1, <4>2
      <4>4. ASSUME NEW x \in AnswersIn(messages')
            PROVE  x \in AnswersIn(messages)
        <5>1. PICK i \in DOMAIN messages' :
                messages'[i].kind = "answers"
                /\ \E c \in messages'[i].answers : x = <<messages'[i].of, c[1], c[2]>>
          BY <4>4 DEF AnswersIn
        <5>2. PICK c \in messages'[i].answers : x = <<messages'[i].of, c[1], c[2]>>
          BY <5>1
        <5>3. PICK j \in DOMAIN messages :
                /\ messages[j].kind = "answers"
                /\ messages'[i].of = messages[j].of
                /\ messages'[i].answers \subseteq messages[j].answers
          BY <4>2, <4>3, <5>1
        <5>4. c \in messages[j].answers /\ x = <<messages[j].of, c[1], c[2]>>
          BY <5>2, <5>3
        <5>5. QED
          BY <5>3, <5>4 DEF AnswersIn
      <4>5. QED
        BY <4>4
    <3>2. AnswersGiven' \subseteq AnswersGiven
      <4>1. AnswersGiven' = AnswersIn(messages')
                              \cup {<<Len(responses), c[1], c[2]>> : c \in answers}
        BY <2>1 DEF AnswersGiven, AnswersIn
      <4>2. QED
        BY <3>1, <4>1 DEF AnswersGiven
    <3>3. Compression' # "off"
      BY <2>1 DEF Compression
    <3>4. QED
      BY <1>1, <2>5, <2>6, <3>2, <3>3 DEF AnswersKnown
  <2>9. PendingKnown'
    BY <1>1, <2>1, <2>5, <2>6 DEF PendingKnown
  <2>10. QED
    BY <2>4, <2>7, <2>8, <2>9, FaithfulNow DEF EventInv
<1>9. QED
  BY <1>2, <1>3, <1>4, <1>5, <1>6, <1>7, <1>8

(* What a message more answers. *)
LEMMA AnswersAppended ==
  ASSUME NEW h \in Seq(Entry), NEW m \in Entry
  PROVE  AnswersIn(Append(h, m)) =
           AnswersIn(h) \cup
             IF m.kind = "answers" THEN {<<m.of, a[1], a[2]>> : a \in m.answers} ELSE {}
<1> DEFINE t == Append(h, m)
<1>1. /\ DOMAIN t = DOMAIN h \cup {Len(h) + 1} /\ t[Len(h) + 1] = m
      /\ \A j \in DOMAIN h : t[j] = h[j]
  OBVIOUS
<1> HIDE DEF t
<1>2. ASSUME NEW x
      PROVE  x \in AnswersIn(t) <=>
               \/ x \in AnswersIn(h)
               \/ m.kind = "answers" /\ \E a \in m.answers : x = <<m.of, a[1], a[2]>>
  <2>1. x \in AnswersIn(t) <=>
          \E k \in DOMAIN t : /\ t[k].kind = "answers"
                              /\ \E a \in t[k].answers : x = <<t[k].of, a[1], a[2]>>
    BY DEF AnswersIn
  <2>2. x \in AnswersIn(h) <=>
          \E k \in DOMAIN h : /\ h[k].kind = "answers"
                              /\ \E a \in h[k].answers : x = <<h[k].of, a[1], a[2]>>
    BY DEF AnswersIn
  <2>3. QED
    BY <1>1, <2>1, <2>2
<1>3. AnswersIn(t) =
        AnswersIn(h) \cup
          IF m.kind = "answers" THEN {<<m.of, a[1], a[2]>> : a \in m.answers} ELSE {}
  BY <1>2
<1>4. QED
  BY <1>3 DEF t

LEMMA StreamEvents ==
  ASSUME Typed, PlaceInv, EventInv, open, UNCHANGED options,
         StreamPart \/ StreamFails \/ ResponseWithCalls \/ FinalResponse \/ ResponseCutShort
  PROVE  EventInv'
<1>1. /\ pc = "streaming" /\ outbox = <<>> /\ log' = log /\ open' = open
      /\ log \in Seq(Item) /\ Sent = log
      /\ UsageKnown /\ AnswersKnown /\ PendingKnown
      /\ reply \in Responses /\ answers = {} /\ streamed \in 0 .. Len(reply.parts)
  <2>1. pc = "streaming" /\ outbox = <<>> /\ log' = log /\ open' = open
    BY DEF StreamPart, StreamFails, ResponseWithCalls, FinalResponse, ResponseCutShort,
           StreamEnds, Streaming, At, consumer
  <2>2. QED
    BY <2>1, EmptySent DEF EventInv, PlaceInv, Calling
<1>2. CASE StreamFails
  <2> DEFINE a == Event("error")
             b == Failed("model")
  <2>1. pc' = "ended" /\ outbox' = <<a, b>>
    BY <1>2 DEF StreamFails, ModelFailed, Emit
  <2>2. a \in Item /\ b \in Item /\ a.kind = "error" /\ b.kind = "failed"
    BY EventTypes DEF Event, Failed
  <2> HIDE DEF a, b
  <2>3. Faithful(Append(log, a)) /\ Faithful(Append(Append(log, a), b))
    BY <1>1, <2>2, FaithfulPlain, OneMore
  <2>4. QED
    BY <1>1, <2>1, <2>2, <2>3, EndingEvents DEF Plain
<1>3. CASE StreamPart
  <2> DEFINE part == reply.parts[streamed + 1]
  <2>1. streamed + 1 \in 1 .. Len(reply.parts)
    BY <1>1, <1>3, ResponseType DEF StreamPart
  <2>2. part.kind = "call" => part.tool \in Names
    BY <1>1, <2>1, ResponseType
  <2>3. /\ pc' = "streaming" /\ UNCHANGED <<usage, responses, messages, answers>>
        /\ \/ part.kind = "call" /\ outbox' = <<ToolCallStart(part.tool)>>
              /\ pending' = Append(pending, part.tool)
           \/ outbox' = <<Event("text")>> /\ pending' = pending
    BY <1>1, <1>3 DEF StreamPart, Emit, account
  <2> HIDE DEF part
  <2>4. PICK a \in Item :
          /\ outbox' = <<a>>
          /\ \/ /\ a.kind = "tool_start" /\ a.tool \in Names
                /\ Members(pending') = Members(pending) \cup {a.tool}
             \/ a.kind = "text" /\ pending' = pending
    <3>1. CASE part.kind = "call" /\ outbox' = <<ToolCallStart(part.tool)>>
               /\ pending' = Append(pending, part.tool)
      <4>1. ToolCallStart(part.tool) \in Item /\ ToolCallStart(part.tool).kind = "tool_start"
            /\ ToolCallStart(part.tool).tool = part.tool /\ part.tool \in Names
        BY <2>2, <3>1, EventTypes DEF ToolCallStart
      <4>2. Members(pending') = Members(pending) \cup {part.tool}
        BY <2>2, <3>1, AppendMembers DEF Typed
      <4>3. QED
        BY <3>1, <4>1, <4>2
    <3>2. CASE outbox' = <<Event("text")>> /\ pending' = pending
      BY <3>2, EventTypes DEF Event
    <3>3. QED
      BY <2>3, <3>1, <3>2
  <2>5. Sent' = Append(log, a)
    BY <1>1, <2>4, SentGrows, OneMore
  <2>6. AllFaithful(Sent')
    BY <1>1, <2>4, <2>5, FaithfulPlain, FaithfulAppended DEF EventInv
  <2>7. Replies(Sent') = Replies(log) /\ CallsIn(Sent') = CallsIn(log) /\ SeenIn(Sent') = SeenIn(log)
    <3>1. a.kind \notin {"response_complete", "tool_complete", "tool_executed"}
      BY <2>4
    <3>2. Replies(Sent') = Replies(log) /\ CallsIn(Sent') = CallsIn(log)
      BY <1>1, <2>5, <3>1, TallyAppended
    <3>3. SeenIn(Sent') = SeenIn(log)
      BY <1>1, <2>5, <3>1, SeenAppended
    <3>4. QED
      BY <3>2, <3>3
  <2>8. UsageKnown'
    BY <1>1, <2>3, <2>7 DEF UsageKnown
  <2>9. AnswersKnown'
    <3>1. AnswersGiven' = AnswersGiven
      BY <2>3 DEF AnswersGiven, AnswersIn
    <3>2. QED
      BY <1>1, <2>7, <3>1 DEF AnswersKnown, Compression
  <2>10. PendingKnown'
    <3>1. /\ Members(pending) = Since(log, "tool_start")
          /\ Since(log, "tool_complete") = {}
      BY <1>1 DEF PendingKnown
    <3>2. Since(Sent', "tool_complete") = {}
      BY <1>1, <2>4, <2>5, <3>1, SinceAppended
    <3>3. Members(pending)' = Since(Sent', "tool_start")
      <4>1. CASE a.kind = "tool_start" /\ a.tool \in Names
                 /\ Members(pending') = Members(pending) \cup {a.tool}
        BY <1>1, <2>5, <3>1, <4>1, SinceAppended
      <4>2. CASE a.kind = "text" /\ pending' = pending
        BY <1>1, <2>5, <3>1, <4>2, SinceAppended
      <4>3. QED
        BY <2>4, <4>1, <4>2
    <3>4. QED
      BY <2>3, <3>2, <3>3 DEF PendingKnown
  <2>11. QED
    BY <2>6, <2>8, <2>9, <2>10, FaithfulNow DEF EventInv
<1>4. ASSUME ResponseWithCalls \/ FinalResponse \/ ResponseCutShort
      PROVE  EventInv'
  <2> DEFINE a == ResponseComplete(step, reply)
             t == Append(log, a)
  <2>1. /\ RecordReply /\ UNCHANGED <<answers, pending>>
        /\ messages' \in {messages, Append(messages, Pushed(Len(responses) + 1, reply))}
        /\ \/ pc' \in {"tools", "top"} /\ outbox' = <<a>>
           \/ /\ pc' = "ended"
              /\ outbox' = <<a, Event("output_ready"), RunComplete(messages', usage')>>
    BY <1>4 DEF ResponseWithCalls, FinalResponse, ResponseCutShort, Emit
  <2>2. /\ a \in Item /\ a.kind = "response_complete"
        /\ a.reported <=> reply.usage # None
    BY <1>1, <2>1, ReplyTyped DEF ResponseComplete
  <2>3. /\ usage' \in RunUsage /\ usage'.tool_calls = usage.tool_calls
        /\ usage'.requests = usage.requests + IF reply.usage = None THEN 0 ELSE 1
        /\ messages' \in Seq(Entry)
        /\ Pushed(Len(responses) + 1, reply) \in Entry
    BY <1>1, <2>1, ReplyTyped DEF Typed
  <2> HIDE DEF a
  <2>4. t \in Seq(Item) /\ AllFaithful(t)
    BY <1>1, <2>2, FaithfulPlain, FaithfulAppended, OneMore DEF EventInv
  <2>5. /\ Replies(t) = usage'.requests /\ CallsIn(t) = usage'.tool_calls
        /\ SeenIn(t) = SeenIn(log)
        /\ Since(t, "tool_start") = Since(log, "tool_start")
        /\ Since(t, "tool_complete") = Since(log, "tool_complete")
    <3>1. /\ Replies(t) = Replies(log) + IF reply.usage # None THEN 1 ELSE 0
          /\ CallsIn(t) = CallsIn(log)
      BY <1>1, <2>2, TallyAppended
    <3>2. usage.requests = Replies(log) /\ CallsIn(log) = usage.tool_calls
      BY <1>1 DEF UsageKnown, Typed, RunUsage
    <3>3. Replies(t) = usage'.requests /\ CallsIn(t) = usage'.tool_calls
      BY <2>3, <3>1, <3>2
    <3>4. SeenIn(t) = SeenIn(log)
      BY <1>1, <2>2, SeenAppended
    <3>5. /\ Since(t, "tool_start") = Since(log, "tool_start")
          /\ Since(t, "tool_complete") = Since(log, "tool_complete")
      BY <1>1, <2>2, SinceAppended
    <3>6. QED
      BY <3>3, <3>4, <3>5
  <2>6. AnswersIn(messages') = AnswersGiven
    <3>1. AnswersIn(messages) = AnswersGiven
      BY <1>1 DEF AnswersGiven
    <3>2. Pushed(Len(responses) + 1, reply).kind = "response"
      BY DEF Pushed
    <3>3. messages \in Seq(Entry)
      BY DEF Typed
    <3>4. AnswersIn(Append(messages, Pushed(Len(responses) + 1, reply))) = AnswersIn(messages)
      BY <2>3, <3>2, <3>3, AnswersAppended
    <3>5. QED
      BY <2>1, <3>1, <3>4
  <2>7. CASE pc' \in {"tools", "top"} /\ outbox' = <<a>>
    <3>1. Sent' = t
      BY <1>1, <2>2, <2>7, SentGrows, OneMore
    <3> HIDE DEF t
    <3>2. UsageKnown'
      BY <2>3, <2>5, <2>7, <3>1 DEF UsageKnown, RunUsage
    <3>3. AnswersKnown'
      <4>1. AnswersGiven' = AnswersGiven
        BY <1>1, <2>1, <2>6 DEF AnswersGiven, AnswersIn
      <4>2. QED
        BY <1>1, <2>5, <3>1, <4>1 DEF AnswersKnown, Compression
    <3>4. PendingKnown'
      BY <1>1, <2>1, <2>5, <2>7, <3>1 DEF PendingKnown, Members
    <3>5. QED
      BY <2>4, <3>1, <3>2, <3>3, <3>4, FaithfulNow DEF EventInv
  <2>8. CASE /\ pc' = "ended"
             /\ outbox' = <<a, Event("output_ready"), RunComplete(messages', usage')>>
    <3> DEFINE b == Event("output_ready")
               c == RunComplete(messages', usage')
               u == Append(t, b)
               v == Append(u, c)
    <3>1. /\ b \in Item /\ b.kind = "output_ready"
          /\ c \in Item /\ c.kind = "run_complete" /\ c.messages = messages' /\ c.usage = usage'
      BY <2>3, EventTypes DEF Event, RunComplete
    <3> HIDE DEF b, c, t
    <3>2. u \in Seq(Item) /\ v \in Seq(Item)
      BY <2>4, <3>1, OneMore
    <3>3. Sent' = v
      <4>1. outbox' = <<a, b, c>>
        BY <2>8 DEF b, c
      <4>2. outbox' \in Seq(Item) /\ log \o <<a, b, c>> = Append(Append(Append(log, a), b), c)
        BY <1>1, <2>2, <3>1, <4>1, ThreeMore
      <4>3. QED
        BY <1>1, <4>1, <4>2, SentGrows DEF t
    <3>4. AllFaithful(u)
      BY <2>4, <3>1, FaithfulPlain, FaithfulAppended
    <3>5. Replies(v) = Replies(t) /\ CallsIn(v) = CallsIn(t) /\ SeenIn(v) = SeenIn(t)
      <4>1. Replies(u) = Replies(t) /\ CallsIn(u) = CallsIn(t) /\ SeenIn(u) = SeenIn(t)
        BY <2>4, <3>1, PlainAppended DEF Plain
      <4>2. Replies(v) = Replies(u) /\ CallsIn(v) = CallsIn(u) /\ SeenIn(v) = SeenIn(u)
        BY <3>1, <3>2, PlainAppended DEF Plain
      <4>3. QED
        BY <4>1, <4>2
    <3>6. v[Len(v)] = c
      BY <3>1, <3>2
    <3> HIDE DEF u, v
    <3>7. Faithful(v)
      <4>1. /\ AnswersIn(c.messages) \subseteq SeenIn(v)
            /\ Compression = "off" => AnswersIn(c.messages) = SeenIn(v)
        BY <1>1, <2>5, <2>6, <3>1, <3>5 DEF AnswersKnown
      <4>2. c.usage.requests = Replies(v) /\ c.usage.tool_calls = CallsIn(v)
        BY <2>5, <3>1, <3>5
      <4>3. QED
        BY <3>1, <3>6, <4>1, <4>2 DEF Faithful
    <3>8. AllFaithful(v)
      BY <3>1, <3>2, <3>4, <3>7, FaithfulAppended DEF v
    <3>9. QED
      BY <2>8, <3>3, <3>8, FaithfulNow DEF EventInv
  <2>9. QED
    BY <2>1, <2>7, <2>8
<1>5. QED
  BY <1>2, <1>3, <1>4

LEMMA ToolEvents ==
  ASSUME Typed, PlaceInv, PendingPlace, EventInv, open, UNCHANGED options,
         CallTool \/ BeginTool \/ \E verdict \in Verdicts : ToolAnswers(verdict)
  PROVE  EventInv'
<1>1. /\ pc \in Calling /\ outbox = <<>> /\ log' = log /\ open' = open
      /\ log \in Seq(Item) /\ Sent = log
      /\ UsageKnown /\ AnswersKnown /\ PendingKnown
  <2>1. pc \in Calling /\ outbox = <<>> /\ log' = log /\ open' = open
    BY DEF CallTool, BeginTool, ToolAnswers, At, Calling, consumer
  <2>2. QED
    BY <2>1, EmptySent DEF EventInv, Calling
<1>2. /\ responses # <<>> /\ OpenCalls # {} /\ Len(responses) \in Nat
      /\ NextCall \in Nat /\ NextTool \in Names
  <2>1. responses # <<>> /\ OpenCalls # {} /\ Last \in Responses /\ Len(responses) \in Nat
    BY <1>1 DEF PlaceInv, Typed, Last
  <2>2. QED
    BY <2>1, NextCallOpen
<1>3. CASE CallTool
  <2> DEFINE a == ToolCallComplete(Len(responses), NextCall, NextTool)
  <2>1. /\ pc = "tools" /\ pc' = "announced" /\ outbox' = <<a>>
        /\ UNCHANGED <<usage, responses, messages, answers, pending>>
    BY <1>3 DEF CallTool, At, Emit, account
  <2>2. a \in Item /\ a.kind = "tool_complete" /\ a.tool = NextTool
    BY <1>2, EventTypes DEF ToolCallComplete
  <2> HIDE DEF a
  <2>3. Sent' = Append(log, a)
    BY <1>1, <2>1, <2>2, SentGrows, OneMore
  <2>4. AllFaithful(Sent')
    BY <1>1, <2>2, <2>3, FaithfulPlain, FaithfulAppended DEF EventInv
  <2>5. /\ Replies(Sent') = Replies(log) /\ CallsIn(Sent') = CallsIn(log) + 1
        /\ SeenIn(Sent') = SeenIn(log)
        /\ Since(Sent', "tool_start") = Since(log, "tool_start")
        /\ Since(Sent', "tool_complete") = Since(log, "tool_complete") \cup {NextTool}
    <3>1. Replies(Sent') = Replies(log) /\ CallsIn(Sent') = CallsIn(log) + 1
      BY <1>1, <2>2, <2>3, TallyAppended
    <3>2. SeenIn(Sent') = SeenIn(log)
      BY <1>1, <2>2, <2>3, SeenAppended
    <3>3. Since(Sent', "tool_start") = Since(log, "tool_start")
      BY <1>1, <2>2, <2>3, SinceAppended
    <3>4. Since(Sent', "tool_complete") = Since(log, "tool_complete") \cup {NextTool}
      BY <1>1, <1>2, <2>2, <2>3, SinceAppended
    <3>5. QED
      BY <3>1, <3>2, <3>3, <3>4
  <2>6. UsageKnown'
    BY <1>1, <2>1, <2>5 DEF UsageKnown, Typed, RunUsage
  <2>7. AnswersKnown'
    <3>1. AnswersGiven' = AnswersGiven
      BY <2>1 DEF AnswersGiven, AnswersIn
    <3>2. QED
      BY <1>1, <2>5, <3>1 DEF AnswersKnown, Compression
  <2>8. PendingKnown'
    <3>1. NextTool' = NextTool /\ Members(pending)' = Members(pending)
      BY <2>1 DEF NextTool, NextCall, OpenCalls, StreamCalls, Last, Members
    <3>2. Members(pending) = Since(log, "tool_start") \ Since(log, "tool_complete")
      BY <1>1, <2>1 DEF PendingKnown
    <3>3. QED
      BY <2>1, <2>5, <3>1, <3>2 DEF PendingKnown
  <2>9. QED
    BY <2>4, <2>6, <2>7, <2>8, FaithfulNow DEF EventInv
<1>4. CASE BeginTool
  <2>1. /\ pc = "announced" /\ pc' = "executing" /\ Sent' = Sent
        /\ usage' = RecordToolCalls(usage, 1) /\ pending' = Without(pending, NextTool)
        /\ UNCHANGED <<responses, messages, answers>>
    BY <1>4 DEF BeginTool, At, Sent, WithoutTool, consumer
  <2>2. usage'.requests = usage.requests /\ usage'.tool_calls = usage.tool_calls + 1
    BY <2>1, UsageTyped DEF Typed
  <2>3. UsageKnown'
    BY <1>1, <2>1, <2>2 DEF UsageKnown, Typed, RunUsage
  <2>4. AnswersKnown'
    <3>1. AnswersGiven' = AnswersGiven
      BY <2>1 DEF AnswersGiven, AnswersIn
    <3>2. QED
      BY <1>1, <2>1, <3>1 DEF AnswersKnown, Compression
  <2>5. PendingKnown'
    <3>1. Members(pending)' = Members(pending) \ {NextTool}
      BY <2>1, WithoutMembers DEF Typed
    <3>2. QED
      BY <1>1, <2>1, <3>1 DEF PendingKnown
  <2>6. AllFaithful(Sent')
    BY <2>1 DEF EventInv
  <2>7. QED
    BY <2>3, <2>4, <2>5, <2>6, FaithfulNow DEF EventInv
<1>5. ASSUME NEW verdict \in Verdicts, ToolAnswers(verdict)
      PROVE  EventInv'
  <2> DEFINE a == ToolExecuted(Len(responses), NextCall, verdict)
             given == answers \cup {<<NextCall, verdict>>}
  <2>1. /\ pc = "executing" /\ outbox' = <<a>> /\ Answer(verdict)
        /\ UNCHANGED <<usage, responses, pending>>
    BY <1>5 DEF ToolAnswers, At, Emit, account
  <2>2. /\ a \in Item /\ a.kind = "tool_executed"
        /\ a.of = Len(responses) /\ a.call = NextCall /\ a.verdict = verdict
    BY <1>2, EventTypes DEF ToolExecuted
  <2> HIDE DEF a
  <2>3. Sent' = Append(log, a)
    BY <1>1, <2>1, <2>2, SentGrows, OneMore
  <2>4. AllFaithful(Sent')
    BY <1>1, <2>2, <2>3, FaithfulPlain, FaithfulAppended DEF EventInv
  <2>5. /\ Replies(Sent') = Replies(log) /\ CallsIn(Sent') = CallsIn(log)
        /\ SeenIn(Sent') = SeenIn(log) \cup {<<Len(responses), NextCall, verdict>>}
        /\ Since(Sent', "tool_start") = Since(log, "tool_start")
        /\ Since(Sent', "tool_complete") = Since(log, "tool_complete")
    <3>1. Replies(Sent') = Replies(log) /\ CallsIn(Sent') = CallsIn(log)
      BY <1>1, <2>2, <2>3, TallyAppended
    <3>2. SeenIn(Sent') = SeenIn(log) \cup {<<Len(responses), NextCall, verdict>>}
      BY <1>1, <2>2, <2>3, SeenAppended
    <3>3. /\ Since(Sent', "tool_start") = Since(log, "tool_start")
          /\ Since(Sent', "tool_complete") = Since(log, "tool_complete")
      BY <1>1, <2>2, <2>3, SinceAppended
    <3>4. QED
      BY <3>1, <3>2, <3>3
  <2>6. pc' \in {"tools", "top"}
    BY <2>1, AnswerTyped
  <2>7. UsageKnown'
    BY <1>1, <2>1, <2>5, <2>6 DEF UsageKnown
  <2>8. AnswersGiven' = AnswersGiven \cup {<<Len(responses), NextCall, verdict>>}
    <3>1. {<<Len(responses), c[1], c[2]>> : c \in given} =
            {<<Len(responses), c[1], c[2]>> : c \in answers}
              \cup {<<Len(responses), NextCall, verdict>>}
      <4>1. \A c \in given : c \in answers \/ c = <<NextCall, verdict>>
        OBVIOUS
      <4>2. answers \subseteq given /\ <<NextCall, verdict>> \in given
        OBVIOUS
      <4>3. <<NextCall, verdict>>[1] = NextCall /\ <<NextCall, verdict>>[2] = verdict
        OBVIOUS
      <4> HIDE DEF given
      <4>4. ASSUME NEW x
            PROVE  (\E c \in given : x = <<Len(responses), c[1], c[2]>>)
                   <=> \/ \E c \in answers : x = <<Len(responses), c[1], c[2]>>
                       \/ x = <<Len(responses), NextCall, verdict>>
        BY <4>1, <4>2, <4>3
      <4>5. QED
        BY <4>4
    <3>2. CASE OpenCalls = {NextCall}
      <4> DEFINE m == [kind |-> "answers", of |-> Len(responses), ids |-> HaveIds(Last),
                    answers |-> given]
      <4>1. messages' = Append(messages, m) /\ answers' = {}
        BY <2>1, <3>2, AnswerTyped
      <4>2. m \in Entry /\ m.kind = "answers" /\ m.of = Len(responses) /\ m.answers = given
        <5>1. given \subseteq Nat \X Verdicts
          BY <2>1, AnswerTyped
        <5>2. QED
          BY <1>2, <5>1 DEF Entry, HaveIds
      <4> HIDE DEF m, given
      <4>3. AnswersIn(messages') =
              AnswersIn(messages) \cup {<<Len(responses), c[1], c[2]>> : c \in given}
        BY <4>1, <4>2, AnswersAppended DEF Typed
      <4>4. AnswersGiven' = AnswersIn(messages')
        BY <4>1 DEF AnswersGiven, AnswersIn
      <4>5. QED
        BY <3>1, <4>3, <4>4 DEF AnswersGiven
    <3>3. CASE OpenCalls # {NextCall}
      <4>1. messages' = messages /\ answers' = given
        BY <2>1, <3>3, AnswerTyped
      <4> HIDE DEF given
      <4>2. AnswersGiven' = AnswersIn(messages) \cup {<<Len(responses), c[1], c[2]>> : c \in given}
        BY <2>1, <4>1 DEF AnswersGiven, AnswersIn
      <4>3. QED
        BY <3>1, <4>2 DEF AnswersGiven
    <3>4. QED
      BY <3>2, <3>3
  <2>9. AnswersKnown'
    BY <1>1, <2>5, <2>8 DEF AnswersKnown, Compression
  <2>10. PendingKnown'
    BY <1>1, <2>1, <2>5, <2>6 DEF PendingKnown, Members
  <2>11. QED
    BY <2>4, <2>7, <2>9, <2>10, FaithfulNow DEF EventInv
<1>6. QED
  BY <1>3, <1>4, <1>5

LEMMA EventsNext ==
  Typed /\ PlaceInv /\ PendingPlace /\ EventInv /\ [Next]_vars => EventInv'
<1> SUFFICES ASSUME Typed, PlaceInv, PendingPlace, EventInv, [Next]_vars PROVE EventInv'
  OBVIOUS
<1>1. CASE UNCHANGED vars
  <2>1. Sent' = Sent /\ open' = open /\ UNCHANGED options
        /\ UNCHANGED <<usage, responses, pending, answers, messages, pc>>
    BY <1>1 DEF vars, account, consumer, Sent
  <2>2. QED
    BY <2>1, EventsKept
<1>2. CASE Next
  <2>1. UNCHANGED options
    BY <1>2 DEF Next
  <2>2. CASE SendEvent \/ SendRefused \/ Receive \/ DropStream \/ Cancel \/ Over
    BY <2>1, <2>2, ChannelEvents
  <2>3. CASE \/ ObserveCancel \/ BeginStep \/ KeepContext \/ TruncateContext \/ SummarizeContext
             \/ RequestFails \/ \E r \in Responses : RequestOpens(r)
    <3>1. UNCHANGED <<open, log>>
      BY <2>3 DEF ObserveCancel, BeginStep, KeepContext, TruncateContext, SummarizeContext,
                  CompressTo, RequestFails, RequestOpens, consumer
    <3>2. CASE open
      BY <2>1, <2>3, <3>2, LoopEvents
    <3>3. QED
      BY <2>1, <3>1, <3>2, DroppedEvents
  <2>4. CASE StreamPart \/ StreamFails \/ ResponseWithCalls \/ FinalResponse \/ ResponseCutShort
    <3>1. UNCHANGED <<open, log>>
      BY <2>4 DEF StreamPart, StreamFails, ResponseWithCalls, FinalResponse, ResponseCutShort,
                  consumer
    <3>2. CASE open
      BY <2>1, <2>4, <3>2, StreamEvents
    <3>3. QED
      BY <2>1, <3>1, <3>2, DroppedEvents
  <2>5. CASE CallTool \/ BeginTool \/ \E verdict \in Verdicts : ToolAnswers(verdict)
    <3>1. UNCHANGED <<open, log>>
      BY <2>5 DEF CallTool, BeginTool, ToolAnswers, consumer
    <3>2. CASE open
      BY <2>1, <2>5, <3>2, ToolEvents
    <3>3. QED
      BY <2>1, <3>1, <3>2, DroppedEvents
  <2>6. QED
    BY <1>2, <2>2, <2>3, <2>4, <2>5 DEF Next, Task
<1>3. QED
  BY <1>1, <1>2

LEMMA AlwaysEvents == Spec => [](Typed /\ PlaceInv /\ PendingPlace /\ EventInv)
<1>1. Init => Typed /\ PlaceInv /\ PendingPlace /\ EventInv
  BY StartsTyped, PendingStarts, EventsStart
<1>2. Typed /\ PlaceInv /\ PendingPlace /\ EventInv /\ [Next]_vars
        => (Typed /\ PlaceInv /\ PendingPlace /\ EventInv)'
  BY NextTyped, PendingNext, EventsNext
<1>3. QED
  BY <1>1, <1>2, PTL DEF Spec

----------------------------------------------------------------------------
(* How a stream ends                                                       *)

EndKinds == {"run_complete", "failed"}

(* The last word is the last event, and nobody who went away got it.       *)
EndInv ==
  /\ \A k \in 1 .. Len(Sent) :
       Sent[k].kind \in EndKinds => open /\ pc = "ended" /\ k = Len(Sent)
  /\ open /\ pc = "ended" => Len(Sent) > 0 /\ Sent[Len(Sent)].kind \in EndKinds

LEMMA EndStarts == Init => EndInv
<1> SUFFICES ASSUME Init PROVE EndInv
  OBVIOUS
<1>1. Sent = <<Event("run_start")>> /\ pc = "top"
  BY DEF Init, Sent
<1>2. Len(<<Event("run_start")>>) = 1 /\ <<Event("run_start")>>[1].kind = "run_start"
  BY DEF Event
<1>3. QED
  BY <1>1, <1>2 DEF EndInv, EndKinds

LEMMA EndKept ==
  ASSUME EndInv, Sent' = Sent, open' = open, pc' = pc
  PROVE  EndInv'
BY DEF EndInv

LEMMA EndDropped ==
  ASSUME EndInv, ~open, ~open', log' = log
  PROVE  EndInv'
<1>1. Sent' = Sent
  BY DEF Sent
<1>2. QED
  BY <1>1 DEF EndInv

(* An action that says its last word as the task ends, and only then.      *)
LEMMA EndSaid ==
  ASSUME Typed, EndInv, UNCHANGED <<log, open>>, outbox = <<>>, pc # "ended",
         outbox' \in Seq(Item),
         \A k \in 1 .. Len(outbox') :
           outbox'[k].kind \in EndKinds <=> pc' = "ended" /\ k = Len(outbox'),
         pc' = "ended" => Len(outbox') > 0
  PROVE  EndInv'
<1>1. Sent = log /\ log \in Seq(Item)
  BY EmptySent
<1>2. \A k \in 1 .. Len(log) : log[k].kind \notin EndKinds
  BY <1>1 DEF EndInv
<1>3. CASE open
  <2> DEFINE t == log \o outbox'
  <2>1. Sent' = t
    BY <1>3, SentGrows
  <2>2. /\ Len(log) \in Nat /\ Len(outbox') \in Nat /\ Len(t) = Len(log) + Len(outbox')
        /\ \A k \in 1 .. Len(log) : t[k] = log[k]
        /\ \A k \in 1 .. Len(t) : k \notin 1 .. Len(log) =>
             k - Len(log) \in 1 .. Len(outbox') /\ t[k] = outbox'[k - Len(log)]
    BY <1>1, ConcatElements
  <2> HIDE DEF t
  <2>3. ASSUME NEW k \in 1 .. Len(t), t[k].kind \in EndKinds
        PROVE  pc' = "ended" /\ k = Len(t)
    <3>1. k - Len(log) \in 1 .. Len(outbox') /\ t[k] = outbox'[k - Len(log)]
      BY <1>2, <2>2, <2>3
    <3>2. pc' = "ended" /\ k - Len(log) = Len(outbox')
      BY <2>3, <3>1
    <3>3. QED
      BY <2>2, <3>2
  <2>4. ASSUME pc' = "ended"
        PROVE  Len(t) > 0 /\ t[Len(t)].kind \in EndKinds
    <3>1. Len(t) \in 1 .. Len(t) /\ Len(t) \notin 1 .. Len(log) /\ Len(t) - Len(log) = Len(outbox')
      BY <2>2, <2>4
    <3>2. t[Len(t)] = outbox'[Len(outbox')] /\ Len(outbox') \in 1 .. Len(outbox')
      BY <2>2, <3>1
    <3>3. QED
      BY <2>4, <3>1, <3>2
  <2>5. QED
    BY <1>3, <2>1, <2>3, <2>4 DEF EndInv
<1>4. CASE ~open
  BY <1>4, EndDropped
<1>5. QED
  BY <1>3, <1>4

LEMMA EndNext == Typed /\ PlaceInv /\ EndInv /\ [Next]_vars => EndInv'
<1> SUFFICES ASSUME Typed, PlaceInv, EndInv, [Next]_vars PROVE EndInv'
  OBVIOUS
<1>1. Typed' /\ outbox' \in Seq(Item)
  BY NextTyped DEF Typed
<1>2. CASE UNCHANGED vars \/ Over \/ Receive \/ Cancel
  <2>1. Sent' = Sent /\ open' = open /\ pc' = pc
    BY <1>2 DEF vars, Over, Receive, Cancel, consumer, Sent
  <2>2. QED
    BY <2>1, EndKept
<1>3. CASE SendEvent
  <2>1. /\ outbox \in Seq(Item) /\ outbox # <<>> /\ log \in Seq(Item)
        /\ log' = Append(log, Head(outbox)) /\ outbox' = Tail(outbox) /\ open /\ open' = open
        /\ pc' = pc
    BY <1>3 DEF SendEvent, Typed, consumer
  <2>2. Append(log, Head(outbox)) \o Tail(outbox) = log \o outbox
    BY <2>1
  <2>3. QED
    BY <2>1, <2>2, EndKept DEF Sent
<1>4. CASE SendRefused
  BY <1>4, EndDropped DEF SendRefused, consumer
<1>5. CASE DropStream
  <2>1. /\ log \in Seq(Item) /\ outbox \in Seq(Item) /\ open /\ ~open'
        /\ Sent = log \o outbox /\ Sent' = log /\ ~Closed
    BY <1>5 DEF DropStream, Typed, Sent
  <2>2. /\ Len(log) \in Nat /\ Len(outbox) \in Nat
        /\ Len(log \o outbox) = Len(log) + Len(outbox)
        /\ \A k \in 1 .. Len(log) : (log \o outbox)[k] = log[k]
    BY <2>1, ConcatElements
  <2>3. ASSUME NEW k \in 1 .. Len(log), log[k].kind \in EndKinds
        PROVE  FALSE
    <3>1. k \in 1 .. Len(Sent) /\ Sent[k].kind \in EndKinds
      BY <2>1, <2>2, <2>3
    <3>2. pc = "ended" /\ k = Len(log) + Len(outbox)
      BY <2>1, <2>2, <3>1 DEF EndInv
    <3>3. Len(outbox) = 0
      BY <2>2, <3>2
    <3>4. outbox = <<>>
      BY <2>1, <3>3
    <3>5. QED
      BY <2>1, <3>2, <3>4 DEF Closed
  <2>4. QED
    BY <2>1, <2>3 DEF EndInv
<1>6. ASSUME \/ KeepContext \/ BeginTool \/ \E r \in Responses : RequestOpens(r)
      PROVE  EndInv'
  <2>1. UNCHANGED <<log, open>> /\ outbox = <<>> /\ outbox' = <<>> /\ {pc, pc'} \cap {"ended"} = {}
    BY <1>6 DEF KeepContext, BeginTool, RequestOpens, At, consumer
  <2>2. pc # "ended" /\ pc' # "ended"
    BY <2>1
  <2>3. \A k \in 1 .. Len(outbox') : FALSE
    <3>1. Len(outbox') = 0
      BY <2>1
    <3>2. QED
      BY <3>1
  <2>4. QED
    BY <1>1, <2>1, <2>2, <2>3, EndSaid
<1>7. ASSUME \/ TruncateContext \/ SummarizeContext \/ StreamPart \/ CallTool
             \/ ResponseWithCalls \/ ResponseCutShort
             \/ \E verdict \in Verdicts : ToolAnswers(verdict)
      PROVE  EndInv'
  <2>1. /\ UNCHANGED <<log, open>> /\ outbox = <<>> /\ pc # "ended"
    BY <1>7 DEF TruncateContext, SummarizeContext, CompressTo, StreamPart, CallTool,
                ResponseWithCalls, ResponseCutShort, ToolAnswers, StreamEnds, Streaming, At, consumer
  <2>2. pc' # "ended"
    <3>1. CASE \E verdict \in Verdicts : ToolAnswers(verdict)
      <4>1. PICK verdict \in Verdicts : ToolAnswers(verdict)
        BY <3>1
      <4>2. pc = "executing" /\ Answer(verdict)
        BY <4>1 DEF ToolAnswers, At
      <4>3. QED
        BY <4>2, AnswerTyped
    <3>2. QED
      BY <1>7, <2>1, <3>1
         DEF TruncateContext, SummarizeContext, CompressTo, StreamPart, CallTool,
             ResponseWithCalls, ResponseCutShort
  <2>3. outbox' = <<>> \/ \E e : outbox' = <<e>> /\ e.kind \notin EndKinds
    <3>1. /\ Event("context_compressed").kind \notin EndKinds
          /\ Event("text").kind \notin EndKinds
          /\ \A tool : ToolCallStart(tool).kind \notin EndKinds
          /\ \A n, r : ResponseComplete(n, r).kind \notin EndKinds
          /\ \A n, p, tool : ToolCallComplete(n, p, tool).kind \notin EndKinds
          /\ \A n, p, verdict : ToolExecuted(n, p, verdict).kind \notin EndKinds
      BY DEF Event, ToolCallStart, ResponseComplete, ToolCallComplete, ToolExecuted, EndKinds
    <3>2. CASE TruncateContext \/ SummarizeContext
      BY <3>1, <3>2 DEF TruncateContext, SummarizeContext, CompressTo, Emit
    <3>3. CASE StreamPart
      BY <3>1, <3>3 DEF StreamPart, Emit
    <3>4. CASE CallTool
      BY <3>1, <3>4 DEF CallTool, Emit
    <3>5. CASE ResponseWithCalls \/ ResponseCutShort
      BY <3>1, <3>5 DEF ResponseWithCalls, ResponseCutShort, Emit
    <3>6. CASE \E verdict \in Verdicts : ToolAnswers(verdict)
      BY <3>1, <3>6 DEF ToolAnswers, Emit
    <3>7. QED
      BY <1>7, <3>2, <3>3, <3>4, <3>5, <3>6
  <2>4. \A k \in 1 .. Len(outbox') : outbox'[k].kind \notin EndKinds
    BY <2>3
  <2>5. QED
    BY <1>1, <2>1, <2>2, <2>4, EndSaid
<1>8. ASSUME ObserveCancel \/ RequestFails \/ StreamFails \/ FinalResponse \/ BeginStep
      PROVE  EndInv'
  <2>1. UNCHANGED <<log, open>> /\ outbox = <<>> /\ pc # "ended"
    BY <1>8 DEF ObserveCancel, RequestFails, StreamFails, FinalResponse, BeginStep, StreamEnds,
                Streaming, At, consumer
  <2>2. \/ pc' = "ended" /\ \E e : outbox' = <<e>> /\ e.kind \in EndKinds
        \/ pc' = "ended"
           /\ \E d, e : outbox' = <<d, e>> /\ d.kind \notin EndKinds /\ e.kind \in EndKinds
        \/ pc' = "ended"
           /\ \E c, d, e : /\ outbox' = <<c, d, e>> /\ e.kind \in EndKinds
                           /\ c.kind \notin EndKinds /\ d.kind \notin EndKinds
        \/ pc' = "sizing"
           /\ \E d, e : outbox' = <<d, e>> /\ d.kind \notin EndKinds /\ e.kind \notin EndKinds
    <3>1. /\ Event("error").kind \notin EndKinds
          /\ Event("context_info").kind \notin EndKinds
          /\ Event("output_ready").kind \notin EndKinds
          /\ \A n : RequestStart(n).kind \notin EndKinds
          /\ \A n, r : ResponseComplete(n, r).kind \notin EndKinds
          /\ \A tools, used : Cancelled(tools, used).kind \notin EndKinds
          /\ \A h, used : RunComplete(h, used).kind \in EndKinds
          /\ \A error : Failed(error).kind \in EndKinds
      BY DEF Event, RequestStart, ResponseComplete, Cancelled, RunComplete, Failed, EndKinds
    <3>2. CASE ObserveCancel
      BY <3>1, <3>2 DEF ObserveCancel, Emit
    <3>3. CASE RequestFails \/ StreamFails
      BY <3>1, <3>3 DEF RequestFails, StreamFails, ModelFailed, Emit
    <3>4. CASE FinalResponse
      BY <3>1, <3>4 DEF FinalResponse, Emit
    <3>5. CASE BeginStep
      BY <3>1, <3>5 DEF BeginStep, Emit
    <3>6. QED
      BY <1>8, <3>2, <3>3, <3>4, <3>5
  <2>3. /\ \A k \in 1 .. Len(outbox') :
             outbox'[k].kind \in EndKinds <=> pc' = "ended" /\ k = Len(outbox')
        /\ pc' = "ended" => Len(outbox') > 0
    <3>1. CASE pc' = "ended" /\ \E e : outbox' = <<e>> /\ e.kind \in EndKinds
      BY <3>1
    <3>2. CASE pc' = "ended"
               /\ \E d, e : outbox' = <<d, e>> /\ d.kind \notin EndKinds /\ e.kind \in EndKinds
      BY <3>2
    <3>3. CASE pc' = "ended"
               /\ \E c, d, e : /\ outbox' = <<c, d, e>> /\ e.kind \in EndKinds
                               /\ c.kind \notin EndKinds /\ d.kind \notin EndKinds
      BY <3>3
    <3>4. CASE pc' = "sizing"
               /\ \E d, e : outbox' = <<d, e>> /\ d.kind \notin EndKinds /\ e.kind \notin EndKinds
      BY <3>4
    <3>5. QED
      BY <2>2, <3>1, <3>2, <3>3, <3>4
  <2>4. QED
    BY <1>1, <2>1, <2>3, EndSaid
<1>9. QED
  BY <1>2, <1>3, <1>4, <1>5, <1>6, <1>7, <1>8 DEF Next, Task

LEMMA AlwaysEnds == Spec => []EndInv
BY AlwaysTyped, EndStarts, EndNext, PTL DEF Spec

----------------------------------------------------------------------------
(* The theorems                                                            *)

LEMMA AnnouncedNext == Typed /\ RequestAnnounced /\ [Next]_vars => RequestAnnounced'
<1> SUFFICES ASSUME Typed, RequestAnnounced, [Next]_vars PROVE RequestAnnounced'
  OBVIOUS
<1> DEFINE Busy == {"sizing", "asking", "streaming"} \cup Calling
<1>1. CASE UNCHANGED <<pc, step, log, outbox>>
  BY <1>1 DEF RequestAnnounced
<1>2. CASE pc' \notin Busy
  BY <1>2 DEF RequestAnnounced, Calling
<1>3. CASE pc \in Busy /\ outbox = <<>> /\ UNCHANGED <<step, log>>
  <2>1. RequestStart(step) \in {log[k] : k \in DOMAIN log}
    BY <1>3 DEF RequestAnnounced, Calling
  <2>2. {log[k] : k \in DOMAIN log}' = {log[k] : k \in DOMAIN log}
        /\ RequestStart(step)' = RequestStart(step)
    BY <1>3 DEF RequestStart
  <2>3. QED
    BY <2>1, <2>2 DEF RequestAnnounced
<1>4. CASE SendEvent
  <2>1. /\ log' = Append(log, Head(outbox)) /\ outbox' = Tail(outbox) /\ outbox # <<>>
        /\ log \in Seq(Item) /\ outbox \in Seq(Item) /\ pc' = pc /\ step' = step
    BY <1>4 DEF SendEvent, Typed, account
  <2>2. /\ Members(outbox) = Members(outbox') \cup {Head(outbox)}
        /\ Head(outbox) \in Item
    BY <2>1, TailMembers
  <2>3. Members(log') = Members(log) \cup {Head(outbox)}
    BY <2>1, <2>2, AppendMembers
  <2>4. RequestStart(step)' = RequestStart(step)
    BY <2>1 DEF RequestStart
  <2>5. pc \in Busy => RequestStart(step) \in Members(log) \cup Members(outbox)
    BY DEF RequestAnnounced, Members, Calling
  <2>6. pc' \in Busy => RequestStart(step)' \in Members(log') \cup Members(outbox')
    BY <2>1, <2>2, <2>3, <2>4, <2>5
  <2>7. QED
    BY <2>6 DEF RequestAnnounced, Members, Calling
<1>5. CASE SendRefused /\ pc' \in Busy
  <2>1. /\ Head(outbox).kind # "request_start" /\ outbox' = Tail(outbox) /\ outbox # <<>>
        /\ pc' = pc /\ log' = log /\ step' = step /\ outbox \in Seq(Item)
    BY <1>5 DEF SendRefused, Typed, account, Calling
  <2>2. Members(outbox) = Members(outbox') \cup {Head(outbox)}
    BY <2>1, TailMembers
  <2>3. RequestStart(step)' = RequestStart(step) /\ RequestStart(step).kind = "request_start"
    BY <2>1 DEF RequestStart
  <2>4. RequestStart(step) \in Members(log) \cup Members(outbox)
    BY <1>5, <2>1 DEF RequestAnnounced, Members, Calling
  <2>5. RequestStart(step)' \in Members(log') \cup Members(outbox')
    BY <2>1, <2>2, <2>3, <2>4
  <2>6. QED
    BY <2>5 DEF RequestAnnounced, Members
<1>6. CASE BeginStep /\ pc' \in Busy
  <2>1. outbox' = <<RequestStart(step + 1), Event("context_info")>> /\ step' = step + 1
    BY <1>6 DEF BeginStep, Emit, Calling
  <2>2. outbox'[1] = RequestStart(step)' /\ 1 \in DOMAIN outbox'
    BY <2>1 DEF RequestStart
  <2>3. QED
    BY <2>2 DEF RequestAnnounced
<1>7. CASE UNCHANGED vars \/ Over \/ Receive \/ DropStream \/ Cancel
  BY <1>1, <1>7 DEF vars, Over, Receive, DropStream, Cancel, account
<1>8. CASE ObserveCancel \/ RequestFails \/ StreamFails \/ FinalResponse \/ ResponseCutShort
  BY <1>2, <1>8 DEF ObserveCancel, RequestFails, StreamFails, FinalResponse, ResponseCutShort,
                    Calling
<1>9. CASE \/ KeepContext \/ TruncateContext \/ SummarizeContext
           \/ \E r \in Responses : RequestOpens(r)
           \/ StreamPart \/ ResponseWithCalls \/ CallTool \/ BeginTool
           \/ \E verdict \in Verdicts : ToolAnswers(verdict)
  <2>1. pc \in Busy /\ outbox = <<>> /\ UNCHANGED <<step, log>>
    BY <1>9 DEF KeepContext, TruncateContext, SummarizeContext, CompressTo, RequestOpens,
                StreamPart, ResponseWithCalls, CallTool, BeginTool, ToolAnswers, StreamEnds,
                Streaming, At, account, Calling
  <2>2. QED
    BY <1>3, <2>1
<1>10. QED
  BY <1>2, <1>4, <1>5, <1>6, <1>7, <1>8, <1>9 DEF Next, Task, SendRefused, BeginStep

LEMMA TypesHold == Typed /\ PlaceInv => TypeOK
<1> SUFFICES ASSUME Typed, PlaceInv PROVE TypeOK
  OBVIOUS
<1>1. reply # None => streamed \in 0 .. Len(reply.parts)
  BY DEF Typed, PlaceInv
<1>2. step \in 0 .. MaxSteps + 1
  BY StreamAssumption DEF Typed, PlaceInv
<1>3. \A k \in DOMAIN messages : messages[k].kind \in
        {"system", "prompt", "summary", "response", "answers"}
  <2>1. \A m \in Entry : m.kind \in {"system", "prompt", "summary", "response", "answers"}
    BY DEF Entry
  <2>2. QED
    BY <2>1 DEF Typed
<1>4. \A k \in DOMAIN log : log[k].kind \in EventKinds
  <2>1. \A e \in Item : e.kind \in EventKinds
    BY DEF Item, EventKinds
  <2>2. QED
    BY <2>1 DEF Typed
<1>5. {open, cancelled} \subseteq BOOLEAN
  BY DEF Typed
<1>6. QED
  BY <1>1, <1>2, <1>3, <1>4, <1>5 DEF TypeOK, Typed, PlaceInv, Calling

LEMMA EndHolds == Typed /\ EndInv => EndReported
<1> SUFFICES ASSUME Typed, EndInv PROVE EndReported
  OBVIOUS
<1>1. /\ log \in Seq(Item) /\ outbox \in Seq(Item)
      /\ Len(log) \in Nat /\ Len(outbox) \in Nat
      /\ open => Sent = log \o outbox
      /\ ~open => Sent = log
  BY DEF Typed, Sent
<1>2. /\ Len(log \o outbox) = Len(log) + Len(outbox)
      /\ \A k \in 1 .. Len(log) : (log \o outbox)[k] = log[k]
  BY <1>1, ConcatElements
<1>3. ASSUME NEW k \in 1 .. Len(log), log[k].kind \in EndKinds
      PROVE  k = Len(log) /\ Closed
  <2>1. k \in 1 .. Len(Sent) /\ Sent[k].kind \in EndKinds
    BY <1>1, <1>2, <1>3
  <2>2. open /\ pc = "ended" /\ k = Len(Sent)
    BY <2>1 DEF EndInv
  <2>3. k = Len(log) /\ Len(outbox) = 0
    BY <1>1, <1>2, <2>2
  <2>4. QED
    BY <1>1, <2>2, <2>3 DEF Closed
<1>4. ASSUME Closed, open
      PROVE  log # <<>> /\ log[Len(log)].kind \in EndKinds
  <2>1. Sent = log
    BY <1>1, <1>4 DEF Closed
  <2>2. Len(log) > 0 /\ log[Len(log)].kind \in EndKinds
    BY <1>4, <2>1 DEF EndInv, Closed
  <2>3. QED
    BY <2>2
<1>5. QED
  BY <1>3, <1>4 DEF EndReported, Events, EndKinds

(* What the channel holds is faithful, event by event.                     *)
LEMMA LogFaithful ==
  ASSUME Typed, EventInv, NEW k \in 1 .. Len(log)
  PROVE  /\ Faithful(SubSeq(log, 1, k))
         /\ Len(SubSeq(log, 1, k)) = k
         /\ \A j \in 1 .. k : SubSeq(log, 1, k)[j] = log[j]
<1>1. AllFaithful(log)
  <2>1. CASE open
    BY <2>1, FaithfulPrefix DEF EventInv, Sent, Typed
  <2>2. CASE ~open
    BY <2>2 DEF EventInv, Sent
  <2>3. QED
    BY <2>1, <2>2
<1>2. Len(SubSeq(log, 1, k)) = k /\ \A j \in 1 .. k : SubSeq(log, 1, k)[j] = log[j]
  BY DEF Typed
<1>3. QED
  BY <1>1, <1>2 DEF AllFaithful

LEMMA UsageHolds == Typed /\ EventInv => UsageReported
<1> SUFFICES ASSUME Typed, EventInv PROVE UsageReported
  OBVIOUS
<1>1. ASSUME NEW k \in 1 .. Len(log), log[k].kind \in {"run_complete", "cancelled"}
      PROVE  /\ log[k].usage.requests =
                  Cardinality({j \in Events("response_complete", k) : log[j].reported})
             /\ log[k].usage.tool_calls = Cardinality(Events("tool_complete", k))
  <2> DEFINE p == SubSeq(log, 1, k)
  <2>1. Faithful(p) /\ Len(p) = k /\ \A j \in 1 .. k : p[j] = log[j]
    BY LogFaithful
  <2> HIDE DEF p
  <2>2. k \in 1 .. k
    OBVIOUS
  <2>3. log[k].usage.requests = Replies(p) /\ log[k].usage.tool_calls = CallsIn(p)
    BY <1>1, <2>1, <2>2 DEF Faithful
  <2>4. {j \in 1 .. Len(p) : p[j].kind = "response_complete" /\ p[j].reported} =
          {j \in Events("response_complete", k) : log[j].reported}
    BY <2>1 DEF Events
  <2>5. {j \in 1 .. Len(p) : p[j].kind = "tool_complete"} = Events("tool_complete", k)
    BY <2>1 DEF Events
  <2>6. QED
    BY <2>3, <2>4, <2>5 DEF Replies, CallsIn
<1>2. QED
  BY <1>1 DEF UsageReported, Events

LEMMA HistoryHolds == Typed /\ EventInv => HistoryMatchesEvents
<1> SUFFICES ASSUME Typed, EventInv PROVE HistoryMatchesEvents
  OBVIOUS
<1>1. ASSUME NEW k \in 1 .. Len(log), log[k].kind = "run_complete"
      PROVE  LET seen == {<<log[j].of, log[j].call, log[j].verdict>> :
                            j \in Events("tool_executed", k)}
             IN /\ AnswersIn(log[k].messages) \subseteq seen
                /\ Compression = "off" => AnswersIn(log[k].messages) = seen
  <2> DEFINE p == SubSeq(log, 1, k)
  <2>1. Faithful(p) /\ Len(p) = k /\ \A j \in 1 .. k : p[j] = log[j]
    BY LogFaithful
  <2> HIDE DEF p
  <2>2. k \in 1 .. k
    OBVIOUS
  <2>3. /\ AnswersIn(log[k].messages) \subseteq SeenIn(p)
        /\ Compression = "off" => AnswersIn(log[k].messages) = SeenIn(p)
    BY <1>1, <2>1, <2>2 DEF Faithful
  <2>4. SeenIn(p) = {<<log[j].of, log[j].call, log[j].verdict>> : j \in Events("tool_executed", k)}
    BY <2>1 DEF SeenIn, Events
  <2>5. QED
    BY <2>3, <2>4
<1>2. QED
  BY <1>1 DEF HistoryMatchesEvents, Events

LEMMA PendingHolds == Typed /\ EventInv => PendingReported
<1> SUFFICES ASSUME Typed, EventInv PROVE PendingReported
  OBVIOUS
<1>1. ASSUME NEW k \in 1 .. Len(log), log[k].kind = "cancelled", NEW tool \in Names
      PROVE  LET started == CallsSince("tool_start", tool, k)
                 begun   == CallsSince("tool_complete", tool, k)
                 named   == \E n \in DOMAIN log[k].pending : log[k].pending[n] = tool
             IN /\ named => Cardinality(begun) < Cardinality(started)
                /\ started # {} /\ begun = {} => named
  <2> DEFINE p == SubSeq(log, 1, k)
             started == CallsSince("tool_start", tool, k)
             begun == CallsSince("tool_complete", tool, k)
             named == \E n \in DOMAIN log[k].pending : log[k].pending[n] = tool
  <2>1. Faithful(p) /\ Len(p) = k /\ \A j \in 1 .. k : p[j] = log[j]
    BY LogFaithful
  <2> HIDE DEF p
  <2>2. k \in 1 .. k
    OBVIOUS
  <2>3. Members(log[k].pending) = Since(p, "tool_start") \ Since(p, "tool_complete")
    BY <1>1, <2>1, <2>2 DEF Faithful
  <2>4. named <=> tool \in Members(log[k].pending)
    BY DEF Members
  <2>5. ASSUME NEW kind
        PROVE  tool \in Since(p, kind) <=> CallsSince(kind, tool, k) # {}
    BY <2>1 DEF Since, CallsSince, Events
  <2>6. IsFiniteSet(started)
    <3>1. started \subseteq 1 .. k /\ k \in Int
      BY DEF CallsSince, Events
    <3>2. IsFiniteSet(1 .. k)
      BY <3>1, FS_Interval
    <3> HIDE DEF started
    <3>3. QED
      BY <3>1, <3>2, FS_Subset
  <2>7. started # {} /\ begun = {} => Cardinality(begun) < Cardinality(started)
    <3>1. Cardinality(started) \in Nat /\ (Cardinality(started) = 0 <=> started = {})
      BY <2>6, FS_EmptySet, FS_CardinalityType
    <3>2. Cardinality({}) = 0
      BY FS_EmptySet
    <3>3. QED
      BY <3>1, <3>2
  <2>8. named <=> started # {} /\ begun = {}
    BY <2>3, <2>4, <2>5
  <2>9. QED
    BY <2>7, <2>8
<1>2. QED
  BY <1>1 DEF PendingReported, Events, Names

(* Whatever the responses, the options and the moment of a cancellation:   *)
(* what the events of a stream report is true.  A RunComplete or an error  *)
(* comes last and comes for certain, usage is what the events let the      *)
(* consumer count, the pending tools of a cancellation are those of calls  *)
(* not begun, and no request goes out unannounced.                         *)
THEOREM StreamReportsTruth == Spec => []ReportsTrue
<1>1. Init => RequestAnnounced
  BY DEF Init, RequestAnnounced
<1>2. Typed /\ PlaceInv /\ EventInv /\ EndInv /\ RequestAnnounced => ReportsTrue
  BY TypesHold, EndHolds, UsageHolds, PendingHolds DEF ReportsTrue
<1>3. QED
  BY <1>1, <1>2, AnnouncedNext, AlwaysEvents, AlwaysEnds, PTL DEF Spec

(* The messages a stream hands out answer the calls the consumer saw       *)
(* executed, all of them if the history was not cut, and no others.        *)
THEOREM StreamHistoryMatches == Spec => []HistoryMatchesEvents
BY AlwaysEvents, HistoryHolds, PTL

(* The calls announced are counted in the events, and an event that is     *)
(* lost announces none.                                                    *)
LEMMA CallsCounted ==
  ASSUME NEW s \in Seq(Item)
  PROVE  Announced(s) = CallsIn(s) /\ CallsIn(s) \in Nat
<1>1. DOMAIN s = 1 .. Len(s)
  OBVIOUS
<1>2. Announced(s) = CallsIn(s)
  BY <1>1 DEF Announced, CallsIn
<1>3. Event("text") \in Item
  BY EventTypes
<1>4. QED
  BY <1>2, <1>3, TallyAppended

LEMMA CallsLost ==
  ASSUME NEW a \in Seq(Item), NEW b \in Seq(Item), b # <<>>, NEW c \in {<<>>, Tail(b)}
  PROVE  CallsIn(a \o c) <= CallsIn(a \o b)
<1> DEFINE t == a \o c
           u == a \o b
           T == {j \in 1 .. Len(t) : t[j].kind = "tool_complete"}
           U == {j \in 1 .. Len(u) : u[j].kind = "tool_complete"}
           moved(j) == IF j \in 1 .. Len(a) THEN j ELSE j + 1
           f == [j \in T |-> moved(j)]
<1>1. /\ c \in Seq(Item) /\ Len(a) \in Nat /\ Len(b) \in Nat /\ Len(c) \in Nat /\ Len(b) > 0
      /\ Len(c) = 0 \/ Len(c) = Len(b) - 1
      /\ \A i \in 1 .. Len(c) : i + 1 \in 1 .. Len(b) /\ c[i] = b[i + 1]
  <2>1. CASE c = <<>>
    BY <2>1
  <2>2. CASE c = Tail(b)
    BY <2>2
  <2>3. QED
    BY <2>1, <2>2
<1>2. /\ t \in Seq(Item) /\ Len(t) = Len(a) + Len(c)
      /\ \A j \in 1 .. Len(a) : t[j] = a[j]
      /\ \A j \in 1 .. Len(t) : j \notin 1 .. Len(a) =>
           j - Len(a) \in 1 .. Len(c) /\ t[j] = c[j - Len(a)]
  <2>1. c \in Seq(Item)
    BY <1>1
  <2>2. QED
    BY <2>1, ConcatElements
<1>3. /\ u \in Seq(Item) /\ Len(u) = Len(a) + Len(b)
      /\ \A j \in 1 .. Len(a) : u[j] = a[j]
      /\ \A j \in 1 .. Len(u) : j \notin 1 .. Len(a) =>
           j - Len(a) \in 1 .. Len(b) /\ u[j] = b[j - Len(a)]
  BY ConcatElements
<1> HIDE DEF t, u
<1>4. ASSUME NEW j \in 1 .. Len(t)
      PROVE  moved(j) \in 1 .. Len(u) /\ u[moved(j)] = t[j]
  <2>1. CASE j \in 1 .. Len(a)
    BY <1>1, <1>2, <1>3, <2>1
  <2>2. CASE j \notin 1 .. Len(a)
    <3>1. j - Len(a) \in 1 .. Len(c) /\ t[j] = c[j - Len(a)]
      BY <1>2, <2>2
    <3>2. j - Len(a) + 1 \in 1 .. Len(b) /\ c[j - Len(a)] = b[j - Len(a) + 1]
      BY <1>1, <3>1
    <3>3. moved(j) = j + 1 /\ j + 1 - Len(a) = j - Len(a) + 1
      BY <1>1, <2>2
    <3>4. j + 1 \in 1 .. Len(u) /\ j + 1 \notin 1 .. Len(a)
      BY <1>1, <1>3, <2>2, <3>2
    <3>5. u[j + 1] = b[j + 1 - Len(a)]
      BY <1>3, <3>4
    <3>6. QED
      BY <3>1, <3>2, <3>3, <3>4, <3>5
  <2>3. QED
    BY <2>1, <2>2
<1>5. \A i, j \in 1 .. Len(t) : i # j => moved(i) # moved(j)
  BY <1>1, <1>2
<1>6. \A j \in T : moved(j) \in U
  BY <1>4
<1>7. IsFiniteSet(U)
  <2>1. U \subseteq 1 .. Len(u) /\ Len(u) \in Int
    BY <1>1, <1>3
  <2>2. IsFiniteSet(1 .. Len(u))
    BY <2>1, FS_Interval
  <2> HIDE DEF U
  <2>3. QED
    BY <2>1, <2>2, FS_Subset
<1>8. T \subseteq 1 .. Len(t)
  OBVIOUS
<1>9. f \in [T -> U] /\ \A i, j \in T : f[i] = f[j] => i = j
  <2>1. \A i, j \in T : i # j => moved(i) # moved(j)
    BY <1>5, <1>8
  <2> HIDE DEF moved, T, U
  <2>2. QED
    BY <1>6, <2>1
<1>10. Cardinality(T) <= Cardinality(U)
  <2> HIDE DEF f, T, U
  <2>1. QED
    BY <1>7, <1>9, NoMoreThan
<1>11. QED
  BY <1>10 DEF CallsIn, t, u

(* No step, no response, and no announcement more than before.             *)
Quiet ==
  /\ UNCHANGED <<step, responses>>
  /\ CallsIn(log' \o outbox') <= CallsIn(log \o outbox)

LEMMA QuietSame ==
  ASSUME Typed, UNCHANGED <<step, responses>>, log' \o outbox' = log \o outbox
  PROVE  Quiet
<1>1. log \o outbox \in Seq(Item)
  BY DEF Typed
<1>2. CallsIn(log \o outbox) \in Nat
  BY <1>1, CallsCounted
<1>3. CallsIn(log' \o outbox') = CallsIn(log \o outbox)
  OBVIOUS
<1>4. QED
  BY <1>2, <1>3 DEF Quiet

LEMMA QuietOne ==
  ASSUME Typed, outbox = <<>>, UNCHANGED <<step, responses, log>>,
         NEW a \in Item, a.kind # "tool_complete", outbox' = <<a>>
  PROVE  Quiet
<1>1. log \in Seq(Item)
  BY DEF Typed
<1>2. log \o outbox = log /\ log' \o outbox' = Append(log, a)
  BY <1>1, OneMore
<1>3. CallsIn(log) \in Nat
  BY <1>1, CallsCounted
<1>4. CallsIn(Append(log, a)) = CallsIn(log) + 0
  BY <1>1, TallyAppended
<1>5. /\ CallsIn(log \o outbox) = CallsIn(log)
      /\ CallsIn(log' \o outbox') = CallsIn(Append(log, a))
  BY <1>2, Zenon
<1>6. QED
  BY <1>3, <1>4, <1>5 DEF Quiet

LEMMA QuietTwo ==
  ASSUME Typed, outbox = <<>>, UNCHANGED <<step, responses, log>>,
         NEW a \in Item, NEW b \in Item, outbox' = <<a, b>>,
         a.kind # "tool_complete", b.kind # "tool_complete"
  PROVE  Quiet
<1> DEFINE t == Append(log, a)
<1>1. log \in Seq(Item) /\ t \in Seq(Item)
  BY DEF Typed
<1>2. log \o outbox = log /\ log' \o outbox' = Append(t, b)
  BY <1>1, OneMore, TwoMore
<1>3. CallsIn(log) \in Nat
  BY <1>1, CallsCounted
<1>4. CallsIn(t) = CallsIn(log) + 0
  BY <1>1, TallyAppended
<1> HIDE DEF t
<1>5. CallsIn(Append(t, b)) = CallsIn(t) + 0
  BY <1>1, TallyAppended
<1>6. CallsIn(Append(t, b)) = CallsIn(log)
  BY <1>3, <1>4, <1>5
<1>7. /\ CallsIn(log \o outbox) = CallsIn(log)
      /\ CallsIn(log' \o outbox') = CallsIn(Append(t, b))
  BY <1>2, Zenon
<1>8. QED
  BY <1>3, <1>6, <1>7 DEF Quiet

(* A cancelled stream begins no step, records no response and announces no *)
(* tool.                                                                   *)
THEOREM CancelledStreamStopsWork == Spec => NoWorkAfterCancel
<1>1. ASSUME Typed, Typed', [Next]_vars, cancelled
      PROVE  UNCHANGED <<step, responses>> /\ Announced(log' \o outbox') <= Announced(log \o outbox)
  <2>1. /\ log \in Seq(Item) /\ outbox \in Seq(Item)
        /\ log' \in Seq(Item) /\ outbox' \in Seq(Item)
    BY <1>1 DEF Typed
  <2>2. log \o outbox \in Seq(Item) /\ log' \o outbox' \in Seq(Item)
    BY <2>1
  <2>3. SUFFICES Quiet
    BY <2>2, CallsCounted DEF Quiet
  <2>4. CASE UNCHANGED vars \/ Over \/ Receive \/ DropStream \/ Cancel
    BY <1>1, <2>4, QuietSame DEF vars, Over, Receive, DropStream, Cancel, account
  <2>5. CASE SendEvent
    <3>1. Append(log, Head(outbox)) \o Tail(outbox) = log \o outbox
      BY <2>1, <2>5 DEF SendEvent
    <3>2. QED
      BY <1>1, <2>5, <3>1, QuietSame DEF SendEvent, account
  <2>6. CASE SendRefused
    <3>1. /\ log' = log /\ UNCHANGED <<step, responses>>
          /\ outbox # <<>> /\ outbox' \in {<<>>, Tail(outbox)}
      BY <2>6 DEF SendRefused, account
    <3>2. QED
      BY <2>1, <3>1, CallsLost DEF Quiet
  <2>7. CASE ObserveCancel
    <3>1. /\ outbox = <<>> /\ log' = log /\ UNCHANGED <<step, responses>>
          /\ outbox' = <<Cancelled(pending, usage), Failed("cancelled")>>
      BY <2>7 DEF ObserveCancel, At, Emit, account
    <3>2. /\ Cancelled(pending, usage) \in Item /\ Failed("cancelled") \in Item
          /\ Cancelled(pending, usage).kind = "cancelled" /\ Failed("cancelled").kind = "failed"
      BY <1>1, EventTypes DEF Typed, Cancelled, Failed
    <3>3. QED
      BY <1>1, <3>1, <3>2, QuietTwo
  <2>8. CASE KeepContext \/ BeginTool \/ \E r \in Responses : RequestOpens(r)
    BY <1>1, <2>8, QuietSame DEF KeepContext, BeginTool, RequestOpens, At, account
  <2>9. CASE TruncateContext \/ SummarizeContext
    <3>1. /\ outbox = <<>> /\ log' = log /\ UNCHANGED <<step, responses>>
          /\ outbox' = <<>> \/ outbox' = <<Event("context_compressed")>>
      BY <2>9 DEF TruncateContext, SummarizeContext, CompressTo, At, Emit, account
    <3>2. /\ Event("context_compressed") \in Item
          /\ Event("context_compressed").kind = "context_compressed"
      BY EventTypes DEF Event
    <3>3. QED
      BY <1>1, <3>1, <3>2, QuietSame, QuietOne
  <2>10. CASE RequestFails
    <3>1. /\ outbox = <<>> /\ log' = log /\ UNCHANGED <<step, responses>>
          /\ outbox' = <<Event("error"), Failed("model")>>
      BY <2>10 DEF RequestFails, ModelFailed, At, Emit, account
    <3>2. /\ Event("error") \in Item /\ Failed("model") \in Item
          /\ Event("error").kind = "error" /\ Failed("model").kind = "failed"
      BY EventTypes DEF Event, Failed
    <3>3. QED
      BY <1>1, <3>1, <3>2, QuietTwo
  <2>11. CASE \E verdict \in Verdicts : ToolAnswers(verdict)
    <3>1. PICK verdict \in Verdicts : ToolAnswers(verdict)
      BY <2>11
    <3> DEFINE a == ToolExecuted(Len(responses), NextCall, verdict)
    <3>2. /\ outbox = <<>> /\ log' = log /\ UNCHANGED <<step, responses>> /\ outbox' = <<a>>
      BY <3>1 DEF ToolAnswers, At, Emit, account
    <3>3. a \in Item
      BY <1>1, <3>2 DEF Typed
    <3>4. a.kind # "tool_complete"
      BY DEF ToolExecuted
    <3> HIDE DEF a
    <3>5. QED
      BY <1>1, <3>2, <3>3, <3>4, QuietOne
  <2>12. ~ \/ BeginStep \/ StreamPart \/ StreamFails \/ ResponseWithCalls \/ FinalResponse
           \/ ResponseCutShort \/ CallTool
    BY <1>1 DEF BeginStep, StreamPart, StreamFails, ResponseWithCalls, FinalResponse,
                ResponseCutShort, CallTool, StreamEnds, Streaming
  <2>13. QED
    BY <1>1, <2>4, <2>5, <2>6, <2>7, <2>8, <2>9, <2>10, <2>11, <2>12 DEF Next, Task
<1>2. QED
  BY <1>1, AlwaysTyped, PTL DEF Spec, NoWorkAfterCancel

----------------------------------------------------------------------------
(* Histories in which calls and answers are paired *)

(* Calls, and answers, that have ids: those a repair looks at.             *)
Asks(m) == m.kind = "response" /\ m.ids /\ m.calls # {}

Tells(m) == m.kind = "answers" /\ m.ids

(* a answers the calls of m, and no others. *)
Answering(m, a) ==
  /\ m.kind = "response" /\ a.kind = "answers"
  /\ a.of = m.of
  /\ a.ids = m.ids
  /\ {x[1] : x \in a.answers} = m.calls

(* Each response with calls is followed by its answers, unless it is the   *)
(* last message; answers follow their response; the responses, n at most,  *)
(* are told apart; no message is empty.                                    *)
Exchanges(s, n) ==
  /\ \A k \in 1 .. Len(s) : Asks(s[k]) /\ k < Len(s) => Answering(s[k], s[k + 1])
  /\ \A k \in 1 .. Len(s) : Tells(s[k]) => k > 1 /\ Answering(s[k - 1], s[k])
  /\ \A j, k \in 1 .. Len(s) :
       s[j].kind = "response" /\ s[k].kind = "response" /\ s[j].of = s[k].of => j = k
  /\ \A k \in 1 .. Len(s) : s[k].kind = "response" => s[k].of \in 1 .. n
  /\ \A k \in 1 .. Len(s) : ~IsEmpty(s[k])

(* Nothing is left to answer. *)
Settled(s) == \A k \in 1 .. Len(s) : Asks(s[k]) => k < Len(s)

LEMMA ExchangesPaired ==
  ASSUME NEW s \in Seq(Entry), NEW n, Exchanges(s, n), Settled(s)
  PROVE  WellPaired(s, {TRUE})
<1>1. DOMAIN s = 1 .. Len(s) /\ Len(s) \in Nat
  OBVIOUS
<1>2. ASSUME NEW k \in 1 .. Len(s), s[k].kind = "response", s[k].ids, s[k].calls # {}
      PROVE  k + 1 \in 1 .. Len(s) /\ Answering(s[k], s[k + 1])
  BY <1>1, <1>2 DEF Exchanges, Settled, Asks
<1>3. ASSUME NEW k \in 1 .. Len(s), s[k].kind = "answers", s[k].ids
      PROVE  k > 1 /\ Answering(s[k - 1], s[k])
  BY <1>3 DEF Exchanges, Tells
<1>4. QED
  BY <1>1, <1>2, <1>3 DEF WellPaired, Is, Answering

(* Places of a part of a sequence of length m.                             *)
Ascending(g, l, m) ==
  /\ g \in [1 .. l -> 1 .. m]
  /\ \A i, j \in 1 .. l : i < j => g[i] < g[j]

Reached(g, l, j) == \E i \in 1 .. l : g[i] = j

(* Places that are next to each other stay so.                             *)
LEMMA AscendingNext ==
  ASSUME NEW l \in Nat, NEW m \in Nat, NEW g, Ascending(g, l, m),
         NEW i \in 1 .. l, NEW j \in 1 .. l, g[j] = g[i] + 1
  PROVE  j = i + 1
<1>1. g[i] \in 1 .. m /\ g[j] \in 1 .. m
  BY DEF Ascending
<1>2. ~(j < i) /\ j # i
  BY <1>1 DEF Ascending
<1>3. CASE i + 1 < j
  <2>1. i + 1 \in 1 .. l
    BY <1>3
  <2>2. g[i] < g[i + 1] /\ g[i + 1] < g[j] /\ g[i + 1] \in 1 .. m
    BY <1>3, <2>1 DEF Ascending
  <2>3. QED
    BY <1>1, <2>2
<1>4. QED
  BY <1>2, <1>3

LEMMA AscendingTwice ==
  ASSUME NEW k \in Nat, NEW l \in Nat, NEW m \in Nat,
         NEW f, Ascending(f, k, l), NEW g, Ascending(g, l, m)
  PROVE  Ascending([i \in 1 .. k |-> g[f[i]]], k, m)
<1>1. \A i \in 1 .. k : f[i] \in 1 .. l /\ g[f[i]] \in 1 .. m
  BY DEF Ascending
<1>2. \A i, j \in 1 .. k : i < j => g[f[i]] < g[f[j]]
  BY <1>1 DEF Ascending
<1>3. QED
  BY <1>1, <1>2 DEF Ascending

(* The messages that are not empty, in their order.                        *)
LEMMA NonEmptyPlaces ==
  ASSUME NEW h \in Seq(Entry)
  PROVE  /\ NonEmpty(h) \in Seq(Entry)
         /\ \E g : /\ Ascending(g, Len(NonEmpty(h)), Len(h))
                   /\ \A i \in 1 .. Len(NonEmpty(h)) :
                        NonEmpty(h)[i] = h[g[i]] /\ ~IsEmpty(h[g[i]])
                   /\ \A j \in 1 .. Len(h) :
                        ~IsEmpty(h[j]) => Reached(g, Len(NonEmpty(h)), j)
<1> DEFINE kept == {h[k] : k \in {j \in DOMAIN h : ~IsEmpty(h[j])}}
<1>1. NonEmpty(h) = Only(h, kept)
  BY DEF NonEmpty
<1>2. \A j \in 1 .. Len(h) : h[j] \in kept <=> ~IsEmpty(h[j])
  OBVIOUS
<1> HIDE DEF kept
<1>3. PICK g : Places(h, kept, Len(h), NonEmpty(h), g)
  BY <1>1, OnlyPlaces
<1>4. NonEmpty(h) \in Seq(Entry)
  BY <1>1, OnlyPlaces
<1>5. Ascending(g, Len(NonEmpty(h)), Len(h))
  BY <1>3 DEF Places, Ascending
<1>6. \A i \in 1 .. Len(NonEmpty(h)) : NonEmpty(h)[i] = h[g[i]] /\ ~IsEmpty(h[g[i]])
  BY <1>2, <1>3 DEF Places
<1>7. \A j \in 1 .. Len(h) : ~IsEmpty(h[j]) => Reached(g, Len(NonEmpty(h)), j)
  BY <1>2, <1>3 DEF Places, Reached
<1>8. QED
  BY <1>4, <1>5, <1>6, <1>7

(* e has the messages of s at the places g.                                *)
Drawn(e, s, g) ==
  Ascending(g, Len(e), Len(s)) /\ \A i \in 1 .. Len(e) : e[i] = s[g[i]]

(* Two responses, or two answers, with the same number are the same.       *)
LEMMA AnswersTold ==
  ASSUME NEW s \in Seq(Entry), NEW n, Exchanges(s, n),
         NEW j \in 1 .. Len(s), Tells(s[j]),
         NEW k \in 1 .. Len(s), s[k].of = s[j].of
  PROVE  /\ s[k].kind = "response" => k = j - 1
         /\ Tells(s[k]) => k = j
<1>1. j - 1 \in 1 .. Len(s) /\ Answering(s[j - 1], s[j])
  BY DEF Exchanges
<1>2. \A i \in 1 .. Len(s) : s[i].kind = "response" /\ s[i].of = s[j].of => i = j - 1
  BY <1>1 DEF Exchanges, Answering
<1>3. CASE Tells(s[k])
  <2>1. k - 1 \in 1 .. Len(s) /\ Answering(s[k - 1], s[k])
    BY <1>3 DEF Exchanges
  <2>2. k - 1 = j - 1
    BY <1>2, <2>1 DEF Answering
  <2>3. s[k].kind # "response"
    BY <1>3 DEF Tells
  <2>4. QED
    BY <2>2, <2>3
<1>4. QED
  BY <1>2, <1>3

(* Answers whose response is left keep all of them, others none.           *)
LEMMA ResultsKept ==
  ASSUME NEW s \in Seq(Entry), NEW n, Exchanges(s, n),
         NEW e \in Seq(Entry), NEW g, Drawn(e, s, g),
         NEW k \in 1 .. Len(e)
  PROVE  LET cut == KeepResults(e[k], ToolUseIds(e))
         IN /\ ~Tells(e[k]) => cut = e[k]
            /\ Tells(e[k]) /\ Reached(g, Len(e), g[k] - 1) => cut = e[k]
            /\ Tells(e[k]) /\ ~Reached(g, Len(e), g[k] - 1) => IsEmpty(cut)
<1> DEFINE uses == ToolUseIds(e)
           cut == KeepResults(e[k], uses)
           j == g[k]
<1>1. /\ e[k] \in Entry /\ e[k] = s[j] /\ j \in 1 .. Len(s)
      /\ \A i \in 1 .. Len(e) : g[i] \in 1 .. Len(s) /\ e[i] = s[g[i]]
  BY DEF Drawn, Ascending
<1>2. \A of, p : <<of, p>> \in uses <=>
        \E i \in 1 .. Len(e) : /\ e[i].kind = "response" /\ e[i].ids /\ e[i].of = of
                               /\ p \in e[i].calls
  BY DEF ToolUseIds, HasIds, Is
<1> HIDE DEF uses, j
<1>3. ~Tells(e[k]) => cut = e[k]
  BY <1>1, KeptEntry DEF Tells, HasIds, Is
<1>4. ASSUME Tells(e[k])
      PROVE  /\ Reached(g, Len(e), j - 1) => cut = e[k]
             /\ ~Reached(g, Len(e), j - 1) => IsEmpty(cut)
  <2>1. Answering(s[j - 1], s[j]) /\ j - 1 \in 1 .. Len(s)
    BY <1>1, <1>4 DEF Exchanges
  <2>2. /\ cut.kind = "answers"
        /\ cut.answers = {a \in e[k].answers : <<e[k].of, a[1]>> \in uses}
        /\ cut = [e[k] EXCEPT !.answers = {a \in e[k].answers : <<e[k].of, a[1]>> \in uses}]
    BY <1>1, <1>4, KeptEntry DEF KeepResults, Tells, HasIds, Is
  <2> HIDE DEF cut
  <2>3. e[k] \in [kind: {"answers"}, of: Nat, ids: BOOLEAN, answers: SUBSET (Nat \X Verdicts)]
    BY <1>1, <1>4 DEF Entry, Tells
  <2>4. ASSUME Reached(g, Len(e), j - 1)
        PROVE  cut = e[k]
    <3>1. PICK q \in 1 .. Len(e) : g[q] = j - 1
      BY <2>4 DEF Reached
    <3>2. /\ e[q].kind = "response" /\ e[q].ids /\ e[q].of = e[k].of
          /\ {a[1] : a \in e[k].answers} = e[q].calls
      BY <1>1, <1>4, <2>1, <3>1 DEF Answering, Tells
    <3>3. \A a \in e[k].answers : <<e[k].of, a[1]>> \in uses
      BY <1>2, <3>2
    <3>4. {a \in e[k].answers : <<e[k].of, a[1]>> \in uses} = e[k].answers
      BY <3>3
    <3>5. QED
      BY <2>2, <2>3, <3>4
  <2>5. ASSUME ~Reached(g, Len(e), j - 1)
        PROVE  IsEmpty(cut)
    <3>1. ASSUME NEW a \in e[k].answers, <<e[k].of, a[1]>> \in uses
          PROVE  FALSE
      <4>1. PICK q \in 1 .. Len(e) : e[q].kind = "response" /\ e[q].of = e[k].of
        BY <1>2, <3>1
      <4>2. /\ g[q] \in 1 .. Len(s) /\ s[g[q]].kind = "response"
            /\ Tells(s[j]) /\ s[g[q]].of = s[j].of
        BY <1>1, <1>4, <4>1
      <4>3. g[q] = j - 1
        BY <1>1, <4>2, AnswersTold
      <4>4. QED
        BY <2>5, <4>3 DEF Reached
    <3>2. cut.answers = {}
      BY <2>2, <3>1
    <3>3. QED
      BY <2>2, <3>2 DEF IsEmpty, Is
  <2>6. QED
    BY <2>4, <2>5
<1>5. QED
  BY <1>3, <1>4 DEF j, uses

(* Calls whose answers are left stay, others go.                           *)
LEMMA UsesKept ==
  ASSUME NEW s \in Seq(Entry), NEW n, Exchanges(s, n), Settled(s),
         NEW e \in Seq(Entry), NEW g, Drawn(e, s, g),
         NEW k \in 1 .. Len(e)
  PROVE  LET cut == KeepUses(e[k], ToolResultIds(e))
         IN /\ ~Asks(e[k]) => cut = e[k]
            /\ Asks(e[k]) /\ Reached(g, Len(e), g[k] + 1) => cut = e[k]
            /\ Asks(e[k]) /\ ~Reached(g, Len(e), g[k] + 1) =>
                 cut.kind = "response" /\ cut.of = e[k].of /\ ~Asks(cut)
<1> DEFINE results == ToolResultIds(e)
           cut == KeepUses(e[k], results)
           j == g[k]
<1>1. /\ e[k] \in Entry /\ e[k] = s[j] /\ j \in 1 .. Len(s)
      /\ \A i \in 1 .. Len(e) : g[i] \in 1 .. Len(s) /\ e[i] = s[g[i]]
  BY SMTT(60) DEF Drawn, Ascending
<1>2. \A of, p : <<of, p>> \in results <=>
        \E i \in 1 .. Len(e) : /\ e[i].kind = "answers" /\ e[i].ids /\ e[i].of = of
                               /\ \E a \in e[i].answers : p = a[1]
  BY DEF ToolResultIds, HasIds, Is
<1> HIDE DEF results, j
<1>3. ~(e[k].kind = "response" /\ e[k].ids) => cut = e[k]
  BY <1>1, KeptEntry DEF HasIds, Is
<1>4. ASSUME e[k].kind = "response", e[k].ids
      PROVE  /\ e[k].calls = {} => cut = e[k]
             /\ e[k].calls # {} /\ Reached(g, Len(e), j + 1) => cut = e[k]
             /\ e[k].calls # {} /\ ~Reached(g, Len(e), j + 1) =>
                  cut.kind = "response" /\ cut.of = e[k].of /\ cut.calls = {}
  <2>2. /\ cut.kind = "response"
        /\ cut.of = e[k].of
        /\ cut.calls = {p \in e[k].calls : <<e[k].of, p>> \in results}
        /\ cut = [e[k] EXCEPT !.calls = {p \in e[k].calls : <<e[k].of, p>> \in results}]
    BY <1>1, <1>4, KeptEntry DEF KeepUses, HasIds, Is
  <2> HIDE DEF cut
  <2>3. e[k] \in [kind: {"response"}, of: Nat, ids: BOOLEAN, calls: SUBSET Nat, text: BOOLEAN]
    BY <1>1, <1>4 DEF Entry
  <2>4. ASSUME e[k].calls = {}
        PROVE  cut = e[k]
    <3>1. {p \in e[k].calls : <<e[k].of, p>> \in results} = e[k].calls
      BY <2>4
    <3>2. QED
      BY <2>2, <2>3, <3>1
  <2>5. ASSUME e[k].calls # {}
        PROVE  j + 1 \in 1 .. Len(s) /\ Answering(s[j], s[j + 1])
    <3>1. Asks(e[k])
      BY <1>4, <2>5 DEF Asks
    <3>2. Asks(s[j])
      BY <1>1, <3>1
    <3>3. QED
      BY <1>1, <3>2 DEF Exchanges, Settled
  <2>6. ASSUME e[k].calls # {}, Reached(g, Len(e), j + 1)
        PROVE  cut = e[k]
    <3>1. PICK q \in 1 .. Len(e) : g[q] = j + 1
      BY <2>6 DEF Reached
    <3>2. /\ e[q].kind = "answers" /\ e[q].ids /\ e[q].of = e[k].of
          /\ {a[1] : a \in e[q].answers} = e[k].calls
      BY <1>1, <1>4, <2>5, <2>6, <3>1 DEF Answering
    <3>3. \A p \in e[k].calls : <<e[k].of, p>> \in results
      BY <1>2, <3>2, SMTT(60)
    <3>4. {p \in e[k].calls : <<e[k].of, p>> \in results} = e[k].calls
      BY <3>3
    <3>5. QED
      BY <2>2, <2>3, <3>4
  <2>7. ASSUME e[k].calls # {}, ~Reached(g, Len(e), j + 1)
        PROVE  cut.calls = {}
    <3>1. ASSUME NEW p \in e[k].calls, <<e[k].of, p>> \in results
          PROVE  FALSE
      <4>1. PICK q \in 1 .. Len(e) : Tells(e[q]) /\ e[q].of = e[k].of
        BY <1>2, <3>1 DEF Tells
      <4>2. Tells(s[g[q]]) /\ Tells(s[j + 1]) /\ s[j + 1].of = s[g[q]].of
        BY <1>1, <1>4, <2>5, <2>7, <4>1 DEF Answering, Tells
      <4>3. g[q] = j + 1
        BY <1>1, <2>5, <2>7, <4>2, AnswersTold
      <4>4. QED
        BY <2>7, <4>3 DEF Reached
    <3>2. QED
      BY <2>2, <3>1
  <2>8. QED
    BY <2>2, <2>4, <2>6, <2>7
<1>5. QED
  BY <1>3, <1>4 DEF j, results, Asks


(* Without the orphaned results: messages of s, the answers among them     *)
(* next to their response.                                                 *)
LEMMA ResultsRepaired ==
  ASSUME NEW s \in Seq(Entry), NEW n, Exchanges(s, n),
         NEW e \in Seq(Entry), NEW g, Drawn(e, s, g)
  PROVE  LET r == WithoutOrphanedResults(e, ToolUseIds(e))
         IN /\ r \in Seq(Entry)
            /\ \E h :
                 /\ Drawn(r, s, h)
                 /\ \A i \in 1 .. Len(r) : Reached(g, Len(e), h[i])
                 /\ \A i \in 1 .. Len(r) :
                      Tells(r[i]) => Reached(h, Len(r), h[i] - 1)
                 /\ \A j \in 1 .. Len(s) :
                      /\ Reached(g, Len(e), j)
                      /\ Tells(s[j]) => Reached(g, Len(e), j - 1)
                      => Reached(h, Len(r), j)
<1> DEFINE uses == ToolUseIds(e)
           cut == [k \in DOMAIN e |-> KeepResults(e[k], uses)]
           r == NonEmpty(cut)
<1>1. WithoutOrphanedResults(e, uses) = r
  BY DEF WithoutOrphanedResults
<1>2. cut \in Seq(Entry) /\ Len(cut) = Len(e)
  <2>1. DOMAIN e = 1 .. Len(e) /\ Len(e) \in Nat
    OBVIOUS
  <2>2. \A k \in 1 .. Len(e) : e[k] \in Entry /\ cut[k] = KeepResults(e[k], uses)
    BY <2>1
  <2>3. cut \in [1 .. Len(e) -> Entry]
    BY <2>1, <2>2, KeptEntry
  <2> HIDE DEF cut
  <2>4. QED
    BY <2>1, <2>3
<1>3. \A k \in 1 .. Len(e) : e[k] = s[g[k]] /\ g[k] \in 1 .. Len(s) /\ ~IsEmpty(e[k])
  BY DEF Drawn, Ascending, Exchanges
<1>4. \A k \in 1 .. Len(e) :
        /\ ~Tells(e[k]) => cut[k] = e[k]
        /\ Tells(e[k]) /\ Reached(g, Len(e), g[k] - 1) => cut[k] = e[k]
        /\ Tells(e[k]) /\ ~Reached(g, Len(e), g[k] - 1) => IsEmpty(cut[k])
  <2>1. TAKE k \in 1 .. Len(e)
  <2>2. cut[k] = KeepResults(e[k], ToolUseIds(e))
    OBVIOUS
  <2> HIDE DEF cut
  <2>3. QED
    BY <2>2, ResultsKept
<1> HIDE DEF uses, cut
<1>5. PICK f :
        /\ Ascending(f, Len(r), Len(cut))
        /\ \A i \in 1 .. Len(r) : r[i] = cut[f[i]] /\ ~IsEmpty(cut[f[i]])
        /\ \A j \in 1 .. Len(cut) : ~IsEmpty(cut[j]) => Reached(f, Len(r), j)
  BY <1>2, NonEmptyPlaces
<1>6. r \in Seq(Entry)
  BY <1>2, NonEmptyPlaces
<1> HIDE DEF r
<1> DEFINE h == [i \in 1 .. Len(r) |-> g[f[i]]]
<1>7. Ascending(h, Len(r), Len(s))
  <2>1. Len(r) \in Nat /\ Len(e) \in Nat /\ Len(s) \in Nat
    BY <1>6
  <2>2. Ascending(f, Len(r), Len(e)) /\ Ascending(g, Len(e), Len(s))
    BY <1>2, <1>5 DEF Drawn
  <2>3. QED
    BY <2>1, <2>2, AscendingTwice
<1>8. \A i \in 1 .. Len(r) :
        /\ f[i] \in 1 .. Len(e) /\ h[i] = g[f[i]]
        /\ r[i] = e[f[i]]
        /\ Tells(r[i]) => Reached(g, Len(e), h[i] - 1)
  <2>1. TAKE i \in 1 .. Len(r)
  <2>2. f[i] \in 1 .. Len(e) /\ h[i] = g[f[i]]
    BY <1>2, <1>5 DEF Ascending
  <2>3. r[i] = cut[f[i]] /\ ~IsEmpty(cut[f[i]])
    BY <1>5
  <2>4. r[i] = e[f[i]]
    BY <1>4, <2>2, <2>3
  <2>5. Tells(e[f[i]]) => Reached(g, Len(e), g[f[i]] - 1)
    BY <1>4, <2>2, <2>3
  <2>6. QED
    BY <2>2, <2>4, <2>5
<1>9. \A k \in 1 .. Len(e) :
        (Tells(e[k]) => Reached(g, Len(e), g[k] - 1)) => Reached(h, Len(r), g[k])
  <2>1. SUFFICES ASSUME NEW k \in 1 .. Len(e),
                        Tells(e[k]) => Reached(g, Len(e), g[k] - 1)
                 PROVE  Reached(h, Len(r), g[k])
    OBVIOUS
  <2>2. Reached(f, Len(r), k)
    BY <1>2, <1>3, <1>4, <1>5, <2>1
  <2>3. QED
    BY <1>8, <2>2 DEF Reached
<1> HIDE DEF h
<1>10. Drawn(r, s, h)
  BY <1>3, <1>7, <1>8 DEF Drawn
<1>11. \A i \in 1 .. Len(r) : Reached(g, Len(e), h[i])
  BY <1>8 DEF Reached
<1>12. ASSUME NEW j \in 1 .. Len(s), Reached(g, Len(e), j),
              Tells(s[j]) => Reached(g, Len(e), j - 1)
       PROVE  Reached(h, Len(r), j)
  <2>1. PICK k \in 1 .. Len(e) : g[k] = j
    BY <1>12 DEF Reached
  <2>2. QED
    BY <1>3, <1>9, <1>12, <2>1
<1>13. ASSUME NEW i \in 1 .. Len(r), Tells(r[i])
       PROVE  Reached(h, Len(r), h[i] - 1)
  <2>1. Reached(g, Len(e), h[i] - 1)
    BY <1>8, <1>13
  <2>2. h[i] \in 1 .. Len(s) /\ s[h[i]] = r[i]
    BY <1>3, <1>8
  <2>3. h[i] - 1 \in 1 .. Len(s) /\ ~Tells(s[h[i] - 1])
    BY <1>13, <2>2 DEF Exchanges, Answering, Tells
  <2>4. QED
    BY <1>12, <2>1, <2>3
<1>14. QED
  BY <1>1, <1>6, <1>10, <1>11, <1>12, <1>13 DEF uses

(* A repaired history pairs calls and answers again, whatever part of the  *)
(* old one it is made of.  What has no calls with ids stays, but for the   *)
(* answers whose response is gone.                                         *)
LEMMA RepairedPairs ==
  ASSUME NEW s \in Seq(Entry), NEW n, Exchanges(s, n), Settled(s),
         NEW e \in Seq(Entry), NEW g, Drawn(e, s, g)
  PROVE  LET t == Repaired(e)
         IN /\ t \in Seq(Entry)
            /\ Exchanges(t, n)
            /\ Settled(t)
            /\ \E h :
                 /\ Ascending(h, Len(t), Len(s))
                 /\ \A i \in 1 .. Len(t) :
                      /\ t[i].kind = s[h[i]].kind /\ Reached(g, Len(e), h[i])
                      /\ t[i].kind = "answers" => t[i] = s[h[i]]
                 /\ \A j \in 1 .. Len(s) :
                      /\ Reached(g, Len(e), j)
                      /\ Tells(s[j]) => Reached(g, Len(e), j - 1)
                      /\ ~Asks(s[j])
                      => Reached(h, Len(t), j)
<1> DEFINE r == WithoutOrphanedResults(e, ToolUseIds(e))
           results == ToolResultIds(r)
           cut == [k \in DOMAIN r |-> KeepUses(r[k], results)]
           t == NonEmpty(cut)
<1>1. Repaired(e) = t
  BY DEF Repaired, WithoutOrphanedUses
<1>2. r \in Seq(Entry)
  BY ResultsRepaired
<1>3. PICK d : /\ Drawn(r, s, d)
               /\ \A i \in 1 .. Len(r) : Reached(g, Len(e), d[i])
               /\ \A i \in 1 .. Len(r) : Tells(r[i]) => Reached(d, Len(r), d[i] - 1)
               /\ \A j \in 1 .. Len(s) :
                    /\ Reached(g, Len(e), j)
                    /\ Tells(s[j]) => Reached(g, Len(e), j - 1)
                    => Reached(d, Len(r), j)
  BY ResultsRepaired
<1> HIDE DEF r
<1>4. cut \in Seq(Entry) /\ Len(cut) = Len(r)
  <2>1. DOMAIN r = 1 .. Len(r) /\ Len(r) \in Nat
    BY <1>2
  <2>2. \A k \in 1 .. Len(r) : r[k] \in Entry /\ cut[k] = KeepUses(r[k], results)
    BY <1>2, <2>1
  <2>3. cut \in [1 .. Len(r) -> Entry]
    BY <2>1, <2>2, KeptEntry
  <2> HIDE DEF cut
  <2>4. QED
    BY <2>1, <2>3
<1>5. \A k \in 1 .. Len(r) : r[k] = s[d[k]] /\ d[k] \in 1 .. Len(s) /\ ~IsEmpty(r[k])
  BY <1>3 DEF Drawn, Ascending, Exchanges
<1>6. \A k \in 1 .. Len(r) :
        /\ ~Asks(r[k]) => cut[k] = r[k]
        /\ Asks(r[k]) /\ Reached(d, Len(r), d[k] + 1) => cut[k] = r[k]
        /\ Asks(r[k]) /\ ~Reached(d, Len(r), d[k] + 1) =>
             cut[k].kind = "response" /\ cut[k].of = r[k].of /\ ~Asks(cut[k])
  <2>1. TAKE k \in 1 .. Len(r)
  <2>2. cut[k] = KeepUses(r[k], ToolResultIds(r))
    BY <1>2
  <2> HIDE DEF cut
  <2>3. QED
    BY <1>2, <1>3, <2>2, UsesKept
<1> HIDE DEF results, cut
<1>7. /\ \A k \in 1 .. Len(r) : cut[k].kind = r[k].kind
      /\ \A k \in 1 .. Len(r) : r[k].kind = "response" => cut[k].of = r[k].of
      /\ \A k \in 1 .. Len(r) : r[k].kind # "response" => cut[k] = r[k]
      /\ \A k \in 1 .. Len(r) : Asks(cut[k]) => cut[k] = r[k] /\ Reached(d, Len(r), d[k] + 1)
  BY <1>6 DEF Asks
<1>8. t \in Seq(Entry)
  BY <1>4, NonEmptyPlaces
<1>9. PICK f :
        /\ Ascending(f, Len(t), Len(cut))
        /\ \A i \in 1 .. Len(t) : t[i] = cut[f[i]] /\ ~IsEmpty(cut[f[i]])
        /\ \A j \in 1 .. Len(cut) : ~IsEmpty(cut[j]) => Reached(f, Len(t), j)
  BY <1>4, NonEmptyPlaces
<1> HIDE DEF t
<1>10. Len(t) \in Nat /\ Len(r) \in Nat /\ Len(s) \in Nat /\ Len(e) \in Nat
  BY <1>2, <1>8
<1>11. Ascending(f, Len(t), Len(r)) /\ Ascending(d, Len(r), Len(s))
  BY <1>3, <1>4, <1>9 DEF Drawn
<1>12. \A i \in 1 .. Len(t) : f[i] \in 1 .. Len(r) /\ t[i] = cut[f[i]] /\ ~IsEmpty(t[i])
  BY <1>9, <1>11 DEF Ascending
<1>13. ASSUME NEW i \in 1 .. Len(t), Asks(t[i])
       PROVE  i + 1 \in 1 .. Len(t) /\ Answering(t[i], t[i + 1])
  <2> DEFINE k == f[i]
  <2>1. k \in 1 .. Len(r) /\ t[i] = r[k] /\ Reached(d, Len(r), d[k] + 1)
    BY <1>7, <1>12, <1>13
  <2> HIDE DEF k
  <2>2. PICK q \in 1 .. Len(r) : d[q] = d[k] + 1
    BY <2>1 DEF Reached
  <2>3. q = k + 1
    BY <1>10, <1>11, <2>1, <2>2, AscendingNext
  <2>4. Answering(r[k], r[q])
    <3>1. r[k] = s[d[k]] /\ r[q] = s[d[k] + 1] /\ d[k] \in 1 .. Len(s) /\ d[k] + 1 \in 1 .. Len(s)
      BY <1>5, <2>1, <2>2
    <3>2. QED
      BY <1>10, <1>13, <2>1, <3>1 DEF Exchanges
  <2>5. cut[q] = r[q] /\ ~IsEmpty(cut[q])
    BY <1>5, <1>7, <2>4 DEF Answering
  <2>6. PICK p \in 1 .. Len(t) : f[p] = q
    BY <1>4, <1>9, <2>5 DEF Reached
  <2>7. f[p] = f[i] + 1
    BY <2>3, <2>6 DEF k
  <2>8. p = i + 1
    BY <1>10, <1>11, <2>7, AscendingNext
  <2>9. t[p] = r[q]
    BY <1>12, <2>5, <2>6
  <2>10. QED
    BY <2>1, <2>4, <2>6, <2>8, <2>9
<1>14. ASSUME NEW i \in 1 .. Len(t), Tells(t[i])
       PROVE  i > 1 /\ Answering(t[i - 1], t[i])
  <2> DEFINE k == f[i]
  <2>1. k \in 1 .. Len(r) /\ t[i] = r[k] /\ Tells(r[k])
    <3>1. k \in 1 .. Len(r) /\ t[i] = cut[k] /\ cut[k].kind # "response"
      BY <1>12, <1>14 DEF Tells
    <3>2. cut[k] = r[k]
      BY <1>7, <3>1
    <3>3. QED
      BY <1>14, <3>1, <3>2
  <2> HIDE DEF k
  <2>2. PICK q \in 1 .. Len(r) : d[q] = d[k] - 1
    BY <1>3, <2>1 DEF Reached
  <2>3. d[k] = d[q] + 1
    BY <1>5, <2>1, <2>2
  <2>4. k = q + 1
    BY <1>10, <1>11, <2>1, <2>3, AscendingNext
  <2>5. Answering(r[q], r[k])
    <3>1. r[k] = s[d[k]] /\ r[q] = s[d[k] - 1] /\ d[k] \in 1 .. Len(s)
      BY <1>5, <2>1, <2>2
    <3>2. QED
      BY <2>1, <3>1 DEF Exchanges
  <2>6. cut[q] = r[q] /\ ~IsEmpty(cut[q])
    <3>1. Reached(d, Len(r), d[q] + 1)
      BY <2>1, <2>3 DEF Reached
    <3>2. QED
      BY <1>5, <1>6, <3>1
  <2>7. PICK p \in 1 .. Len(t) : f[p] = q
    BY <1>4, <1>9, <2>6 DEF Reached
  <2>8. f[i] = f[p] + 1
    BY <2>4, <2>7 DEF k
  <2>9. i = p + 1
    BY <1>10, <1>11, <2>8, AscendingNext
  <2>10. t[p] = r[q]
    BY <1>12, <2>6, <2>7
  <2>11. QED
    BY <2>1, <2>5, <2>7, <2>9, <2>10
<1>15. ASSUME NEW i \in 1 .. Len(t), NEW j \in 1 .. Len(t),
              t[i].kind = "response", t[j].kind = "response", t[i].of = t[j].of
       PROVE  i = j
  <2>1. /\ f[i] \in 1 .. Len(r) /\ f[j] \in 1 .. Len(r)
        /\ r[f[i]].kind = "response" /\ r[f[j]].kind = "response" /\ r[f[i]].of = r[f[j]].of
    BY <1>7, <1>12, <1>15
  <2>2. d[f[i]] = d[f[j]]
    <3>1. /\ d[f[i]] \in 1 .. Len(s) /\ d[f[j]] \in 1 .. Len(s)
          /\ r[f[i]] = s[d[f[i]]] /\ r[f[j]] = s[d[f[j]]]
      BY <1>5, <2>1
    <3>2. QED
      BY <2>1, <3>1 DEF Exchanges
  <2>3. ~(f[i] < f[j]) /\ ~(f[j] < f[i])
    BY <1>5, <1>11, <2>1, <2>2 DEF Ascending
  <2>4. f[i] = f[j]
    BY <1>10, <2>1, <2>3
  <2>5. ~(i < j) /\ ~(j < i)
    <3>1. ~(f[i] < f[i])
      BY <2>1
    <3>2. QED
      BY <1>11, <2>4, <3>1 DEF Ascending
  <2>6. QED
    BY <1>10, <2>5
<1>16. ASSUME NEW i \in 1 .. Len(t), t[i].kind = "response"
       PROVE  t[i].of \in 1 .. n
  <2>1. f[i] \in 1 .. Len(r) /\ r[f[i]].kind = "response" /\ t[i].of = r[f[i]].of
    BY <1>7, <1>12, <1>16
  <2>2. d[f[i]] \in 1 .. Len(s) /\ r[f[i]] = s[d[f[i]]]
    BY <1>5, <2>1
  <2>3. QED
    BY <2>1, <2>2 DEF Exchanges
<1>17. Exchanges(t, n)
  BY <1>10, <1>12, <1>13, <1>14, <1>15, <1>16 DEF Exchanges
<1>18. Settled(t)
  BY <1>10, <1>13 DEF Settled
<1> DEFINE h == [i \in 1 .. Len(t) |-> d[f[i]]]
<1>19. Ascending(h, Len(t), Len(s))
  BY <1>10, <1>11, AscendingTwice
<1>20. \A i \in 1 .. Len(t) :
         /\ t[i].kind = s[h[i]].kind /\ Reached(g, Len(e), h[i])
         /\ t[i].kind = "answers" => t[i] = s[h[i]]
  <2>1. TAKE i \in 1 .. Len(t)
  <2>2. f[i] \in 1 .. Len(r) /\ t[i] = cut[f[i]] /\ h[i] = d[f[i]]
    BY <1>12
  <2>3. r[f[i]] = s[h[i]] /\ Reached(g, Len(e), h[i])
    BY <1>3, <1>5, <2>2
  <2>4. cut[f[i]].kind = r[f[i]].kind /\ (r[f[i]].kind # "response" => cut[f[i]] = r[f[i]])
    BY <1>7, <2>2
  <2>5. QED
    BY <2>2, <2>3, <2>4
<1>21. ASSUME NEW j \in 1 .. Len(s), Reached(g, Len(e), j),
              Tells(s[j]) => Reached(g, Len(e), j - 1), ~Asks(s[j])
       PROVE  Reached(h, Len(t), j)
  <2>1. PICK k \in 1 .. Len(r) : d[k] = j
    BY <1>3, <1>21 DEF Reached
  <2>2. cut[k] = r[k] /\ ~IsEmpty(cut[k])
    BY <1>5, <1>6, <1>21, <2>1
  <2>3. PICK i \in 1 .. Len(t) : f[i] = k
    BY <1>4, <1>9, <2>2 DEF Reached
  <2>4. h[i] = j
    BY <2>1, <2>3
  <2>5. QED
    BY <2>4 DEF Reached
<1> HIDE DEF h
<1>22. QED
  BY <1>1, <1>8, <1>17, <1>18, <1>19, <1>20, <1>21

(* Both ends of a history keep their order.                                *)
LEMMA EndsDrawn ==
  ASSUME NEW s \in Seq(Entry), NEW n \in 0 .. Len(s), NEW recent \in 0 .. Len(s) - n
  PROVE  LET e == Ends(s, n, recent)
         IN /\ e \in Seq(Entry)
            /\ \E g : /\ Drawn(e, s, g)
                      /\ \A j \in 1 .. Len(s) :
                           Reached(g, Len(e), j) <=> j <= n \/ j > Len(s) - recent
<1> DEFINE l == Len(s)
           front == SubSeq(s, 1, n)
           back == SubSeq(s, l - recent + 1, l)
           e == front \o back
           g == [i \in 1 .. n + recent |-> IF i <= n THEN i ELSE l - recent - n + i]
<1>1. /\ front \in Seq(Entry) /\ Len(front) = n
      /\ \A i \in 1 .. n : front[i] = s[i]
  OBVIOUS
<1>2. /\ back \in Seq(Entry) /\ Len(back) = recent
      /\ \A i \in 1 .. recent : back[i] = s[l - recent + i]
  OBVIOUS
<1>3. Ends(s, n, recent) = e
  BY DEF Ends
<1> HIDE DEF front, back
<1>4. /\ e \in Seq(Entry) /\ Len(e) = Len(front) + Len(back)
      /\ \A i \in 1 .. Len(front) : e[i] = front[i]
      /\ \A i \in 1 .. Len(e) : i \notin 1 .. Len(front) =>
           i - Len(front) \in 1 .. Len(back) /\ e[i] = back[i - Len(front)]
  <2>1. front \in Seq(Entry) /\ back \in Seq(Entry)
    BY <1>1, <1>2
  <2>2. QED
    BY <2>1, ConcatElements
<1> HIDE DEF e
<1>5. l \in Nat /\ n \in Nat /\ recent \in Nat /\ n + recent <= l /\ Len(e) = n + recent
  BY <1>1, <1>2, <1>4
<1> HIDE DEF l
<1>6. \A i \in 1 .. n + recent : g[i] \in 1 .. l
  BY <1>5
<1>7. \A i, j \in 1 .. n + recent : i < j => g[i] < g[j]
  BY <1>5
<1>8. Ascending(g, Len(e), l)
  BY <1>5, <1>6, <1>7 DEF Ascending
<1>9. ASSUME NEW i \in 1 .. n + recent
      PROVE  e[i] = s[g[i]]
  <2>1. CASE i <= n
    BY <1>1, <1>4, <1>5, <2>1
  <2>2. CASE ~(i <= n)
    <3>1. i - n \in 1 .. recent /\ e[i] = back[i - n]
      BY <1>1, <1>2, <1>4, <1>5, <2>2
    <3>2. e[i] = s[l - recent + (i - n)]
      BY <1>2, <3>1 DEF l
    <3>3. l - recent + (i - n) = g[i]
      BY <1>5, <2>2
    <3>4. QED
      BY <3>2, <3>3
  <2>3. QED
    BY <2>1, <2>2
<1>10. ASSUME NEW j \in 1 .. l
       PROVE  Reached(g, Len(e), j) <=> j <= n \/ j > l - recent
  <2>1. ASSUME NEW i \in 1 .. n + recent, g[i] = j
        PROVE  j <= n \/ j > l - recent
    BY <1>5, <2>1
  <2>2. ASSUME j <= n
        PROVE  j \in 1 .. n + recent /\ g[j] = j
    BY <1>5, <2>2
  <2>3. ASSUME ~(j <= n), j > l - recent
        PROVE  \E i \in 1 .. n + recent : g[i] = j
    <3>1. j - (l - recent - n) \in 1 .. n + recent /\ ~(j - (l - recent - n) <= n)
      BY <1>5, <2>3
    <3>2. g[j - (l - recent - n)] = j
      BY <1>5, <3>1
    <3>3. QED
      BY <3>1, <3>2
  <2>4. QED
    BY <1>5, <2>1, <2>2, <2>3 DEF Reached
<1> HIDE DEF g
<1>11. Drawn(e, s, g)
  BY <1>5, <1>8, <1>9 DEF Drawn, l
<1>12. QED
  BY <1>3, <1>4, <1>10, <1>11 DEF l

(* The history of an agent with a system prompt: the prompts come first,   *)
(* and nothing but answers come last once all is answered.                 *)
Headed(s) == Len(s) >= 2 /\ s[1].kind = "system" /\ s[2].kind = "prompt"

EndsAnswered(s) ==
  Len(s) > 2 => s[Len(s)].kind = "answers" /\ ~Tells(s[Len(s) - 1])

(* The first places that are reached come first.                           *)
LEMMA HeadReached ==
  ASSUME NEW l \in Nat, NEW m \in Nat, NEW g, Ascending(g, l, m),
         Reached(g, l, 1), Reached(g, l, 2)
  PROVE  l >= 2 /\ g[1] = 1 /\ g[2] = 2
<1>1. PICK i \in 1 .. l : g[i] = 1
  BY DEF Reached
<1>2. PICK j \in 1 .. l : g[j] = 2
  BY DEF Reached
<1>3. j = i + 1
  BY <1>1, <1>2, AscendingNext
<1>4. i = 1
  <2>1. SUFFICES ASSUME i # 1 PROVE FALSE
    OBVIOUS
  <2>2. 1 \in 1 .. l /\ 1 < i
    BY <2>1
  <2>3. g[1] < g[i] /\ g[1] \in 1 .. m
    BY <2>2 DEF Ascending
  <2>4. QED
    BY <1>1, <2>3
<1>5. QED
  BY <1>1, <1>2, <1>3, <1>4

(* A truncation keeps the pairs, the prompts and the answers at the end.   *)
LEMMA TruncationPairs ==
  ASSUME NEW n, messages \in Seq(Entry), Exchanges(messages, n), Settled(messages),
         TruncateContext
  PROVE  /\ messages' \in Seq(Entry)
         /\ Exchanges(messages', n)
         /\ Settled(messages')
         /\ Headed(messages) /\ EndsAnswered(messages) =>
              Headed(messages') /\ EndsAnswered(messages')
<1> DEFINE s == messages
           l == Len(s)
           first == IF 2 <= l THEN 2 ELSE l
           t == messages'
<1>1. l \in Nat /\ first \in 0 .. l
  OBVIOUS
<1>2. PICK recent \in 0 .. l - first : t = Repaired(Ends(s, first, recent))
  BY DEF TruncateContext, CompressTo, TruncatedByTokens
<1>3. first <= 2 /\ (l >= 2 => first = 2)
  BY <1>1
<1> DEFINE e == Ends(s, first, recent)
<1> HIDE DEF first
<1>4. PICK g : /\ Drawn(e, s, g)
               /\ \A j \in 1 .. l : Reached(g, Len(e), j) <=> j <= first \/ j > l - recent
  BY <1>1, EndsDrawn
<1>5. e \in Seq(Entry)
  BY <1>1, EndsDrawn
<1> HIDE DEF e
<1>6. t \in Seq(Entry) /\ Exchanges(t, n) /\ Settled(t)
  BY <1>2, <1>4, <1>5, RepairedPairs DEF e
<1>7. PICK h : /\ Ascending(h, Len(t), l)
               /\ \A i \in 1 .. Len(t) :
                    /\ t[i].kind = s[h[i]].kind /\ Reached(g, Len(e), h[i])
                    /\ t[i].kind = "answers" => t[i] = s[h[i]]
               /\ \A j \in 1 .. l :
                    /\ Reached(g, Len(e), j)
                    /\ Tells(s[j]) => Reached(g, Len(e), j - 1)
                    /\ ~Asks(s[j])
                    => Reached(h, Len(t), j)
  BY <1>2, <1>4, <1>5, RepairedPairs DEF e
<1> HIDE DEF l, s, t
<1>8. Len(t) \in Nat
  BY <1>6
<1>9. ASSUME Headed(s), EndsAnswered(s)
      PROVE  Headed(t) /\ EndsAnswered(t)
  <2>1. l >= 2 /\ first = 2 /\ s[1].kind = "system" /\ s[2].kind = "prompt"
        /\ 1 \in 1 .. l /\ 2 \in 1 .. l
    BY <1>1, <1>3, <1>9 DEF Headed, l
  <2>2. Reached(h, Len(t), 1) /\ Reached(h, Len(t), 2)
    BY <1>4, <1>7, <2>1 DEF Tells, Asks
  <2>3. Len(t) >= 2 /\ h[1] = 1 /\ h[2] = 2
    BY <1>1, <1>7, <1>8, <2>2, HeadReached
  <2>4. Headed(t)
    BY <1>7, <1>8, <2>1, <2>3 DEF Headed
  <2>5. ASSUME Len(t) > 2
        PROVE  t[Len(t)].kind = "answers" /\ ~Tells(t[Len(t) - 1])
    <3>1. \A i \in 1 .. Len(t) : i > 2 => h[i] \in 1 .. l /\ h[i] > 2 /\ h[i] > l - recent
      <4>1. ASSUME NEW i \in 1 .. Len(t), i > 2
            PROVE  h[i] \in 1 .. l /\ h[i] > 2
        BY <1>7, <1>8, <2>3, <4>1 DEF Ascending
      <4>2. QED
        BY <1>4, <1>7, <2>1, <4>1
    <3> DEFINE last == h[Len(t)]
    <3>2. last \in 1 .. l /\ last > 2 /\ last > l - recent /\ t[Len(t)].kind = s[last].kind
      BY <1>7, <1>8, <2>5, <3>1
    <3> HIDE DEF last
    <3>3. l > 2 /\ s[l].kind = "answers" /\ ~Tells(s[l - 1])
      BY <1>1, <1>9, <3>2 DEF EndsAnswered, l
    <3>4. \A j \in 1 .. l : j > l - recent => Reached(g, Len(e), j)
      BY <1>4
    <3>5. last = l
      <4>1. SUFFICES ASSUME last < l PROVE FALSE
        BY <1>1, <3>2
      <4>2. l \in 1 .. l /\ l - 1 \in 1 .. l /\ l > l - recent /\ l - 1 > l - recent
        BY <1>1, <3>2, <4>1
      <4>3. Reached(g, Len(e), l) /\ Reached(g, Len(e), l - 1) /\ ~Asks(s[l])
        BY <3>3, <3>4, <4>2 DEF Asks
      <4>4. PICK i \in 1 .. Len(t) : h[i] = l
        BY <1>7, <4>2, <4>3 DEF Reached
      <4>5. i = Len(t) \/ h[i] < h[Len(t)]
        BY <1>7, <1>8 DEF Ascending
      <4>6. QED
        BY <1>1, <3>2, <4>1, <4>4, <4>5 DEF last
    <3>6. t[Len(t)].kind = "answers"
      BY <3>2, <3>3, <3>5
    <3>7. ASSUME Tells(t[Len(t) - 1])
          PROVE  FALSE
      <4> DEFINE q == h[Len(t) - 1]
      <4>1. /\ Len(t) - 1 \in 1 .. Len(t) /\ q < l /\ q \in 1 .. l
            /\ t[Len(t) - 1].kind = s[q].kind
        BY <1>7, <1>8, <2>5, <3>5 DEF Ascending, last
      <4>2. Len(t) - 1 > 2 /\ q > l - recent
        <5>1. Len(t) # 3
          <6>1. SUFFICES ASSUME Len(t) = 3 PROVE FALSE
            OBVIOUS
          <6>2. t[2].kind = "answers"
            BY <3>7, <6>1 DEF Tells
          <6>3. QED
            BY <2>4, <6>2 DEF Headed
        <5>2. Len(t) - 1 > 2
          <6>1. Len(t) \in Nat /\ Len(t) > 2 /\ Len(t) # 3
            BY <1>8, <2>5, <5>1
          <6>2. \A x \in Nat : x > 2 /\ x # 3 => x - 1 > 2
            OBVIOUS
          <6>3. QED
            BY <6>1, <6>2
        <5>3. QED
          BY <3>1, <4>1, <5>2
      <4> HIDE DEF q
      <4>3. s[q].kind = "answers"
        BY <3>7, <4>1 DEF Tells
      <4>4. CASE q = l - 1
        <5>1. s[l - 1].kind = "answers" /\ ~Tells(s[l - 1])
          BY <3>3, <4>3, <4>4
        <5>2. t[Len(t) - 1].ids = s[q].ids
          BY <1>7, <4>1, <4>3 DEF q
        <5>3. QED
          BY <3>7, <4>4, <5>1, <5>2 DEF Tells
      <4>5. CASE q # l - 1
        <5>1. q < l - 1 /\ l - 1 \in 1 .. l /\ Reached(g, Len(e), l - 1)
          BY <1>1, <3>3, <3>4, <4>1, <4>2, <4>5
        <5>2. ~Asks(s[l - 1])
          <6>1. SUFFICES ASSUME Asks(s[l - 1]) PROVE FALSE
            OBVIOUS
          <6>2. Answering(s[l - 1], s[(l - 1) + 1]) /\ (l - 1) + 1 = l
            <7>1. l - 1 \in 1 .. Len(s) /\ l - 1 < Len(s) /\ l \in Nat /\ (l - 1) + 1 = l
              BY <1>1, <3>3, <5>1 DEF l
            <7>2. \A k \in 1 .. Len(s) : Asks(s[k]) /\ k < Len(s) => Answering(s[k], s[k + 1])
              BY DEF Exchanges, s
            <7>3. QED
              BY <6>1, <7>1, <7>2
          <6>3. Tells(s[l])
            BY <6>1, <6>2 DEF Answering, Tells, Asks
          <6>4. Tells(t[Len(t)])
            BY <1>7, <1>8, <2>5, <3>5, <3>6, <6>3 DEF last, Tells
          <6>5. Answering(t[Len(t) - 1], t[Len(t)])
            BY <1>6, <1>8, <2>5, <6>4 DEF Exchanges
          <6>6. QED
            BY <3>7, <6>5 DEF Answering, Tells
        <5>3. PICK i \in 1 .. Len(t) : h[i] = l - 1
          BY <1>7, <3>3, <5>1, <5>2 DEF Reached
        <5>4. i # Len(t) /\ i # Len(t) - 1
          BY <1>1, <3>5, <4>1, <5>1, <5>3 DEF last, q
        <5>5. i < Len(t) - 1
          BY <1>8, <5>4
        <5>6. h[i] < q
          BY <1>7, <4>1, <5>5 DEF Ascending, q
        <5>7. QED
          BY <1>1, <4>1, <5>1, <5>3, <5>6
      <4>6. QED
        BY <4>4, <4>5
    <3>8. QED
      BY <3>6, <3>7
  <2>6. QED
    BY <2>4, <2>5 DEF EndsAnswered
<1>10. QED
  BY <1>6, <1>9 DEF s, t

(* A summary between the prompts and the last answered response.           *)
LEMMA SummaryPairs ==
  ASSUME NEW n, messages \in Seq(Entry), Exchanges(messages, n), Settled(messages),
         Headed(messages), EndsAnswered(messages), SummarizeContext
  PROVE  /\ messages' \in Seq(Entry)
         /\ Exchanges(messages', n)
         /\ Settled(messages')
         /\ Headed(messages')
         /\ EndsAnswered(messages')
<1> DEFINE s == messages
           l == Len(s)
           front == SubSeq(s, 1, 2)
           back == SubSeq(s, l - 1, l)
           summary == Event("summary")
           t == messages'
<1>1. l \in Nat /\ l > 4 /\ t = front \o <<summary>> \o back
  BY DEF SummarizeContext, CompressTo
<1>2. /\ front \in Seq(Entry) /\ Len(front) = 2
      /\ front[1] = s[1] /\ front[2] = s[2]
      /\ back \in Seq(Entry) /\ Len(back) = 2
      /\ back[1] = s[l - 1] /\ back[2] = s[l]
  BY <1>1
<1>3. summary \in Entry /\ summary.kind = "summary"
  BY DEF Event, Entry
<1> HIDE DEF front, back, summary
<1>4. /\ t \in Seq(Entry) /\ Len(t) = 5
      /\ t[1] = s[1] /\ t[2] = s[2] /\ t[3] = summary
      /\ t[4] = s[l - 1] /\ t[5] = s[l]
  <2> DEFINE whole == front \o <<summary>> \o back
  <2>1. front \in Seq(Entry) /\ back \in Seq(Entry) /\ Len(front) = 2 /\ Len(back) = 2
        /\ summary \in Entry
    BY <1>2, <1>3
  <2>2. /\ whole \in Seq(Entry) /\ Len(whole) = 5
        /\ whole[1] = front[1] /\ whole[2] = front[2] /\ whole[3] = summary
        /\ whole[4] = back[1] /\ whole[5] = back[2]
    BY <2>1, Bridged
  <2> HIDE DEF whole
  <2>3. t = whole
    BY <1>1 DEF whole
  <2>4. QED
    BY <1>2, <2>2, <2>3
<1>5. {1, 2, l - 1, l} \subseteq 1 .. l
  BY <1>1
<1>6. /\ t[5].kind = "answers" /\ ~Tells(t[4])
      /\ Asks(t[4]) => Answering(t[4], t[5])
      /\ Tells(t[5]) => Answering(t[4], t[5])
  <2>1. s[l].kind = "answers" /\ ~Tells(s[l - 1])
    BY <1>1 DEF EndsAnswered
  <2>2. l - 1 \in 1 .. l /\ l \in 1 .. l /\ l - 1 < l /\ (l - 1) + 1 = l
    BY <1>1
  <2>3. Asks(s[l - 1]) => Answering(s[l - 1], s[l])
    <3>1. \A k \in 1 .. l : Asks(s[k]) /\ k < l => Answering(s[k], s[k + 1])
      BY DEF Exchanges
    <3>2. QED
      BY <2>2, <3>1
  <2>4. Tells(s[l]) => Answering(s[l - 1], s[l])
    BY <2>2 DEF Exchanges
  <2>5. QED
    BY <1>4, <2>1, <2>3, <2>4
<1>7. t[1].kind = "system" /\ t[2].kind = "prompt" /\ t[3].kind = "summary"
  BY <1>3, <1>4 DEF Headed
<1>8. t[4].kind = "response" => t[4].of \in 1 .. n
  BY <1>4, <1>5 DEF Exchanges
<1>9. ~IsEmpty(t[4]) /\ ~IsEmpty(t[5])
  BY <1>4, <1>5 DEF Exchanges
<1>10. ~IsEmpty(t[1]) /\ ~IsEmpty(t[2]) /\ ~IsEmpty(t[3])
  BY <1>7 DEF IsEmpty, Is
<1> HIDE DEF t
<1>11. \A k \in 1 .. Len(t) : k = 1 \/ k = 2 \/ k = 3 \/ k = 4 \/ k = 5
  BY <1>4
<1>12. ASSUME NEW k \in 1 .. Len(t)
       PROVE  /\ t[k].kind = "response" => k = 4
              /\ Tells(t[k]) => k = 5
              /\ ~IsEmpty(t[k])
  BY <1>6, <1>7, <1>9, <1>10, <1>11 DEF Tells
<1>13. Exchanges(t, n)
  <2>1. \A k \in 1 .. Len(t) : Asks(t[k]) => k = 4
    BY <1>12 DEF Asks
  <2>2. \A k \in 1 .. Len(t) : Asks(t[k]) => Answering(t[k], t[k + 1])
    BY <1>6, <2>1
  <2>3. \A k \in 1 .. Len(t) : Tells(t[k]) => k > 1 /\ Answering(t[k - 1], t[k])
    <3>1. TAKE k \in 1 .. Len(t)
    <3>2. HAVE Tells(t[k])
    <3>3. k = 5
      BY <1>12, <3>2
    <3>4. QED
      BY <1>6, <3>2, <3>3
  <2>4. QED
    BY <1>8, <1>12, <2>2, <2>3 DEF Exchanges
<1>14. Settled(t)
  <2>1. \A k \in 1 .. Len(t) : Asks(t[k]) => k = 4
    BY <1>12 DEF Asks
  <2>2. QED
    BY <1>4, <2>1 DEF Settled
<1>15. Headed(t) /\ EndsAnswered(t)
  BY <1>4, <1>6, <1>7 DEF Headed, EndsAnswered
<1>16. QED
  BY <1>4, <1>13, <1>14, <1>15 DEF t

(* A response and its answers enter the messages one after the other.      *)
LEMMA ResponseEnters ==
  ASSUME NEW s \in Seq(Entry), NEW n \in Nat, Exchanges(s, n), Settled(s),
         NEW m \in Entry, m.kind = "response", m.calls # {}, m.of = n + 1
  PROVE  Exchanges(Append(s, m), n + 1)
<1> DEFINE t == Append(s, m)
           l == Len(s)
<1>1. /\ l \in Nat /\ Len(t) = l + 1 /\ t[l + 1] = m
      /\ \A k \in 1 .. l : t[k] = s[k]
      /\ \A k \in 1 .. l + 1 : k \in 1 .. l \/ k = l + 1
  OBVIOUS
<1> HIDE DEF t, l
<1>2. m.kind = "response" /\ ~IsEmpty(m) /\ ~Tells(m)
  BY DEF IsEmpty, Is, Tells
<1>3. \A k \in 1 .. Len(t) : Asks(t[k]) /\ k < Len(t) => Answering(t[k], t[k + 1])
  <2>1. ASSUME NEW k \in 1 .. l, Asks(s[k])
        PROVE  k + 1 \in 1 .. l /\ Answering(s[k], s[k + 1])
    BY <1>1, <2>1 DEF Settled, Exchanges, l
  <2>2. QED
    BY <1>1, <2>1
<1>4. \A k \in 1 .. Len(t) : Tells(t[k]) => k > 1 /\ Answering(t[k - 1], t[k])
  <2>1. ASSUME NEW k \in 1 .. l, Tells(s[k])
        PROVE  k > 1 /\ k - 1 \in 1 .. l /\ Answering(s[k - 1], s[k])
    BY <1>1, <2>1 DEF Exchanges, l
  <2>2. QED
    BY <1>1, <1>2, <2>1
<1>5. \A j, k \in 1 .. Len(t) :
        t[j].kind = "response" /\ t[k].kind = "response" /\ t[j].of = t[k].of => j = k
  <2>1. \A k \in 1 .. l : s[k].kind = "response" => s[k].of \in 1 .. n /\ s[k].of # m.of
    BY DEF Exchanges, l
  <2>2. \A j, k \in 1 .. l :
          s[j].kind = "response" /\ s[k].kind = "response" /\ s[j].of = s[k].of => j = k
    BY DEF Exchanges, l
  <2>3. QED
    BY <1>1, <2>1, <2>2
<1>6. \A k \in 1 .. Len(t) : t[k].kind = "response" => t[k].of \in 1 .. n + 1
  BY <1>1 DEF Exchanges, l
<1>7. \A k \in 1 .. Len(t) : ~IsEmpty(t[k])
  BY <1>1, <1>2 DEF Exchanges, l
<1>8. QED
  BY <1>3, <1>4, <1>5, <1>6, <1>7 DEF Exchanges, t

LEMMA AnswersEnter ==
  ASSUME NEW s \in Seq(Entry), NEW n \in Nat, Exchanges(s, n), s # <<>>,
         NEW a \in Entry, Answering(s[Len(s)], a), s[Len(s)].calls # {}
  PROVE  Exchanges(Append(s, a), n) /\ Settled(Append(s, a)) /\ EndsAnswered(Append(s, a))
<1> DEFINE t == Append(s, a)
           l == Len(s)
<1>1. /\ l \in Nat /\ l > 0 /\ Len(t) = l + 1 /\ t[l + 1] = a
      /\ \A k \in 1 .. l : t[k] = s[k]
      /\ \A k \in 1 .. l + 1 : k \in 1 .. l \/ k = l + 1
  OBVIOUS
<1>2. a.kind = "answers" /\ a.answers # {} /\ Answering(s[l], a) /\ ~Tells(s[l])
  BY DEF Answering, Tells
<1> HIDE DEF t, l
<1>3. ~IsEmpty(a) /\ ~Asks(a)
  BY <1>2 DEF Asks, IsEmpty, Is
<1>4. \A k \in 1 .. Len(t) : Asks(t[k]) /\ k < Len(t) => Answering(t[k], t[k + 1])
  <2>1. ASSUME NEW k \in 1 .. l, Asks(s[k])
        PROVE  k = l \/ (k + 1 \in 1 .. l /\ Answering(s[k], s[k + 1]))
    <3>1. k = l \/ (k < l /\ k + 1 \in 1 .. l)
      BY <1>1
    <3>2. k < l => Answering(s[k], s[k + 1])
      BY <2>1 DEF Exchanges, l
    <3>3. QED
      BY <3>1, <3>2
  <2>2. TAKE k \in 1 .. Len(t)
  <2>3. HAVE Asks(t[k]) /\ k < Len(t)
  <2>4. k \in 1 .. l /\ t[k] = s[k]
    BY <1>1, <2>3
  <2>5. CASE k = l
    BY <1>1, <1>2, <2>4, <2>5
  <2>6. CASE k # l
    <3>1. k + 1 \in 1 .. l /\ Answering(s[k], s[k + 1])
      BY <2>1, <2>3, <2>4, <2>6
    <3>2. QED
      BY <1>1, <2>4, <3>1
  <2>7. QED
    BY <2>5, <2>6
<1>5. \A k \in 1 .. Len(t) : Tells(t[k]) => k > 1 /\ Answering(t[k - 1], t[k])
  <2>1. ASSUME NEW k \in 1 .. l, Tells(s[k])
        PROVE  k > 1 /\ k - 1 \in 1 .. l /\ Answering(s[k - 1], s[k])
    BY <1>1, <2>1 DEF Exchanges, l
  <2>2. QED
    BY <1>1, <1>2, <2>1
<1>6. \A j, k \in 1 .. Len(t) :
        t[j].kind = "response" /\ t[k].kind = "response" /\ t[j].of = t[k].of => j = k
  <2>1. \A j, k \in 1 .. l :
          s[j].kind = "response" /\ s[k].kind = "response" /\ s[j].of = s[k].of => j = k
    BY DEF Exchanges, l
  <2>2. QED
    BY <1>1, <1>2, <2>1
<1>7. \A k \in 1 .. Len(t) : t[k].kind = "response" => t[k].of \in 1 .. n
  BY <1>1, <1>2 DEF Exchanges, l
<1>8. \A k \in 1 .. Len(t) : ~IsEmpty(t[k])
  BY <1>1, <1>3 DEF Exchanges, l
<1>9. Exchanges(t, n)
  BY <1>4, <1>5, <1>6, <1>7, <1>8 DEF Exchanges
<1>10. Settled(t) /\ EndsAnswered(t)
  BY <1>1, <1>2, <1>3 DEF Settled, EndsAnswered
<1>11. QED
  BY <1>9, <1>10 DEF t

(* The messages while the task runs: pairs, after the response that is     *)
(* being answered; behind the prompts if there is a system prompt.         *)
PairInv ==
  pc # "ended" /\ (Compression = "summarize" => SystemPrompt) =>
    /\ Exchanges(messages, Len(responses))
    /\ SystemPrompt => Headed(messages)
    /\ IF pc \in Calling
       THEN /\ messages # <<>>
            /\ messages[Len(messages)] = Pushed(Len(responses), Last)
       ELSE /\ Settled(messages)
            /\ SystemPrompt => EndsAnswered(messages)

(* A stream starts with its prompts.                                       *)
LEMMA PromptsStart ==
  ASSUME Init
  PROVE  /\ pc = "top" /\ responses = <<>> /\ Len(responses) = 0
         /\ \A k \in 1 .. Len(messages) : messages[k].kind \in {"system", "prompt"}
         /\ SystemPrompt => Len(messages) = 2 /\ Headed(messages)
<1>1. /\ pc = "top" /\ responses = <<>> /\ Len(responses) = 0
      /\ messages = (IF SystemPrompt THEN <<Event("system")>> ELSE <<>>) \o <<Event("prompt")>>
  BY DEF Init
<1> DEFINE system == <<Event("system")>>
           prompt == <<Event("prompt")>>
<1>2. /\ system \in Seq(Entry) /\ Len(system) = 1 /\ system[1].kind = "system"
      /\ prompt \in Seq(Entry) /\ Len(prompt) = 1 /\ prompt[1].kind = "prompt"
  BY DEF Event, Entry
<1>3. /\ SystemPrompt => messages = system \o prompt
      /\ ~SystemPrompt => messages = prompt
  <2>1. <<>> \o prompt = prompt
    BY <1>2
  <2>2. QED
    BY <1>1, <2>1
<1> HIDE DEF system, prompt
<1>4. /\ \A k \in 1 .. Len(messages) : messages[k].kind \in {"system", "prompt"}
      /\ SystemPrompt => Len(messages) = 2 /\ Headed(messages)
  <2> DEFINE both == system \o prompt
  <2>1. /\ Len(both) = Len(system) + Len(prompt)
        /\ \A i \in 1 .. Len(system) : both[i] = system[i]
        /\ \A i \in 1 .. Len(both) : i \notin 1 .. Len(system) => both[i] = prompt[i - Len(system)]
    BY <1>2, ConcatElements
  <2> HIDE DEF both
  <2>2. Len(both) = 2 /\ both[1].kind = "system" /\ both[2].kind = "prompt"
    BY <1>2, <2>1
  <2>3. CASE SystemPrompt
    <3>1. Len(messages) = 2 /\ messages[1].kind = "system" /\ messages[2].kind = "prompt"
      BY <1>3, <2>2, <2>3 DEF both
    <3>2. \A k \in 1 .. Len(messages) : k = 1 \/ k = 2
      BY <3>1
    <3>3. \A k \in 1 .. Len(messages) : messages[k].kind \in {"system", "prompt"}
      BY <3>1, <3>2
    <3>4. QED
      BY <3>1, <3>3 DEF Headed
  <2>4. CASE ~SystemPrompt
    <3>1. Len(messages) = 1 /\ messages[1].kind = "prompt"
      BY <1>2, <1>3, <2>4
    <3>2. \A k \in 1 .. Len(messages) : k = 1
      BY <3>1
    <3>3. QED
      BY <2>4, <3>1, <3>2
  <2>5. QED
    BY <2>3, <2>4
<1>5. QED
  BY <1>1, <1>4

LEMMA PairsStart == Init => PairInv
<1> SUFFICES ASSUME Init PROVE PairInv
  OBVIOUS
<1>1. Exchanges(messages, 0) /\ Settled(messages)
  BY PromptsStart DEF Exchanges, Settled, Asks, Tells, IsEmpty, Is
<1>2. QED
  BY <1>1, PromptsStart DEF PairInv, Calling, EndsAnswered

(* Steps that leave the messages as they are.                              *)
LEMMA PairsKept ==
  ASSUME PairInv, UNCHANGED <<options, messages, responses>>,
         pc' = "ended" \/ (pc # "ended" /\ (pc' \in Calling <=> pc \in Calling))
  PROVE  PairInv'
BY DEF PairInv, Calling, Last, Compression, SystemPrompt

(* With the last call answered all of them are. *)
LEMMA AnswersComplete ==
  ASSUME NEW verdict, OpenCalls = {NextCall},
         answers \cup {<<NextCall, verdict>>} \subseteq StreamCalls(Last) \X Verdicts
  PROVE  {x[1] : x \in answers \cup {<<NextCall, verdict>>}} = StreamCalls(Last)
<1> DEFINE given == answers \cup {<<NextCall, verdict>>}
<1>1. {x[1] : x \in given} = {x[1] : x \in answers} \cup {NextCall}
  <2>1. \A x \in given : x \in answers \/ x[1] = NextCall
    OBVIOUS
  <2>2. answers \subseteq given /\ <<NextCall, verdict>> \in given
    OBVIOUS
  <2> HIDE DEF given
  <2>3. <<NextCall, verdict>>[1] = NextCall
    OBVIOUS
  <2>4. QED
    BY <2>1, <2>2, <2>3
<1>2. NextCall \in StreamCalls(Last) /\ {x[1] : x \in given} \subseteq StreamCalls(Last)
  <2>1. NextCall \in OpenCalls
    OBVIOUS
  <2>2. QED
    BY <2>1 DEF OpenCalls
<1>3. StreamCalls(Last) \subseteq {x[1] : x \in answers} \cup {NextCall}
  BY DEF OpenCalls
<1>4. QED
  BY <1>1, <1>2, <1>3

LEMMA PairsNext == Typed /\ PlaceInv /\ PairInv /\ [Next]_vars => PairInv'
<1> SUFFICES ASSUME Typed, PlaceInv, PairInv, [Next]_vars PROVE PairInv'
  OBVIOUS
<1>1. UNCHANGED options
  BY DEF Next, vars
<1>2. Compression' = Compression /\ SystemPrompt' = SystemPrompt
  BY <1>1 DEF Compression, SystemPrompt
<1>3. CASE pc' = "ended"
  BY <1>3 DEF PairInv
<1>4. CASE SendEvent \/ SendRefused \/ Receive \/ DropStream \/ Cancel \/ Over \/ UNCHANGED vars
  <2>1. UNCHANGED <<messages, responses>> /\ (pc' = pc \/ pc' = "ended")
    BY <1>4 DEF SendEvent, SendRefused, Receive, DropStream, Cancel, Over, vars, account
  <2>2. QED
    BY <1>1, <1>3, <2>1, PairsKept
<1>5. CASE ObserveCancel \/ RequestFails \/ StreamFails \/ FinalResponse
  BY <1>3, <1>5 DEF ObserveCancel, RequestFails, StreamFails, FinalResponse
<1>6. CASE BeginStep \/ KeepContext \/ StreamPart
  <2>1. UNCHANGED <<messages, responses>> /\ pc # "ended" /\ pc \notin Calling
        /\ (pc' = "ended" \/ pc' \notin Calling)
    BY <1>6 DEF BeginStep, KeepContext, StreamPart, Streaming, At, account, Calling
  <2>2. QED
    BY <1>1, <2>1, PairsKept
<1>7. ASSUME NEW r \in Responses, RequestOpens(r)
      PROVE  PairInv'
  <2>1. UNCHANGED <<messages, responses>> /\ pc # "ended" /\ pc \notin Calling /\ pc' \notin Calling
    BY <1>7 DEF RequestOpens, At, account, Calling
  <2>2. QED
    BY <1>1, <2>1, PairsKept
<1>8. CASE TruncateContext \/ SummarizeContext
  <2>1. /\ responses' = responses /\ pc \notin Calling \cup {"ended"} /\ pc' \notin Calling
        /\ messages \in Seq(Entry)
    BY <1>8 DEF TruncateContext, SummarizeContext, CompressTo, At, account, Calling, Typed
  <2>2. SUFFICES ASSUME Compression = "summarize" => SystemPrompt
                 PROVE  /\ Exchanges(messages', Len(responses))
                        /\ Settled(messages')
                        /\ SystemPrompt => Headed(messages') /\ EndsAnswered(messages')
    BY <1>2, <2>1 DEF PairInv
  <2>3. /\ Exchanges(messages, Len(responses)) /\ Settled(messages)
        /\ SystemPrompt => Headed(messages) /\ EndsAnswered(messages)
    BY <2>1, <2>2 DEF PairInv
  <2>4. CASE TruncateContext
    BY <2>1, <2>3, <2>4, TruncationPairs
  <2>5. CASE SummarizeContext
    <3>1. SystemPrompt
      BY <2>2, <2>5 DEF SummarizeContext
    <3>2. QED
      BY <2>1, <2>3, <2>5, <3>1, SummaryPairs
  <2>6. QED
    BY <1>8, <2>4, <2>5
<1>9. CASE ResponseWithCalls
  <2>1. /\ pc = "streaming" /\ reply \in Responses /\ RecordReply /\ StreamCalls(reply) # {}
        /\ messages' = Append(messages, Pushed(Len(responses) + 1, reply))
        /\ pc' \in Calling
    BY <1>9 DEF ResponseWithCalls, StreamEnds, Streaming, At, PlaceInv, Calling
  <2> DEFINE m == Pushed(Len(responses) + 1, reply)
  <2>2. /\ Len(responses') = Len(responses) + 1 /\ Last' = reply /\ m \in Entry
        /\ messages \in Seq(Entry) /\ Len(responses) \in Nat
    BY <2>1, ReplyTyped DEF Typed
  <2>3. m.kind = "response" /\ m.calls # {} /\ m.of = Len(responses) + 1
    BY <2>1 DEF Pushed
  <2>4. m = Pushed(Len(responses), Last)'
    BY <2>2 DEF Pushed, StreamCalls, HaveIds
  <2> HIDE DEF m
  <2>5. SUFFICES ASSUME Compression = "summarize" => SystemPrompt
                 PROVE  /\ Exchanges(messages', Len(responses) + 1)
                        /\ SystemPrompt => Headed(messages')
                        /\ messages' # <<>>
                        /\ messages'[Len(messages')] = m
    BY <1>2, <2>1, <2>2, <2>4 DEF PairInv
  <2>6. /\ Exchanges(messages, Len(responses)) /\ Settled(messages)
        /\ SystemPrompt => Headed(messages)
    BY <2>1, <2>5 DEF PairInv, Calling
  <2>7. messages' = Append(messages, m)
    BY <2>1 DEF m
  <2>8. Exchanges(messages', Len(responses) + 1)
    BY <2>2, <2>3, <2>6, <2>7, ResponseEnters
  <2>9. /\ messages' # <<>> /\ messages'[Len(messages')] = m
        /\ Len(messages) >= 2 =>
             messages'[1] = messages[1] /\ messages'[2] = messages[2] /\ Len(messages') >= 2
    BY <2>2, <2>7
  <2>10. QED
    BY <2>6, <2>8, <2>9 DEF Headed
<1>10. CASE ResponseCutShort
  <2>1. /\ pc = "streaming" /\ pc' = "top" /\ reply \in Responses /\ RecordReply
        /\ messages' = messages
    BY <1>10 DEF ResponseCutShort, StreamEnds, Streaming, At, PlaceInv
  <2>2. Len(responses') = Len(responses) + 1 /\ Len(responses) \in Nat
    BY <2>1, ReplyTyped DEF Typed
  <2>3. Exchanges(messages, Len(responses)) => Exchanges(messages, Len(responses) + 1)
    BY <2>2 DEF Exchanges
  <2>4. QED
    BY <1>2, <2>1, <2>2, <2>3 DEF PairInv, Calling
<1>11. CASE CallTool \/ BeginTool
  <2>1. UNCHANGED <<messages, responses>> /\ pc \in Calling /\ pc' \in Calling
    BY <1>11 DEF CallTool, BeginTool, At, account, Calling
  <2>2. QED
    BY <1>1, <2>1, PairsKept DEF Calling
<1>12. ASSUME NEW verdict \in Verdicts, ToolAnswers(verdict)
       PROVE  PairInv'
  <2>1. pc = "executing" /\ Answer(verdict) /\ responses' = responses /\ pc \in Calling
    BY <1>12 DEF ToolAnswers, At, account, Calling
  <2> DEFINE given == answers \cup {<<NextCall, verdict>>}
             a == [kind |-> "answers", of |-> Len(responses), ids |-> HaveIds(Last),
                   answers |-> given]
  <2>2. /\ OpenCalls # {NextCall} => messages' = messages /\ pc' = "tools"
        /\ OpenCalls = {NextCall} => messages' = Append(messages, a) /\ pc' = "top"
        /\ given \subseteq StreamCalls(Last) \X Verdicts
        /\ given \subseteq Nat \X Verdicts
    BY <2>1, AnswerTyped
  <2>3. CASE OpenCalls # {NextCall}
    BY <1>1, <2>1, <2>2, <2>3, PairsKept DEF Calling
  <2>4. CASE OpenCalls = {NextCall}
    <3>1. {x[1] : x \in given} = StreamCalls(Last)
      BY <2>2, <2>4, AnswersComplete
    <3>2. Len(responses) \in Nat /\ messages \in Seq(Entry) /\ a \in Entry
      BY <2>2 DEF Typed, Entry, HaveIds
    <3>3. StreamCalls(Last) # {}
      BY <2>4 DEF OpenCalls
    <3>4. /\ a.kind = "answers" /\ a.of = Len(responses) /\ a.ids = HaveIds(Last)
          /\ {x[1] : x \in a.answers} = StreamCalls(Last)
      BY <3>1
    <3> HIDE DEF a
    <3>5. SUFFICES ASSUME Compression = "summarize" => SystemPrompt
                   PROVE  /\ Exchanges(messages', Len(responses))
                          /\ Settled(messages')
                          /\ SystemPrompt => Headed(messages') /\ EndsAnswered(messages')
      BY <1>2, <2>1, <2>2, <2>4 DEF PairInv, Calling
    <3>6. /\ Exchanges(messages, Len(responses)) /\ messages # <<>>
          /\ messages[Len(messages)] = Pushed(Len(responses), Last)
          /\ SystemPrompt => Headed(messages)
      BY <2>1, <3>5 DEF PairInv, Calling
    <3>7. messages[Len(messages)].calls # {} /\ Answering(messages[Len(messages)], a)
      BY <3>3, <3>4, <3>6 DEF Answering, Pushed
    <3>8. Exchanges(messages', Len(responses)) /\ Settled(messages') /\ EndsAnswered(messages')
      BY <2>2, <2>4, <3>2, <3>6, <3>7, AnswersEnter
    <3>9. Len(messages) >= 2 =>
            messages'[1] = messages[1] /\ messages'[2] = messages[2] /\ Len(messages') >= 2
      BY <2>2, <2>4, <3>2
    <3>10. QED
      BY <3>6, <3>8, <3>9 DEF Headed
  <2>5. QED
    BY <2>3, <2>4
<1>13. QED
  BY <1>4, <1>5, <1>6, <1>7, <1>8, <1>9, <1>10, <1>11, <1>12 DEF Next, Task

(* Without compression nothing is ever cut: all calls are paired.          *)
WholeInv ==
  pc # "ended" /\ Compression = "off" =>
    /\ \A k \in 1 .. Len(messages) :
         messages[k].kind = "response" /\ messages[k].calls # {} =>
           IF k < Len(messages) THEN Answering(messages[k], messages[k + 1]) ELSE pc \in Calling
    /\ \A k \in 1 .. Len(messages) :
         messages[k].kind = "answers" => k > 1 /\ Answering(messages[k - 1], messages[k])

LEMMA WholeStart == Init => WholeInv
BY PromptsStart DEF WholeInv

LEMMA WholeNext == Typed /\ PlaceInv /\ PairInv /\ WholeInv /\ [Next]_vars => WholeInv'
<1> SUFFICES ASSUME Typed, PlaceInv, PairInv, WholeInv, [Next]_vars, pc' # "ended",
                    Compression = "off"
             PROVE  WholeInv'
  BY DEF WholeInv, Next, vars, Compression
<1> DEFINE s == messages
           t == messages'
           Whole(q, last) ==
             /\ \A k \in 1 .. Len(q) : q[k].kind = "response" /\ q[k].calls # {} =>
                  IF k < Len(q) THEN Answering(q[k], q[k + 1]) ELSE last
             /\ \A k \in 1 .. Len(q) :
                  q[k].kind = "answers" => k > 1 /\ Answering(q[k - 1], q[k])
<1>1. pc # "ended" => Whole(s, pc \in Calling)
  BY DEF WholeInv
<1>2. SUFFICES Whole(t, pc' \in Calling)
  BY DEF WholeInv
<1>3. ASSUME messages' = messages, pc # "ended", pc \in Calling => pc' \in Calling
      PROVE  Whole(t, pc' \in Calling)
  BY <1>1, <1>3
<1>4. pc # "ended"
  BY DEF Next, Task, vars, account, At, Streaming, StreamEnds, SendEvent, SendRefused,
         ObserveCancel, BeginStep, KeepContext, CompressTo, TruncateContext, SummarizeContext,
         RequestFails, RequestOpens, StreamPart, StreamFails, ResponseWithCalls, FinalResponse,
         ResponseCutShort, CallTool, BeginTool, ToolAnswers, Receive, DropStream, Cancel, Over
<1>5. messages \in Seq(Entry)
  BY DEF Typed
<1>6. CASE ResponseWithCalls
  <2> DEFINE m == Pushed(Len(responses) + 1, reply)
  <2>1. t = Append(s, m) /\ pc' \in Calling /\ pc \notin Calling /\ m.kind = "response"
    BY <1>6 DEF ResponseWithCalls, StreamEnds, Streaming, At, Calling, Pushed
  <2> HIDE DEF m
  <2>2. Whole(s, FALSE)
    BY <1>1, <1>4, <2>1
  <2>3. /\ Len(t) = Len(s) + 1 /\ t[Len(s) + 1] = m /\ Len(s) \in Nat
        /\ \A k \in 1 .. Len(s) : t[k] = s[k]
    BY <1>5, <2>1
  <2>4. ASSUME NEW k \in 1 .. Len(t), t[k].kind = "response", t[k].calls # {}
        PROVE  IF k < Len(t) THEN Answering(t[k], t[k + 1]) ELSE pc' \in Calling
    <3>1. CASE k = Len(s) + 1
      BY <2>1, <2>3, <3>1
    <3>2. CASE k \in 1 .. Len(s)
      <4>1. t[k] = s[k] /\ k < Len(s) /\ Answering(s[k], s[k + 1])
        BY <2>2, <2>3, <2>4, <3>2
      <4>2. t[k + 1] = s[k + 1]
        BY <2>3, <3>2, <4>1
      <4>3. QED
        BY <2>3, <4>1, <4>2
    <3>3. QED
      BY <2>3, <3>1, <3>2
  <2>5. ASSUME NEW k \in 1 .. Len(t), t[k].kind = "answers"
        PROVE  k > 1 /\ Answering(t[k - 1], t[k])
    <3>1. k \in 1 .. Len(s) /\ t[k] = s[k]
      BY <2>1, <2>3, <2>5
    <3>2. k > 1 /\ Answering(s[k - 1], s[k])
      BY <2>2, <2>5, <3>1
    <3>3. k - 1 \in 1 .. Len(s)
      BY <2>3, <3>1, <3>2
    <3>4. QED
      BY <2>3, <3>1, <3>2, <3>3
  <2>6. QED
    BY <2>4, <2>5
<1>7. ASSUME NEW verdict \in Verdicts, ToolAnswers(verdict)
      PROVE  Whole(t, pc' \in Calling)
  <2>1. pc = "executing" /\ Answer(verdict) /\ pc \in Calling
    BY <1>7 DEF ToolAnswers, At, Calling
  <2> DEFINE given == answers \cup {<<NextCall, verdict>>}
             a == [kind |-> "answers", of |-> Len(responses), ids |-> HaveIds(Last),
                   answers |-> given]
  <2>2. /\ OpenCalls # {NextCall} => t = s /\ pc' = "tools"
        /\ OpenCalls = {NextCall} => t = Append(s, a)
        /\ given \subseteq StreamCalls(Last) \X Verdicts
    BY <2>1, AnswerTyped
  <2>3. CASE OpenCalls # {NextCall}
    BY <1>3, <1>4, <2>2, <2>3 DEF Calling
  <2>4. CASE OpenCalls = {NextCall}
    <3>1. {x[1] : x \in given} = StreamCalls(Last)
      BY <2>2, <2>4, AnswersComplete
    <3>2. s # <<>> /\ s[Len(s)] = Pushed(Len(responses), Last)
      BY <1>4, <2>1 DEF PairInv
    <3>3. a.kind = "answers" /\ Answering(s[Len(s)], a)
      BY <3>1, <3>2 DEF Answering, Pushed
    <3>4. t = Append(s, a)
      BY <2>2, <2>4
    <3> HIDE DEF a, given
    <3>5. /\ Len(t) = Len(s) + 1 /\ t[Len(s) + 1] = a /\ Len(s) \in Nat /\ Len(s) > 0
          /\ \A k \in 1 .. Len(s) : t[k] = s[k]
      BY <1>5, <3>2, <3>4
    <3>6. Whole(s, TRUE)
      BY <1>1, <1>4
    <3>7. ASSUME NEW k \in 1 .. Len(t), t[k].kind = "response", t[k].calls # {}
          PROVE  k < Len(t) /\ Answering(t[k], t[k + 1])
      <4>1. k \in 1 .. Len(s) /\ t[k] = s[k]
        BY <3>3, <3>5, <3>7
      <4>2. CASE k = Len(s)
        BY <3>3, <3>5, <4>1, <4>2
      <4>3. CASE k < Len(s)
        <5>1. Answering(s[k], s[k + 1])
          BY <3>6, <3>7, <4>1, <4>3
        <5>2. t[k + 1] = s[k + 1]
          BY <3>5, <4>1, <4>3
        <5>3. QED
          BY <3>5, <4>1, <4>3, <5>1, <5>2
      <4>4. QED
        BY <3>5, <4>1, <4>2, <4>3
    <3>8. ASSUME NEW k \in 1 .. Len(t), t[k].kind = "answers"
          PROVE  k > 1 /\ Answering(t[k - 1], t[k])
      <4>1. CASE k = Len(s) + 1
        <5>1. k - 1 = Len(s) /\ k > 1 /\ t[k - 1] = s[Len(s)]
          BY <3>5, <4>1
        <5>2. QED
          BY <3>3, <3>5, <4>1, <5>1
      <4>2. CASE k \in 1 .. Len(s)
        <5>1. k > 1 /\ Answering(s[k - 1], s[k])
          BY <3>5, <3>6, <3>8, <4>2
        <5>2. k - 1 \in 1 .. Len(s)
          BY <3>5, <4>2, <5>1
        <5>3. QED
          BY <3>5, <4>2, <5>1, <5>2
      <4>3. QED
        BY <3>5, <4>1, <4>2
    <3>9. QED
      BY <3>7, <3>8
  <2>5. QED
    BY <2>3, <2>4
<1>8. CASE ~ResponseWithCalls /\ ~\E verdict \in Verdicts : ToolAnswers(verdict)
  <2>1. messages' = messages /\ (pc \in Calling => pc' \in Calling)
    BY <1>8 DEF Next, Task, vars, account, At, Streaming, StreamEnds, SendEvent, SendRefused,
                ObserveCancel, BeginStep, KeepContext, TruncateContext, SummarizeContext,
                RequestFails, RequestOpens, StreamPart, StreamFails, FinalResponse,
                ResponseCutShort, CallTool, BeginTool, Receive, DropStream, Cancel, Over, Calling
  <2>2. QED
    BY <1>3, <1>4, <2>1
<1>9. QED
  BY <1>6, <1>7, <1>8

(* Whatever is asked of the model pairs the calls that have ids with their *)
(* answers, however often and wherever the context was cut or summarised   *)
(* before: each response with such calls is followed by the answers to     *)
(* exactly these (history.rs remove_orphaned_tool_results and              *)
(* remove_orphaned_tool_uses).  Without compression this holds of all      *)
(* calls; a cut leaves those without an id alone.                          *)
THEOREM StreamPairsCalls == Spec => []WellPairedRequests
<1>1. Typed /\ PairInv /\ WholeInv => WellPairedRequests
  <2> SUFFICES ASSUME Typed, PairInv, WholeInv, pc = "asking",
                      Compression = "summarize" => SystemPrompt
               PROVE  WellPaired(messages, IF Compression = "off" THEN BOOLEAN ELSE {TRUE})
    BY DEF WellPairedRequests
  <2>1. messages \in Seq(Entry) /\ pc \notin Calling /\ pc # "ended"
    BY DEF Typed, Calling
  <2>2. CASE Compression = "off"
    <3>1. DOMAIN messages = 1 .. Len(messages) /\ Len(messages) \in Nat
      BY <2>1
    <3>2. \A k \in 1 .. Len(messages) : messages[k].kind \in {"response", "answers"} =>
            messages[k].ids \in BOOLEAN
      <4>1. \A m \in Entry : m.kind \in {"response", "answers"} => m.ids \in BOOLEAN
        BY DEF Entry
      <4>2. QED
        BY <2>1, <4>1
    <3>3. ASSUME NEW k \in 1 .. Len(messages), messages[k].kind = "response",
                 messages[k].calls # {}
          PROVE  k + 1 \in 1 .. Len(messages) /\ Answering(messages[k], messages[k + 1])
      <4>1. k < Len(messages) /\ Answering(messages[k], messages[k + 1])
        BY <2>1, <2>2, <3>3 DEF WholeInv
      <4>2. QED
        BY <3>1, <4>1
    <3>4. ASSUME NEW k \in 1 .. Len(messages), messages[k].kind = "answers"
          PROVE  k > 1 /\ Answering(messages[k - 1], messages[k])
      BY <2>1, <2>2, <3>4 DEF WholeInv
    <3>5. WellPaired(messages, BOOLEAN)
      BY <3>1, <3>2, <3>3, <3>4 DEF WellPaired, Is, Answering
    <3>6. QED
      BY <2>2, <3>5
  <2>3. CASE Compression # "off"
    BY <2>1, <2>3, ExchangesPaired DEF PairInv
  <2>4. QED
    BY <2>2, <2>3
<1>2. QED
  BY <1>1, StartsTyped, NextTyped, PairsStart, PairsNext, WholeStart, WholeNext, PTL DEF Spec
=============================================================================
