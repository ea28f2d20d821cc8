------------------------- MODULE PartsManagerProofs -------------------------
(***************************************************************************)
(* Theorems about PartsManager: deltas and the events about them, and text *)
(* with thinking tags cut anywhere.                                        *)
(***************************************************************************)
EXTENDS PartsManager, FiniteSetTheorems, SequenceTheorems, WellFoundedInduction, TLAPS

----------------------------------------------------------------------------
(* Natural numbers *)

(* The order of the natural numbers, as a relation. *)
LEMMA NatOrder ==
  \E R : IsWellFoundedOn(R, Nat) /\ \A m, n \in Nat : <<n, m>> \in R <=> n < m
<1> DEFINE R == OpToRel(<, Nat)
<1>1. IsWellFoundedOn(R, Nat)
  BY NatLessThanWellFounded
<1>2. \A m, n \in Nat : <<n, m>> \in R <=> n < m
  BY DEF OpToRel
<1> HIDE DEF R
<1>3. QED
  BY <1>1, <1>2

(* A set of natural numbers has a least element.  An induction over data   *)
(* is the absence of a least counterexample.                               *)
LEMMA Least ==
  ASSUME NEW T, T \subseteq Nat, T # {}
  PROVE  \E m \in T : \A n \in T : m <= n
<1>1. PICK R : IsWellFoundedOn(R, Nat) /\ \A m, n \in Nat : <<n, m>> \in R <=> n < m
  BY NatOrder
<1>2. PICK m \in T : \A n \in T : <<n, m>> \notin R
  BY <1>1, WFMin
<1>3. ASSUME NEW n \in T
      PROVE  m <= n
  <2>1. m \in Nat /\ n \in Nat /\ <<n, m>> \notin R
    BY <1>2
  <2>2. QED
    BY <1>1, <2>1
<1>4. QED
  BY <1>3

----------------------------------------------------------------------------
(* The parts of a response *)

Bytes == UNION {ToSet(u.text) : u \in Uses}

(* A response under way: parts, those of the consumer, ids.                *)
Sound(m) ==
  /\ m = [parts |-> m.parts, index |-> m.index, view |-> m.view]
  /\ m.parts \in Seq(AnyPart)
  /\ m.view \in Seq(AnyPart \cup {None}) /\ Len(m.view) = Len(m.parts)
  /\ m.index \in [DOMAIN m.index -> 1 .. Len(m.parts)]
  /\ DOMAIN m.index \subseteq VendorIds

(* EventsRebuildParts, of a part and of a response; only a call waits for  *)
(* its name.                                                               *)
Shown(part, seen) ==
  /\ part.kind \notin CallKinds => part.named
  /\ IF part.named
     THEN seen # None /\ [seen EXCEPT !.id = part.id] = part /\ (seen.id => part.id)
     ELSE seen = None

Seen(m) == \A i \in 1 .. Len(m.parts) : Shown(m.parts[i], m.view[i])

(* The token of delta k is in part i. *)
Holds(m, i, k) ==
  \E a \in 1 .. Len(m.parts[i].content) : m.parts[i].content[a] = Tokens[k]

Brings(c, k) == \E a \in 1 .. Len(c) : c[a] = Tokens[k]

Full(d) == {k \in 1 .. Len(d) : d[k].kind \notin {"signature", "metadata"}}

Delta == [kind : Kinds \cup {"signature", "metadata"}, vendor : VendorIds \cup {None}]

(* DeltasKept, of a response and its deltas d, with what makes it          *)
(* inductive: a delta that is to come is nowhere, and the id of one that   *)
(* came names the part that holds it or a part of another kind.            *)
InOnePart(m, d) ==
  \A k \in Full(d) : \A i, j \in 1 .. Len(m.parts) :
    Holds(m, i, k) /\ Holds(m, j, k) => i = j

OfItsKind(m, d) ==
  \A i \in 1 .. Len(m.parts) : \A k \in 1 .. Len(Tokens) :
    Holds(m, i, k) => k \in Full(d) /\ m.parts[i].kind = d[k].kind

LostByKind(m, d) ==
  \A k \in Full(d) :
    \/ \E i \in 1 .. Len(m.parts) : Holds(m, i, k)
    \/ /\ d[k].vendor \in DOMAIN m.index
       /\ m.parts[m.index[d[k].vendor]].kind # d[k].kind
       /\ d[k].kind # "file"

NamedById(m, d) ==
  \A k \in Full(d) :
    d[k].vendor # None /\ d[k].kind # "file" =>
      /\ d[k].vendor \in DOMAIN m.index
      /\ m.parts[m.index[d[k].vendor]].kind = d[k].kind => Holds(m, m.index[d[k].vendor], k)

Together(m, d) ==
  \A k \in Full(d) : \A j \in 1 .. k - 1 : \A i \in 1 .. Len(m.parts) :
    d[j] = d[k] /\ d[k].vendor # None /\ d[k].kind # "file" /\ Holds(m, i, k) => Holds(m, i, j)

InOrder(m) ==
  \A i \in 1 .. Len(m.parts) : \A a, b \in 1 .. Len(m.parts[i].content) :
    \A j, k \in 1 .. Len(Tokens) :
      m.parts[i].content[a] = Tokens[j] /\ m.parts[i].content[b] = Tokens[k] /\ a < b => j < k

Kept(m, d) ==
  /\ InOnePart(m, d)
  /\ OfItsKind(m, d)
  /\ LostByKind(m, d)
  /\ NamedById(m, d)
  /\ Together(m, d)
  /\ InOrder(m)

(* What a delta does to a response: content c goes to part i, which may be *)
(* a new one.                                                              *)
Before(m, i) == IF i \in 1 .. Len(m.parts) THEN m.parts[i].content ELSE <<>>

Put(m, n, i, kind, c, v) ==
  /\ i \in 1 .. Len(n.parts) /\ n.parts[i].kind = kind
  /\ n.parts[i].content = Before(m, i) \o c
  /\ \A j \in 1 .. Len(m.parts) :
       /\ n.parts[j].kind = m.parts[j].kind
       /\ j # i => n.parts[j] = m.parts[j]
  /\ \/ /\ i \in 1 .. Len(m.parts) /\ Len(n.parts) = Len(m.parts)
        /\ n.index = m.index
        /\ v # None => v \in DOMAIN m.index /\ m.index[v] = i
     \/ /\ i = Len(m.parts) + 1 /\ Len(n.parts) = i
        /\ n.index = Registered(m, v)
        /\ v # None => v \notin DOMAIN m.index \/ kind = "file"

----------------------------------------------------------------------------
(* Tokens *)

(* Tokens are told apart, from each other and from the bytes of texts. *)
LEMMA TokensApart ==
  /\ Tokens \in Seq(Atoms)
  /\ \A i, j \in 1 .. Len(Tokens) : Tokens[i] = Tokens[j] => i = j
  /\ \A i \in 1 .. Len(Tokens) : Tokens[i] \notin Bytes
  /\ None \notin AnyPart
  /\ None \notin VendorIds
<1>1. Tokens \in Seq(ToSet(Tokens))
  BY PartsAssumption
<1>2. ToSet(Tokens) \subseteq Atoms
  BY DEF Atoms
<1>3. DOMAIN Tokens = 1 .. Len(Tokens)
  BY <1>1
<1>4. ASSUME NEW i \in 1 .. Len(Tokens), Tokens[i] \in Bytes
      PROVE  FALSE
  <2>1. PICK u \in Uses : Tokens[i] \in ToSet(u.text)
    BY <1>4 DEF Bytes
  <2>2. Tokens[i] \in ToSet(Tokens)
    BY <1>3 DEF ToSet
  <2>3. QED
    BY <2>1, <2>2, PartsAssumption
<1>5. Tokens \in Seq(Atoms)
  BY <1>1, <1>2
<1>6. QED
  BY <1>3, <1>4, <1>5, PartsAssumption

(* What a sound record of parts holds, in the form the steps below use. *)
LEMMA SoundParts ==
  ASSUME NEW m, Sound(m)
  PROVE  /\ Len(m.parts) \in Nat /\ Len(m.view) = Len(m.parts)
         /\ m.parts \in Seq(AnyPart) /\ m.view \in Seq(AnyPart \cup {None})
         /\ \A i \in 1 .. Len(m.parts) : m.parts[i] \in AnyPart
         /\ \A i \in 1 .. Len(m.parts) : m.view[i] \in AnyPart \cup {None}
         /\ \A i \in 1 .. Len(m.parts) : m.parts[i].content \in Seq(Atoms)
         /\ \A w \in DOMAIN m.index : m.index[w] \in 1 .. Len(m.parts)
<1>1. /\ m.parts \in Seq(AnyPart) /\ m.view \in Seq(AnyPart \cup {None})
      /\ Len(m.view) = Len(m.parts)
      /\ \A w \in DOMAIN m.index : m.index[w] \in 1 .. Len(m.parts)
  BY DEF Sound
<1>2. /\ Len(m.parts) \in Nat
      /\ \A i \in 1 .. Len(m.parts) : m.parts[i] \in AnyPart
      /\ \A i \in 1 .. Len(m.parts) : m.view[i] \in AnyPart \cup {None}
  BY <1>1
<1>3. \A i \in 1 .. Len(m.parts) : m.parts[i].content \in Seq(Atoms)
  BY <1>2 DEF AnyPart
<1>4. QED
  BY <1>1, <1>2, <1>3

(* The elements of two sequences put together. *)
LEMMA Joined ==
  ASSUME NEW S, NEW s \in Seq(S), NEW c \in Seq(S)
  PROVE  /\ Len(s \o c) = Len(s) + Len(c) /\ Len(s) \in Nat /\ Len(c) \in Nat
         /\ s \o c \in Seq(S)
         /\ \A x \in 1 .. Len(s) : (s \o c)[x] = s[x]
         /\ \A x \in 1 .. Len(c) : (s \o c)[Len(s) + x] = c[x]
OBVIOUS

(* Where a token is after content was put into a part. *)
LEMMA PutHolds ==
  ASSUME NEW m, NEW n, Sound(m), Sound(n), NEW i, NEW kind, NEW c \in Seq(Atoms), NEW v,
         Put(m, n, i, kind, c, v)
  PROVE  \A j \in 1 .. Len(n.parts) : \A k \in 1 .. Len(Tokens) :
           Holds(n, j, k) <=> (j \in 1 .. Len(m.parts) /\ Holds(m, j, k)) \/ (j = i /\ Brings(c, k))
<1>0. SUFFICES ASSUME NEW j \in 1 .. Len(n.parts), NEW k \in 1 .. Len(Tokens)
      PROVE  Holds(n, j, k) <=> (j \in 1 .. Len(m.parts) /\ Holds(m, j, k)) \/ (j = i /\ Brings(c, k))
  OBVIOUS
<1>1. m.parts \in Seq(AnyPart) /\ n.parts \in Seq(AnyPart)
  BY DEF Sound
<1>5. /\ \A l \in 1 .. Len(m.parts) : m.parts[l] \in AnyPart
      /\ Len(m.parts) \in Nat /\ Len(n.parts) \in Nat
  BY <1>1
<1>6. \A l \in 1 .. Len(m.parts) : m.parts[l].content \in Seq(Atoms)
  BY <1>5 DEF AnyPart
<1>2. CASE j # i
  <2>1. j \in 1 .. Len(m.parts) /\ n.parts[j] = m.parts[j]
    <3>1. j \in 1 .. Len(m.parts)
      BY <1>5, <1>2 DEF Put
    <3>2. QED
      BY <1>2, <3>1 DEF Put
  <2>2. QED
    BY <1>2, <2>1 DEF Holds
<1>3. CASE j = i
  <2> DEFINE old == Before(m, i)
  <2>1. old \in Seq(Atoms)
    BY <1>6 DEF Before
  <2>2. n.parts[i].content = old \o c
    BY DEF Put
  <2> HIDE DEF old
  <2>3. /\ \A a \in 1 .. Len(old) : (old \o c)[a] = old[a]
        /\ \A a \in 1 .. Len(c) : (old \o c)[Len(old) + a] = c[a]
        /\ Len(old \o c) = Len(old) + Len(c)
    BY <2>1
  <2>4. ASSUME NEW a \in 1 .. Len(old) + Len(c)
        PROVE  a \in 1 .. Len(old) \/ \E b \in 1 .. Len(c) : a = Len(old) + b
    <3>1. a - Len(old) \in 1 .. Len(c) \/ a <= Len(old)
      BY <2>1
    <3>2. CASE a - Len(old) \in 1 .. Len(c)
      <4>1. a = Len(old) + (a - Len(old))
        BY <2>1
      <4>2. QED
        BY <3>2, <4>1
    <3>3. QED
      BY <2>1, <3>1, <3>2
  <2>5. (\E a \in 1 .. Len(old) + Len(c) : (old \o c)[a] = Tokens[k])
          <=> \/ \E a \in 1 .. Len(old) : old[a] = Tokens[k]
              \/ \E a \in 1 .. Len(c) : c[a] = Tokens[k]
    <3>1. /\ \A a \in 1 .. Len(old) : a \in 1 .. Len(old) + Len(c)
          /\ \A a \in 1 .. Len(c) : Len(old) + a \in 1 .. Len(old) + Len(c)
      BY <2>1
    <3>2. QED
      <4>1. ASSUME NEW a \in 1 .. Len(old) + Len(c), (old \o c)[a] = Tokens[k]
            PROVE  \/ \E b \in 1 .. Len(old) : old[b] = Tokens[k]
                   \/ \E b \in 1 .. Len(c) : c[b] = Tokens[k]
        <5>1. CASE a \in 1 .. Len(old)
          BY <2>3, <4>1, <5>1
        <5>2. CASE \E b \in 1 .. Len(c) : a = Len(old) + b
          BY <2>3, <4>1, <5>2
        <5>3. QED
          BY <2>4, <5>1, <5>2
      <4>2. ASSUME NEW a \in 1 .. Len(old), old[a] = Tokens[k]
            PROVE  \E b \in 1 .. Len(old) + Len(c) : (old \o c)[b] = Tokens[k]
        BY <2>3, <3>1, <4>2
      <4>3. ASSUME NEW a \in 1 .. Len(c), c[a] = Tokens[k]
            PROVE  \E b \in 1 .. Len(old) + Len(c) : (old \o c)[b] = Tokens[k]
        BY <2>3, <3>1, <4>3
      <4>4. QED
        BY <4>1, <4>2, <4>3
  <2>6. (\E a \in 1 .. Len(old) : old[a] = Tokens[k])
          <=> j \in 1 .. Len(m.parts) /\ Holds(m, j, k)
    BY <1>3, <1>6 DEF old, Before, Holds
  <2>7. QED
    BY <1>3, <2>2, <2>3, <2>5, <2>6 DEF Holds, Brings
<1>4. QED
  BY <1>2, <1>3

(* An id names the same part, or a file that took it over.                 *)
LEMMA PutIndex ==
  ASSUME NEW m, NEW n, NEW i, NEW kind, NEW c, NEW v, Put(m, n, i, kind, c, v)
  PROVE  \A w \in DOMAIN m.index :
           /\ w \in DOMAIN n.index
           /\ \/ n.index[w] = m.index[w]
              \/ kind = "file" /\ n.parts[n.index[w]].kind = kind
<1>1. CASE n.index = m.index
  BY <1>1
<1>2. CASE /\ n.index = Registered(m, v) /\ i = Len(m.parts) + 1
           /\ v # None => v \notin DOMAIN m.index \/ kind = "file"
  BY <1>2 DEF Registered, Put
<1>3. QED
  BY <1>1, <1>2 DEF Put

(* Content without tokens leaves the deltas where they are.                *)
LEMMA PutKept ==
  ASSUME NEW m, NEW n, Sound(m), Sound(n), NEW i, NEW kind, NEW c \in Seq(Atoms), NEW v,
         Put(m, n, i, kind, c, v), NEW d \in Seq(Delta), Len(d) <= Len(Tokens),
         Kept(m, d),
         \A a \in 1 .. Len(c) : \A k \in 1 .. Len(Tokens) : c[a] # Tokens[k]
  PROVE  Kept(n, d)
<1>1. \A k \in Full(d) : k \in 1 .. Len(Tokens)
  BY TokensApart DEF Full
<1>2. \A j \in 1 .. Len(n.parts) : \A k \in 1 .. Len(Tokens) :
        Holds(n, j, k) <=> j \in 1 .. Len(m.parts) /\ Holds(m, j, k)
  <2>1. \A k \in 1 .. Len(Tokens) : ~ Brings(c, k)
    BY DEF Brings
  <2>2. \A j \in 1 .. Len(n.parts) : \A k \in 1 .. Len(Tokens) :
          Holds(n, j, k) <=> (j \in 1 .. Len(m.parts) /\ Holds(m, j, k)) \/ (j = i /\ Brings(c, k))
    BY PutHolds
  <2>3. QED
    BY <2>1, <2>2
<1>3. 1 .. Len(m.parts) \subseteq 1 .. Len(n.parts)
  <2>1. Len(m.parts) \in Nat /\ Len(n.parts) \in Nat
    BY DEF Sound
  <2>2. QED
    BY <2>1 DEF Put
<1>4. \A j \in 1 .. Len(m.parts) : n.parts[j].kind = m.parts[j].kind
  BY DEF Put
<1>5. InOnePart(n, d)
  BY <1>1, <1>2 DEF Kept, InOnePart
<1>6. OfItsKind(n, d)
  BY <1>1, <1>2, <1>4 DEF Kept, OfItsKind
<1>7. \A w \in DOMAIN m.index :
        /\ w \in DOMAIN n.index
        /\ \/ n.index[w] = m.index[w]
           \/ kind = "file" /\ n.parts[n.index[w]].kind = kind
  BY PutIndex
<1>8. \A w \in DOMAIN m.index : m.index[w] \in 1 .. Len(m.parts)
  BY DEF Sound
<1>9. LostByKind(n, d)
  <2>1. SUFFICES ASSUME NEW k \in Full(d), ~ \E j \in 1 .. Len(n.parts) : Holds(n, j, k)
                 PROVE  /\ d[k].vendor \in DOMAIN n.index
                        /\ n.parts[n.index[d[k].vendor]].kind # d[k].kind
                        /\ d[k].kind # "file"
    BY DEF LostByKind
  <2>2. ~ \E j \in 1 .. Len(m.parts) : Holds(m, j, k)
    BY <2>1, <1>1, <1>2, <1>3
  <2>3. /\ d[k].vendor \in DOMAIN m.index
        /\ m.parts[m.index[d[k].vendor]].kind # d[k].kind
        /\ d[k].kind # "file"
    BY <2>2 DEF Kept, LostByKind
  <2>4. QED
    BY <2>3, <1>4, <1>7, <1>8
<1>10. NamedById(n, d)
  <2>1. SUFFICES ASSUME NEW k \in Full(d), d[k].vendor # None, d[k].kind # "file"
                 PROVE  /\ d[k].vendor \in DOMAIN n.index
                        /\ n.parts[n.index[d[k].vendor]].kind = d[k].kind
                             => Holds(n, n.index[d[k].vendor], k)
    BY DEF NamedById
  <2>2. /\ d[k].vendor \in DOMAIN m.index
        /\ m.parts[m.index[d[k].vendor]].kind = d[k].kind => Holds(m, m.index[d[k].vendor], k)
    BY <2>1 DEF Kept, NamedById
  <2>3. QED
    BY <2>1, <2>2, <1>1, <1>2, <1>3, <1>4, <1>7, <1>8
<1>11. Together(n, d)
  <2>1. \A k \in Full(d) : \A j \in 1 .. k - 1 : d[j] = d[k] => j \in Full(d)
    BY DEF Full
  <2>2. QED
    BY <2>1, <1>1, <1>2 DEF Kept, Together
<1>12. InOrder(n)
  <2>1. SUFFICES ASSUME NEW l \in 1 .. Len(n.parts), NEW a \in 1 .. Len(n.parts[l].content),
                        NEW b \in 1 .. Len(n.parts[l].content),
                        NEW j \in 1 .. Len(Tokens), NEW k \in 1 .. Len(Tokens),
                        n.parts[l].content[a] = Tokens[j], n.parts[l].content[b] = Tokens[k],
                        a < b
                 PROVE  j < k
    BY DEF InOrder
  <2>2. l \in 1 .. Len(m.parts)
    BY <2>1, <1>2 DEF Holds
  <2>3. CASE l # i
    <3>1. n.parts[l] = m.parts[l]
      BY <2>2, <2>3 DEF Put
    <3>2. QED
      BY <2>1, <2>2, <3>1 DEF Kept, InOrder
  <2>4. CASE l = i
    <3> DEFINE old == m.parts[l].content
    <3>1. n.parts[l].content = old \o c
      BY <2>2, <2>4 DEF Put, Before
    <3>2. old \in Seq(Atoms)
      BY <2>2, SoundParts
    <3> HIDE DEF old
    <3>3. /\ Len(old \o c) = Len(old) + Len(c) /\ Len(old) \in Nat /\ Len(c) \in Nat
          /\ \A x \in 1 .. Len(old) : (old \o c)[x] = old[x]
          /\ \A x \in 1 .. Len(c) : (old \o c)[Len(old) + x] = c[x]
      BY <3>2, Joined
    <3>4. ASSUME NEW x \in 1 .. Len(old \o c), NEW y \in 1 .. Len(Tokens),
                 (old \o c)[x] = Tokens[y], x \notin 1 .. Len(old)
          PROVE  FALSE
      <4>1. x - Len(old) \in 1 .. Len(c) /\ x = Len(old) + (x - Len(old))
        BY <3>3, <3>4
      <4>2. (old \o c)[x] = c[x - Len(old)]
        BY <3>3, <4>1, Zenon
      <4>3. QED
        BY <3>4, <4>1, <4>2
    <3>5. a \in 1 .. Len(old) /\ b \in 1 .. Len(old)
      BY <2>1, <3>1, <3>4
    <3>6. old[a] = Tokens[j] /\ old[b] = Tokens[k]
      BY <2>1, <3>1, <3>3, <3>5
    <3>7. QED
      BY <2>1, <2>2, <3>5, <3>6 DEF Kept, InOrder, old
  <2>5. QED
    BY <2>3, <2>4
<1>13. QED
  BY <1>5, <1>6, <1>9, <1>10, <1>11, <1>12 DEF Kept

(* One delta more, and those before it. *)
LEMMA NextDelta ==
  ASSUME NEW d \in Seq(Delta), NEW e \in Delta
  PROVE  /\ Append(d, e) \in Seq(Delta) /\ Len(Append(d, e)) = Len(d) + 1
         /\ \A k \in 1 .. Len(d) : Append(d, e)[k] = d[k]
         /\ Append(d, e)[Len(d) + 1] = e
         /\ Full(Append(d, e)) =
              Full(d) \cup IF e.kind \in {"signature", "metadata"} THEN {} ELSE {Len(d) + 1}
         /\ Full(d) \subseteq 1 .. Len(d)
<1> DEFINE s == Append(d, e)
<1>1. /\ s \in Seq(Delta) /\ Len(s) = Len(d) + 1
      /\ \A k \in 1 .. Len(d) : s[k] = d[k]
      /\ s[Len(d) + 1] = e
      /\ Len(d) \in Nat
  OBVIOUS
<1> HIDE DEF s
<1>2. 1 .. Len(s) = 1 .. Len(d) \cup {Len(d) + 1}
  BY <1>1
<1>3. Full(s) = Full(d) \cup IF e.kind \in {"signature", "metadata"} THEN {} ELSE {Len(d) + 1}
  <2>1. \A k \in 1 .. Len(d) : k \in Full(s) <=> k \in Full(d)
    BY <1>1, <1>2 DEF Full
  <2>2. Len(d) + 1 \in Full(s) <=> e.kind \notin {"signature", "metadata"}
    BY <1>1, <1>2 DEF Full
  <2>3. Full(s) \subseteq 1 .. Len(d) \cup {Len(d) + 1} /\ Full(d) \subseteq 1 .. Len(d)
    BY <1>2 DEF Full
  <2>4. QED
    BY <2>1, <2>2, <2>3
<1>4. QED
  BY <1>1, <1>3 DEF s, Full

(* A delta that is put nowhere: one without content, or one that its id    *)
(* sends to a part of another kind.                                        *)
LEMMA NotPutKept ==
  ASSUME NEW m, Sound(m), NEW d \in Seq(Delta), NEW e \in Delta, Len(d) < Len(Tokens), Kept(m, d),
         \/ e.kind \in {"signature", "metadata"}
         \/ /\ e.vendor \in DOMAIN m.index /\ e.kind # "file"
            /\ m.parts[m.index[e.vendor]].kind # e.kind
  PROVE  Kept(m, Append(d, e))
<1> DEFINE s == Append(d, e)
<1>1. /\ \A k \in 1 .. Len(d) : s[k] = d[k]
      /\ s[Len(d) + 1] = e
      /\ Full(s) = Full(d) \cup IF e.kind \in {"signature", "metadata"} THEN {} ELSE {Len(d) + 1}
      /\ Full(d) \subseteq 1 .. Len(d) /\ Len(d) \in Nat
  BY NextDelta
<1>2. \A k \in Full(s) : \/ k \in Full(d) /\ k \in 1 .. Len(d) /\ s[k] = d[k]
                         \/ /\ k = Len(d) + 1 /\ s[k] = e
                            /\ e.kind \notin {"signature", "metadata"}
  BY <1>1
<1>3. \A i \in 1 .. Len(m.parts) : ~ Holds(m, i, Len(d) + 1)
  <2>1. Len(d) + 1 \in 1 .. Len(Tokens) /\ Len(d) + 1 \notin Full(d)
    BY <1>1, TokensApart
  <2>2. QED
    BY <2>1 DEF Kept, OfItsKind
<1> HIDE DEF s
<1>4. InOnePart(m, s)
  BY <1>2, <1>3 DEF Kept, InOnePart
<1>5. OfItsKind(m, s)
  BY <1>1, <1>2 DEF Kept, OfItsKind
<1>6. LostByKind(m, s)
  BY <1>2 DEF Kept, LostByKind
<1>7. NamedById(m, s)
  BY <1>2 DEF Kept, NamedById
<1>8. Together(m, s)
  <2>1. \A k \in Full(d) : \A j \in 1 .. k - 1 : s[j] = d[j]
    BY <1>1
  <2>2. QED
    BY <1>2, <1>3, <2>1 DEF Kept, Together
<1>9. QED
  BY <1>4, <1>5, <1>6, <1>7, <1>8 DEF Kept, s

(* A content of one element, put at the end. *)
LEMMA OneMore ==
  ASSUME NEW s \in Seq(Atoms), NEW c \in Seq(Atoms)
  PROVE  Len(c) = 1 => /\ Len(s \o c) = Len(s) + 1 /\ Len(s) \in Nat
                       /\ \A x \in 1 .. Len(s) : (s \o c)[x] = s[x]
                       /\ (s \o c)[Len(s) + 1] = c[1]
<1>1. /\ Len(s \o c) = Len(s) + Len(c) /\ Len(s) \in Nat
      /\ \A x \in 1 .. Len(s) : (s \o c)[x] = s[x]
      /\ \A x \in 1 .. Len(c) : (s \o c)[Len(s) + x] = c[x]
  BY Joined
<1>2. QED
  BY <1>1

(* A delta whose content is put into a part.                               *)
LEMMA PutToken ==
  ASSUME NEW m, NEW n, Sound(m), Sound(n), NEW i, NEW kind \in Kinds,
         NEW v \in VendorIds \cup {None}, NEW d \in Seq(Delta), Len(d) < Len(Tokens),
         Put(m, n, i, kind, <<Tokens[Len(d) + 1]>>, v), Kept(m, d)
  PROVE  Kept(n, Append(d, [kind |-> kind, vendor |-> v]))
<1> DEFINE e == [kind |-> kind, vendor |-> v]
           q == Len(d) + 1
           s == Append(d, e)
           c == <<Tokens[q]>>
<1>1. /\ e \in Delta /\ e.kind \notin {"signature", "metadata"}
      /\ e.kind = kind /\ e.vendor = v
  BY DEF Delta, Kinds
<1>2. /\ \A k \in 1 .. Len(d) : s[k] = d[k]
      /\ s[q] = e
      /\ Full(s) = Full(d) \cup {q}
      /\ Full(d) \subseteq 1 .. Len(d) /\ Len(d) \in Nat
  BY <1>1, NextDelta
<1>3. /\ q \in 1 .. Len(Tokens) /\ q \notin Full(d) /\ Tokens[q] \in Atoms
      /\ c \in Seq(Atoms) /\ Len(c) = 1 /\ c[1] = Tokens[q]
  BY <1>2, TokensApart
<1>4. \A k \in 1 .. Len(Tokens) : Brings(c, k) <=> k = q
  BY <1>3, TokensApart DEF Brings
<1> HIDE DEF e, s, c
<1>5. \A j \in 1 .. Len(n.parts) : \A k \in 1 .. Len(Tokens) :
        Holds(n, j, k) <=> (j \in 1 .. Len(m.parts) /\ Holds(m, j, k)) \/ (j = i /\ k = q)
  <2>1. \A j \in 1 .. Len(n.parts) : \A k \in 1 .. Len(Tokens) :
          Holds(n, j, k) <=> (j \in 1 .. Len(m.parts) /\ Holds(m, j, k)) \/ (j = i /\ Brings(c, k))
    <3>1. Put(m, n, i, kind, c, v)
      BY DEF c, q
    <3>2. QED
      BY <1>3, <3>1, PutHolds
  <2>2. QED
    BY <2>1, <1>4
<1>6. \A j \in 1 .. Len(m.parts) : \A k \in 1 .. Len(Tokens) :
        Holds(m, j, k) => k \in Full(d) /\ k # q /\ m.parts[j].kind = d[k].kind
  BY <1>3 DEF Kept, OfItsKind
<1>7. \A k \in Full(s) : /\ k \in 1 .. Len(Tokens)
                         /\ \/ k \in Full(d) /\ k \in 1 .. Len(d) /\ s[k] = d[k] /\ k # q
                            \/ k = q /\ s[k] = e
  BY <1>2, <1>3, TokensApart
<1>8. 1 .. Len(m.parts) \subseteq 1 .. Len(n.parts) /\ i \in 1 .. Len(n.parts)
  <2>1. Len(m.parts) \in Nat /\ Len(n.parts) \in Nat
    BY SoundParts
  <2>2. QED
    BY <2>1 DEF Put
<1>9. /\ \A j \in 1 .. Len(m.parts) : n.parts[j].kind = m.parts[j].kind
      /\ n.parts[i].kind = kind
  BY DEF Put
<1>10. \A w \in DOMAIN m.index :
         /\ w \in DOMAIN n.index /\ m.index[w] \in 1 .. Len(m.parts)
         /\ \/ n.index[w] = m.index[w]
            \/ kind = "file" /\ n.parts[n.index[w]].kind = kind
  BY PutIndex, SoundParts
<1>11. InOnePart(n, s)
  BY <1>5, <1>6, <1>7 DEF Kept, InOnePart
<1>12. OfItsKind(n, s)
  BY <1>1, <1>2, <1>5, <1>6, <1>7, <1>9 DEF Kept, OfItsKind
<1>13. LostByKind(n, s)
  <2>1. SUFFICES ASSUME NEW k \in Full(s), ~ \E j \in 1 .. Len(n.parts) : Holds(n, j, k)
                 PROVE  /\ s[k].vendor \in DOMAIN n.index
                        /\ n.parts[n.index[s[k].vendor]].kind # s[k].kind
                        /\ s[k].kind # "file"
    BY DEF LostByKind
  <2>2. k \in Full(d) /\ s[k] = d[k] /\ k \in 1 .. Len(Tokens)
    BY <2>1, <1>3, <1>5, <1>7, <1>8
  <2>3. ~ \E j \in 1 .. Len(m.parts) : Holds(m, j, k)
    BY <2>1, <2>2, <1>5, <1>8
  <2>4. /\ d[k].vendor \in DOMAIN m.index
        /\ m.parts[m.index[d[k].vendor]].kind # d[k].kind
        /\ d[k].kind # "file"
    BY <2>2, <2>3 DEF Kept, LostByKind
  <2>5. QED
    BY <2>2, <2>4, <1>9, <1>10
<1>14. NamedById(n, s)
  <2>1. SUFFICES ASSUME NEW k \in Full(s), s[k].vendor # None, s[k].kind # "file"
                 PROVE  /\ s[k].vendor \in DOMAIN n.index
                        /\ n.parts[n.index[s[k].vendor]].kind = s[k].kind
                             => Holds(n, n.index[s[k].vendor], k)
    BY DEF NamedById
  <2>2. CASE k # q
    <3>1. k \in Full(d) /\ s[k] = d[k] /\ k \in 1 .. Len(Tokens)
      BY <2>2, <1>7
    <3>2. /\ d[k].vendor \in DOMAIN m.index
          /\ m.parts[m.index[d[k].vendor]].kind = d[k].kind => Holds(m, m.index[d[k].vendor], k)
      BY <2>1, <3>1 DEF Kept, NamedById
    <3>3. QED
      <4> DEFINE w == d[k].vendor
      <4>1. /\ w \in DOMAIN n.index /\ m.index[w] \in 1 .. Len(m.parts)
            /\ \/ n.index[w] = m.index[w]
               \/ kind = "file" /\ n.parts[n.index[w]].kind = kind
        BY <3>2, <1>10, Zenon
      <4>2. s[k].vendor = w /\ s[k].kind = d[k].kind
        BY <3>1
      <4>3. CASE n.index[w] = m.index[w]
        <5>1. n.parts[m.index[w]].kind = m.parts[m.index[w]].kind
          BY <4>1, <1>9
        <5>2. Holds(m, m.index[w], k) => Holds(n, m.index[w], k)
          BY <3>1, <4>1, <1>5, <1>8
        <5> HIDE DEF w
        <5>3. QED
          BY <3>2, <4>1, <4>2, <4>3, <5>1, <5>2 DEF w
      <4>4. CASE kind = "file" /\ n.parts[n.index[w]].kind = kind
        <5>1. n.parts[n.index[w]].kind # s[k].kind
          BY <2>1, <4>4
        <5>2. QED
          BY <4>1, <4>2, <5>1
      <4>5. QED
        BY <4>1, <4>3, <4>4
  <2>3. CASE k = q
    <3>1. v # None /\ kind # "file" /\ s[k].vendor = v /\ s[k].kind = kind
      BY <2>1, <2>3, <1>1, <1>2
    <3>2. v \in DOMAIN n.index /\ n.index[v] = i
      BY <3>1 DEF Put, Registered
    <3>3. Holds(n, i, k)
      BY <2>3, <1>3, <1>5, <1>8
    <3>4. QED
      BY <3>1, <3>2, <3>3
  <2>4. QED
    BY <2>2, <2>3
<1>15. Together(n, s)
  <2>1. SUFFICES ASSUME NEW k \in Full(s), NEW j \in 1 .. k - 1, NEW l \in 1 .. Len(n.parts),
                        s[j] = s[k], s[k].vendor # None, s[k].kind # "file", Holds(n, l, k)
                 PROVE  Holds(n, l, j)
    BY DEF Together
  <2>2. /\ j \in 1 .. Len(d) /\ s[j] = d[j] /\ j \in Full(d) /\ j \in 1 .. Len(Tokens)
    <3>1. j \in 1 .. Len(d)
      BY <1>2, <1>7
    <3>2. d[j].kind \notin {"signature", "metadata"}
      BY <3>1, <2>1, <1>1, <1>2, <1>7 DEF Full
    <3>3. QED
      BY <3>1, <3>2, <1>2, <1>7 DEF Full
  <2>3. CASE k # q
    <3>1. k \in Full(d) /\ s[k] = d[k] /\ k \in 1 .. Len(Tokens) /\ l \in 1 .. Len(m.parts)
          /\ Holds(m, l, k)
      BY <2>1, <2>3, <1>5, <1>7
    <3>2. Holds(m, l, j)
      BY <2>1, <2>2, <3>1 DEF Kept, Together
    <3>3. QED
      BY <2>2, <3>1, <3>2, <1>5
  <2>4. CASE k = q
    <3>1. l = i /\ d[j].kind = kind /\ d[j].vendor = v /\ v # None /\ kind # "file"
      BY <2>1, <2>2, <2>4, <1>1, <1>2, <1>3, <1>5, <1>6
    <3>2. /\ v \in DOMAIN m.index
          /\ m.parts[m.index[v]].kind = kind => Holds(m, m.index[v], j)
      BY <2>2, <3>1 DEF Kept, NamedById
    <3>3. i \in 1 .. Len(m.parts) /\ m.index[v] = i
      BY <3>1, <3>2 DEF Put
    <3>4. QED
      BY <2>2, <3>1, <3>2, <3>3, <1>5, <1>8, <1>9
  <2>5. QED
    BY <2>3, <2>4
<1>16. InOrder(n)
  <2>1. SUFFICES ASSUME NEW l \in 1 .. Len(n.parts), NEW a \in 1 .. Len(n.parts[l].content),
                        NEW b \in 1 .. Len(n.parts[l].content),
                        NEW j \in 1 .. Len(Tokens), NEW k \in 1 .. Len(Tokens),
                        n.parts[l].content[a] = Tokens[j], n.parts[l].content[b] = Tokens[k],
                        a < b
                 PROVE  j < k
    BY DEF InOrder
  <2>2. CASE l # i
    <3>1. l \in 1 .. Len(m.parts) /\ n.parts[l] = m.parts[l]
      <4>1. l \in 1 .. Len(m.parts)
        <5>1. Len(m.parts) \in Nat /\ Len(n.parts) \in Nat
          BY SoundParts
        <5>2. Len(n.parts) = Len(m.parts) \/ (Len(n.parts) = i /\ i = Len(m.parts) + 1)
          BY DEF Put
        <5>3. QED
          BY <2>2, <5>1, <5>2
      <4>2. QED
        BY <2>2, <4>1 DEF Put
    <3>2. QED
      BY <2>1, <3>1 DEF Kept, InOrder
  <2>3. CASE l = i
    <3> DEFINE old == Before(m, i)
    <3>1. old \in Seq(Atoms)
      BY SoundParts DEF Before
    <3>2. n.parts[l].content = old \o c
      BY <2>3 DEF Put, c
    <3>4. old # <<>> => i \in 1 .. Len(m.parts) /\ old = m.parts[i].content
      BY DEF Before
    <3> HIDE DEF old
    <3>3. /\ Len(old \o c) = Len(old) + 1
          /\ \A x \in 1 .. Len(old) : (old \o c)[x] = old[x]
          /\ (old \o c)[Len(old) + 1] = Tokens[q]
          /\ Len(old) \in Nat
      BY <3>1, <1>3, OneMore
    <3>5. a \in 1 .. Len(old) /\ old[a] = Tokens[j]
      BY <2>1, <3>2, <3>3
    <3>6. i \in 1 .. Len(m.parts) /\ old = m.parts[i].content
      BY <3>1, <3>4, <3>5
    <3>7. CASE b \in 1 .. Len(old)
      <4>1. old[b] = Tokens[k]
        BY <2>1, <3>2, <3>3, <3>7
      <4>2. QED
        BY <2>1, <3>5, <3>6, <3>7, <4>1 DEF Kept, InOrder
    <3>8. CASE b \notin 1 .. Len(old)
      <4>1. b = Len(old) + 1
        BY <2>1, <3>2, <3>3, <3>8, SMTT(60)
      <4>2. k = q
        BY <2>1, <3>2, <3>3, <4>1, <1>3, TokensApart
      <4>3. Holds(m, i, j)
        BY <3>5, <3>6 DEF Holds
      <4>4. QED
        BY <4>2, <4>3, <3>6, <1>2, <1>6
    <3>9. QED
      BY <3>7, <3>8
  <2>4. QED
    BY <2>2, <2>3
<1>17. QED
  BY <1>11, <1>12, <1>13, <1>14, <1>15, <1>16 DEF Kept, s, e
----------------------------------------------------------------------------
(* The part of a delta *)

(* Missed: the id names a part of another kind. *)
Missed(m, kind, v) ==
  v \in DOMAIN m.index /\ m.parts[m.index[v]].kind # kind /\ kind # "file"

(* What every handler does with its content. *)
Reached(m, n, kind, c, v) ==
  /\ Sound(n) /\ Seen(n)
  /\ (n = m /\ Missed(m, kind, v)) \/ (\E i : Put(m, n, i, kind, c, v))

(* The part find_latest_part_index finds, if any, is of the kind asked     *)
(* for.                                                                    *)
LEMMA LatestPart ==
  ASSUME NEW m, Sound(m), NEW kind
  PROVE  \/ Latest(m, kind) = 0
         \/ Latest(m, kind) \in 1 .. Len(m.parts) /\ m.parts[Latest(m, kind)].kind = kind
<1> DEFINE I == {i \in 1 .. Len(m.parts) : m.parts[i].kind = kind}
           T == {Len(m.parts) - i : i \in I}
<1>1. Len(m.parts) \in Nat
  BY SoundParts
<1>2. Latest(m, kind) = IF I # {} THEN Max(I) ELSE 0
  BY DEF Latest, SelectLastInSeq
<1>3. ASSUME I # {}
      PROVE  Max(I) \in I
  <2>1. T \subseteq Nat /\ T # {}
    <3>1. \A i \in I : Len(m.parts) - i \in Nat
      BY <1>1
    <3>2. QED
      BY <1>3, <3>1
  <2>2. PICK t \in T : \A u \in T : t <= u
    BY <2>1, Least
  <2>3. PICK x \in I : t = Len(m.parts) - x
    OBVIOUS
  <2>4. ASSUME NEW y \in I
        PROVE  x >= y
    <3>1. t <= Len(m.parts) - y
      BY <2>2
    <3>2. x \in Int /\ y \in Int
      BY <1>1
    <3>3. QED
      BY <1>1, <2>3, <3>1, <3>2
  <2>5. QED
    BY <2>3, <2>4 DEF Max
<1>4. QED
  BY <1>2, <1>3

(* A delta goes to a part that is there or to the next place. *)
LEMMA PartIndexed ==
  ASSUME NEW m, Sound(m), NEW kind, NEW v \in VendorIds \cup {None}
  PROVE  \/ PartIndex(m, kind, v) = Len(m.parts) + 1 /\ (v # None => v \notin DOMAIN m.index)
         \/ /\ PartIndex(m, kind, v) \in 1 .. Len(m.parts)
            /\ v = None => m.parts[PartIndex(m, kind, v)].kind = kind
            /\ v # None => v \in DOMAIN m.index /\ m.index[v] = PartIndex(m, kind, v)
<1>1. CASE v # None /\ v \in DOMAIN m.index
  BY <1>1, SoundParts DEF PartIndex
<1>2. CASE v = None /\ Latest(m, kind) # 0
  BY <1>2, LatestPart DEF PartIndex
<1>3. CASE (v # None => v \notin DOMAIN m.index) /\ (v = None => Latest(m, kind) = 0)
  BY <1>3 DEF PartIndex
<1>4. QED
  BY <1>1, <1>2, <1>3

(* A new part gets the next index, and the id, if any, names it. *)
LEMMA IndexRegistered ==
  ASSUME NEW m, Sound(m), NEW v \in VendorIds \cup {None}
  PROVE  /\ Registered(m, v) \in [DOMAIN Registered(m, v) -> 1 .. Len(m.parts) + 1]
         /\ DOMAIN Registered(m, v) \subseteq VendorIds
<1>1. /\ m.index \in [DOMAIN m.index -> 1 .. Len(m.parts)] /\ DOMAIN m.index \subseteq VendorIds
      /\ Len(m.parts) \in Nat
  BY SoundParts DEF Sound
<1>2. CASE v = None
  <2>1. m.index \in [DOMAIN m.index -> 1 .. Len(m.parts) + 1]
    BY <1>1
  <2>2. QED
    BY <1>1, <1>2, <2>1 DEF Registered
<1>3. CASE v # None
  BY <1>1, <1>3 DEF Registered
<1>4. QED
  BY <1>2, <1>3

(* A new part, and the consumer's. *)
LEMMA NewPart ==
  ASSUME NEW m, Sound(m), Seen(m), NEW v \in VendorIds \cup {None}, NEW part \in AnyPart,
         NEW seen \in AnyPart \cup {None},
         v # None => v \notin DOMAIN m.index \/ part.kind = "file",
         Shown(part, seen)
  PROVE  Reached(m, Created(m, v, part, seen), part.kind, part.content, v)
<1> DEFINE n == Created(m, v, part, seen)
<1>1. /\ m.parts \in Seq(AnyPart) /\ m.view \in Seq(AnyPart \cup {None})
      /\ Len(m.view) = Len(m.parts) /\ Len(m.parts) \in Nat
      /\ \A i \in 1 .. Len(m.parts) : m.parts[i].content \in Seq(Atoms)
  BY SoundParts
<1>2. /\ n.parts = Append(m.parts, part)
      /\ n.view = Append(m.view, seen)
      /\ n.index = Registered(m, v)
      /\ n = [parts |-> n.parts, index |-> n.index, view |-> n.view]
  BY DEF Created
<1>3. /\ n.parts \in Seq(AnyPart) /\ n.view \in Seq(AnyPart \cup {None})
      /\ Len(n.parts) = Len(m.parts) + 1 /\ Len(n.view) = Len(n.parts)
      /\ \A i \in 1 .. Len(m.parts) : n.parts[i] = m.parts[i] /\ n.view[i] = m.view[i]
      /\ n.parts[Len(m.parts) + 1] = part /\ n.view[Len(m.parts) + 1] = seen
  BY <1>1, <1>2
<1> HIDE DEF n
<1>4. Sound(n)
  <2>1. /\ Registered(m, v) \in [DOMAIN Registered(m, v) -> 1 .. Len(m.parts) + 1]
        /\ DOMAIN Registered(m, v) \subseteq VendorIds
    BY IndexRegistered
  <2>2. n.index \in [DOMAIN n.index -> 1 .. Len(n.parts)] /\ DOMAIN n.index \subseteq VendorIds
    BY <1>2, <1>3, <2>1, Zenon
  <2>3. QED
    BY <1>2, <1>3, <2>2, Zenon DEF Sound
<1>5. \A i \in 1 .. Len(n.parts) : i \in 1 .. Len(m.parts) \/ i = Len(m.parts) + 1
  BY <1>1, <1>3
<1>6. Seen(n)
  <2>1. SUFFICES ASSUME NEW i \in 1 .. Len(n.parts)
                 PROVE  Shown(n.parts[i], n.view[i])
    BY DEF Seen
  <2>2. CASE i \in 1 .. Len(m.parts)
    BY <2>2, <1>3 DEF Seen
  <2>3. CASE i = Len(m.parts) + 1
    BY <2>3, <1>3
  <2>4. QED
    BY <1>5, <2>2, <2>3
<1>7. Put(m, n, Len(m.parts) + 1, part.kind, part.content, v)
  <2>1. part.content \in Seq(Atoms)
    BY DEF AnyPart
  <2>2. part.content = Before(m, Len(m.parts) + 1) \o part.content
    <3>1. Before(m, Len(m.parts) + 1) = <<>>
      BY <1>1 DEF Before
    <3>2. QED
      BY <2>1, <3>1, ConcatEmptySeq
  <2>3. Len(m.parts) + 1 \in 1 .. Len(n.parts)
    BY <1>1, <1>3
  <2>4. QED
    BY <1>1, <1>2, <1>3, <2>2, <2>3 DEF Put
<1>8. QED
  BY <1>4, <1>6, <1>7 DEF Reached, n

(* More content for a part, and for the consumer's. *)
LEMMA GrownPart ==
  ASSUME NEW m, NEW n, Sound(m), Seen(m), NEW i \in 1 .. Len(m.parts), NEW c \in Seq(Atoms),
         NEW v \in VendorIds \cup {None}, NEW part \in AnyPart, NEW seen \in AnyPart \cup {None},
         n = [parts |-> [m.parts EXCEPT ![i] = part], index |-> m.index,
              view |-> [m.view EXCEPT ![i] = seen]],
         part.kind = m.parts[i].kind, part.content = m.parts[i].content \o c,
         v # None => v \in DOMAIN m.index /\ m.index[v] = i,
         Shown(part, seen)
  PROVE  Reached(m, n, part.kind, c, v)
<1>1. /\ m.parts \in Seq(AnyPart) /\ m.view \in Seq(AnyPart \cup {None})
      /\ Len(m.view) = Len(m.parts) /\ Len(m.parts) \in Nat
      /\ m.index \in [DOMAIN m.index -> 1 .. Len(m.parts)] /\ DOMAIN m.index \subseteq VendorIds
  BY SoundParts DEF Sound
<1>2. /\ n.parts = [m.parts EXCEPT ![i] = part]
      /\ n.view = [m.view EXCEPT ![i] = seen]
      /\ n.index = m.index
      /\ n = [parts |-> n.parts, index |-> n.index, view |-> n.view]
  OBVIOUS
<1>3. /\ n.parts \in Seq(AnyPart) /\ Len(n.parts) = Len(m.parts)
      /\ \A j \in 1 .. Len(m.parts) : n.parts[j] = IF j = i THEN part ELSE m.parts[j]
  <2>1. n.parts = [m.parts EXCEPT ![i] = part]
    BY <1>2
  <2>2. QED
    BY <1>1, <2>1, ExceptSeq, SMTT(60)
<1>4. /\ n.view \in Seq(AnyPart \cup {None}) /\ Len(n.view) = Len(m.parts)
      /\ \A j \in 1 .. Len(m.parts) : n.view[j] = IF j = i THEN seen ELSE m.view[j]
  <2>1. i \in 1 .. Len(m.view)
    BY <1>1
  <2>2. QED
    <3>1. n.view = [m.view EXCEPT ![i] = seen]
      BY <1>2
    <3>2. QED
      BY <2>1, <1>1, <3>1, ExceptSeq, SMTT(60)
<1>5. Sound(n)
  BY <1>1, <1>2, <1>3, <1>4 DEF Sound
<1>6. Seen(n)
  <2>1. SUFFICES ASSUME NEW j \in 1 .. Len(n.parts)
                 PROVE  Shown(n.parts[j], n.view[j])
    BY DEF Seen
  <2>2. j \in 1 .. Len(m.parts)
    BY <1>3
  <2>3. CASE j = i
    BY <1>3, <1>4, <2>2, <2>3
  <2>4. CASE j # i
    <3>1. n.parts[j] = m.parts[j] /\ n.view[j] = m.view[j]
      BY <1>3, <1>4, <2>2, <2>4
    <3>2. QED
      BY <2>2, <3>1 DEF Seen
  <2>5. QED
    BY <2>3, <2>4
<1>7. Put(m, n, i, part.kind, c, v)
  <2>1. n.parts[i] = part /\ i \in 1 .. Len(n.parts)
    BY <1>3
  <2>2. \A j \in 1 .. Len(m.parts) :
          n.parts[j].kind = m.parts[j].kind /\ (j # i => n.parts[j] = m.parts[j])
    BY <1>3
  <2>3. part.content = Before(m, i) \o c
    BY DEF Before
  <2>4. QED
    BY <1>2, <1>3, <2>1, <2>2, <2>3 DEF Put
<1>8. QED
  BY <1>5, <1>6, <1>7 DEF Reached

(* A part and its fields. *)
LEMMA PartForm ==
  /\ \A k \in Kinds : \A c \in Seq(Atoms) : \A n, i \in BOOLEAN :
       [kind |-> k, content |-> c, named |-> n, id |-> i] \in AnyPart
  /\ \A p \in AnyPart :
       /\ p.kind \in Kinds /\ p.content \in Seq(Atoms) /\ p.named \in BOOLEAN /\ p.id \in BOOLEAN
       /\ p = [kind |-> p.kind, content |-> p.content, named |-> p.named, id |-> p.id]
       /\ \A c : [p EXCEPT !.content = c] =
                   [kind |-> p.kind, content |-> c, named |-> p.named, id |-> p.id]
       /\ \A i : [p EXCEPT !.id = i] =
                   [kind |-> p.kind, content |-> p.content, named |-> p.named, id |-> i]
BY DEF AnyPart

(* A consumer that adds what the part adds still has the part. *)
LEMMA GrownShown ==
  ASSUME NEW old \in AnyPart, NEW seen \in AnyPart \cup {None}, Shown(old, seen),
         NEW c \in Seq(Atoms), old.named
  PROVE  /\ [old EXCEPT !.content = @ \o c] \in AnyPart
         /\ [seen EXCEPT !.content = @ \o c] \in AnyPart
         /\ [old EXCEPT !.content = @ \o c].kind = old.kind
         /\ [old EXCEPT !.content = @ \o c].content = old.content \o c
         /\ Shown([old EXCEPT !.content = @ \o c], [seen EXCEPT !.content = @ \o c])
<1> DEFINE new == [old EXCEPT !.content = @ \o c]
           now == [seen EXCEPT !.content = @ \o c]
<1>1. seen \in AnyPart /\ old.content \in Seq(Atoms) /\ seen.content \in Seq(Atoms)
  BY DEF Shown, AnyPart
<1>2. /\ old.content \o c \in Seq(Atoms) /\ seen.content \o c \in Seq(Atoms)
  BY <1>1
<1>3. /\ new = [kind |-> old.kind, content |-> old.content \o c,
                named |-> old.named, id |-> old.id]
      /\ old = [kind |-> old.kind, content |-> old.content, named |-> old.named, id |-> old.id]
      /\ old.kind \in Kinds /\ old.named \in BOOLEAN /\ old.id \in BOOLEAN
  BY PartForm
<1>4. /\ now = [kind |-> seen.kind, content |-> seen.content \o c,
                named |-> seen.named, id |-> seen.id]
      /\ [seen EXCEPT !.id = old.id] =
           [kind |-> seen.kind, content |-> seen.content, named |-> seen.named, id |-> old.id]
      /\ seen.kind \in Kinds /\ seen.named \in BOOLEAN /\ seen.id \in BOOLEAN
  BY <1>1, PartForm
<1> HIDE DEF new, now
<1>5. /\ [kind |-> old.kind, content |-> old.content \o c, named |-> old.named, id |-> old.id]
           \in AnyPart
      /\ [kind |-> seen.kind, content |-> seen.content \o c, named |-> seen.named,
          id |-> seen.id] \in AnyPart
  BY <1>2, <1>3, <1>4, PartForm
<1>6. new \in AnyPart /\ now \in AnyPart
  BY <1>3, <1>4, <1>5
<1>7. [seen EXCEPT !.id = old.id] = old /\ (seen.id => old.id)
  BY DEF Shown
<1>8. seen.kind = old.kind /\ seen.content = old.content /\ seen.named = old.named
  <2>1. [kind |-> seen.kind, content |-> seen.content, named |-> seen.named, id |-> old.id]
          = [kind |-> old.kind, content |-> old.content, named |-> old.named, id |-> old.id]
    BY <1>3, <1>4, <1>7
  <2>2. QED
    BY <2>1
<1>9. /\ new.kind = old.kind /\ new.content = old.content \o c /\ new.named = old.named
      /\ new.id = old.id
      /\ now.id = seen.id
  BY <1>3, <1>4
<1>10. [now EXCEPT !.id = new.id] = new
  <2>1. [now EXCEPT !.id = new.id] =
          [kind |-> now.kind, content |-> now.content, named |-> now.named, id |-> new.id]
    BY <1>6, PartForm
  <2>2. now.kind = old.kind /\ now.content = old.content \o c /\ now.named = old.named
    BY <1>4, <1>8
  <2>3. QED
    BY <1>3, <1>9, <2>1, <2>2
<1>11. Shown(new, now)
  <2>1. now # None
    BY <1>6, TokensApart
  <2>2. now.id => new.id
    BY <1>7, <1>9
  <2>3. QED
    BY <1>9, <1>10, <2>1, <2>2 DEF Shown
<1>12. QED
  BY <1>6, <1>9, <1>11 DEF new, now

(* A file is put in a new part. *)
LEMMA FileReached ==
  ASSUME NEW m, Sound(m), Seen(m), NEW v \in VendorIds \cup {None}, NEW c \in Seq(Atoms)
  PROVE  LET file == Part("file", c, FALSE)
         IN Reached(m, Created(m, v, file, file), "file", c, v)
<1> DEFINE file == Part("file", c, FALSE)
<1>1. file = [kind |-> "file", content |-> c, named |-> TRUE, id |-> FALSE]
  BY DEF Part, CallKinds
<1> HIDE DEF file
<1>2. file \in AnyPart
  <2>1. "file" \in Kinds
    BY DEF Kinds
  <2>2. [kind |-> "file", content |-> c, named |-> TRUE, id |-> FALSE] \in AnyPart
    BY <2>1, PartForm
  <2>3. QED
    BY <1>1, <2>2
<1>3. file.kind = "file" /\ file.content = c /\ file.named = TRUE
  <2>1. file.kind = "file"
    BY <1>1
  <2>2. file.content = c
    BY <1>1
  <2>3. file.named = TRUE
    BY <1>1
  <2>4. QED
    BY <2>1, <2>2, <2>3
<1>4. Shown(file, file)
  <2>1. [file EXCEPT !.id = file.id] = file
    BY <1>2, PartForm
  <2>2. file # None
    BY <1>2, TokensApart
  <2>3. QED
    BY <1>3, <2>1, <2>2 DEF Shown
<1>5. Reached(m, Created(m, v, file, file), file.kind, file.content, v)
  <2>1. file \in AnyPart \cup {None}
    BY <1>2
  <2>2. QED
    BY <1>2, <1>3, <1>4, <2>1, NewPart
<1>6. QED
  BY <1>3, <1>5 DEF file

(* Text or thinking is put in one part of its kind, or is lost. *)
LEMMA ContentReached ==
  ASSUME NEW m, Sound(m), Seen(m), NEW kind \in {"text", "thinking"},
         NEW v \in VendorIds \cup {None}, NEW c \in Seq(Atoms)
  PROVE  Reached(m, WithContent(m, kind, v, c), kind, c, v)
<1> DEFINE i == PartIndex(m, kind, v)
           part == Part(kind, c, FALSE)
           n == WithContent(m, kind, v, c)
<1>1. /\ part \in AnyPart /\ part.kind = kind /\ part.content = c /\ part.named
      /\ Shown(part, part)
  <2>1. /\ part = [kind |-> kind, content |-> c, named |-> TRUE, id |-> FALSE]
        /\ kind \in Kinds /\ kind \notin CallKinds
    BY DEF Part, Kinds, CallKinds
  <2>2. part \in AnyPart
    <3>1. c \in Seq(Atoms) /\ TRUE \in BOOLEAN /\ FALSE \in BOOLEAN
      OBVIOUS
    <3>2. [kind |-> kind, content |-> c, named |-> TRUE, id |-> FALSE] \in AnyPart
      BY <2>1, <3>1, PartForm, ZenonT(60)
    <3> HIDE DEF part
    <3>3. QED
      BY <2>1, <3>2
  <2> HIDE DEF part
  <2>6. [part EXCEPT !.id = part.id] = part
    BY <2>2, PartForm
  <2>7. part.named = TRUE
    BY <2>1
  <2>3. /\ [part EXCEPT !.id = part.id] = part
        /\ part.kind = kind /\ part.content = c /\ part.named
    BY <2>1, <2>6, <2>7
  <2>4. part # None
    BY <2>2, TokensApart
  <2>5. QED
    BY <2>1, <2>2, <2>3, <2>4 DEF Shown
<1>2. /\ Len(m.parts) \in Nat /\ Len(m.view) = Len(m.parts)
      /\ m.parts \in Seq(AnyPart) /\ m.view \in Seq(AnyPart \cup {None})
      /\ \A j \in 1 .. Len(m.parts) : m.parts[j] \in AnyPart
      /\ \A j \in 1 .. Len(m.parts) : m.view[j] \in AnyPart \cup {None}
      /\ \A j \in 1 .. Len(m.parts) : m.parts[j].content \in Seq(Atoms)
  BY SoundParts
<1>3. n = CASE i > Len(m.parts) -> Created(m, v, part, part)
            [] i <= Len(m.parts) /\ m.parts[i].kind = kind ->
                 [m EXCEPT !.parts[i].content = @ \o c, !.view[i].content = @ \o c]
            [] OTHER -> m
  BY DEF WithContent
<1>4. \/ i = Len(m.parts) + 1 /\ (v # None => v \notin DOMAIN m.index)
      \/ /\ i \in 1 .. Len(m.parts)
         /\ v = None => m.parts[i].kind = kind
         /\ v # None => v \in DOMAIN m.index /\ m.index[v] = i
  BY PartIndexed
<1> HIDE DEF n, i, part
<1>5. CASE i = Len(m.parts) + 1 /\ (v # None => v \notin DOMAIN m.index)
  <2>1. n = Created(m, v, part, part)
    BY <1>2, <1>3, <1>5
  <2>2. Reached(m, Created(m, v, part, part), part.kind, part.content, v)
    BY <1>1, <1>5, NewPart
  <2>3. QED
    BY <1>1, <2>1, <2>2 DEF n
<1>6. CASE /\ i \in 1 .. Len(m.parts) /\ m.parts[i].kind # kind /\ v # None
           /\ v \in DOMAIN m.index /\ m.index[v] = i
  <2>1. n = m
    BY <1>2, <1>3, <1>6
  <2>2. kind # "file"
    OBVIOUS
  <2>3. QED
    BY <1>6, <2>1, <2>2 DEF Reached, Missed, n
<1>7. CASE /\ i \in 1 .. Len(m.parts) /\ m.parts[i].kind = kind
           /\ v # None => v \in DOMAIN m.index /\ m.index[v] = i
  <2> DEFINE old == m.parts[i]
             new == [old EXCEPT !.content = @ \o c]
             seen == [m.view[i] EXCEPT !.content = @ \o c]
  <2>1. /\ old \in AnyPart /\ old.content \in Seq(Atoms) /\ m.view[i] \in AnyPart \cup {None}
    BY <1>2, <1>7
  <2>2. Shown(old, m.view[i]) /\ old.kind \notin CallKinds
    BY <1>7 DEF Seen, CallKinds
  <2>7. old.named /\ old.kind = kind
    BY <1>7, <2>2 DEF Shown
  <2>3. /\ new \in AnyPart /\ new.kind = kind /\ new.content = old.content \o c
        /\ Shown(new, seen) /\ seen \in AnyPart
    <3> DEFINE see == m.view[i]
    <3>1. /\ old \in AnyPart /\ see \in AnyPart \cup {None} /\ Shown(old, see)
          /\ c \in Seq(Atoms) /\ old.named
      BY <2>1, <2>2, <2>7
    <3> HIDE DEF old, see
    <3>2. /\ [old EXCEPT !.content = @ \o c] \in AnyPart
          /\ [see EXCEPT !.content = @ \o c] \in AnyPart
          /\ [old EXCEPT !.content = @ \o c].kind = old.kind
          /\ [old EXCEPT !.content = @ \o c].content = old.content \o c
          /\ Shown([old EXCEPT !.content = @ \o c], [see EXCEPT !.content = @ \o c])
      BY <3>1, GrownShown, ZenonT(60)
    <3>3. old.kind = kind
      BY <2>7
    <3>4. QED
      BY <3>2, <3>3, Zenon DEF new, seen, see
  <2>4. n = [parts |-> [m.parts EXCEPT ![i] = new], index |-> m.index,
             view |-> [m.view EXCEPT ![i] = seen]]
    <3>1. n = [m EXCEPT !.parts[i].content = @ \o c, !.view[i].content = @ \o c]
      BY <1>2, <1>3, <1>7
    <3>2. m = [parts |-> m.parts, index |-> m.index, view |-> m.view]
      BY DEF Sound
    <3>3. QED
      BY <3>1, <3>2
  <2> HIDE DEF new, seen
  <2>5. Reached(m, n, new.kind, c, v)
    BY <1>7, <2>3, <2>4, GrownPart DEF old
  <2>6. QED
    BY <2>3, <2>5 DEF n
<1>8. QED
  BY <1>4, <1>5, <1>6, <1>7 DEF n

(* So is text, if it is not white space that is dropped. *)
LEMMA TextReached ==
  ASSUME NEW m, Sound(m), Seen(m), NEW v \in VendorIds \cup {None}, NEW c \in Seq(Atoms)
  PROVE  WithText(m, v, c) = m \/ Reached(m, WithText(m, v, c), "text", c, v)
BY ContentReached DEF WithText

(* A call after another delta, and the consumer's. *)
Called(old, named, c, id) ==
  [old EXCEPT !.named = @ \/ named, !.content = @ \o c, !.id = @ \/ id]

CalledSeen(old, see, named, c, id) ==
  LET call == Called(old, named, c, id)
  IN CASE ~call.named -> None
       [] call.named /\ ~old.named -> Start(call)
       [] OTHER -> [see EXCEPT !.content = @ \o c]

(* A call is shown from the moment its name is known, with all it has. *)
LEMMA CalledShown ==
  ASSUME NEW old \in AnyPart, NEW see \in AnyPart \cup {None}, Shown(old, see),
         NEW c \in Seq(Atoms), NEW named \in BOOLEAN, NEW id \in BOOLEAN, old.kind \in CallKinds
  PROVE  /\ Called(old, named, c, id) \in AnyPart
         /\ Called(old, named, c, id).kind = old.kind
         /\ Called(old, named, c, id).content = old.content \o c
         /\ CalledSeen(old, see, named, c, id) \in AnyPart \cup {None}
         /\ Shown(Called(old, named, c, id), CalledSeen(old, see, named, c, id))
<1> DEFINE call == Called(old, named, c, id)
           seen == CalledSeen(old, see, named, c, id)
<1>1. /\ old = [kind |-> old.kind, content |-> old.content, named |-> old.named, id |-> old.id]
      /\ old.kind \in Kinds /\ old.content \in Seq(Atoms)
      /\ old.named \in BOOLEAN /\ old.id \in BOOLEAN
  BY PartForm
<1>2. call = [kind |-> old.kind, content |-> old.content \o c,
              named |-> old.named \/ named, id |-> old.id \/ id]
  <2> DEFINE x == old.named \/ named
             y == old.id \/ id
             s == old.content \o c
  <2>1. call = [old EXCEPT !.named = x, !.content = s, !.id = y]
    BY DEF Called
  <2> HIDE DEF x, y, s, call
  <2>2. call = [kind |-> old.kind, content |-> s, named |-> x, id |-> y]
    BY <1>1, <2>1
  <2>3. QED
    BY <2>2 DEF x, y, s
<1>3. old.content \o c \in Seq(Atoms)
  BY <1>1
<1> HIDE DEF call
<1>4. call \in AnyPart
  <2>1. (old.named \/ named) \in BOOLEAN /\ (old.id \/ id) \in BOOLEAN
    OBVIOUS
  <2>2. [kind |-> old.kind, content |-> old.content \o c,
         named |-> old.named \/ named, id |-> old.id \/ id] \in AnyPart
    BY <1>1, <1>3, <2>1, PartForm
  <2>3. QED
    BY <1>2, <2>2
<1>5. /\ call.kind = old.kind /\ call.content = old.content \o c
      /\ call.named = (old.named \/ named) /\ call.id = (old.id \/ id)
  BY <1>2
<1>6. seen = CASE ~call.named -> None
               [] call.named /\ ~old.named -> call
               [] OTHER -> [see EXCEPT !.content = @ \o c]
  BY DEF CalledSeen, Start, call
<1>7. CASE ~call.named
  <2>1. seen = None
    BY <1>6, <1>7
  <2>2. QED
    BY <1>4, <1>5, <1>7, <2>1 DEF Shown, call
<1>8. CASE call.named /\ ~old.named
  <2>1. seen = call
    BY <1>6, <1>8
  <2>2. [call EXCEPT !.id = call.id] = call
    BY <1>4, PartForm
  <2>3. call # None
    BY <1>4, TokensApart
  <2>4. QED
    BY <1>4, <1>5, <1>8, <2>1, <2>2, <2>3 DEF Shown, call
<1>9. CASE call.named /\ old.named
  <2> DEFINE grown == [old EXCEPT !.content = @ \o c]
             now == [see EXCEPT !.content = @ \o c]
  <2>1. seen = now
    BY <1>6, <1>9
  <2>2. /\ grown \in AnyPart /\ now \in AnyPart /\ Shown(grown, now)
    BY <1>9, GrownShown
  <2>3. grown = [kind |-> old.kind, content |-> old.content \o c,
                 named |-> old.named, id |-> old.id]
    BY PartForm
  <2> HIDE DEF grown, now
  <2>4. /\ grown.named = old.named /\ grown.kind = old.kind /\ grown.id = old.id
        /\ grown.content = old.content \o c
    BY <2>3
  <2>5. now # None /\ [now EXCEPT !.id = grown.id] = grown /\ (now.id => grown.id)
    BY <1>9, <2>2, <2>4 DEF Shown
  <2>6. [now EXCEPT !.id = call.id] = call
    <3>1. /\ [now EXCEPT !.id = call.id] =
               [kind |-> now.kind, content |-> now.content, named |-> now.named, id |-> call.id]
          /\ [now EXCEPT !.id = grown.id] =
               [kind |-> now.kind, content |-> now.content, named |-> now.named, id |-> grown.id]
      BY <2>2, PartForm
    <3>2. now.kind = old.kind /\ now.content = old.content \o c /\ now.named = old.named
      <4>1. grown = [kind |-> now.kind, content |-> now.content, named |-> now.named,
                     id |-> grown.id]
        BY <2>5, <3>1
      <4>2. QED
        BY <2>4, <4>1
    <3>3. call.named = old.named
      <4>1. old.named = TRUE
        BY <1>1, <1>9
      <4>2. (old.named \/ named) = TRUE
        BY <1>9
      <4>3. QED
        BY <1>5, <4>1, <4>2
    <3>4. call = [kind |-> call.kind, content |-> call.content, named |-> call.named,
                  id |-> call.id]
      BY <1>4, PartForm
    <3>5. QED
      BY <1>5, <3>1, <3>2, <3>3, <3>4
  <2>7. now.id => call.id
    BY <1>5, <2>4, <2>5
  <2>8. Shown(call, now)
    BY <1>5, <1>9, <2>5, <2>6, <2>7 DEF Shown
  <2>9. QED
    BY <1>4, <1>5, <2>1, <2>2, <2>8 DEF call
<1>10. QED
  BY <1>7, <1>8, <1>9

(* A sequence that differs in one place. *)
LEMMA Replaced ==
  ASSUME NEW S, NEW t \in Seq(S), NEW w \in Seq(S), NEW i \in 1 .. Len(t), NEW b \in S,
         Len(w) = Len(t), w[i] = b, \A j \in 1 .. Len(t) : j # i => w[j] = t[j]
  PROVE  [t EXCEPT ![i] = b] = w
<1> DEFINE u == [t EXCEPT ![i] = b]
<1>1. /\ u \in Seq(S) /\ Len(u) = Len(t)
      /\ \A j \in 1 .. Len(t) : u[j] = IF j = i THEN b ELSE t[j]
  BY ExceptSeq
<1> HIDE DEF u
<1>2. \A j \in 1 .. Len(u) : u[j] = w[j]
  BY <1>1
<1>3. u = w
  BY <1>1, <1>2, SeqEqual
<1>4. QED
  BY <1>3 DEF u

(* A sequence with one element more. *)
LEMMA Appended ==
  ASSUME NEW S, NEW s \in Seq(S), NEW a \in S
  PROVE  /\ Append(s, a) \in Seq(S) /\ Len(Append(s, a)) = Len(s) + 1 /\ Len(s) \in Nat
         /\ Append(s, a)[Len(s) + 1] = a
         /\ \A j \in 1 .. Len(s) : Append(s, a)[j] = s[j]
         /\ \A j \in 1 .. Len(Append(s, a)) : j # Len(s) + 1 => j \in 1 .. Len(s)
OBVIOUS

(* The content of a call is put in one part of its kind, or is lost. *)
LEMMA CallReached ==
  ASSUME NEW m, Sound(m), Seen(m), NEW kind \in CallKinds, NEW v \in VendorIds \cup {None},
         NEW named \in BOOLEAN, NEW c \in Seq(Atoms), NEW id \in BOOLEAN
  PROVE  Reached(m, WithCall(m, kind, v, named, c, id), kind, c, v)
<1> DEFINE i == PartIndex(m, kind, v)
           blank == Part(kind, <<>>, id)
           new == IF i > Len(m.parts) THEN Created(m, v, blank, None) ELSE m
           old == new.parts[i]
           call == Called(old, named, c, id)
           seen == CalledSeen(old, new.view[i], named, c, id)
           n == WithCall(m, kind, v, named, c, id)
<1>1. n = IF old.kind = kind THEN [new EXCEPT !.parts[i] = call, !.view[i] = seen] ELSE new
  BY DEF WithCall, Called, CalledSeen
<1>2. /\ Len(m.parts) \in Nat /\ Len(m.view) = Len(m.parts)
      /\ m.parts \in Seq(AnyPart) /\ m.view \in Seq(AnyPart \cup {None})
      /\ \A j \in 1 .. Len(m.parts) : m.parts[j] \in AnyPart
      /\ \A j \in 1 .. Len(m.parts) : m.view[j] \in AnyPart \cup {None}
      /\ m = [parts |-> m.parts, index |-> m.index, view |-> m.view]
  BY SoundParts DEF Sound
<1>3. \/ i = Len(m.parts) + 1 /\ (v # None => v \notin DOMAIN m.index)
      \/ /\ i \in 1 .. Len(m.parts)
         /\ v = None => m.parts[i].kind = kind
         /\ v # None => v \in DOMAIN m.index /\ m.index[v] = i
  BY PartIndexed
<1>4. kind \in Kinds /\ kind # "file"
  BY DEF Kinds, CallKinds
<1> HIDE DEF n, i
<1>5. CASE i = Len(m.parts) + 1 /\ (v # None => v \notin DOMAIN m.index)
  <2>1. new = Created(m, v, blank, None)
    BY <1>2, <1>5
  <2> HIDE DEF new
  <2>2. blank = [kind |-> kind, content |-> <<>>, named |-> FALSE, id |-> id]
    <3>1. (kind \notin CallKinds) = FALSE
      OBVIOUS
    <3>2. QED
      BY <3>1 DEF Part
  <2> HIDE DEF blank
  <2>3. blank \in AnyPart /\ blank.kind = kind /\ blank.content = <<>> /\ ~blank.named
    <3>1. <<>> \in Seq(Atoms)
      BY EmptySeq
    <3>2. [kind |-> kind, content |-> <<>>, named |-> FALSE, id |-> id] \in AnyPart
      BY <1>4, <3>1, PartForm
    <3>3. blank.named = FALSE /\ blank.kind = kind /\ blank.content = <<>>
      BY <2>2
    <3>4. QED
      BY <2>2, <3>2, <3>3
  <2>4. /\ new.parts = Append(m.parts, blank) /\ new.view = Append(m.view, None)
        /\ new.index = Registered(m, v)
        /\ new = [parts |-> new.parts, index |-> new.index, view |-> new.view]
    BY <2>1 DEF Created
  <2>5. old = blank /\ new.view[i] = None
    <3>1. new.parts[Len(m.parts) + 1] = blank
      BY <1>2, <2>3, <2>4
    <3>2. new.view[Len(m.view) + 1] = None
      BY <1>2, <2>4
    <3>3. QED
      BY <1>2, <1>5, <3>1, <3>2
  <2>6. Shown(blank, None)
    BY <2>3 DEF Shown
  <2> HIDE DEF old
  <2>16. /\ old \in AnyPart /\ old.kind \in CallKinds /\ new.view[i] \in AnyPart \cup {None}
         /\ Shown(old, new.view[i])
    BY <2>3, <2>5, <2>6
  <2>17. /\ call \in AnyPart /\ call.kind = old.kind /\ call.content = old.content \o c
         /\ seen \in AnyPart \cup {None} /\ Shown(call, seen)
    BY <2>16, CalledShown
  <2>7. /\ call \in AnyPart /\ call.kind = kind /\ call.content = <<>> \o c
        /\ seen \in AnyPart \cup {None} /\ Shown(call, seen)
    BY <2>3, <2>5, <2>17
  <2> HIDE DEF call, seen
  <2>8. call.content = c
    BY <2>7, ConcatEmptySeq
  <2>9. n = [new EXCEPT !.parts[i] = call, !.view[i] = seen]
    BY <1>1, <2>3, <2>5
  <2>10. n = [parts |-> [new.parts EXCEPT ![i] = call], index |-> new.index,
              view |-> [new.view EXCEPT ![i] = seen]]
    BY <2>4, <2>9
  <2>11. [new.parts EXCEPT ![i] = call] = Append(m.parts, call)
    <3>1. m.parts \in Seq(AnyPart) /\ blank \in AnyPart /\ call \in AnyPart
      BY <1>2, <2>3, <2>7
    <3>2. QED
      <4> DEFINE t == Append(m.parts, blank)
                 w == Append(m.parts, call)
      <4>1. t = new.parts /\ i = Len(m.parts) + 1
        BY <1>5, <2>4
      <4>2. /\ t \in Seq(AnyPart) /\ Len(t) = Len(m.parts) + 1
            /\ \A j \in 1 .. Len(m.parts) : t[j] = m.parts[j]
            /\ \A j \in 1 .. Len(t) : j # Len(m.parts) + 1 => j \in 1 .. Len(m.parts)
        BY <3>1, Appended
      <4>3. /\ w \in Seq(AnyPart) /\ Len(w) = Len(m.parts) + 1 /\ w[Len(m.parts) + 1] = call
            /\ \A j \in 1 .. Len(m.parts) : w[j] = m.parts[j]
        BY <3>1, Appended
      <4> HIDE DEF t, w
      <4>4. /\ i \in 1 .. Len(t) /\ Len(t) = Len(w) /\ w[i] = call
            /\ \A j \in 1 .. Len(t) : j # i => w[j] = t[j]
        BY <1>2, <4>1, <4>2, <4>3
      <4>5. [t EXCEPT ![i] = call] = w
        BY <3>1, <4>2, <4>3, <4>4, Replaced
      <4>6. QED
        BY <4>1, <4>5 DEF w
  <2>12. [new.view EXCEPT ![i] = seen] = Append(m.view, seen)
    <3>1. None \in AnyPart \cup {None}
      OBVIOUS
    <3>2. m.view \in Seq(AnyPart \cup {None}) /\ seen \in AnyPart \cup {None}
      BY <1>2, <2>7
    <3>3. i = Len(m.view) + 1
      BY <1>2, <1>5
    <3>4. QED
      <4> DEFINE t == Append(m.view, None)
                 w == Append(m.view, seen)
      <4>1. t = new.view
        BY <2>4
      <4>2. /\ t \in Seq(AnyPart \cup {None}) /\ Len(t) = Len(m.view) + 1
            /\ \A j \in 1 .. Len(m.view) : t[j] = m.view[j]
            /\ \A j \in 1 .. Len(t) : j # Len(m.view) + 1 => j \in 1 .. Len(m.view)
        BY <3>1, <3>2, Appended
      <4>3. /\ w \in Seq(AnyPart \cup {None}) /\ Len(w) = Len(m.view) + 1
            /\ w[Len(m.view) + 1] = seen
            /\ \A j \in 1 .. Len(m.view) : w[j] = m.view[j]
        BY <3>2, Appended
      <4> HIDE DEF t, w
      <4>4. /\ i \in 1 .. Len(t) /\ Len(t) = Len(w) /\ w[i] = seen
            /\ \A j \in 1 .. Len(t) : j # i => w[j] = t[j]
        BY <1>2, <3>3, <4>2, <4>3
      <4>5. [t EXCEPT ![i] = seen] = w
        BY <3>2, <4>2, <4>3, <4>4, Replaced
      <4>6. QED
        BY <4>1, <4>5 DEF w
  <2>13. n = Created(m, v, call, seen)
    BY <2>4, <2>10, <2>11, <2>12 DEF Created
  <2>14. Reached(m, Created(m, v, call, seen), call.kind, call.content, v)
    BY <1>5, <2>7, NewPart
  <2>15. QED
    BY <2>7, <2>8, <2>13, <2>14 DEF n
<1>6. CASE i \in 1 .. Len(m.parts) /\ m.parts[i].kind # kind /\ v \in DOMAIN m.index /\ m.index[v] = i
  <2>1. n = m
    BY <1>1, <1>2, <1>6
  <2>2. QED
    BY <1>4, <1>6, <2>1 DEF Reached, Missed, n
<1>7. CASE /\ i \in 1 .. Len(m.parts) /\ m.parts[i].kind = kind
           /\ v # None => v \in DOMAIN m.index /\ m.index[v] = i
  <2>1. new = m
    BY <1>2, <1>7
  <2> HIDE DEF new
  <2>2. /\ old = m.parts[i] /\ old \in AnyPart /\ old.kind = kind
        /\ new.view[i] = m.view[i] /\ m.view[i] \in AnyPart \cup {None}
    BY <1>2, <1>7, <2>1
  <2>3. Shown(old, m.view[i])
    BY <1>7, <2>2 DEF Seen
  <2> HIDE DEF old
  <2>4. /\ call \in AnyPart /\ call.kind = kind /\ call.content = old.content \o c
        /\ seen \in AnyPart \cup {None} /\ Shown(call, seen)
    <3>1. /\ old \in AnyPart /\ old.kind \in CallKinds /\ new.view[i] \in AnyPart \cup {None}
          /\ Shown(old, new.view[i])
      BY <2>2, <2>3
    <3>2. /\ call \in AnyPart /\ call.kind = old.kind /\ call.content = old.content \o c
          /\ seen \in AnyPart \cup {None} /\ Shown(call, seen)
      BY <3>1, CalledShown
    <3>3. QED
      BY <2>2, <3>2
  <2> HIDE DEF call, seen
  <2>5. n = [parts |-> [m.parts EXCEPT ![i] = call], index |-> m.index,
             view |-> [m.view EXCEPT ![i] = seen]]
    <3>1. n = [m EXCEPT !.parts[i] = call, !.view[i] = seen]
      BY <1>1, <2>1, <2>2
    <3>2. QED
      BY <1>2, <3>1
  <2>6. Reached(m, n, call.kind, c, v)
    BY <1>7, <2>2, <2>4, <2>5, GrownPart
  <2>7. QED
    BY <2>4, <2>6 DEF n
<1>8. QED
  BY <1>3, <1>5, <1>6, <1>7

(* What the deltas make of it. *)
LEMMA ReachedKept ==
  ASSUME NEW m, NEW n, Sound(m), NEW kind, NEW v, NEW c \in Seq(Atoms), Reached(m, n, kind, c, v),
         NEW d \in Seq(Delta), Len(d) <= Len(Tokens), Kept(m, d),
         \A a \in 1 .. Len(c) : \A k \in 1 .. Len(Tokens) : c[a] # Tokens[k]
  PROVE  Kept(n, d)
<1>1. CASE n = m
  BY <1>1
<1>2. CASE \E i : Put(m, n, i, kind, c, v)
  <2>1. PICK i : Put(m, n, i, kind, c, v)
    BY <1>2
  <2>2. Sound(n)
    BY DEF Reached
  <2>3. QED
    BY <2>1, <2>2, PutKept
<1>3. QED
  BY <1>1, <1>2 DEF Reached

(* A delta with a token that is put in its part keeps all that is kept. *)
LEMMA TokenKept ==
  ASSUME NEW m, NEW n, Sound(m), NEW kind \in Kinds, NEW v \in VendorIds \cup {None},
         NEW d \in Seq(Delta), Len(d) < Len(Tokens), Kept(m, d),
         Reached(m, n, kind, <<Tokens[Len(d) + 1]>>, v)
  PROVE  Kept(n, Append(d, [kind |-> kind, vendor |-> v]))
<1> DEFINE e == [kind |-> kind, vendor |-> v]
<1>1. e \in Delta /\ e.kind = kind /\ e.vendor = v
  BY DEF Delta
<1>2. CASE n = m /\ Missed(m, kind, v)
  <2> HIDE DEF e
  <2>1. /\ e.vendor \in DOMAIN m.index /\ e.kind # "file"
        /\ m.parts[m.index[e.vendor]].kind # e.kind
    BY <1>1, <1>2 DEF Missed
  <2>2. Kept(m, Append(d, e))
    BY <1>1, <2>1, NotPutKept
  <2>3. QED
    BY <1>2, <2>2 DEF e
<1>3. CASE \E i : Put(m, n, i, kind, <<Tokens[Len(d) + 1]>>, v)
  <2>1. PICK i : Put(m, n, i, kind, <<Tokens[Len(d) + 1]>>, v)
    BY <1>3
  <2>2. Sound(n)
    BY DEF Reached
  <2>3. QED
    BY <2>1, <2>2, PutToken
<1>4. QED
  BY <1>2, <1>3 DEF Reached

(* A delta without content. *)
LEMMA NoTokenKept ==
  ASSUME NEW m, NEW n, Sound(m), NEW kind, NEW v \in VendorIds \cup {None},
         NEW d \in Seq(Delta), Len(d) < Len(Tokens), Kept(m, d), Reached(m, n, kind, <<>>, v),
         NEW e \in Delta, e.kind \in {"signature", "metadata"}
  PROVE  Kept(n, Append(d, e))
<1>1. <<>> \in Seq(Atoms) /\ Len(<<>>) = 0
  BY EmptySeq
<1>2. Len(d) \in Nat /\ Len(Tokens) \in Nat
  BY TokensApart
<1>3. Kept(n, d)
  <2> DEFINE c == <<>>
  <2>1. c \in Seq(Atoms) /\ \A a \in 1 .. Len(c) : \A k \in 1 .. Len(Tokens) : c[a] # Tokens[k]
    BY <1>1
  <2>2. Reached(m, n, kind, c, v)
    OBVIOUS
  <2> HIDE DEF c
  <2>3. QED
    BY <1>2, <2>1, <2>2, ReachedKept
<1>4. Sound(n)
  BY DEF Reached
<1>5. QED
  BY <1>3, <1>4, NotPutKept

----------------------------------------------------------------------------
(* Text *)

(* The type of the mode. *)
LEMMA ModeOK ==
  ASSUME mode \in Uses
  PROVE  /\ mode.tagged \in BOOLEAN /\ mode.ignore_blanks \in BOOLEAN
         /\ mode.vendor \in VendorIds \cup {None}
         /\ mode.text \in Seq(Bytes)
         /\ mode.deltas \in 0 .. Len(Tokens)
<1>1. /\ mode.tagged \in BOOLEAN /\ mode.ignore_blanks \in BOOLEAN
      /\ mode.vendor \in VendorIds \cup {None}
      /\ mode.deltas \in 0 .. Len(Tokens)
  BY PartsAssumption DEF Use
<1>2. mode.text \in Seq(ToSet(mode.text))
  BY PartsAssumption
<1>3. ToSet(mode.text) \subseteq Bytes
  BY DEF Bytes
<1>4. mode.text \in Seq(Bytes)
  BY <1>2, <1>3, SeqMonotonic
<1>5. QED
  BY <1>1, <1>4

(* The bytes of a text are no tokens. *)
LEMMA BytesApart ==
  ASSUME NEW c \in Seq(Bytes)
  PROVE  /\ c \in Seq(Atoms)
         /\ \A a \in 1 .. Len(c) : \A k \in 1 .. Len(Tokens) : c[a] # Tokens[k]
<1>1. Bytes \subseteq Atoms
  BY DEF Bytes, Atoms
<1>2. c \in Seq(Atoms)
  BY <1>1, SeqMonotonic
<1>3. \A a \in 1 .. Len(c) : c[a] \in Bytes
  OBVIOUS
<1>4. QED
  BY <1>2, <1>3, TokensApart

(* A part of a text. *)
LEMMA Slice ==
  ASSUME NEW S, NEW s \in Seq(S), NEW a \in Nat \ {0}, NEW b \in Int, b <= Len(s)
  PROVE  /\ SubSeq(s, a, b) \in Seq(S)
         /\ Len(SubSeq(s, a, b)) = IF a <= b THEN b - a + 1 ELSE 0
         /\ \A i \in 1 .. b - a + 1 : SubSeq(s, a, b)[i] = s[a + i - 1]
<1>1. \A i \in a .. b : s[i] \in S
  OBVIOUS
<1>2. a \in Int
  OBVIOUS
<1>3. QED
  BY <1>1, <1>2, SubSeqProperties

Good(m, d) == Sound(m) /\ Seen(m) /\ Kept(m, d)

(* A piece of tagged text disturbs no other delta. *)
LEMMA PieceGood ==
  ASSUME mode \in Uses, NEW m, NEW d \in Seq(Delta), Len(d) <= Len(Tokens), Good(m, d),
         NEW thinking, NEW content \in Seq(Bytes)
  PROVE  Good(WithPiece(m, thinking, content), d)
<1>1. /\ content \in Seq(Atoms)
      /\ \A a \in 1 .. Len(content) : \A k \in 1 .. Len(Tokens) : content[a] # Tokens[k]
  BY BytesApart
<1>2. mode.vendor \in VendorIds \cup {None} /\ None \in VendorIds \cup {None}
  BY ModeOK
<1>3. CASE content = <<>>
  BY <1>3 DEF WithPiece
<1>4. CASE content # <<>> /\ thinking
  <2> DEFINE n == WithContent(m, "thinking", None, content)
  <2>1. Reached(m, n, "thinking", content, None)
    BY <1>1, <1>2, ContentReached DEF Good
  <2>2. WithPiece(m, thinking, content) = n
    BY <1>4 DEF WithPiece
  <2> HIDE DEF n
  <2>3. Kept(n, d)
    BY <1>1, <2>1, ReachedKept DEF Good
  <2>4. QED
    BY <2>1, <2>2, <2>3 DEF Good, Reached
<1>5. CASE content # <<>> /\ ~thinking
  <2> DEFINE n == WithText(m, mode.vendor, content)
  <2>1. n = m \/ Reached(m, n, "text", content, mode.vendor)
    BY <1>1, <1>2, TextReached DEF Good
  <2>2. WithPiece(m, thinking, content) = n
    BY <1>5 DEF WithPiece
  <2> HIDE DEF n
  <2>3. CASE n = m
    BY <2>2, <2>3
  <2>4. CASE Reached(m, n, "text", content, mode.vendor)
    <3>1. Kept(n, d)
      BY <1>1, <2>4, ReachedKept DEF Good
    <3>2. QED
      BY <2>2, <2>4, <3>1 DEF Good, Reached
  <2>5. QED
    BY <2>1, <2>3, <2>4
<1>6. QED
  BY <1>3, <1>4, <1>5

----------------------------------------------------------------------------
(* Tags *)

(* A tag is a sequence that is not empty. *)
LEMMA TagOK ==
  ASSUME NEW tag \in {StartTag, EndTag}
  PROVE  tag \in Seq(ToSet(tag)) /\ Len(tag) \in Nat \ {0}
<1>1. tag \in Seq(ToSet(tag)) /\ Len(tag) > 0
  BY PartsAssumption
<1>2. QED
  BY <1>1

(* Find is 0 if the tag is nowhere, and its first place otherwise. *)
LEMMA Found ==
  ASSUME NEW s \in Seq(Bytes), NEW tag \in {StartTag, EndTag}
  PROVE  \/ Find(s, tag) = 0 /\ \A k \in 1 .. Len(s) : ~ Matches(s, k, tag)
         \/ /\ Find(s, tag) \in 1 .. Len(s) /\ Matches(s, Find(s, tag), tag)
            /\ \A k \in 1 .. Len(s) : Matches(s, k, tag) => Find(s, tag) <= k
<1> DEFINE at == {k \in DOMAIN s : Matches(s, k, tag)}
<1>1. Find(s, tag) = IF at = {} THEN 0 ELSE CHOOSE k \in at : \A j \in at : k <= j
  BY DEF Find
<1>2. DOMAIN s = 1 .. Len(s) /\ at \subseteq Nat
  OBVIOUS
<1>3. CASE at = {}
  BY <1>1, <1>2, <1>3
<1>4. CASE at # {}
  <2>1. \E k \in at : \A j \in at : k <= j
    <3> HIDE DEF at
    <3>1. QED
      BY <1>2, <1>4, Least
  <2>2. Find(s, tag) \in at /\ \A j \in at : Find(s, tag) <= j
    BY <1>1, <1>4, <2>1
  <2>3. QED
    BY <1>2, <2>2
<1>5. QED
  BY <1>3, <1>4

(* What is held back is of the text. *)
LEMMA HeldBytes ==
  ASSUME NEW s \in Seq(Bytes), NEW tag \in {StartTag, EndTag}
  PROVE  HeldBack(s, tag) \in Seq(Bytes)
<1> DEFINE D == Deciding(s, tag)
           x == CHOOSE n \in D : \A k \in D : n <= k
<1>1. HeldBack(s, tag) = IF D = {} THEN <<>> ELSE Suffix(s, x)
  BY DEF HeldBack, PartialTag
<1>2. D \subseteq Nat \ {0}
  <2>1. D \subseteq 1 .. Len(tag) - 1 /\ Len(tag) \in Nat
    BY TagOK DEF Deciding
  <2>2. QED
    BY <2>1
<1>3. CASE D = {}
  BY <1>1, <1>3, EmptySeq
<1>4. CASE D # {}
  <2>1. x \in D
    <3> HIDE DEF D
    <3>1. \E n \in D : \A k \in D : n <= k
      BY <1>2, <1>4, Least
    <3>2. QED
      BY <3>1
  <2> HIDE DEF x, D
  <2>2. x \in Nat \ {0}
    BY <1>2, <2>1
  <2>3. Suffix(s, x) = SubSeq(s, IF x < Len(s) THEN Len(s) - x + 1 ELSE 1, Len(s))
    BY DEF Suffix
  <2>4. (IF x < Len(s) THEN Len(s) - x + 1 ELSE 1) \in Nat \ {0} /\ Len(s) \in Int
    BY <2>2
  <2>5. QED
    BY <1>1, <1>4, <2>3, <2>4, Slice
<1>5. QED
  BY <1>3, <1>4

(* The loop between two rounds. *)
Begun(s) ==
  [m |-> Manager, left |-> s, thinking |-> in_thinking, held |-> <<>>, panics |-> FALSE]

Looping(r, d) ==
  /\ r = [m |-> r.m, left |-> r.left, thinking |-> r.thinking, held |-> r.held,
          panics |-> r.panics]
  /\ Good(r.m, d)
  /\ r.left \in Seq(Bytes) /\ r.held \in Seq(Bytes)
  /\ r.thinking \in BOOLEAN

(* A round of the loop keeps parts and events in order. *)
LEMMA RoundLoops ==
  ASSUME mode \in Uses, NEW d \in Seq(Delta), Len(d) <= Len(Tokens), NEW r, Looping(r, d)
  PROVE  Looping(Round(r), d)
<1> DEFINE tag == IF r.thinking THEN EndTag ELSE StartTag
           pos == Find(r.left, tag)
           held == HeldBack(r.left, tag)
           first == SubSeq(r.left, 1, pos - 1)
           last == SubSeq(r.left, pos + Len(tag), Len(r.left))
           all == SubSeq(r.left, 1, Len(r.left) - Len(held))
           n == Round(r)
<1>1. /\ r = [m |-> r.m, left |-> r.left, thinking |-> r.thinking, held |-> r.held,
              panics |-> r.panics]
      /\ Good(r.m, d) /\ r.left \in Seq(Bytes) /\ r.held \in Seq(Bytes)
      /\ r.thinking \in BOOLEAN
  BY DEF Looping
<1>2. tag \in {StartTag, EndTag}
  OBVIOUS
<1> HIDE DEF tag
<1>3. Len(tag) \in Nat \ {0}
  BY <1>2, TagOK
<1>4. CASE r.left = <<>>
  BY <1>4 DEF Round
<1>5. CASE r.left # <<>> /\ pos # 0
  <2>1. pos \in 1 .. Len(r.left)
    BY <1>1, <1>2, <1>5, Found
  <2> HIDE DEF pos
  <2>2. first \in Seq(Bytes)
    BY <1>1, <2>1, Slice
  <2>3. last \in Seq(Bytes)
    <3>1. pos + Len(tag) \in Nat \ {0} /\ Len(r.left) \in Int
      BY <1>1, <1>3, <2>1
    <3>2. QED
      BY <1>1, <3>1, Slice
  <2> HIDE DEF first, last
  <2>4. n = [r EXCEPT !.m = WithPiece(@, r.thinking, first), !.left = last,
                      !.thinking = ~r.thinking]
    BY <1>5 DEF Round, tag, pos, first, last
  <2>5. n = [m |-> WithPiece(r.m, r.thinking, first), left |-> last, thinking |-> ~r.thinking,
             held |-> r.held, panics |-> r.panics]
    BY <1>1, <2>4
  <2>6. Good(WithPiece(r.m, r.thinking, first), d)
    BY <1>1, <2>2, PieceGood
  <2> HIDE DEF n
  <2>7. /\ n.m = WithPiece(r.m, r.thinking, first) /\ n.left = last /\ n.held = r.held
        /\ n.thinking = ~r.thinking /\ n.panics = r.panics
    BY <2>5
  <2>8. QED
    BY <1>1, <2>3, <2>5, <2>6, <2>7 DEF Looping, n
<1>6. CASE r.left # <<>> /\ pos = 0
  <2>1. held \in Seq(Bytes)
    BY <1>1, <1>2, HeldBytes
  <2>9. Len(held) \in Nat
    BY <2>1
  <2>2. all \in Seq(Bytes)
    <3>1. Len(r.left) - Len(held) \in Int /\ Len(r.left) - Len(held) <= Len(r.left)
      BY <1>1, <2>9
    <3>2. QED
      BY <1>1, <3>1, Slice
  <2> HIDE DEF held, all
  <2>4. n = [r EXCEPT !.m = WithPiece(@, r.thinking, all), !.left = <<>>, !.held = held,
                      !.panics = TagPanics(r.left, tag)]
    BY <1>6 DEF Round, tag, pos, held, all
  <2>5. n = [m |-> WithPiece(r.m, r.thinking, all), left |-> <<>>, thinking |-> r.thinking,
             held |-> held, panics |-> TagPanics(r.left, tag)]
    BY <1>1, <2>4
  <2>6. Good(WithPiece(r.m, r.thinking, all), d)
    BY <1>1, <2>2, PieceGood
  <2>10. <<>> \in Seq(Bytes)
    BY EmptySeq
  <2> HIDE DEF n
  <2>7. /\ n.m = WithPiece(r.m, r.thinking, all) /\ n.left = <<>> /\ n.held = held
        /\ n.thinking = r.thinking /\ n.panics = TagPanics(r.left, tag)
    BY <2>5
  <2>8. QED
    BY <1>1, <2>1, <2>5, <2>6, <2>7, <2>10 DEF Looping, n
<1>7. QED
  BY <1>4, <1>5, <1>6

(* The recursion of Scan has a solution.                                   *)
ScanStep(s, f, n) == IF n = 0 THEN Begun(s) ELSE Round(f[n - 1])

(* The recursive function of Scan exists: the least length without it has  *)
(* one.                                                                    *)
LEMMA ScanExists ==
  ASSUME NEW s, NEW l \in Nat
  PROVE  \E f : f = [n \in 0 .. l |-> ScanStep(s, f, n)]
<1> DEFINE Solved(m) == \E f : f = [n \in 0 .. m |-> ScanStep(s, f, n)]
           Unsolved == {m \in Nat : ~ Solved(m)}
<1>1. SUFFICES ASSUME Unsolved # {} PROVE FALSE
  OBVIOUS
<1>2. PICK m \in Unsolved : \A n \in Unsolved : m <= n
  BY <1>1, Least
<1>3. Solved(0)
  <2> DEFINE f == [n \in 0 .. 0 |-> Begun(s)]
  <2>1. f = [n \in 0 .. 0 |-> ScanStep(s, f, n)]
    BY DEF ScanStep
  <2>2. QED
    BY <2>1
<1>4. m \in Nat /\ m # 0
  BY <1>2, <1>3
<1>5. m - 1 \in Nat /\ m - 1 \notin Unsolved
  BY <1>2, <1>4
<1>6. PICK f : f = [n \in 0 .. m - 1 |-> ScanStep(s, f, n)]
  BY <1>5
<1> DEFINE g == [n \in 0 .. m |-> IF n = m THEN ScanStep(s, f, m) ELSE f[n]]
<1>7. \A n \in 0 .. m : ScanStep(s, g, n) = g[n]
  <2>1. \A n \in 0 .. m - 1 : n # m /\ g[n] = f[n]
    BY <1>4
  <2>2. \A n \in 0 .. m : n # 0 => n - 1 \in 0 .. m - 1
    BY <1>4
  <2>3. \A n \in 0 .. m : ScanStep(s, g, n) = ScanStep(s, f, n)
    BY <2>1, <2>2 DEF ScanStep
  <2>4. \A n \in 0 .. m - 1 : f[n] = ScanStep(s, f, n)
    BY <1>6
  <2>5. \A n \in 0 .. m : n = m \/ n \in 0 .. m - 1
    BY <1>4
  <2>6. g[m] = ScanStep(s, f, m)
    BY <1>4
  <2>7. QED
    BY <2>1, <2>3, <2>4, <2>5, <2>6
<1>8. g = [n \in 0 .. m |-> ScanStep(s, g, n)]
  BY <1>7
<1>9. Solved(m)
  BY <1>8
<1>10. QED
  BY <1>2, <1>9

(* Scan is round after round. *)
LEMMA ScanUnfolds ==
  ASSUME NEW s, Len(s) \in Nat
  PROVE  \E f : /\ Scan(s) = f[Len(s)]
                /\ f[0] = Begun(s)
                /\ \A n \in 1 .. Len(s) : f[n] = Round(f[n - 1])
<1> DEFINE f == CHOOSE h : h = [n \in 0 .. Len(s) |-> ScanStep(s, h, n)]
<1>1. f = [n \in 0 .. Len(s) |-> ScanStep(s, f, n)]
  BY ScanExists
<1>2. Scan(s) = f[Len(s)]
  BY DEF Scan, ScanStep, Begun
<1> HIDE DEF f
<1>3. \A n \in 0 .. Len(s) : f[n] = ScanStep(s, f, n)
  BY <1>1
<1>4. f[0] = Begun(s)
  BY <1>3 DEF ScanStep
<1>5. ASSUME NEW n \in 1 .. Len(s)
      PROVE  f[n] = Round(f[n - 1])
  <2>1. n \in 0 .. Len(s) /\ n # 0
    OBVIOUS
  <2>2. QED
    BY <1>3, <2>1 DEF ScanStep
<1>6. QED
  BY <1>2, <1>4, <1>5

(* So does the whole loop, by induction on its rounds. *)
LEMMA ScanLoops ==
  ASSUME mode \in Uses, NEW d \in Seq(Delta), Len(d) <= Len(Tokens), Good(Manager, d),
         in_thinking \in BOOLEAN, NEW s \in Seq(Bytes)
  PROVE  Looping(Scan(s), d)
<1>1. PICK f : /\ Scan(s) = f[Len(s)]
               /\ f[0] = Begun(s)
               /\ \A n \in 1 .. Len(s) : f[n] = Round(f[n - 1])
  BY ScanUnfolds
<1> DEFINE Bad == {n \in 0 .. Len(s) : ~ Looping(f[n], d)}
<1>2. SUFFICES ASSUME Bad # {} PROVE FALSE
  BY <1>1
<1>3. PICK n \in Bad : \A k \in Bad : n <= k
  <2>1. Bad \subseteq Nat
    OBVIOUS
  <2> HIDE DEF Bad
  <2>2. QED
    BY <1>2, <2>1, Least
<1>4. Looping(f[0], d)
  <2>1. <<>> \in Seq(Bytes)
    BY EmptySeq
  <2>2. QED
    BY <1>1, <2>1 DEF Looping, Begun
<1>5. n \in 1 .. Len(s) /\ n - 1 \in 0 .. Len(s) /\ n - 1 \notin Bad
  BY <1>3, <1>4
<1>6. Looping(f[n - 1], d)
  BY <1>5
<1>7. Looping(f[n], d)
  BY <1>1, <1>5, <1>6, RoundLoops
<1>8. QED
  BY <1>3, <1>7

----------------------------------------------------------------------------
(* The invariant. *)

PartsInv ==
  /\ mode \in Uses
  /\ in_thinking \in BOOLEAN /\ panicked \in BOOLEAN
  /\ partial # <<>> => mode.tagged
  /\ rest \in Seq(Bytes) /\ partial \in Seq(Bytes) /\ fed \in Seq(Bytes)
  /\ sent \in Seq(Delta) /\ Len(sent) <= mode.deltas
  /\ Good(Manager, sent)

(* The three variables are the record the handler left. *)
LEMMA ManagerIs ==
  ASSUME NEW n, Sound(n), Become(n)
  PROVE  Manager' = n
BY DEF Manager, Become, Sound

(* No parts, no deltas. *)
LEMMA NothingGood ==
  ASSUME NEW m, m = [parts |-> <<>>, index |-> [v \in {} |-> 0], view |-> <<>>]
  PROVE  Good(m, <<>>)
<1>1. m.parts = <<>> /\ m.view = <<>> /\ m.index = [v \in {} |-> 0]
  OBVIOUS
<1>2. Sound(m)
  <2>1. <<>> \in Seq(AnyPart) /\ <<>> \in Seq(AnyPart \cup {None}) /\ Len(<<>>) = 0
    BY EmptySeq
  <2>2. DOMAIN m.index = {} /\ m.index \in [{} -> 1 .. 0]
    BY <1>1
  <2>3. QED
    BY <1>1, <2>1, <2>2 DEF Sound
<1>3. Len(m.parts) = 0
  BY <1>1, EmptySeq
<1>4. Seen(m)
  BY <1>3 DEF Seen
<1>5. Full(<<>>) = {}
  BY EmptySeq DEF Full
<1>6. Kept(m, <<>>)
  BY <1>3, <1>5 DEF Kept, InOnePart, OfItsKind, LostByKind, NamedById, Together, InOrder
<1>7. QED
  BY <1>2, <1>4, <1>6 DEF Good

(* The invariant holds at first. *)
LEMMA PartsInit == Init => PartsInv
<1> SUFFICES ASSUME Init PROVE PartsInv
  OBVIOUS
<1>1. mode \in Uses /\ rest = mode.text /\ partial = <<>> /\ fed = <<>> /\ sent = <<>>
      /\ in_thinking = FALSE /\ panicked = FALSE
  BY DEF Init
<1>2. Manager = [parts |-> <<>>, index |-> [v \in {} |-> 0], view |-> <<>>]
  BY DEF Init, Manager
<1>3. Good(Manager, <<>>)
  BY <1>2, NothingGood
<1>4. <<>> \in Seq(Bytes) /\ <<>> \in Seq(Delta) /\ Len(<<>>) = 0
  BY EmptySeq
<1>5. mode.deltas \in Nat /\ rest \in Seq(Bytes)
  BY <1>1, ModeOK
<1>6. 0 <= mode.deltas
  BY <1>5
<1>7. QED
  BY <1>1, <1>3, <1>4, <1>5, <1>6 DEF PartsInv

(* The next chunk. *)
LEMMA ChunkBytes ==
  ASSUME PartsInv, NEW n \in Chunks, TextArrives(n)
  PROVE  /\ SubSeq(rest, 1, n) \in Seq(Bytes)
         /\ rest' \in Seq(Bytes) /\ fed' \in Seq(Bytes)
         /\ n \in 1 .. Len(rest) /\ Len(SubSeq(rest, 1, n)) = n
<1>1. rest \in Seq(Bytes) /\ fed \in Seq(Bytes)
  BY DEF PartsInv
<1>2. n \in 1 .. Len(rest) /\ Len(rest) \in Nat
  BY <1>1 DEF Chunks
<1>3. SubSeq(rest, 1, n) \in Seq(Bytes) /\ Len(SubSeq(rest, 1, n)) = n
  BY <1>1, <1>2, Slice
<1>4. n + 1 \in Nat \ {0} /\ Len(rest) \in Int
  BY <1>2
<1>5. SubSeq(rest, n + 1, Len(rest)) \in Seq(Bytes)
  BY <1>1, <1>4, Slice
<1>6. rest' = SubSeq(rest, n + 1, Len(rest)) /\ fed' = fed \o SubSeq(rest, 1, n)
  BY DEF TextArrives
<1>7. QED
  BY <1>1, <1>2, <1>3, <1>5, <1>6, Joined

(* A delta that is not text changes the parts only. *)
LEMMA DeltaSent ==
  ASSUME PartsInv, NEW kind, NEW v \in VendorIds \cup {None}, Sent(kind, v),
         [kind |-> kind, vendor |-> v] \in Delta, Len(sent) < mode.deltas,
         Good(Manager', Append(sent, [kind |-> kind, vendor |-> v]))
  PROVE  PartsInv'
<1> DEFINE e == [kind |-> kind, vendor |-> v]
<1>1. /\ sent' = Append(sent, e)
      /\ UNCHANGED <<mode, rest, in_thinking, partial, fed, panicked>>
  BY DEF Sent
<1>2. sent \in Seq(Delta) /\ e \in Delta
  BY DEF PartsInv
<1> HIDE DEF e
<1>3. sent' \in Seq(Delta) /\ Len(sent') = Len(sent) + 1 /\ Len(sent) \in Nat
  BY <1>1, <1>2
<1>4. mode.deltas \in Nat
  BY ModeOK DEF PartsInv
<1>5. Len(sent') <= mode.deltas
  BY <1>3, <1>4
<1>6. Good(Manager', sent')
  BY <1>1 DEF e
<1>7. QED
  BY <1>1, <1>3, <1>5, <1>6 DEF PartsInv

(* A delta with a token was handed over. *)
LEMMA TokenSent ==
  ASSUME PartsInv, NEW kind \in Kinds, NEW v \in VendorIds \cup {None}, NEW n,
         Len(sent) < mode.deltas, Reached(Manager, n, kind, <<Token>>, v), Become(n),
         Sent(kind, v)
  PROVE  PartsInv'
<1>1. /\ Sound(Manager) /\ Kept(Manager, sent) /\ sent \in Seq(Delta)
      /\ mode.deltas \in 0 .. Len(Tokens) /\ Len(Tokens) \in Nat /\ Len(sent) \in Nat
  BY ModeOK, TokensApart DEF PartsInv, Good
<1>2. Len(sent) < Len(Tokens)
  BY <1>1
<1>3. Reached(Manager, n, kind, <<Tokens[Len(sent) + 1]>>, v)
  BY DEF Token
<1>4. Kept(n, Append(sent, [kind |-> kind, vendor |-> v]))
  BY <1>1, <1>2, <1>3, TokenKept
<1>5. Manager' = n /\ Sound(n) /\ Seen(n)
  BY ManagerIs DEF Reached
<1>6. [kind |-> kind, vendor |-> v] \in Delta
  BY DEF Delta
<1>7. QED
  BY <1>4, <1>5, <1>6, DeltaSent DEF Good

(* A delta without content was handed over. *)
LEMMA NothingSent ==
  ASSUME PartsInv, NEW kind, NEW v \in VendorIds \cup {None}, NEW n,
         Len(sent) < mode.deltas, Reached(Manager, n, kind, <<>>, v), Become(n),
         NEW what \in {"signature", "metadata"}, Sent(what, v)
  PROVE  PartsInv'
<1>1. /\ Sound(Manager) /\ Kept(Manager, sent) /\ sent \in Seq(Delta)
      /\ mode.deltas \in 0 .. Len(Tokens) /\ Len(Tokens) \in Nat /\ Len(sent) \in Nat
  BY ModeOK, TokensApart DEF PartsInv, Good
<1>2. Len(sent) < Len(Tokens)
  BY <1>1
<1> DEFINE e == [kind |-> what, vendor |-> v]
<1>3. e \in Delta /\ e.kind \in {"signature", "metadata"}
  BY DEF Delta
<1> HIDE DEF e
<1>4. Kept(n, Append(sent, e))
  BY <1>1, <1>2, <1>3, NoTokenKept
<1>5. Manager' = n /\ Sound(n) /\ Seen(n)
  BY ManagerIs DEF Reached
<1>6. QED
  BY <1>3, <1>4, <1>5, DeltaSent DEF Good, e

(* The next token, as a content. *)
LEMMA TokenContent ==
  ASSUME PartsInv, Len(sent) < mode.deltas
  PROVE  <<Token>> \in Seq(Atoms) /\ <<Token>> # <<>> /\ <<>> \in Seq(Atoms)
<1>1. /\ sent \in Seq(Delta)
      /\ mode.deltas \in 0 .. Len(Tokens) /\ Len(Tokens) \in Nat /\ Len(sent) \in Nat
  BY ModeOK, TokensApart DEF PartsInv, Good
<1>2. Len(sent) + 1 \in 1 .. Len(Tokens)
  BY <1>1
<1>3. Tokens[Len(sent) + 1] \in Atoms
  BY <1>2, TokensApart
<1>4. QED
  BY <1>3 DEF Token

(* The invariant is inductive: one step for each handler. *)
LEMMA PartsStep == PartsInv /\ [Next]_vars => PartsInv'
<1> SUFFICES ASSUME PartsInv, [Next]_vars PROVE PartsInv'
  OBVIOUS
<1>1. /\ mode \in Uses /\ sent \in Seq(Delta) /\ Len(sent) <= mode.deltas /\ Good(Manager, sent)
      /\ Sound(Manager) /\ Seen(Manager) /\ Kept(Manager, sent)
      /\ in_thinking \in BOOLEAN /\ partial \in Seq(Bytes)
      /\ mode.vendor \in VendorIds \cup {None}
      /\ mode.deltas \in Nat /\ Len(Tokens) \in Nat /\ mode.deltas <= Len(Tokens)
      /\ Len(sent) \in Nat /\ Len(sent) <= Len(Tokens)
  <2>1. /\ mode \in Uses /\ sent \in Seq(Delta) /\ Len(sent) <= mode.deltas /\ Good(Manager, sent)
        /\ in_thinking \in BOOLEAN /\ partial \in Seq(Bytes)
    BY DEF PartsInv
  <2>2. mode.vendor \in VendorIds \cup {None} /\ mode.deltas \in 0 .. Len(Tokens)
    BY <2>1, ModeOK
  <2>3. Len(Tokens) \in Nat /\ Len(sent) \in Nat
    BY <2>1, TokensApart
  <2>4. QED
    BY <2>1, <2>2, <2>3 DEF Good
<1>2. ASSUME NEW n \in Chunks, HandlePlainText(n)
      PROVE  PartsInv'
  <2> DEFINE c == SubSeq(rest, 1, n)
             m == WithText(Manager, mode.vendor, c)
  <2>1. c \in Seq(Bytes) /\ rest' \in Seq(Bytes) /\ fed' \in Seq(Bytes)
    BY <1>2, ChunkBytes DEF HandlePlainText
  <2>2. /\ Become(m) /\ UNCHANGED <<mode, sent, in_thinking, partial, panicked>>
    BY <1>2 DEF HandlePlainText, TextArrives
  <2> HIDE DEF c
  <2>3. Good(m, sent)
    <3>1. /\ c \in Seq(Atoms)
          /\ \A a \in 1 .. Len(c) : \A k \in 1 .. Len(Tokens) : c[a] # Tokens[k]
      BY <2>1, BytesApart
    <3>2. m = Manager \/ Reached(Manager, m, "text", c, mode.vendor)
      BY <1>1, <3>1, TextReached
    <3> HIDE DEF m
    <3>3. CASE m = Manager
      BY <1>1, <3>3
    <3>4. CASE Reached(Manager, m, "text", c, mode.vendor)
      <4>1. Kept(m, sent)
        BY <1>1, <3>1, <3>4, ReachedKept
      <4>2. QED
        BY <3>4, <4>1 DEF Good, Reached
    <3>5. QED
      BY <3>2, <3>3, <3>4
  <2> HIDE DEF m
  <2>4. Manager' = m
    BY <2>2, <2>3, ManagerIs DEF Good
  <2>5. QED
    BY <2>1, <2>2, <2>3, <2>4 DEF PartsInv
<1>3. ASSUME NEW n \in Chunks, HandleTaggedText(n)
      PROVE  PartsInv'
  <2> DEFINE c == SubSeq(rest, 1, n)
             s == partial \o c
             r == Scan(s)
  <2>1. c \in Seq(Bytes) /\ rest' \in Seq(Bytes) /\ fed' \in Seq(Bytes)
    BY <1>3, ChunkBytes DEF HandleTaggedText
  <2>2. /\ Become(r.m) /\ in_thinking' = r.thinking /\ partial' = r.held
        /\ mode.tagged /\ UNCHANGED <<mode, sent, panicked>>
    BY <1>3 DEF HandleTaggedText, TextArrives, Scanned
  <2> HIDE DEF c
  <2>3. s \in Seq(Bytes)
    BY <1>1, <2>1
  <2> HIDE DEF s
  <2>4. Looping(r, sent)
    BY <1>1, <2>3, ScanLoops
  <2> HIDE DEF r
  <2>5. Good(r.m, sent) /\ r.held \in Seq(Bytes) /\ r.thinking \in BOOLEAN
    BY <2>4 DEF Looping
  <2>6. Manager' = r.m
    BY <2>2, <2>5, ManagerIs DEF Good
  <2>7. QED
    BY <2>1, <2>2, <2>5, <2>6 DEF PartsInv
<1>4. ASSUME NEW n \in Chunks, TextPanics(n)
      PROVE  PartsInv'
  <2>1. /\ panicked' = TRUE
        /\ UNCHANGED <<mode, rest, parts, index, in_thinking, partial, view, fed, sent>>
    BY <1>4 DEF TextPanics, ghosts
  <2>2. Manager' = Manager
    BY <2>1 DEF Manager
  <2>3. QED
    BY <1>1, <2>1, <2>2 DEF PartsInv
<1>5. ASSUME NEW v \in VendorIds \cup {None}, Len(sent) < mode.deltas, HandleThinking(v)
      PROVE  PartsInv'
  <2>1. PICK content \in {<<>>, <<Token>>} :
          /\ Sent(IF content = <<>> THEN "signature" ELSE "thinking", v)
          /\ Become(WithContent(Manager, "thinking", v, content))
    BY <1>5 DEF HandleThinking
  <2> DEFINE m == WithContent(Manager, "thinking", v, content)
  <2>2. <<Token>> \in Seq(Atoms) /\ <<Token>> # <<>> /\ <<>> \in Seq(Atoms)
    BY <1>5, TokenContent
  <2>3. content \in Seq(Atoms)
    BY <2>2
  <2>4. Become(m) /\ Reached(Manager, m, "thinking", content, v)
    BY <1>1, <2>1, <2>3, ContentReached
  <2> HIDE DEF m
  <2>5. CASE content = <<>>
    <3>1. Sent("signature", v)
      BY <2>1, <2>5
    <3>2. Reached(Manager, m, "thinking", <<>>, v)
      BY <2>4, <2>5
    <3>3. QED
      BY <1>5, <2>4, <3>1, <3>2, NothingSent
  <2>6. CASE content = <<Token>>
    <3>1. Sent("thinking", v)
      BY <2>1, <2>2, <2>6
    <3>2. Reached(Manager, m, "thinking", <<Token>>, v)
      BY <2>4, <2>6
    <3>3. "thinking" \in Kinds
      BY DEF Kinds
    <3>4. QED
      BY <1>5, <2>4, <3>1, <3>2, <3>3, TokenSent
  <2>7. QED
    BY <2>5, <2>6
<1>6. ASSUME NEW v \in VendorIds \cup {None}, Len(sent) < mode.deltas, HandleFile(v)
      PROVE  PartsInv'
  <2> DEFINE file == Part("file", <<Token>>, FALSE)
             m == Created(Manager, v, file, file)
  <2>1. Sent("file", v) /\ Become(m)
    BY <1>6 DEF HandleFile
  <2>2. <<Token>> \in Seq(Atoms)
    BY <1>6, TokenContent
  <2>3. Reached(Manager, m, "file", <<Token>>, v)
    BY <1>1, <2>2, FileReached
  <2> HIDE DEF m
  <2>4. "file" \in Kinds
    BY DEF Kinds
  <2>5. QED
    BY <1>6, <2>1, <2>3, <2>4, TokenSent
<1>7. ASSUME NEW v \in VendorIds \cup {None}, Len(sent) < mode.deltas, NEW kind \in CallKinds,
             HandleCall(kind, v)
      PROVE  PartsInv'
  <2>1. PICK named \in BOOLEAN, id \in BOOLEAN, content \in {<<>>, <<Token>>} :
          /\ Sent(IF content = <<>> THEN "metadata" ELSE kind, v)
          /\ Become(WithCall(Manager, kind, v, named, content, id))
    BY <1>7 DEF HandleCall
  <2> DEFINE m == WithCall(Manager, kind, v, named, content, id)
  <2>2. <<Token>> \in Seq(Atoms) /\ <<Token>> # <<>> /\ <<>> \in Seq(Atoms)
    BY <1>7, TokenContent
  <2>3. content \in Seq(Atoms)
    BY <2>2
  <2>4. Become(m) /\ Reached(Manager, m, kind, content, v)
    BY <1>1, <2>1, <2>3, CallReached
  <2> HIDE DEF m
  <2>5. CASE content = <<>>
    <3>1. Sent("metadata", v)
      BY <2>1, <2>5
    <3>2. Reached(Manager, m, kind, <<>>, v)
      BY <2>4, <2>5
    <3>3. QED
      BY <1>7, <2>4, <3>1, <3>2, NothingSent
  <2>6. CASE content = <<Token>>
    <3>1. Sent(kind, v)
      BY <2>1, <2>2, <2>6
    <3>2. Reached(Manager, m, kind, <<Token>>, v)
      BY <2>4, <2>6
    <3>3. kind \in Kinds
      BY DEF Kinds, CallKinds
    <3>4. QED
      BY <1>7, <2>4, <3>1, <3>2, <3>3, TokenSent
  <2>7. QED
    BY <2>5, <2>6
<1>8. CASE Clear
  <2>1. /\ rest' = mode.text /\ in_thinking' = FALSE /\ partial' = <<>> /\ fed' = <<>>
        /\ sent' = <<>> /\ UNCHANGED <<mode, panicked>>
    BY <1>8 DEF Clear
  <2>2. Manager' = [parts |-> <<>>, index |-> [v \in {} |-> 0], view |-> <<>>]
    BY <1>8 DEF Clear, Manager
  <2>3. Good(Manager', <<>>)
    BY <2>2, NothingGood
  <2>4. <<>> \in Seq(Bytes) /\ <<>> \in Seq(Delta) /\ Len(<<>>) = 0
    BY EmptySeq
  <2>5. 0 <= mode.deltas /\ mode.text \in Seq(Bytes)
    BY <1>1, ModeOK
  <2>6. QED
    BY <1>1, <2>1, <2>3, <2>4, <2>5 DEF PartsInv
<1>9. CASE UNCHANGED vars
  <2>1. UNCHANGED <<mode, rest, parts, index, in_thinking, partial, view, fed, sent, panicked>>
    BY <1>9 DEF vars, ghosts
  <2>2. Manager' = Manager
    BY <2>1 DEF Manager
  <2>3. QED
    BY <2>1, <2>2 DEF PartsInv
<1>10. QED
  BY <1>2, <1>3, <1>4, <1>5, <1>6, <1>7, <1>8, <1>9 DEF Next

(* The parts of PartsFaithful follow from the invariant: the types, *)
LEMMA PartsTyped == PartsInv => TypeOK
<1> SUFFICES ASSUME PartsInv PROVE TypeOK
  OBVIOUS
<1>1. Sound(Manager)
  BY DEF PartsInv, Good
<1>2. /\ parts \in Seq(AnyPart) /\ view \in Seq(AnyPart \cup {None}) /\ Len(view) = Len(parts)
      /\ index \in [DOMAIN index -> 1 .. Len(parts)] /\ DOMAIN index \subseteq VendorIds
  BY <1>1 DEF Sound, Manager
<1>3. DOMAIN parts = 1 .. Len(parts)
  BY <1>2
<1>4. \A v \in DOMAIN index : index[v] \in DOMAIN parts
  BY <1>2, <1>3
<1>5. QED
  BY <1>2, <1>4 DEF PartsInv, TypeOK

(* the events, *)
LEMMA PartsRebuilt == PartsInv => EventsRebuildParts
<1> SUFFICES ASSUME PartsInv PROVE EventsRebuildParts
  OBVIOUS
<1>1. Sound(Manager) /\ Seen(Manager)
  BY DEF PartsInv, Good
<1>2. DOMAIN parts = 1 .. Len(parts)
  BY <1>1 DEF Sound, Manager
<1>3. \A i \in 1 .. Len(parts) : Shown(parts[i], view[i])
  BY <1>1 DEF Seen, Manager
<1>4. QED
  BY <1>2, <1>3 DEF EventsRebuildParts, Shown

(* and the deltas. *)
LEMMA PartsKept == PartsInv => DeltasKept
<1> SUFFICES ASSUME PartsInv PROVE DeltasKept
  OBVIOUS
<1>1. /\ Sound(Manager) /\ Kept(Manager, sent) /\ sent \in Seq(Delta)
      /\ Len(sent) <= mode.deltas /\ mode.deltas \in 0 .. Len(Tokens) /\ Len(Tokens) \in Nat
  BY ModeOK, TokensApart DEF PartsInv, Good
<1>2. /\ Manager.parts = parts /\ Manager.index = index
  BY DEF Manager
<1>3. /\ parts \in Seq(AnyPart) /\ \A i \in 1 .. Len(parts) : parts[i].content \in Seq(Atoms)
      /\ \A w \in DOMAIN index : index[w] \in 1 .. Len(parts)
  BY <1>1, <1>2, SoundParts
<1>4. /\ DOMAIN parts = 1 .. Len(parts) /\ DOMAIN sent = 1 .. Len(sent) /\ Len(sent) \in Nat
      /\ \A i \in 1 .. Len(parts) : DOMAIN parts[i].content = 1 .. Len(parts[i].content)
  BY <1>1, <1>3
<1>5. 1 .. Len(sent) \subseteq 1 .. Len(Tokens)
  BY <1>1, <1>4
<1>6. \A k : Holding(k) = {i \in 1 .. Len(parts) : Holds(Manager, i, k)}
  BY <1>2, <1>4 DEF Holding, Contains, Holds
<1>7. {j \in DOMAIN sent : sent[j].kind \notin {"signature", "metadata"}} = Full(sent)
  BY <1>4 DEF Full
<1>8. ASSUME NEW k \in Full(sent)
      PROVE  Cardinality(Holding(k)) <= 1
  <2>1. CASE Holding(k) = {}
    BY <2>1, FS_EmptySet
  <2>2. CASE Holding(k) # {}
    <3>1. PICK i : i \in Holding(k)
      BY <2>2
    <3>2. \A j \in Holding(k) : j = i
      BY <3>1, <1>1, <1>2, <1>6 DEF Kept, InOnePart
    <3>3. Holding(k) = {i}
      BY <3>1, <3>2
    <3>4. Cardinality({i}) = 1
      BY FS_Singleton
    <3>5. QED
      BY <3>3, <3>4
  <2>3. QED
    BY <2>1, <2>2
<1>9. ASSUME NEW k \in Full(sent)
      PROVE  /\ \A i \in Holding(k) : parts[i].kind = sent[k].kind
             /\ Holding(k) = {} =>
                  /\ sent[k].vendor \in DOMAIN index
                  /\ parts[index[sent[k].vendor]].kind # sent[k].kind
             /\ \A j \in 1 .. k - 1 :
                  (sent[j] = sent[k] /\ sent[k].vendor # None /\ sent[k].kind # "file")
                    => Holding(k) \subseteq Holding(j)
  <2>1. k \in 1 .. Len(Tokens)
    BY <1>5 DEF Full
  <2>2. \A i \in Holding(k) : parts[i].kind = sent[k].kind
    BY <2>1, <1>1, <1>2, <1>6 DEF Kept, OfItsKind
  <2>3. Holding(k) = {} => /\ sent[k].vendor \in DOMAIN index
                           /\ parts[index[sent[k].vendor]].kind # sent[k].kind
    BY <1>1, <1>2, <1>6 DEF Kept, LostByKind
  <2>4. \A j \in 1 .. k - 1 :
          (sent[j] = sent[k] /\ sent[k].vendor # None /\ sent[k].kind # "file")
            => Holding(k) \subseteq Holding(j)
    BY <1>1, <1>2, <1>6 DEF Kept, Together
  <2>5. QED
    BY <2>2, <2>3, <2>4
<1>10. \A i \in DOMAIN parts : parts[i].kind # "text" =>
         \A a, b \in DOMAIN parts[i].content : \A j, k \in DOMAIN sent :
           (parts[i].content[a] = Tokens[j] /\ parts[i].content[b] = Tokens[k] /\ a < b)
             => j < k
  <2> SUFFICES ASSUME NEW i \in DOMAIN parts, NEW a \in DOMAIN parts[i].content,
                      NEW b \in DOMAIN parts[i].content,
                      NEW j \in DOMAIN sent, NEW k \in DOMAIN sent,
                      parts[i].content[a] = Tokens[j], parts[i].content[b] = Tokens[k], a < b
               PROVE  j < k
    BY Zenon
  <2>1. i \in 1 .. Len(parts)
    BY <1>4
  <2>2. a \in 1 .. Len(parts[i].content) /\ b \in 1 .. Len(parts[i].content)
    BY <1>4, <2>1
  <2>3. j \in 1 .. Len(Tokens) /\ k \in 1 .. Len(Tokens)
    BY <1>4, <1>5
  <2>4. InOrder(Manager)
    BY <1>1, Zenon DEF Kept
  <2> DEFINE p == Manager.parts
  <2>5. p = parts
    BY <1>2
  <2>6. \A q \in 1 .. Len(p) : \A c, d \in 1 .. Len(p[q].content) : \A r, t \in 1 .. Len(Tokens) :
          p[q].content[c] = Tokens[r] /\ p[q].content[d] = Tokens[t] /\ c < d => r < t
    BY <2>4, Zenon DEF InOrder
  <2> HIDE DEF p
  <2>7. QED
    BY <2>1, <2>2, <2>3, <2>5, <2>6
<1>11. QED
  BY <1>7, <1>8, <1>9, <1>10 DEF DeltasKept

(* Whatever deltas come, and with whatever ids: each of them that is not   *)
(* lost to a part of another kind is in one part, of its kind, in order,   *)
(* with the others of its id; and the events are enough to have the same   *)
(* parts.                                                                  *)
THEOREM PartsAlwaysFaithful == Spec => []PartsFaithful
<1>1. PartsInv => PartsFaithful
  BY PartsTyped, PartsRebuilt, PartsKept DEF PartsFaithful
<1>2. QED
  BY <1>1, PartsInit, PartsStep, PTL DEF Spec

----------------------------------------------------------------------------
(* Chunks.  Bytes of a text and of a tag *)

(* The last n bytes of s are the first n of the tag. *)
Ends(s, n, tag) == \A i \in 1 .. n : s[Len(s) - n + i] = tag[i]

(* The longest end of s that may still become the tag has length n. *)
Hangs(s, n, tag) ==
  /\ n \in 0 .. Len(s) /\ n < Len(tag) /\ Ends(s, n, tag)
  /\ \A k \in n + 1 .. Len(s) : k < Len(tag) => ~ Ends(s, k, tag)

NoTag(s, tag) == \A k \in 1 .. Len(s) : ~ Matches(s, k, tag)

(* Sequences are what their elements are. *)
LEMMA SliceIs ==
  ASSUME NEW S, NEW s \in Seq(S), NEW a \in Nat \ {0}, NEW b \in Int, b <= Len(s),
         NEW t \in Seq(S), Len(t) = IF a <= b THEN b - a + 1 ELSE 0,
         \A i \in 1 .. Len(t) : t[i] = s[a + i - 1]
  PROVE  SubSeq(s, a, b) = t
<1> DEFINE u == SubSeq(s, a, b)
<1>1. /\ u \in Seq(S) /\ Len(u) = IF a <= b THEN b - a + 1 ELSE 0
      /\ \A i \in 1 .. b - a + 1 : u[i] = s[a + i - 1]
  BY Slice, SMTT(60)
<1> HIDE DEF u
<1>2. Len(u) = Len(t)
  BY <1>1
<1>3. \A i \in 1 .. Len(u) : i \in 1 .. b - a + 1
  BY <1>1
<1>4. \A i \in 1 .. Len(u) : u[i] = t[i]
  BY <1>1, <1>2, <1>3
<1>5. u = t
  BY <1>1, <1>2, <1>4, SeqEqual
<1>6. QED
  BY <1>5 DEF u

(* Matches, byte by byte. *)
LEMMA MatchesBytes ==
  ASSUME NEW s \in Seq(Bytes), NEW tag \in {StartTag, EndTag}, NEW k \in 1 .. Len(s)
  PROVE  Matches(s, k, tag) <=>
           k + Len(tag) - 1 <= Len(s) /\ \A i \in 1 .. Len(tag) : s[k + i - 1] = tag[i]
<1> DEFINE S == Bytes \cup ToSet(tag)
           e == k + Len(tag) - 1
<1>1. tag \in Seq(ToSet(tag)) /\ Len(tag) \in Nat \ {0}
  BY TagOK
<1>2. s \in Seq(S) /\ tag \in Seq(S)
  <2>1. Bytes \subseteq S /\ ToSet(tag) \subseteq S
    OBVIOUS
  <2> HIDE DEF S
  <2>2. QED
    BY <1>1, <2>1, SeqMonotonic
<1> HIDE DEF S
<1>3. k \in Nat \ {0} /\ e \in Int /\ k <= e /\ e - k + 1 = Len(tag)
  BY <1>1
<1>4. ASSUME Matches(s, k, tag)
      PROVE  e <= Len(s) /\ \A i \in 1 .. Len(tag) : s[k + i - 1] = tag[i]
  <2>1. e <= Len(s) /\ SubSeq(s, k, e) = tag
    BY <1>4 DEF Matches
  <2>2. \A i \in 1 .. e - k + 1 : SubSeq(s, k, e)[i] = s[k + i - 1]
    BY <1>2, <1>3, <2>1, Slice
  <2>3. QED
    BY <1>3, <2>1, <2>2
<1>5. ASSUME e <= Len(s), \A i \in 1 .. Len(tag) : s[k + i - 1] = tag[i]
      PROVE  Matches(s, k, tag)
  <2>1. SubSeq(s, k, e) = tag
    <3> HIDE DEF e
    <3>1. Len(tag) = IF k <= e THEN e - k + 1 ELSE 0
      BY <1>3
    <3>2. \A i \in 1 .. Len(tag) : tag[i] = s[k + i - 1]
      BY <1>5
    <3>3. QED
      BY <1>2, <1>3, <1>5, <3>1, <3>2, SliceIs, SMTT(60)
  <2>2. QED
    BY <1>5, <2>1 DEF Matches
<1>6. QED
  BY <1>4, <1>5

(* Suffix, byte by byte. *)
LEMMA SuffixBytes ==
  ASSUME NEW S, NEW s \in Seq(S), NEW n \in 0 .. Len(s)
  PROVE  /\ Suffix(s, n) \in Seq(S) /\ Len(Suffix(s, n)) = n
         /\ \A i \in 1 .. n : Suffix(s, n)[i] = s[Len(s) - n + i]
<1> DEFINE a == IF n < Len(s) THEN Len(s) - n + 1 ELSE 1
           u == SubSeq(s, a, Len(s))
<1>1. Suffix(s, n) = u
  BY DEF Suffix
<1>2. a \in Nat \ {0} /\ a = Len(s) - n + 1 /\ Len(s) \in Nat
  OBVIOUS
<1>3. /\ u \in Seq(S) /\ Len(u) = IF a <= Len(s) THEN Len(s) - a + 1 ELSE 0
      /\ \A i \in 1 .. Len(s) - a + 1 : u[i] = s[a + i - 1]
  BY <1>2, Slice
<1> HIDE DEF a, u
<1>4. Len(u) = n
  BY <1>2, <1>3
<1>5. \A i \in 1 .. n : i \in 1 .. Len(s) - a + 1 /\ a + i - 1 = Len(s) - n + i
  BY <1>2
<1>6. \A i \in 1 .. n : u[i] = s[Len(s) - n + i]
  BY <1>3, <1>5
<1>7. QED
  BY <1>1, <1>3, <1>4, <1>6

(* A suffix is a prefix of the tag: byte by byte. *)
LEMMA PrefixBytes ==
  ASSUME NEW s \in Seq(Bytes), NEW tag \in {StartTag, EndTag}, NEW n \in 0 .. Len(s)
  PROVE  IsPrefix(Suffix(s, n), tag) <=> n <= Len(tag) /\ Ends(s, n, tag)
<1> DEFINE S == Bytes \cup ToSet(tag)
           u == Suffix(s, n)
<1>1. tag \in Seq(ToSet(tag)) /\ Len(tag) \in Nat \ {0}
  BY TagOK
<1>2. s \in Seq(S) /\ tag \in Seq(S)
  <2>1. Bytes \subseteq S /\ ToSet(tag) \subseteq S
    OBVIOUS
  <2> HIDE DEF S
  <2>2. QED
    BY <1>1, <2>1, SeqMonotonic
<1> HIDE DEF S
<1>3. u \in Seq(S) /\ Len(u) = n /\ \A i \in 1 .. n : u[i] = s[Len(s) - n + i]
  BY <1>2, SuffixBytes
<1> HIDE DEF u
<1>4. SubSeq(u, 1, Len(u)) = u
  BY <1>3, SubSeqFull
<1>5. ASSUME n <= Len(tag)
      PROVE  SubSeq(tag, 1, n) = u <=> \A i \in 1 .. n : u[i] = tag[i]
  <2>1. 1 \in Nat \ {0} /\ n \in Int /\ n <= Len(tag) /\ n \in Nat
    BY <1>5
  <2>2. ASSUME SubSeq(tag, 1, n) = u
        PROVE  \A i \in 1 .. n : u[i] = tag[i]
    <3>1. \A i \in 1 .. n - 1 + 1 : SubSeq(tag, 1, n)[i] = tag[1 + i - 1]
      BY <1>2, <2>1, Slice
    <3>2. \A i \in 1 .. n : i \in 1 .. n - 1 + 1 /\ 1 + i - 1 = i
      BY <2>1
    <3>3. QED
      BY <2>2, <3>1, <3>2
  <2>3. ASSUME \A i \in 1 .. n : u[i] = tag[i]
        PROVE  SubSeq(tag, 1, n) = u
    <3>1. Len(u) = IF 1 <= n THEN n - 1 + 1 ELSE 0
      BY <1>3, <2>1
    <3>2. \A i \in 1 .. Len(u) : u[i] = tag[1 + i - 1]
      BY <1>3, <2>1, <2>3
    <3>3. QED
      BY <1>2, <1>3, <2>1, <3>1, <3>2, SliceIs, SMTT(60)
  <2>4. QED
    BY <2>2, <2>3
<1>6. IsPrefix(u, tag) <=> n <= Len(tag) /\ u = SubSeq(tag, 1, n)
  BY <1>3, <1>4 DEF IsPrefix
<1>7. (\A i \in 1 .. n : u[i] = tag[i]) <=> Ends(s, n, tag)
  BY <1>3 DEF Ends
<1>8. QED
  BY <1>5, <1>6, <1>7 DEF u

(* A bounded set of numbers has a greatest element. *)
LEMMA Greatest ==
  ASSUME NEW l \in Nat, NEW T, T \subseteq 0 .. l, T # {}
  PROVE  \E m \in T : \A n \in T : n <= m
<1> DEFINE U == {l - n : n \in T}
<1>1. U \subseteq Nat /\ U # {}
  <2>1. \A n \in T : l - n \in Nat
    OBVIOUS
  <2>2. QED
    BY <2>1
<1>2. PICK u \in U : \A n \in U : u <= n
  <2> HIDE DEF U
  <2>1. QED
    BY <1>1, Least
<1>3. PICK m \in T : u = l - m
  BY <1>2
<1>4. ASSUME NEW n \in T
      PROVE  n <= m
  <2>1. u <= l - n
    BY <1>2
  <2>2. m \in 0 .. l /\ n \in 0 .. l
    OBVIOUS
  <2>3. QED
    BY <1>3, <2>1, <2>2
<1>5. QED
  BY <1>4

(* Longest is the greatest of the lengths it is chosen from. *)
LEMMA LongestIs ==
  ASSUME NEW s \in Seq(Bytes), NEW tag \in {StartTag, EndTag}
  PROVE  /\ Longest(s, tag) \in 0 .. Len(s) /\ Longest(s, tag) <= Len(tag)
         /\ Ends(s, Longest(s, tag), tag)
         /\ \A k \in Longest(s, tag) + 1 .. Len(s) : k <= Len(tag) => ~ Ends(s, k, tag)
<1> DEFINE T == {n \in 0 .. Len(s) : IsPrefix(Suffix(s, n), tag)}
           Best(n) == /\ IsPrefix(Suffix(s, n), tag)
                      /\ \A k \in n + 1 .. Len(s) : ~ IsPrefix(Suffix(s, k), tag)
<1>1. Len(s) \in Nat /\ Len(tag) \in Nat \ {0}
  BY TagOK
<1>2. \A n \in 0 .. Len(s) : IsPrefix(Suffix(s, n), tag) <=> n <= Len(tag) /\ Ends(s, n, tag)
  BY PrefixBytes
<1>3. Ends(s, 0, tag) /\ 0 \in 0 .. Len(s) /\ 0 <= Len(tag)
  BY <1>1 DEF Ends
<1>4. 0 \in T
  BY <1>2, <1>3
<1>5. PICK m \in T : \A n \in T : n <= m
  <2>1. T \subseteq 0 .. Len(s) /\ T # {}
    BY <1>4
  <2> HIDE DEF T
  <2>2. QED
    BY <1>1, <2>1, Greatest
<1>6. m \in 0 .. Len(s) /\ Best(m)
  <2>1. ASSUME NEW k \in m + 1 .. Len(s), IsPrefix(Suffix(s, k), tag)
        PROVE  FALSE
    <3>1. k \in 0 .. Len(s) /\ ~ k <= m
      BY <1>1
    <3>2. k \in T
      BY <2>1, <3>1
    <3>3. QED
      BY <1>5, <3>1, <3>2
  <2>2. QED
    BY <2>1
<1>7. Longest(s, tag) = CHOOSE n \in 0 .. Len(s) : Best(n)
  BY DEF Longest
<1> DEFINE g == Longest(s, tag)
<1> HIDE DEF g, Best
<1>8. g \in 0 .. Len(s) /\ Best(g)
  BY <1>6, <1>7 DEF g
<1>9. g <= Len(tag) /\ Ends(s, g, tag)
  BY <1>2, <1>8 DEF Best
<1>10. ASSUME NEW k \in g + 1 .. Len(s), k <= Len(tag)
       PROVE  ~ Ends(s, k, tag)
  <2>1. k \in 0 .. Len(s)
    BY <1>1, <1>8
  <2>2. QED
    BY <1>2, <1>8, <1>10, <2>1 DEF Best
<1>11. QED
  BY <1>8, <1>9, <1>10 DEF g

(* The first byte of a tag does not come again before its last.            *)
Simple(tag) == \A j \in 2 .. Len(tag) - 1 : tag[j] # tag[1]

(* Of a simple tag only one end of a text can begin it:                    *)
(* find_partial_tag_suffix has no choice.                                  *)
LEMMA OneHangs ==
  ASSUME NEW s \in Seq(Bytes), NEW tag \in {StartTag, EndTag}, Simple(tag),
         NEW k \in 1 .. Len(s), NEW n \in 1 .. Len(s), k < Len(tag), n < Len(tag),
         Ends(s, k, tag), Ends(s, n, tag)
  PROVE  ~ k < n
<1>1. Len(s) \in Nat /\ Len(tag) \in Nat \ {0}
  BY TagOK
<1>2. SUFFICES ASSUME k < n PROVE FALSE
  OBVIOUS
<1>3. n - k + 1 \in 1 .. n /\ n - k + 1 \in 2 .. Len(tag) - 1 /\ 1 \in 1 .. k
  BY <1>1, <1>2
<1>4. s[Len(s) - k + 1] = tag[1]
  BY <1>3 DEF Ends
<1>5. s[Len(s) - n + (n - k + 1)] = tag[n - k + 1]
  BY <1>3 DEF Ends
<1>6. Len(s) - n + (n - k + 1) = Len(s) - k + 1
  BY <1>1
<1>7. QED
  BY <1>3, <1>4, <1>5, <1>6 DEF Simple

(* What the code holds back is what a reader of bytes does.                *)
LEMMA HeldIs ==
  ASSUME NEW s \in Seq(Bytes), s # <<>>, NEW tag \in {StartTag, EndTag}, Simple(tag),
         ~ TagPanics(s, tag), NEW n, Hangs(s, n, tag)
  PROVE  HeldBack(s, tag) = Suffix(s, n)
<1> DEFINE D == Deciding(s, tag)
           x == CHOOSE j \in D : \A k \in D : j <= k
<1>1. Len(s) \in Nat \ {0} /\ Len(tag) \in Nat \ {0}
  BY TagOK
<1>2. /\ n \in 0 .. Len(s) /\ n < Len(tag) /\ Ends(s, n, tag)
      /\ \A k \in n + 1 .. Len(s) : k < Len(tag) => ~ Ends(s, k, tag)
  BY DEF Hangs
<1>3. \A j \in 1 .. Len(s) : j < Len(tag) /\ Ends(s, j, tag) => j \in D
  <2>1. SUFFICES ASSUME NEW j \in 1 .. Len(s), j < Len(tag), Ends(s, j, tag) PROVE j \in D
    OBVIOUS
  <2>2. j \in 0 .. Len(s) /\ j <= Len(tag) /\ j \in 1 .. Len(tag) - 1
    BY <1>1, <2>1
  <2>3. IsPrefix(Suffix(s, j), tag)
    BY <2>1, <2>2, PrefixBytes
  <2>4. QED
    BY <2>2, <2>3 DEF Deciding
<1>4. HeldBack(s, tag) = IF D = {} THEN <<>> ELSE Suffix(s, x)
  BY DEF HeldBack, PartialTag
<1>5. CASE D = {}
  <2>1. n = 0
    BY <1>1, <1>2, <1>3, <1>5
  <2>2. Suffix(s, n) \in Seq(Bytes) /\ Len(Suffix(s, n)) = 0
    BY <1>2, <2>1, SuffixBytes
  <2>3. Suffix(s, n) = <<>>
    BY <2>2
  <2>4. QED
    BY <1>4, <1>5, <2>3
<1>6. CASE D # {}
  <2>1. D \subseteq 1 .. Len(tag) - 1
    BY DEF Deciding
  <2>2. x \in D /\ \A k \in D : x <= k
    <3>1. D \subseteq Nat
      BY <2>1, <1>1
    <3> HIDE DEF D
    <3>2. \E j \in D : \A k \in D : j <= k
      BY <1>6, <3>1, Least
    <3>3. QED
      BY <3>2
  <2>3. ~ Splits(s, x)
    BY <1>6 DEF TagPanics
  <2> HIDE DEF x
  <2>4. IsPrefix(Suffix(s, x), tag)
    BY <2>2, <2>3 DEF Deciding
  <2> HIDE DEF D
  <2>5. x \in 1 .. Len(tag) - 1
    BY <2>1, <2>2
  <2>6. x <= Len(s)
    <3>1. SUFFICES ASSUME x > Len(s) PROVE FALSE
      BY <1>1, <2>5
    <3>2. Suffix(s, x) = Suffix(s, Len(s))
      <4>1. ~ x < Len(s) /\ ~ Len(s) < Len(s)
        BY <1>1, <2>5, <3>1
      <4>2. QED
        BY <4>1 DEF Suffix
    <3>3. Len(s) \in 0 .. Len(s) /\ Len(s) \in 1 .. Len(s)
      BY <1>1
    <3>4. Ends(s, Len(s), tag)
      BY <2>4, <3>2, <3>3, PrefixBytes
    <3>5. Len(s) < Len(tag)
      BY <1>1, <2>5, <3>1
    <3>6. Len(s) \in D
      BY <1>3, <3>3, <3>4, <3>5
    <3>7. QED
      BY <1>1, <2>2, <2>5, <3>1, <3>6
  <2>7. x \in 0 .. Len(s) /\ x \in 1 .. Len(s) /\ x < Len(tag)
    BY <1>1, <2>5, <2>6
  <2>8. Ends(s, x, tag)
    BY <2>4, <2>7, PrefixBytes
  <2>9. x <= n
    BY <1>1, <1>2, <2>7, <2>8
  <2>10. n \in 1 .. Len(s)
    BY <1>2, <2>7, <2>9
  <2>11. ~ x < n
    BY <1>2, <2>7, <2>8, <2>10, OneHangs
  <2>12. x = n
    BY <2>7, <2>9, <2>10, <2>11
  <2>13. QED
    BY <1>4, <1>6, <2>12
<1>7. QED
  BY <1>5, <1>6

----------------------------------------------------------------------------
(* The reference, byte by byte *)

TagOf(inside) == IF inside THEN EndTag ELSE StartTag

(* A reader that had read text and thinking when the fragment x began.     *)
Gains(a, text, thinking, inside, piece) ==
  /\ a.text = IF inside THEN text ELSE text \o piece
  /\ a.thinking = IF inside THEN thinking \o piece ELSE thinking

Reads(a, text, thinking, inside, x) ==
  /\ a = [text |-> a.text, thinking |-> a.thinking, held |-> a.held, inside |-> a.inside]
  /\ x \in Seq(Bytes) /\ NoTag(x, TagOf(inside))
  /\ a.inside = inside
  /\ \E n : /\ Hangs(x, n, TagOf(inside)) /\ a.held = Suffix(x, n)
            /\ Gains(a, text, thinking, inside, SubSeq(x, 1, Len(x) - n))

(* The next byte: y and s are x and its end with that byte, m is what may  *)
(* become a tag then.                                                      *)
NextByte(x, n, tag, y, s) ==
  /\ y \in Seq(Bytes) /\ Len(y) = Len(x) + 1
  /\ \A j \in 1 .. Len(x) : y[j] = x[j]
  /\ s \in Seq(Bytes) /\ Len(s) = n + 1
  /\ \A j \in 1 .. n + 1 : s[j] = y[Len(x) - n + j]
  /\ \A k \in 0 .. n + 1 : Ends(s, k, tag) <=> Ends(y, k, tag)
  /\ \A k \in n + 2 .. Len(y) : k <= Len(tag) => ~ Ends(y, k, tag)

(* A byte more: it completes the tag, or some end hangs on. *)
LEMMA NextHangs ==
  ASSUME NEW x \in Seq(Bytes), NEW tag \in {StartTag, EndTag}, NEW n, Hangs(x, n, tag),
         NEW b \in Bytes
  PROVE  NextByte(x, n, tag, Append(x, b), Append(Suffix(x, n), b))
<1> DEFINE y == Append(x, b)
           s == Append(Suffix(x, n), b)
<1> DEFINE h == Suffix(x, n)
<1>1. /\ n \in 0 .. Len(x) /\ n < Len(tag) /\ Ends(x, n, tag)
      /\ \A k \in n + 1 .. Len(x) : k < Len(tag) => ~ Ends(x, k, tag)
      /\ Len(x) \in Nat /\ Len(tag) \in Nat \ {0}
  BY TagOK DEF Hangs
<1>2. /\ h \in Seq(Bytes) /\ Len(h) = n
      /\ \A i \in 1 .. n : h[i] = x[Len(x) - n + i]
  BY <1>1, SuffixBytes
<1> HIDE DEF h
<1>3. /\ y \in Seq(Bytes) /\ Len(y) = Len(x) + 1
      /\ \A j \in 1 .. Len(x) : y[j] = x[j]
      /\ y[Len(x) + 1] = b
  BY Appended
<1> HIDE DEF y
<1>4. /\ s \in Seq(Bytes) /\ Len(s) = n + 1
      /\ \A j \in 1 .. n : s[j] = h[j]
      /\ s[n + 1] = b
  <2>1. s = Append(h, b)
    BY DEF h
  <2>2. QED
    BY <1>2, <2>1, Appended
<1> HIDE DEF s
<1>5. ASSUME NEW j \in 1 .. n + 1
      PROVE  s[j] = y[Len(x) - n + j]
  <2>1. CASE j = n + 1
    <3>1. Len(x) - n + j = Len(x) + 1
      BY <1>1, <2>1
    <3>2. QED
      BY <1>3, <1>4, <2>1, <3>1
  <2>2. CASE j # n + 1
    <3>1. j \in 1 .. n /\ Len(x) - n + j \in 1 .. Len(x)
      BY <1>1, <2>2
    <3>2. QED
      BY <1>2, <1>3, <1>4, <3>1
  <2>3. QED
    BY <2>1, <2>2
<1>6. ASSUME NEW k \in 0 .. n + 1
      PROVE  Ends(s, k, tag) <=> Ends(y, k, tag)
  <2>1. ASSUME NEW i \in 1 .. k
        PROVE  s[Len(s) - k + i] = y[Len(y) - k + i]
    <3>1. /\ Len(s) - k + i \in 1 .. n + 1
          /\ Len(x) - n + (Len(s) - k + i) = Len(y) - k + i
      BY <1>1, <1>3, <1>4
    <3>2. QED
      BY <1>5, <3>1
  <2>2. QED
    BY <2>1 DEF Ends
<1>7. ASSUME NEW k \in n + 2 .. Len(y), k <= Len(tag), Ends(y, k, tag)
      PROVE  FALSE
  <2>1. k - 1 \in n + 1 .. Len(x) /\ k - 1 < Len(tag)
    BY <1>1, <1>3, <1>7
  <2>2. ASSUME NEW i \in 1 .. k - 1
        PROVE  x[Len(x) - (k - 1) + i] = tag[i]
    <3>1. /\ i \in 1 .. k /\ Len(x) - (k - 1) + i \in 1 .. Len(x)
          /\ Len(x) - (k - 1) + i = Len(y) - k + i
      BY <1>1, <1>3, <2>1
    <3>2. y[Len(y) - k + i] = tag[i]
      BY <1>7, <3>1 DEF Ends
    <3>3. QED
      BY <1>3, <3>1, <3>2
  <2>3. Ends(x, k - 1, tag)
    BY <2>2 DEF Ends
  <2>4. QED
    BY <1>1, <2>1, <2>3
<1>8. QED
  BY <1>3, <1>4, <1>5, <1>6, <1>7 DEF NextByte, y, s

(* Suffixes of equal bytes are equal. *)
LEMMA SuffixEqual ==
  ASSUME NEW S, NEW s \in Seq(S), NEW y \in Seq(S), NEW m \in 0 .. Len(s), m \in 0 .. Len(y),
         \A i \in 1 .. m : s[Len(s) - m + i] = y[Len(y) - m + i]
  PROVE  Suffix(s, m) = Suffix(y, m)
<1> DEFINE u == Suffix(s, m)
           v == Suffix(y, m)
<1>1. u \in Seq(S) /\ Len(u) = m /\ \A i \in 1 .. m : u[i] = s[Len(s) - m + i]
  BY SuffixBytes
<1>2. v \in Seq(S) /\ Len(v) = m /\ \A i \in 1 .. m : v[i] = y[Len(y) - m + i]
  BY SuffixBytes
<1> HIDE DEF u, v
<1>3. \A i \in 1 .. Len(u) : u[i] = v[i]
  BY <1>1, <1>2
<1>4. u = v
  BY <1>1, <1>2, <1>3, SeqEqual
<1>5. QED
  BY <1>4 DEF u, v

(* What was read and what the next byte gives up is all but what hangs.    *)
JoinsTo(x, n, y, s, m) ==
  /\ Suffix(s, m) = Suffix(y, m)
  /\ SubSeq(x, 1, Len(x) - n) = SubSeq(y, 1, Len(x) - n)
  /\ SubSeq(x, 1, Len(x) - n) \o SubSeq(s, 1, Len(s) - m) = SubSeq(y, 1, Len(y) - m)

(* What is held and a byte, after the byte: what is read of it and what    *)
(* hangs on.                                                               *)
LEMMA ReadJoins ==
  ASSUME NEW x \in Seq(Bytes), NEW y \in Seq(Bytes), Len(y) = Len(x) + 1,
         \A j \in 1 .. Len(x) : y[j] = x[j], NEW n \in 0 .. Len(x),
         NEW s \in Seq(Bytes), Len(s) = n + 1, \A j \in 1 .. n + 1 : s[j] = y[Len(x) - n + j],
         NEW m \in 0 .. n + 1
  PROVE  JoinsTo(x, n, y, s, m)
<1>1. Len(x) \in Nat /\ Len(s) \in Nat /\ Len(y) \in Nat /\ m \in 0 .. Len(s) /\ m \in 0 .. Len(y)
  OBVIOUS
<1>2. Suffix(s, m) = Suffix(y, m)
  <2>1. ASSUME NEW i \in 1 .. m
        PROVE  s[Len(s) - m + i] = y[Len(y) - m + i]
    <3>1. /\ Len(s) - m + i \in 1 .. n + 1
          /\ Len(x) - n + (Len(s) - m + i) = Len(y) - m + i
      BY <1>1
    <3>2. QED
      BY <3>1
  <2>2. QED
    BY <1>1, <2>1, SuffixEqual
<1> DEFINE c == Len(x) - n
           e == Len(y) - m
<1>3. c \in 0 .. Len(x) /\ c \in 0 .. Len(y) /\ e \in c .. Len(y) /\ 1 \in Nat \ {0}
  BY <1>1
<1>4. SubSeq(y, 1, c) \in Seq(Bytes)
  BY <1>3, Slice
<1>5. SubSeq(x, 1, c) = SubSeq(y, 1, c)
  <2> DEFINE u == SubSeq(y, 1, c)
  <2>1. /\ u \in Seq(Bytes) /\ Len(u) = IF 1 <= c THEN c - 1 + 1 ELSE 0
        /\ \A i \in 1 .. c - 1 + 1 : u[i] = y[1 + i - 1]
    BY <1>3, Slice
  <2> HIDE DEF u, c
  <2>2. \A i \in 1 .. Len(u) : u[i] = x[1 + i - 1]
    BY <1>3, <2>1
  <2>3. c \in Int /\ c <= Len(x)
    BY <1>3
  <2>4. SubSeq(x, 1, c) = u
    BY <1>3, <2>1, <2>2, <2>3, SliceIs, SMTT(60)
  <2>5. QED
    BY <2>4 DEF u
<1>6. SubSeq(s, 1, Len(s) - m) = SubSeq(y, c + 1, e)
  <2> DEFINE u == SubSeq(y, c + 1, e)
             d == Len(s) - m
  <2>1. /\ c + 1 \in Nat \ {0} /\ e \in Int /\ e <= Len(y)
        /\ d \in Int /\ d <= Len(s) /\ d = e - (c + 1) + 1 /\ d \in Nat
    BY <1>1, <1>3
  <2>2. /\ u \in Seq(Bytes) /\ Len(u) = IF c + 1 <= e THEN e - (c + 1) + 1 ELSE 0
        /\ \A i \in 1 .. e - (c + 1) + 1 : u[i] = y[(c + 1) + i - 1]
    BY <2>1, Slice
  <2> HIDE DEF u
  <2>3. Len(u) = d /\ Len(u) = IF 1 <= d THEN d - 1 + 1 ELSE 0
    BY <2>1, <2>2
  <2>4. ASSUME NEW i \in 1 .. Len(u)
        PROVE  u[i] = s[1 + i - 1]
    <3>1. /\ i \in 1 .. e - (c + 1) + 1 /\ (c + 1) + i - 1 = Len(x) - n + i
          /\ i \in 1 .. n + 1 /\ 1 + i - 1 = i
      BY <1>1, <2>1, <2>3
    <3>2. u[i] = y[Len(x) - n + i]
      BY <2>2, <3>1
    <3>3. QED
      BY <3>1, <3>2
  <2> HIDE DEF d
  <2>5. SubSeq(s, 1, d) = u
    BY <1>3, <2>1, <2>2, <2>3, <2>4, SliceIs, SMTT(60)
  <2>6. QED
    BY <2>5 DEF u, d
<1>7. SubSeq(y, 1, c) \o SubSeq(y, c + 1, e) = SubSeq(y, 1, e)
  <2>1. 1 \in 1 .. Len(y) + 1 /\ c \in 1 - 1 .. Len(y) /\ e \in c .. Len(y)
    BY <1>1, <1>3
  <2> HIDE DEF c, e
  <2>2. QED
    BY <2>1, ConcatAdjacentSubSeq
<1>8. QED
  BY <1>2, <1>5, <1>6, <1>7 DEF JoinsTo

(* Joining is associative. *)
LEMMA ThreeJoined ==
  \A s, t, u \in Seq(Bytes) : (s \o t) \o u = s \o (t \o u)
BY ConcatAssociative

(* The reference reads a byte more. *)
LEMMA ReadsOn ==
  ASSUME NEW a, NEW text \in Seq(Bytes), NEW thinking \in Seq(Bytes), NEW inside \in BOOLEAN,
         NEW x, Reads(a, text, thinking, inside, x), NEW b \in Bytes,
         NoTag(Append(x, b), TagOf(inside))
  PROVE  Reads(ReadByte(a, b), text, thinking, inside, Append(x, b))
<1> DEFINE tag == TagOf(inside)
           y == Append(x, b)
           s == Append(a.held, b)
           m == Longest(s, tag)
           rd == SubSeq(s, 1, Len(s) - m)
           r == ReadByte(a, b)
<1>1. tag \in {StartTag, EndTag} /\ x \in Seq(Bytes) /\ NoTag(x, tag) /\ a.inside = inside
      /\ a = [text |-> a.text, thinking |-> a.thinking, held |-> a.held, inside |-> a.inside]
  BY DEF Reads, TagOf
<1>2. PICK n : /\ Hangs(x, n, tag) /\ a.held = Suffix(x, n)
               /\ Gains(a, text, thinking, inside, SubSeq(x, 1, Len(x) - n))
  BY DEF Reads
<1>3. tag = IF a.inside THEN EndTag ELSE StartTag
  BY <1>1 DEF TagOf
<1>4. r = IF s = tag THEN [a EXCEPT !.inside = ~a.inside, !.held = <<>>]
          ELSE IF a.inside
          THEN [a EXCEPT !.thinking = @ \o rd, !.held = Suffix(s, m)]
          ELSE [a EXCEPT !.text = @ \o rd, !.held = Suffix(s, m)]
  BY <1>3 DEF ReadByte
<1>0. y = Append(x, b) /\ s = Append(Suffix(x, n), b)
  BY <1>2
<1>15. NoTag(y, tag)
  OBVIOUS
<1> HIDE DEF tag, y, s
<1>5. /\ y \in Seq(Bytes) /\ Len(y) = Len(x) + 1
      /\ \A j \in 1 .. Len(x) : y[j] = x[j]
      /\ s \in Seq(Bytes) /\ Len(s) = n + 1
      /\ \A j \in 1 .. n + 1 : s[j] = y[Len(x) - n + j]
      /\ \A k \in 0 .. n + 1 : Ends(s, k, tag) <=> Ends(y, k, tag)
      /\ \A k \in n + 2 .. Len(y) : k <= Len(tag) => ~ Ends(y, k, tag)
  <2>1. x \in Seq(Bytes) /\ tag \in {StartTag, EndTag} /\ Hangs(x, n, tag)
    BY <1>1, <1>2
  <2>2. NextByte(x, n, tag, Append(x, b), Append(Suffix(x, n), b))
    BY <2>1, NextHangs
  <2>3. NextByte(x, n, tag, y, s)
    BY <1>0, <2>2
  <2>4. QED
    BY <2>3 DEF NextByte
<1>6. n \in 0 .. Len(x) /\ n < Len(tag) /\ Len(x) \in Nat /\ Len(tag) \in Nat \ {0}
  BY <1>1, <1>2, TagOK DEF Hangs
<1>7. /\ m \in 0 .. Len(s) /\ m <= Len(tag) /\ Ends(s, m, tag)
      /\ \A k \in m + 1 .. Len(s) : k <= Len(tag) => ~ Ends(s, k, tag)
  BY <1>1, <1>5, LongestIs
<1> HIDE DEF m
<1>8. ~ Ends(y, Len(tag), tag) \/ ~ Len(tag) <= Len(y)
  <2>1. SUFFICES ASSUME Ends(y, Len(tag), tag), Len(tag) <= Len(y) PROVE FALSE
    OBVIOUS
  <2> DEFINE p == Len(y) - Len(tag) + 1
  <2>2. p \in 1 .. Len(y) /\ p + Len(tag) - 1 <= Len(y)
    BY <1>5, <1>6, <2>1
  <2>3. \A i \in 1 .. Len(tag) : y[p + i - 1] = tag[i]
    <3>1. \A i \in 1 .. Len(tag) : p + i - 1 = Len(y) - Len(tag) + i
      BY <1>5, <1>6
    <3>2. QED
      BY <2>1, <3>1 DEF Ends
  <2> HIDE DEF p
  <2>4. Matches(y, p, tag)
    BY <1>1, <1>5, <2>2, <2>3, MatchesBytes
  <2>5. QED
    BY <1>15, <2>2, <2>4 DEF NoTag
<1>9. m < Len(tag) /\ Ends(y, m, tag) /\ m \in 0 .. n + 1 /\ m \in 0 .. Len(y)
  <2>1. m \in 0 .. n + 1 /\ m \in 0 .. Len(y)
    BY <1>5, <1>6, <1>7
  <2>2. Ends(y, m, tag)
    BY <1>5, <1>7, <2>1
  <2>3. m # Len(tag)
    BY <1>8, <2>1, <2>2
  <2>4. QED
    BY <1>6, <1>7, <2>1, <2>2, <2>3
<1>10. Hangs(y, m, tag)
  <2>1. ASSUME NEW k \in m + 1 .. Len(y), k < Len(tag)
        PROVE  ~ Ends(y, k, tag)
    <3>1. CASE k \in 0 .. n + 1
      <4>1. k \in m + 1 .. Len(s) /\ k <= Len(tag)
        BY <1>5, <1>6, <1>9, <2>1, <3>1
      <4>2. QED
        BY <1>5, <1>7, <3>1, <4>1
    <3>2. CASE k \notin 0 .. n + 1
      <4>1. k \in n + 2 .. Len(y) /\ k <= Len(tag)
        BY <1>5, <1>6, <1>9, <2>1, <3>2
      <4>2. QED
        BY <1>5, <4>1
    <3>3. QED
      BY <3>1, <3>2
  <2>2. QED
    BY <1>9, <2>1 DEF Hangs
<1>11. s # tag
  <2>1. SUFFICES ASSUME s = tag PROVE FALSE
    OBVIOUS
  <2>2. Len(s) = Len(tag) /\ Len(s) \in m + 1 .. Len(s)
    BY <1>5, <1>6, <1>9, <2>1
  <2>3. Ends(s, Len(s), tag)
    <3>1. \A i \in 1 .. Len(s) : Len(s) - Len(s) + i = i
      BY <1>5, <1>6
    <3>2. QED
      BY <2>1, <3>1 DEF Ends
  <2>4. QED
    BY <1>7, <2>2, <2>3
<1>12. /\ Suffix(s, m) = Suffix(y, m)
       /\ SubSeq(x, 1, Len(x) - n) \o rd = SubSeq(y, 1, Len(y) - m)
  <2>1. /\ x \in Seq(Bytes) /\ y \in Seq(Bytes) /\ Len(y) = Len(x) + 1
        /\ \A j \in 1 .. Len(x) : y[j] = x[j]
        /\ n \in 0 .. Len(x) /\ s \in Seq(Bytes) /\ Len(s) = n + 1
        /\ \A j \in 1 .. n + 1 : s[j] = y[Len(x) - n + j]
        /\ m \in 0 .. n + 1
    BY <1>1, <1>5, <1>6, <1>9
  <2>2. JoinsTo(x, n, y, s, m)
    BY <2>1, ReadJoins
  <2>3. QED
    BY <2>2 DEF JoinsTo
<1>13. SubSeq(x, 1, Len(x) - n) \in Seq(Bytes) /\ rd \in Seq(Bytes)
  <2>1. 1 \in Nat \ {0} /\ Len(x) - n \in Int /\ Len(x) - n <= Len(x)
        /\ Len(s) - m \in Int /\ Len(s) - m <= Len(s)
    BY <1>5, <1>6, <1>9
  <2>2. QED
    BY <1>1, <1>5, <2>1, Slice
<1> DEFINE piece == SubSeq(x, 1, Len(x) - n)
           whole == SubSeq(y, 1, Len(y) - m)
<1>16. piece \in Seq(Bytes) /\ piece \o rd = whole /\ Gains(a, text, thinking, inside, piece)
  BY <1>2, <1>12, <1>13
<1>19. rd \in Seq(Bytes)
  BY <1>13
<1> HIDE DEF rd, r, piece, whole
<1>14. CASE inside
  <2>1. r = [text |-> a.text, thinking |-> a.thinking \o rd, held |-> Suffix(y, m),
             inside |-> a.inside]
    BY <1>1, <1>4, <1>11, <1>12, <1>14
  <2>2. a.text = text /\ a.thinking = thinking \o piece
    BY <1>14, <1>16 DEF Gains
  <2>3. a.thinking \o rd = thinking \o whole
    <3>1. (thinking \o piece) \o rd = thinking \o (piece \o rd)
      BY <1>16, <1>19, ThreeJoined
    <3>2. QED
      BY <1>16, <2>2, <3>1
  <2>4. /\ r.text = text /\ r.thinking = thinking \o whole /\ r.held = Suffix(y, m)
        /\ r.inside = inside
        /\ r = [text |-> r.text, thinking |-> r.thinking, held |-> r.held, inside |-> r.inside]
    BY <1>1, <2>1, <2>2, <2>3
  <2>5. Gains(r, text, thinking, inside, whole)
    BY <1>14, <2>4 DEF Gains
  <2>6. QED
    BY <1>5, <1>10, <1>15, <2>4, <2>5 DEF Reads, r, y, tag, whole
<1>17. CASE ~inside
  <2>1. r = [text |-> a.text \o rd, thinking |-> a.thinking, held |-> Suffix(y, m),
             inside |-> a.inside]
    BY <1>1, <1>4, <1>11, <1>12, <1>17
  <2>2. a.thinking = thinking /\ a.text = text \o piece
    BY <1>16, <1>17 DEF Gains
  <2>3. a.text \o rd = text \o whole
    <3>1. (text \o piece) \o rd = text \o (piece \o rd)
      BY <1>16, <1>19, ThreeJoined
    <3>2. QED
      BY <1>16, <2>2, <3>1
  <2>4. /\ r.thinking = thinking /\ r.text = text \o whole /\ r.held = Suffix(y, m)
        /\ r.inside = inside
        /\ r = [text |-> r.text, thinking |-> r.thinking, held |-> r.held, inside |-> r.inside]
    BY <1>1, <2>1, <2>2, <2>3
  <2>5. Gains(r, text, thinking, inside, whole)
    BY <1>17, <2>4 DEF Gains
  <2>6. QED
    BY <1>5, <1>10, <1>15, <2>4, <2>5 DEF Reads, r, y, tag, whole
<1>18. QED
  BY <1>14, <1>17

(* Places in a sequence and in its end. *)
LEMMA AtEnd ==
  ASSUME NEW p \in Nat, NEW t \in Nat, NEW l \in Nat, p + t - 1 = l
  PROVE  \A i \in 1 .. t : p + i - 1 = l - t + i
OBVIOUS

LEMMA Within ==
  ASSUME NEW o \in Int, NEW l \in Nat, NEW k \in Nat, o + l = k,
         NEW z \in Nat, o + z >= 0, NEW n \in z + 1 .. l
  PROVE  o + n \in 1 .. k /\ o + (n - 1) = o + n - 1
OBVIOUS

LEMMA RestOf ==
  ASSUME NEW o \in Int, NEW l \in Nat, NEW k \in Nat, o + l = k,
         NEW e \in Nat, NEW r \in Nat, r = l - (e + 1)
  PROVE  o + (e + 1) + r = k /\ o + (e + 1) \in Int
OBVIOUS

(* A reader that is done with a fragment: it gained piece, and nothing hangs. *)
ReadTo(r, text, thinking, inside, piece) ==
  /\ r = [text |-> r.text, thinking |-> r.thinking, held |-> <<>>, inside |-> ~inside]
  /\ Gains(r, text, thinking, inside, piece)

(* The byte that completes a tag. *)
LEMMA ReadsTag ==
  ASSUME NEW a, NEW text, NEW thinking, NEW inside, NEW x, Reads(a, text, thinking, inside, x),
         text \in Seq(Bytes), thinking \in Seq(Bytes), inside \in BOOLEAN,
         NEW b \in Bytes, NEW y, y = Append(x, b),
         NEW p, Matches(y, p, TagOf(inside)), p \in 1 .. Len(y)
  PROVE  ReadTo(ReadByte(a, b), text, thinking, inside, SubSeq(y, 1, p - 1))
<1> DEFINE tag == TagOf(inside)
           s == Append(a.held, b)
           r == ReadByte(a, b)
<1>1. tag \in {StartTag, EndTag} /\ x \in Seq(Bytes) /\ NoTag(x, tag) /\ a.inside = inside
      /\ a = [text |-> a.text, thinking |-> a.thinking, held |-> a.held, inside |-> a.inside]
      /\ Matches(y, p, tag)
  BY DEF Reads, TagOf
<1>2. PICK n : /\ Hangs(x, n, tag) /\ a.held = Suffix(x, n)
               /\ Gains(a, text, thinking, inside, SubSeq(x, 1, Len(x) - n))
  BY DEF Reads
<1>3. tag = IF a.inside THEN EndTag ELSE StartTag
  BY <1>1 DEF TagOf
<1>4. s = tag => r = [a EXCEPT !.inside = ~a.inside, !.held = <<>>]
  BY <1>3 DEF ReadByte
<1>0. s = Append(Suffix(x, n), b)
  BY <1>2
<1> HIDE DEF tag, s
<1>5. /\ y \in Seq(Bytes) /\ Len(y) = Len(x) + 1
      /\ \A j \in 1 .. Len(x) : y[j] = x[j]
      /\ s \in Seq(Bytes) /\ Len(s) = n + 1
      /\ \A j \in 1 .. n + 1 : s[j] = y[Len(x) - n + j]
      /\ \A k \in 0 .. n + 1 : Ends(s, k, tag) <=> Ends(y, k, tag)
      /\ \A k \in n + 2 .. Len(y) : k <= Len(tag) => ~ Ends(y, k, tag)
  <2>1. x \in Seq(Bytes) /\ tag \in {StartTag, EndTag} /\ Hangs(x, n, tag)
    BY <1>1, <1>2
  <2>2. NextByte(x, n, tag, Append(x, b), Append(Suffix(x, n), b))
    BY <2>1, NextHangs
  <2>3. NextByte(x, n, tag, y, s)
    BY <1>0, <2>2
  <2>4. QED
    BY <2>3 DEF NextByte
<1>6. n \in 0 .. Len(x) /\ n < Len(tag) /\ Len(x) \in Nat /\ Len(tag) \in Nat \ {0}
  BY <1>1, <1>2, TagOK DEF Hangs
<1>7. p + Len(tag) - 1 <= Len(y) /\ \A i \in 1 .. Len(tag) : y[p + i - 1] = tag[i]
  BY <1>1, <1>5, MatchesBytes
<1>8. p + Len(tag) - 1 = Len(y)
  <2>1. SUFFICES ASSUME p + Len(tag) - 1 <= Len(x) PROVE FALSE
    BY <1>5, <1>6, <1>7
  <2>2. p \in 1 .. Len(x)
    BY <1>5, <1>6, <2>1
  <2>3. \A i \in 1 .. Len(tag) : x[p + i - 1] = tag[i]
    <3>1. \A i \in 1 .. Len(tag) : p + i - 1 \in 1 .. Len(x)
      BY <1>6, <2>1, <2>2
    <3>2. QED
      BY <1>5, <1>7, <3>1
  <2>4. Matches(x, p, tag)
    BY <1>1, <2>1, <2>2, <2>3, MatchesBytes
  <2>5. QED
    BY <1>1, <2>2, <2>4 DEF NoTag
<1>9. Ends(y, Len(tag), tag)
  <2>1. \A i \in 1 .. Len(tag) : p + i - 1 = Len(y) - Len(tag) + i
    <3>1. p \in Nat /\ Len(y) \in Nat /\ Len(tag) \in Nat
      BY <1>5, <1>6
    <3>2. QED
      BY <1>8, <3>1, AtEnd, Zenon
  <2>2. QED
    BY <1>7, <2>1 DEF Ends
<1>10. Len(tag) = n + 1
  <2>1. SUFFICES ASSUME n + 2 <= Len(tag) PROVE FALSE
    BY <1>6
  <2>2. Len(tag) \in n + 2 .. Len(y)
    BY <1>5, <1>6, <1>8, <2>1
  <2>3. QED
    BY <1>5, <1>6, <1>9, <2>2
<1>11. s = tag
  <2>1. Ends(s, n + 1, tag)
    BY <1>5, <1>6, <1>9, <1>10
  <2>2. \A i \in 1 .. Len(s) : s[i] = tag[i]
    <3>1. \A i \in 1 .. n + 1 : Len(s) - (n + 1) + i = i
      BY <1>5, <1>6
    <3>2. QED
      BY <1>5, <2>1, <3>1 DEF Ends
  <2> DEFINE S == Bytes \cup ToSet(tag)
  <2>3. s \in Seq(S) /\ tag \in Seq(S)
    <3>1. Bytes \subseteq S /\ ToSet(tag) \subseteq S /\ tag \in Seq(ToSet(tag))
      BY <1>1, TagOK
    <3> HIDE DEF S
    <3>2. QED
      BY <1>5, <3>1, SeqMonotonic
  <2> HIDE DEF S
  <2>4. Len(s) = Len(tag)
    BY <1>5, <1>10
  <2>5. QED
    BY <2>2, <2>3, <2>4, SeqEqual
<1>12. SubSeq(x, 1, Len(x) - n) = SubSeq(y, 1, p - 1)
  <2>1. Len(x) - n = p - 1 /\ 0 \in 0 .. n + 1
    BY <1>5, <1>6, <1>8, <1>10
  <2>2. SubSeq(x, 1, Len(x) - n) = SubSeq(y, 1, Len(x) - n)
    BY <1>1, <1>5, <1>6, <2>1, ReadJoins DEF JoinsTo
  <2>3. QED
    BY <2>1, <2>2
<1> HIDE DEF r
<1>13. r = [text |-> a.text, thinking |-> a.thinking, held |-> <<>>, inside |-> ~inside]
  BY <1>1, <1>4, <1>11
<1>14. r.text = a.text /\ r.thinking = a.thinking
  BY <1>13
<1>15. Gains(r, text, thinking, inside, SubSeq(y, 1, p - 1))
  BY <1>2, <1>12, <1>14 DEF Gains
<1>16. QED
  BY <1>13, <1>14, <1>15 DEF r, ReadTo

ReadStart == [text |-> <<>>, thinking |-> <<>>, held |-> <<>>, inside |-> FALSE]

(* The recursion of Read has a solution. *)
ReadStep(s, f, n) == IF n = 0 THEN ReadStart ELSE ReadByte(f[n - 1], s[n])

(* The recursive function of Read exists. *)
LEMMA ReadExists ==
  ASSUME NEW s, NEW l \in Nat
  PROVE  \E f : f = [n \in 0 .. l |-> ReadStep(s, f, n)]
<1> DEFINE Solved(m) == \E f : f = [n \in 0 .. m |-> ReadStep(s, f, n)]
           Unsolved == {m \in Nat : ~ Solved(m)}
<1>1. SUFFICES ASSUME Unsolved # {} PROVE FALSE
  OBVIOUS
<1>2. PICK m \in Unsolved : \A n \in Unsolved : m <= n
  BY <1>1, Least
<1>3. Solved(0)
  <2> DEFINE f == [n \in 0 .. 0 |-> ReadStart]
  <2>1. f = [n \in 0 .. 0 |-> ReadStep(s, f, n)]
    BY DEF ReadStep
  <2>2. QED
    BY <2>1
<1>4. m \in Nat /\ m # 0
  BY <1>2, <1>3
<1>5. m - 1 \in Nat /\ m - 1 \notin Unsolved
  BY <1>2, <1>4
<1>6. PICK f : f = [n \in 0 .. m - 1 |-> ReadStep(s, f, n)]
  BY <1>5
<1> DEFINE g == [n \in 0 .. m |-> IF n = m THEN ReadStep(s, f, m) ELSE f[n]]
<1>7. \A n \in 0 .. m : ReadStep(s, g, n) = g[n]
  <2>1. \A n \in 0 .. m - 1 : n # m /\ g[n] = f[n]
    BY <1>4
  <2>2. \A n \in 0 .. m : n # 0 => n - 1 \in 0 .. m - 1
    BY <1>4
  <2>3. \A n \in 0 .. m : ReadStep(s, g, n) = ReadStep(s, f, n)
    BY <2>1, <2>2 DEF ReadStep
  <2>4. \A n \in 0 .. m - 1 : f[n] = ReadStep(s, f, n)
    BY <1>6
  <2>5. \A n \in 0 .. m : n = m \/ n \in 0 .. m - 1
    BY <1>4
  <2>6. g[m] = ReadStep(s, f, m)
    BY <1>4
  <2>7. QED
    BY <2>1, <2>3, <2>4, <2>5, <2>6
<1>8. g = [n \in 0 .. m |-> ReadStep(s, g, n)]
  BY <1>7
<1>9. Solved(m)
  BY <1>8
<1>10. QED
  BY <1>2, <1>9

(* g is what the reader has read after each byte of s. *)
Reading(s, g) ==
  /\ g[0] = ReadStart
  /\ \A n \in 1 .. Len(s) : g[n] = ReadByte(g[n - 1], s[n])

(* Read is byte after byte. *)
LEMMA ReadUnfolds ==
  ASSUME NEW s, Len(s) \in Nat
  PROVE  \E g : Reading(s, g) /\ Read(s) = g[Len(s)]
<1> DEFINE f == CHOOSE h : h = [n \in 0 .. Len(s) |-> ReadStep(s, h, n)]
<1>1. f = [n \in 0 .. Len(s) |-> ReadStep(s, f, n)]
  BY ReadExists
<1>2. Read(s) = f[Len(s)]
  BY DEF Read, ReadStep, ReadStart
<1> HIDE DEF f
<1>3. \A n \in 0 .. Len(s) : f[n] = ReadStep(s, f, n)
  BY <1>1
<1>4. f[0] = ReadStart
  BY <1>3 DEF ReadStep
<1>5. ASSUME NEW n \in 1 .. Len(s)
      PROVE  f[n] = ReadByte(f[n - 1], s[n])
  <2>1. n \in 0 .. Len(s) /\ n # 0
    OBVIOUS
  <2>2. QED
    BY <1>3, <2>1 DEF ReadStep
<1>6. QED
  BY <1>2, <1>4, <1>5 DEF Reading

(* Reading s on is reading its beginning first. *)
LEMMA ReadsBeginning ==
  ASSUME NEW s, NEW w, Len(s) \in Nat, Len(w) \in Nat, Len(s) <= Len(w),
         \A i \in 1 .. Len(s) : w[i] = s[i], NEW g, Reading(w, g)
  PROVE  Read(s) = g[Len(s)]
<1>1. PICK f : Reading(s, f) /\ Read(s) = f[Len(s)]
  BY ReadUnfolds
<1> DEFINE Bad == {n \in 0 .. Len(s) : f[n] # g[n]}
<1>2. SUFFICES ASSUME Bad # {} PROVE FALSE
  <2>1. Len(s) \in 0 .. Len(s)
    OBVIOUS
  <2>2. QED
    BY <1>1, <2>1
<1>3. PICK n \in Bad : \A k \in Bad : n <= k
  <2>1. Bad \subseteq Nat
    OBVIOUS
  <2> HIDE DEF Bad
  <2>2. QED
    BY <1>2, <2>1, Least
<1>4. n \in 0 .. Len(s) /\ f[n] # g[n]
  OBVIOUS
<1>5. n # 0
  BY <1>1, <1>4 DEF Reading
<1>6. n \in 1 .. Len(s) /\ n \in 1 .. Len(w) /\ n - 1 \in 0 .. Len(s) /\ ~ n <= n - 1
  BY <1>4, <1>5
<1>7. f[n - 1] = g[n - 1]
  BY <1>3, <1>6
<1>8. f[n] = ReadByte(f[n - 1], s[n]) /\ g[n] = ReadByte(g[n - 1], w[n])
  BY <1>1, <1>6 DEF Reading
<1>9. QED
  BY <1>4, <1>6, <1>7, <1>8

(* A prefix of s, element by element. *)
LEMMA PrefixIs ==
  ASSUME NEW S, NEW s \in Seq(S), NEW e \in 0 .. Len(s)
  PROVE  /\ SubSeq(s, 1, e) \in Seq(S) /\ Len(SubSeq(s, 1, e)) = e
         /\ \A i \in 1 .. e : SubSeq(s, 1, e)[i] = s[i]
<1> DEFINE u == SubSeq(s, 1, e)
<1>1. 1 \in Nat \ {0} /\ e \in Int /\ e <= Len(s) /\ e \in Nat
  OBVIOUS
<1>2. /\ u \in Seq(S) /\ Len(u) = IF 1 <= e THEN e - 1 + 1 ELSE 0
      /\ \A i \in 1 .. e - 1 + 1 : u[i] = s[1 + i - 1]
  BY <1>1, Slice
<1> HIDE DEF u
<1>3. \A i \in 1 .. e : i \in 1 .. e - 1 + 1 /\ 1 + i - 1 = i
  BY <1>1
<1>4. QED
  BY <1>1, <1>2, <1>3 DEF u

(* There is no tag in what comes before its first place. *)
LEMMA NoTagBefore ==
  ASSUME NEW s \in Seq(Bytes), NEW tag \in {StartTag, EndTag}, NEW e \in 0 .. Len(s),
         NEW t \in Seq(Bytes), Len(t) = e, \A i \in 1 .. e : t[i] = s[i],
         \A k \in 1 .. Len(s) : Matches(s, k, tag) => k + Len(tag) - 1 > e
  PROVE  NoTag(t, tag)
<1>1. SUFFICES ASSUME NEW k \in 1 .. Len(t), Matches(t, k, tag) PROVE FALSE
  BY DEF NoTag
<1>2. Len(tag) \in Nat \ {0} /\ Len(s) \in Nat
  BY TagOK
<1>3. k + Len(tag) - 1 <= Len(t) /\ \A i \in 1 .. Len(tag) : t[k + i - 1] = tag[i]
  BY <1>1, MatchesBytes
<1>4. k \in 1 .. Len(s) /\ k + Len(tag) - 1 <= Len(s) /\ k + Len(tag) - 1 <= e
  BY <1>2, <1>3
<1>5. \A i \in 1 .. Len(tag) : k + i - 1 \in 1 .. e
  BY <1>2, <1>4
<1>6. \A i \in 1 .. Len(tag) : s[k + i - 1] = tag[i]
  BY <1>3, <1>5
<1>7. Matches(s, k, tag)
  BY <1>4, <1>6, MatchesBytes
<1>8. QED
  BY <1>2, <1>4, <1>7

(* From the z-th byte of what is left, which ends w, to its e-th, without  *)
(* a tag.                                                                  *)
LEMMA RunsOn ==
  ASSUME NEW w, NEW g, Reading(w, g), w \in Seq(Bytes),
         NEW left, NEW o, NEW z, NEW text, NEW thinking, NEW inside,
         Reads(g[o + z], text, thinking, inside, SubSeq(left, 1, z)),
         left \in Seq(Bytes), o \in Int, o + Len(left) = Len(w),
         text \in Seq(Bytes), thinking \in Seq(Bytes), inside \in BOOLEAN,
         z \in 0 .. Len(left), o + z >= 0, \A j \in z + 1 .. Len(left) : left[j] = w[o + j],
         NEW e \in z .. Len(left),
         \A k \in 1 .. Len(left) : Matches(left, k, TagOf(inside)) => k + Len(TagOf(inside)) - 1 > e
  PROVE  Reads(g[o + e], text, thinking, inside, SubSeq(left, 1, e))
<1> DEFINE Bad == {j \in z .. e : ~ Reads(g[o + j], text, thinking, inside, SubSeq(left, 1, j))}
           tag == TagOf(inside)
<1>0. Len(left) \in Nat /\ tag \in {StartTag, EndTag} /\ Len(tag) \in Nat \ {0}
  <2>1. tag \in {StartTag, EndTag}
    BY DEF TagOf
  <2> HIDE DEF tag
  <2>2. QED
    BY <2>1, TagOK
<1>1. SUFFICES ASSUME Bad # {} PROVE FALSE
  <2>1. e \in z .. e
    BY <1>0
  <2>2. QED
    BY <2>1
<1>2. PICK n \in Bad : \A k \in Bad : n <= k
  <2>1. Bad \subseteq Nat
    BY <1>0
  <2> HIDE DEF Bad
  <2>2. QED
    BY <1>1, <2>1, Least
<1>3. n \in z .. e /\ ~ Reads(g[o + n], text, thinking, inside, SubSeq(left, 1, n))
  OBVIOUS
<1>4. n # z
  BY <1>3
<1>5. n - 1 \in z .. e /\ ~ n <= n - 1 /\ n \in z + 1 .. Len(left)
      /\ n \in 1 .. Len(left) /\ n \in 0 .. Len(left) /\ n - 1 \in 0 .. Len(left)
  BY <1>0, <1>3, <1>4
<1>6. Reads(g[o + (n - 1)], text, thinking, inside, SubSeq(left, 1, n - 1))
  BY <1>2, <1>5
<1> DEFINE x == SubSeq(left, 1, n - 1)
           y == SubSeq(left, 1, n)
<1>7. x \in Seq(Bytes) /\ Len(x) = n - 1 /\ \A i \in 1 .. n - 1 : x[i] = left[i]
  BY <1>5, PrefixIs
<1>8. y \in Seq(Bytes) /\ Len(y) = n /\ \A i \in 1 .. n : y[i] = left[i]
  BY <1>5, PrefixIs
<1>9. left[n] \in Bytes
  BY <1>5
<1>10. Append(x, left[n]) = y
  <2> DEFINE b == left[n]
             u == Append(x, b)
  <2>1. b \in Bytes
    BY <1>9
  <2> HIDE DEF x, y, b
  <2>2. /\ u \in Seq(Bytes) /\ Len(u) = Len(x) + 1 /\ u[Len(x) + 1] = b
        /\ \A j \in 1 .. Len(x) : u[j] = x[j]
    BY <1>7, <2>1, Appended, SMTT(60)
  <2> HIDE DEF u
  <2>3. Len(u) = n /\ u[n] = left[n] /\ \A j \in 1 .. n - 1 : u[j] = left[j]
    <3>1. Len(x) + 1 = n /\ Len(x) = n - 1
      BY <1>5, <1>7
    <3>2. Len(u) = n /\ u[n] = b
      BY <2>2, <3>1
    <3>3. \A j \in 1 .. n - 1 : u[j] = x[j]
      BY <2>2, <3>1
    <3>4. QED
      BY <1>7, <3>2, <3>3 DEF b
  <2>4. \A j \in 1 .. Len(u) : u[j] = y[j]
    <3>1. \A j \in 1 .. n : j = n \/ j \in 1 .. n - 1
      BY <1>5
    <3>2. QED
      BY <1>8, <2>3, <3>1
  <2>5. u = y
    BY <1>8, <2>2, <2>3, <2>4, SeqEqual
  <2>6. QED
    BY <2>5 DEF u, b
<1>11. NoTag(y, tag)
  <2>1. \A k \in 1 .. Len(left) : Matches(left, k, tag) => k + Len(tag) - 1 > n
    <3>1. e \in Int /\ n \in Int /\ n <= e
      BY <1>0, <1>3
    <3> HIDE DEF tag
    <3>2. \A k \in 1 .. Len(left) : Matches(left, k, tag) => k + Len(tag) - 1 > e
      BY DEF tag
    <3>3. \A k \in 1 .. Len(left) : k + Len(tag) - 1 \in Int
      BY <1>0
    <3>4. QED
      BY <3>1, <3>2, <3>3
  <2> HIDE DEF tag, y
  <2>2. QED
    BY <1>0, <1>5, <1>8, <2>1, NoTagBefore
<1> HIDE DEF x, y
<1>12. Reads(ReadByte(g[o + (n - 1)], left[n]), text, thinking, inside, Append(x, left[n]))
  BY <1>6, <1>9, <1>10, <1>11, ReadsOn DEF x
<1>13. o + n \in 1 .. Len(w) /\ o + (n - 1) = o + n - 1 /\ left[n] = w[o + n]
  <2>1. n \in z + 1 .. Len(left) /\ o + Len(left) = Len(w) /\ o + z >= 0
    BY <1>5
  <2>2. left[n] = w[o + n]
    BY <2>1, Zenon
  <2>3. Len(left) \in Nat /\ Len(w) \in Nat /\ z \in Nat
    BY <1>0
  <2>4. o + n \in 1 .. Len(w) /\ o + (n - 1) = o + n - 1
    BY <2>1, <2>3, Within, Zenon
  <2>5. QED
    BY <2>2, <2>4
<1>14. g[o + n] = ReadByte(g[o + (n - 1)], left[n])
  <2>1. g[o + n] = ReadByte(g[o + n - 1], w[o + n])
    BY <1>13 DEF Reading
  <2>2. QED
    BY <1>13, <2>1, Zenon
<1>15. QED
  BY <1>3, <1>10, <1>12, <1>14 DEF y

----------------------------------------------------------------------------
(* The parts that text and thinking make *)

(* All parts of the kind together: one, or none. *)
OnlyOne(m, kind, c) ==
  \/ c = <<>> /\ \A i \in 1 .. Len(m.parts) : m.parts[i].kind # kind
  \/ \E i \in 1 .. Len(m.parts) :
       /\ m.parts[i].kind = kind /\ m.parts[i].content = c
       /\ \A j \in 1 .. Len(m.parts) : m.parts[j].kind = kind => j = i

(* The id of the text names the text and nothing else. *)
OwnPart(u, m) ==
  u.vendor # None =>
    /\ \A i \in 1 .. Len(m.parts) : m.parts[i].kind = "text" =>
         u.vendor \in DOMAIN m.index /\ m.index[u.vendor] = i
    /\ u.vendor \in DOMAIN m.index => m.parts[m.index[u.vendor]].kind = "text"

Trimmed(u, text, kept) ==
  \E d \in Seq(Bytes) :
    text = d \o kept /\ IsBlank(d) /\ (~u.ignore_blanks => d = <<>>)

(* The parts show what a reader read. *)
Shows(u, m, text, thinking) ==
  /\ OnlyOne(m, "thinking", thinking)
  /\ \E kept \in Seq(Bytes) : Trimmed(u, text, kept) /\ OnlyOne(m, "text", kept)
  /\ OwnPart(u, m)

(* Content that goes to one part leaves those of other kinds alone. *)
LEMMA PutOther ==
  ASSUME NEW m, NEW n, Sound(m), Sound(n), NEW i, NEW kind, NEW c, NEW v, Put(m, n, i, kind, c, v),
         NEW other, other # kind, NEW x, OnlyOne(m, other, x)
  PROVE  OnlyOne(n, other, x)
<1>1. Len(m.parts) \in Nat /\ Len(n.parts) \in Nat
  BY SoundParts
<1>2. /\ n.parts[i].kind = kind
      /\ \A j \in 1 .. Len(m.parts) : /\ n.parts[j].kind = m.parts[j].kind
                                      /\ j # i => n.parts[j] = m.parts[j]
  BY DEF Put
<1>3. /\ \A j \in 1 .. Len(n.parts) : j = i \/ j \in 1 .. Len(m.parts)
      /\ \A j \in 1 .. Len(m.parts) : j \in 1 .. Len(n.parts)
  BY <1>1 DEF Put
<1>4. CASE x = <<>> /\ \A j \in 1 .. Len(m.parts) : m.parts[j].kind # other
  BY <1>2, <1>3, <1>4 DEF OnlyOne
<1>5. CASE \E j \in 1 .. Len(m.parts) :
             /\ m.parts[j].kind = other /\ m.parts[j].content = x
             /\ \A k \in 1 .. Len(m.parts) : m.parts[k].kind = other => k = j
  <2>1. PICK j \in 1 .. Len(m.parts) :
             /\ m.parts[j].kind = other /\ m.parts[j].content = x
             /\ \A k \in 1 .. Len(m.parts) : m.parts[k].kind = other => k = j
    BY <1>5
  <2>2. j # i
    BY <1>2, <2>1
  <2>3. j \in 1 .. Len(n.parts) /\ n.parts[j].kind = other /\ n.parts[j].content = x
    BY <1>2, <1>3, <2>1, <2>2
  <2>4. \A k \in 1 .. Len(n.parts) : n.parts[k].kind = other => k = j
    BY <1>2, <1>3, <2>1
  <2>5. QED
    BY <2>3, <2>4 DEF OnlyOne
<1>6. QED
  BY <1>4, <1>5 DEF OnlyOne

(* It extends the one part of its kind, or starts it. *)
LEMMA PutOne ==
  ASSUME NEW m, NEW n, Sound(m), Sound(n), NEW i, NEW kind, NEW c \in Seq(Atoms), NEW v,
         Put(m, n, i, kind, c, v), NEW x, OnlyOne(m, kind, x),
         i = Len(m.parts) + 1 => \A j \in 1 .. Len(m.parts) : m.parts[j].kind # kind
  PROVE  OnlyOne(n, kind, x \o c)
<1>1. Len(m.parts) \in Nat /\ Len(n.parts) \in Nat
  BY SoundParts
<1>2. /\ i \in 1 .. Len(n.parts) /\ n.parts[i].kind = kind
      /\ n.parts[i].content = Before(m, i) \o c
      /\ \A j \in 1 .. Len(m.parts) : n.parts[j].kind = m.parts[j].kind
  BY DEF Put
<1>3. \A j \in 1 .. Len(n.parts) : j = i \/ j \in 1 .. Len(m.parts)
  BY <1>1 DEF Put
<1>4. i \in 1 .. Len(m.parts) \/ i = Len(m.parts) + 1
  BY DEF Put
<1>5. CASE i \in 1 .. Len(m.parts)
  <2>1. m.parts[i].kind = kind
    BY <1>2, <1>5
  <2>2. m.parts[i].content = x /\ \A j \in 1 .. Len(m.parts) : m.parts[j].kind = kind => j = i
    BY <1>5, <2>1 DEF OnlyOne
  <2>3. n.parts[i].content = x \o c
    BY <1>2, <1>5, <2>2 DEF Before
  <2>4. \A j \in 1 .. Len(n.parts) : n.parts[j].kind = kind => j = i
    BY <1>2, <1>3, <2>2
  <2>5. QED
    BY <1>2, <2>3, <2>4 DEF OnlyOne
<1>6. CASE i = Len(m.parts) + 1
  <2>1. \A j \in 1 .. Len(m.parts) : m.parts[j].kind # kind
    BY <1>6
  <2>2. x = <<>>
    BY <2>1 DEF OnlyOne
  <2>3. i \notin 1 .. Len(m.parts)
    BY <1>1, <1>6
  <2>4. n.parts[i].content = x \o c
    BY <1>2, <2>2, <2>3 DEF Before
  <2>5. \A j \in 1 .. Len(n.parts) : n.parts[j].kind = kind => j = i
    BY <1>2, <1>3, <2>1
  <2>6. QED
    BY <1>2, <2>4, <2>5 DEF OnlyOne
<1>7. QED
  BY <1>4, <1>5, <1>6

(* The ids after content was put into a part. *)
LEMMA PutOwn ==
  ASSUME NEW m, NEW n, Sound(m), Sound(n), NEW i, NEW kind, NEW c, NEW v, Put(m, n, i, kind, c, v),
         OwnPart(mode, m), \/ kind # "text" /\ (v = None \/ v # mode.vendor)
                     \/ /\ kind = "text" /\ v = mode.vendor
                        /\ i = Len(m.parts) + 1 =>
                             \A j \in 1 .. Len(m.parts) : m.parts[j].kind # "text"
  PROVE  OwnPart(mode, n)
<1>1. Len(m.parts) \in Nat /\ Len(n.parts) \in Nat
      /\ \A w \in DOMAIN m.index : m.index[w] \in 1 .. Len(m.parts)
  BY SoundParts
<1>2. /\ i \in 1 .. Len(n.parts) /\ n.parts[i].kind = kind
      /\ \A j \in 1 .. Len(m.parts) : n.parts[j].kind = m.parts[j].kind
  BY DEF Put
<1>3. \A j \in 1 .. Len(n.parts) : j = i \/ j \in 1 .. Len(m.parts)
  <2>1. \/ Len(n.parts) = Len(m.parts)
        \/ Len(n.parts) = i /\ i = Len(m.parts) + 1
    BY DEF Put
  <2>2. QED
    BY <1>1, <2>1
<1>4. SUFFICES ASSUME mode.vendor # None
      PROVE  /\ \A j \in 1 .. Len(n.parts) : n.parts[j].kind = "text" =>
                  mode.vendor \in DOMAIN n.index /\ n.index[mode.vendor] = j
             /\ mode.vendor \in DOMAIN n.index => n.parts[n.index[mode.vendor]].kind = "text"
  BY DEF OwnPart
<1>5. /\ \A j \in 1 .. Len(m.parts) : m.parts[j].kind = "text" =>
           mode.vendor \in DOMAIN m.index /\ m.index[mode.vendor] = j
      /\ mode.vendor \in DOMAIN m.index => m.parts[m.index[mode.vendor]].kind = "text"
  BY <1>4 DEF OwnPart
<1>6. CASE kind # "text" /\ (v = None \/ v # mode.vendor)
  <2>1. /\ mode.vendor \in DOMAIN n.index <=> mode.vendor \in DOMAIN m.index
        /\ mode.vendor \in DOMAIN m.index => n.index[mode.vendor] = m.index[mode.vendor]
    <3>1. n.index = m.index \/ n.index = Registered(m, v)
      BY DEF Put
    <3>2. QED
      BY <1>4, <1>6, <3>1 DEF Registered
  <2>2. QED
    BY <1>1, <1>2, <1>3, <1>5, <1>6, <2>1
<1>7. CASE kind = "text" /\ v = mode.vendor /\ i \in 1 .. Len(m.parts)
  <2>1. n.index = m.index
    BY <1>1, <1>7 DEF Put
  <2>2. \A j \in 1 .. Len(n.parts) : j \in 1 .. Len(m.parts)
    BY <1>3, <1>7
  <2>3. QED
    BY <1>1, <1>2, <1>5, <2>1, <2>2
<1>8. CASE /\ kind = "text" /\ v = mode.vendor /\ i = Len(m.parts) + 1
           /\ \A j \in 1 .. Len(m.parts) : m.parts[j].kind # "text"
  <2>1. n.index = Registered(m, v)
    BY <1>1, <1>8 DEF Put
  <2>2. mode.vendor \in DOMAIN n.index /\ n.index[mode.vendor] = i
    BY <1>4, <1>8, <2>1 DEF Registered
  <2>3. QED
    BY <1>2, <1>3, <1>8, <2>2
<1>9. QED
  BY <1>6, <1>7, <1>8 DEF Put

(* A new part is made only when there is none of the kind, or none with    *)
(* the id.                                                                 *)
LEMMA NoLatest ==
  ASSUME NEW m, Sound(m), NEW kind, Latest(m, kind) = 0
  PROVE  \A i \in 1 .. Len(m.parts) : m.parts[i].kind # kind
<1> DEFINE I == {i \in 1 .. Len(m.parts) : m.parts[i].kind = kind}
<1>1. Len(m.parts) \in Nat
  BY SoundParts
<1>2. Latest(m, kind) = IF I # {} THEN Max(I) ELSE 0
  BY DEF Latest, SelectLastInSeq
<1>3. SUFFICES ASSUME I # {} PROVE FALSE
  OBVIOUS
<1>4. I \subseteq 0 .. Len(m.parts) /\ 0 \notin I
  BY <1>1
<1>5. PICK x \in I : \A n \in I : n <= x
  <2> HIDE DEF I
  <2>1. QED
    BY <1>1, <1>3, <1>4, Greatest
<1>6. \A n \in I : x >= n
  BY <1>1, <1>4, <1>5
<1>7. Max(I) \in I
  BY <1>6 DEF Max
<1>8. QED
  BY <1>2, <1>3, <1>4, <1>7

(* Without an id, a part is new only if none of its kind was there. *)
LEMMA ContentNew ==
  ASSUME NEW m, Sound(m), NEW kind, NEW v \in VendorIds \cup {None}, NEW c,
         Len(WithContent(m, kind, v, c).parts) = Len(m.parts) + 1
  PROVE  v = None => \A i \in 1 .. Len(m.parts) : m.parts[i].kind # kind
<1> DEFINE i == PartIndex(m, kind, v)
           part == Part(kind, c, FALSE)
           n == WithContent(m, kind, v, c)
<1>1. /\ Len(m.parts) \in Nat /\ m.parts \in Seq(AnyPart)
      /\ m = [parts |-> m.parts, index |-> m.index, view |-> m.view]
  BY SoundParts DEF Sound
<1>2. n = CASE i > Len(m.parts) -> Created(m, v, part, part)
            [] i <= Len(m.parts) /\ m.parts[i].kind = kind ->
                 [m EXCEPT !.parts[i].content = @ \o c, !.view[i].content = @ \o c]
            [] OTHER -> m
  BY DEF WithContent
<1>3. SUFFICES ASSUME v = None, Latest(m, kind) # 0 PROVE FALSE
  BY NoLatest
<1>4. i \in 1 .. Len(m.parts)
  BY <1>3, LatestPart DEF PartIndex
<1> HIDE DEF i, n
<1>5. \/ n = m
      \/ n = [m EXCEPT !.parts[i].content = @ \o c, !.view[i].content = @ \o c]
  <2>1. ~(i > Len(m.parts)) /\ i <= Len(m.parts)
    BY <1>1, <1>4
  <2>2. CASE m.parts[i].kind = kind
    BY <1>2, <2>1, <2>2
  <2>3. CASE m.parts[i].kind # kind
    BY <1>2, <2>1, <2>3
  <2>4. QED
    BY <2>2, <2>3
<1>6. CASE n = [m EXCEPT !.parts[i].content = @ \o c, !.view[i].content = @ \o c]
  <2> DEFINE p == [m.parts[i] EXCEPT !.content = @ \o c]
  <2>1. n.parts = [m.parts EXCEPT ![i] = p]
    BY <1>1, <1>6
  <2> HIDE DEF p
  <2>2. DOMAIN n.parts = 1 .. Len(m.parts)
    BY <1>1, <2>1
  <2>3. Len(n.parts) = Len(m.parts)
    BY <1>1, <2>2
  <2>4. QED
    BY <1>1, <2>3 DEF n
<1>7. QED
  BY <1>1, <1>5, <1>6 DEF n

Grown(all, piece, grows) == IF grows THEN all \o piece ELSE all

(* White space after white space. *)
LEMMA BlankJoined ==
  ASSUME NEW d \in Seq(Bytes), NEW c \in Seq(Bytes), IsBlank(d), IsBlank(c)
  PROVE  IsBlank(d \o c)
<1> DEFINE b == d \o c
<1>1. /\ Len(b) = Len(d) + Len(c) /\ Len(d) \in Nat /\ Len(c) \in Nat /\ b \in Seq(Bytes)
      /\ \A x \in 1 .. Len(d) : b[x] = d[x]
      /\ \A x \in 1 .. Len(c) : b[Len(d) + x] = c[x]
  BY Joined
<1>2. /\ \A k \in 1 .. Len(d) : d[k] \in Blanks
      /\ \A k \in 1 .. Len(c) : c[k] \in Blanks
  BY DEF IsBlank
<1> HIDE DEF b
<1>3. ASSUME NEW k \in 1 .. Len(b)
      PROVE  b[k] \in Blanks
  <2>1. CASE k <= Len(d)
    BY <1>1, <1>2, <2>1
  <2>2. CASE ~ k <= Len(d)
    <3>1. k - Len(d) \in 1 .. Len(c) /\ Len(d) + (k - Len(d)) = k
      BY <1>1, <2>2
    <3>2. QED
      BY <1>1, <1>2, <3>1
  <2>3. QED
    BY <2>1, <2>2
<1>4. DOMAIN b = 1 .. Len(b)
  BY <1>1
<1>5. IsBlank(b)
  BY <1>3, <1>4 DEF IsBlank
<1>6. QED
  BY <1>5 DEF b

(* Nothing put at the end. *)
LEMMA NothingJoined == \A s \in Seq(Bytes) : s \o <<>> = s
OBVIOUS

(* Content that goes to a part. *)
LEMMA PutShows ==
  ASSUME mode \in Uses, NEW m, Sound(m), NEW kind \in {"text", "thinking"},
         NEW v, v = IF kind = "text" THEN mode.vendor ELSE None,
         NEW c \in Seq(Bytes), NEW n, n = WithContent(m, kind, v, c), Reached(m, n, kind, c, v),
         OwnPart(mode, m)
  PROVE  /\ \A x : OnlyOne(m, kind, x) => OnlyOne(n, kind, x \o c)
         /\ \A other : other # kind => \A x : OnlyOne(m, other, x) => OnlyOne(n, other, x)
         /\ OwnPart(mode, n)
<1>1. /\ v \in VendorIds \cup {None} /\ c \in Seq(Atoms) /\ Sound(n)
      /\ None \notin DOMAIN m.index /\ Len(m.parts) \in Nat
  BY ModeOK, BytesApart, TokensApart, SoundParts DEF Reached, Sound
<1>2. ~ Missed(m, kind, v)
  <2>1. CASE v = None
    BY <1>1, <2>1 DEF Missed
  <2>2. CASE v # None
    <3>1. kind = "text" /\ v = mode.vendor
      BY <2>2
    <3>2. QED
      BY <2>2, <3>1 DEF Missed, OwnPart
  <2>3. QED
    BY <2>1, <2>2
<1>3. PICK i : Put(m, n, i, kind, c, v)
  BY <1>2 DEF Reached
<1>4. ASSUME i = Len(m.parts) + 1
      PROVE  \A j \in 1 .. Len(m.parts) : m.parts[j].kind # kind
  <2>0. i \notin 1 .. Len(m.parts)
    BY <1>1, <1>4
  <2>1. Len(n.parts) = Len(m.parts) + 1
    BY <1>3, <1>4, <2>0 DEF Put
  <2>2. CASE v = None
    BY <1>1, <2>1, <2>2, ContentNew
  <2>3. CASE v # None
    <3>1. kind = "text" /\ v = mode.vendor
      BY <2>3
    <3>2. v \notin DOMAIN m.index
      BY <1>3, <2>0, <2>3, <3>1 DEF Put
    <3>3. QED
      BY <2>3, <3>1, <3>2 DEF OwnPart
  <2>4. QED
    BY <2>2, <2>3
<1>5. ASSUME NEW x, OnlyOne(m, kind, x)
      PROVE  OnlyOne(n, kind, x \o c)
  <2>1. QED
    BY <1>1, <1>3, <1>4, <1>5, PutOne
<1>6. ASSUME NEW other, other # kind, NEW x, OnlyOne(m, other, x)
      PROVE  OnlyOne(n, other, x)
  BY <1>1, <1>3, <1>6, PutOther
<1>7. OwnPart(mode, n)
  BY <1>1, <1>3, <1>4, PutOwn
<1>8. QED
  BY <1>5, <1>6, <1>7

(* A piece of tagged text is shown where it belongs. *)
LEMMA PieceShows ==
  ASSUME mode \in Uses, NEW m, Sound(m), Seen(m), NEW inside \in BOOLEAN,
         NEW text \in Seq(Bytes), NEW thinking \in Seq(Bytes), NEW piece \in Seq(Bytes),
         Shows(mode, m, text, thinking)
  PROVE  Shows(mode, WithPiece(m, inside, piece), Grown(text, piece, ~inside),
               Grown(thinking, piece, inside))
<1> DEFINE n == WithPiece(m, inside, piece)
<1>1. /\ mode.vendor \in VendorIds \cup {None} /\ None \in VendorIds \cup {None}
      /\ piece \in Seq(Atoms)
  BY ModeOK, BytesApart
<1>2. PICK kept \in Seq(Bytes) :
        Trimmed(mode, text, kept) /\ OnlyOne(m, "text", kept) /\ OnlyOne(m, "thinking", thinking)
          /\ OwnPart(mode, m)
  BY DEF Shows
<1>3. PICK d \in Seq(Bytes) :
        text = d \o kept /\ IsBlank(d) /\ (~mode.ignore_blanks => d = <<>>)
  BY <1>2 DEF Trimmed
<1>4. CASE piece = <<>>
  <2>1. n = m
    BY <1>4 DEF WithPiece
  <2>2. Grown(text, piece, ~inside) = text /\ Grown(thinking, piece, inside) = thinking
    BY <1>4, NothingJoined DEF Grown
  <2>3. QED
    BY <2>1, <2>2
<1>5. CASE piece # <<>> /\ inside
  <2>1. n = WithContent(m, "thinking", None, piece)
    BY <1>5 DEF WithPiece
  <2>2. Reached(m, n, "thinking", piece, None)
    BY <1>1, <2>1, ContentReached
  <2> HIDE DEF n
  <2>3. /\ OnlyOne(n, "thinking", thinking \o piece) /\ OnlyOne(n, "text", kept)
        /\ OwnPart(mode, n)
    <3>1. None = IF "thinking" = "text" THEN mode.vendor ELSE None
      OBVIOUS
    <3>2. "thinking" \in {"text", "thinking"} /\ "text" # "thinking"
      OBVIOUS
    <3>3. /\ \A x : OnlyOne(m, "thinking", x) => OnlyOne(n, "thinking", x \o piece)
          /\ \A other : other # "thinking" => \A x : OnlyOne(m, other, x) => OnlyOne(n, other, x)
          /\ OwnPart(mode, n)
      BY <1>2, <2>1, <2>2, <3>1, <3>2, PutShows
    <3>4. QED
      BY <1>2, <3>2, <3>3
  <2>4. Grown(text, piece, ~inside) = text /\ Grown(thinking, piece, inside) = thinking \o piece
    BY <1>5 DEF Grown
  <2>5. Shows(mode, n, text, thinking \o piece)
    BY <1>2, <2>3 DEF Shows
  <2>6. QED
    BY <2>4, <2>5 DEF n
<1>6. CASE /\ piece # <<>> /\ ~inside
           /\ mode.ignore_blanks /\ IsBlank(piece) /\ mode.vendor = None /\ Latest(m, "text") = 0
  <2>1. n = m
    BY <1>6 DEF WithPiece, WithText
  <2> HIDE DEF n
  <2>2. kept = <<>>
    BY <1>2, <1>6, NoLatest DEF OnlyOne
  <2>3. text = d
    BY <1>3, <2>2, NothingJoined
  <2>4. /\ d \o piece \in Seq(Bytes) /\ IsBlank(d \o piece)
        /\ text \o piece = (d \o piece) \o kept
    BY <1>3, <1>6, <2>2, <2>3, NothingJoined, BlankJoined, Joined
  <2>5. Trimmed(mode, text \o piece, kept)
    BY <1>6, <2>4 DEF Trimmed
  <2>6. Grown(text, piece, ~inside) = text \o piece /\ Grown(thinking, piece, inside) = thinking
    BY <1>6 DEF Grown
  <2>7. Shows(mode, n, text \o piece, thinking)
    BY <1>2, <2>1, <2>5 DEF Shows
  <2>8. QED
    BY <2>6, <2>7 DEF n
<1>7. CASE /\ piece # <<>> /\ ~inside
           /\ ~ (mode.ignore_blanks /\ IsBlank(piece) /\ mode.vendor = None
                 /\ Latest(m, "text") = 0)
  <2>1. n = WithContent(m, "text", mode.vendor, piece)
    BY <1>7 DEF WithPiece, WithText
  <2>2. Reached(m, n, "text", piece, mode.vendor)
    BY <1>1, <2>1, ContentReached
  <2> HIDE DEF n
  <2>3. /\ OnlyOne(n, "text", kept \o piece) /\ OnlyOne(n, "thinking", thinking)
        /\ OwnPart(mode, n)
    <3>1. mode.vendor = IF "text" = "text" THEN mode.vendor ELSE None
      OBVIOUS
    <3>2. "text" \in {"text", "thinking"} /\ "text" # "thinking"
      OBVIOUS
    <3>3. /\ \A x : OnlyOne(m, "text", x) => OnlyOne(n, "text", x \o piece)
          /\ \A other : other # "text" => \A x : OnlyOne(m, other, x) => OnlyOne(n, other, x)
          /\ OwnPart(mode, n)
      BY <1>2, <2>1, <2>2, <3>1, <3>2, PutShows
    <3>4. QED
      BY <1>2, <3>2, <3>3
  <2>4. Grown(text, piece, ~inside) = text \o piece /\ Grown(thinking, piece, inside) = thinking
    BY <1>7 DEF Grown
  <2>5. kept \o piece \in Seq(Bytes) /\ text \o piece = d \o (kept \o piece)
    BY <1>3, ThreeJoined, Joined
  <2>6. Trimmed(mode, text \o piece, kept \o piece)
    BY <1>3, <2>5 DEF Trimmed
  <2>7. Shows(mode, n, text \o piece, thinking)
    BY <2>3, <2>5, <2>6 DEF Shows
  <2>8. QED
    BY <2>4, <2>7 DEF n
<1>8. QED
  BY <1>4, <1>5, <1>6, <1>7

----------------------------------------------------------------------------
(* A round of the loop, and the loop *)

(* What the reference has read grows by the same piece. *)
LEMMA GainsGrown ==
  ASSUME NEW a, NEW text \in Seq(Bytes), NEW thinking \in Seq(Bytes), NEW inside \in BOOLEAN,
         NEW piece \in Seq(Bytes), Gains(a, text, thinking, inside, piece)
  PROVE  /\ a.text = Grown(text, piece, ~inside) /\ a.thinking = Grown(thinking, piece, inside)
         /\ a.text \in Seq(Bytes) /\ a.thinking \in Seq(Bytes)
<1>1. text \o piece \in Seq(Bytes) /\ thinking \o piece \in Seq(Bytes)
  BY Joined
<1>2. QED
  BY <1>1 DEF Gains, Grown

(* What is held back is all that still matters of a fragment. *)
LEMMA ReadsHeld ==
  ASSUME NEW a, NEW text \in Seq(Bytes), NEW thinking \in Seq(Bytes), NEW inside \in BOOLEAN,
         NEW x, Reads(a, text, thinking, inside, x)
  PROVE  /\ Reads(a, a.text, a.thinking, inside, a.held)
         /\ a.text \in Seq(Bytes) /\ a.thinking \in Seq(Bytes) /\ a.held \in Seq(Bytes)
<1> DEFINE tag == TagOf(inside)
           h == a.held
<1>1. /\ a = [text |-> a.text, thinking |-> a.thinking, held |-> a.held, inside |-> a.inside]
      /\ x \in Seq(Bytes) /\ a.inside = inside
      /\ tag \in {StartTag, EndTag}
  BY DEF Reads, TagOf
<1>2. PICK n : /\ Hangs(x, n, tag) /\ h = Suffix(x, n)
               /\ Gains(a, text, thinking, inside, SubSeq(x, 1, Len(x) - n))
  BY DEF Reads
<1> HIDE DEF tag
<1>3. /\ n \in 0 .. Len(x) /\ n < Len(tag) /\ Ends(x, n, tag)
      /\ Len(x) \in Nat /\ Len(tag) \in Nat \ {0}
  BY <1>1, <1>2, TagOK DEF Hangs
<1>4. h \in Seq(Bytes) /\ Len(h) = n /\ \A i \in 1 .. n : h[i] = x[Len(x) - n + i]
  BY <1>1, <1>2, <1>3, SuffixBytes
<1>5. a.text \in Seq(Bytes) /\ a.thinking \in Seq(Bytes)
  <2>1. Len(x) - n \in 0 .. Len(x)
    BY <1>3
  <2>2. SubSeq(x, 1, Len(x) - n) \in Seq(Bytes)
    BY <1>1, <2>1, PrefixIs
  <2>3. QED
    BY <1>2, <2>2, GainsGrown
<1> HIDE DEF h
<1>6. NoTag(h, tag)
  <2>1. SUFFICES ASSUME NEW k \in 1 .. Len(h), Matches(h, k, tag) PROVE FALSE
    BY DEF NoTag
  <2>2. k + Len(tag) - 1 <= Len(h)
    BY <1>1, <1>4, <2>1, MatchesBytes
  <2>3. QED
    BY <1>3, <1>4, <2>2
<1>7. Hangs(h, n, tag)
  <2>1. Ends(h, n, tag)
    <3>1. \A i \in 1 .. n : h[i] = tag[i]
      BY <1>3, <1>4 DEF Ends
    <3>2. \A i \in 1 .. n : Len(h) - n + i = i
      BY <1>3, <1>4
    <3>3. QED
      BY <3>1, <3>2 DEF Ends
  <2>2. n \in 0 .. Len(h) /\ \A k \in n + 1 .. Len(h) : FALSE
    BY <1>3, <1>4
  <2>3. QED
    BY <1>3, <2>1, <2>2 DEF Hangs
<1>8. h = Suffix(h, n)
  <2> DEFINE u == Suffix(h, n)
  <2>1. n \in 0 .. Len(h)
    BY <1>3, <1>4
  <2>2. u \in Seq(Bytes) /\ Len(u) = n /\ \A i \in 1 .. n : u[i] = h[Len(h) - n + i]
    BY <1>4, <2>1, SuffixBytes
  <2> HIDE DEF u
  <2>3. \A i \in 1 .. n : Len(h) - n + i = i
    BY <1>3, <1>4
  <2>4. \A i \in 1 .. Len(u) : u[i] = h[i]
    BY <2>2, <2>3
  <2>5. u = h
    BY <1>4, <2>2, <2>4, SeqEqual
  <2>6. QED
    BY <2>5 DEF u
<1>9. SubSeq(h, 1, Len(h) - n) = <<>>
  <2>1. Len(h) - n = 0 /\ 0 \in 0 .. Len(h)
    BY <1>3, <1>4
  <2> DEFINE u == SubSeq(h, 1, 0)
  <2>2. u \in Seq(Bytes) /\ Len(u) = 0
    BY <1>4, <2>1, PrefixIs
  <2> HIDE DEF u
  <2>3. u = <<>>
    BY <2>2, EmptySeq
  <2>4. QED
    BY <2>1, <2>3 DEF u
<1>10. Gains(a, a.text, a.thinking, inside, <<>>)
  BY <1>5, NothingJoined DEF Gains
<1>11. Gains(a, a.text, a.thinking, inside, SubSeq(h, 1, Len(h) - n))
  BY <1>9, <1>10
<1>12. a.held = h
  BY DEF h
<1>13. Reads(a, a.text, a.thinking, inside, h)
  BY <1>1, <1>4, <1>6, <1>7, <1>8, <1>11, <1>12 DEF Reads, tag
<1>14. QED
  BY <1>4, <1>5, <1>12, <1>13

(* Nothing is held back. *)
LEMMA ReadsNothing ==
  ASSUME NEW a, NEW inside \in BOOLEAN,
         a = [text |-> a.text, thinking |-> a.thinking, held |-> <<>>, inside |-> inside],
         a.text \in Seq(Bytes), a.thinking \in Seq(Bytes)
  PROVE  Reads(a, a.text, a.thinking, inside, <<>>)
<1> DEFINE tag == TagOf(inside)
           x == <<>>
<1>1. x \in Seq(Bytes) /\ Len(x) = 0 /\ 1 .. Len(x) = {} /\ 0 \in 0 .. Len(x)
  BY EmptySeq
<1>2. Len(tag) \in Nat \ {0}
  BY TagOK DEF TagOf
<1>3. a.held = <<>> /\ a.inside = inside
  OBVIOUS
<1>4. Gains(a, a.text, a.thinking, inside, <<>>)
  BY NothingJoined DEF Gains
<1>5. Suffix(x, 0) = x /\ SubSeq(x, 1, Len(x) - 0) = <<>>
  <2> DEFINE u == Suffix(x, 0)
             v == SubSeq(x, 1, 0)
  <2>1. u \in Seq(Bytes) /\ Len(u) = 0
    BY <1>1, SuffixBytes
  <2>2. v \in Seq(Bytes) /\ Len(v) = 0
    BY <1>1, PrefixIs
  <2> HIDE DEF u, v, x
  <2>3. u = <<>> /\ v = <<>>
    BY <2>1, <2>2, EmptySeq
  <2>4. Len(x) - 0 = 0
    BY <1>1
  <2>5. QED
    BY <2>3, <2>4 DEF u, v, x
<1> HIDE DEF x, tag
<1>6. NoTag(x, tag)
  BY <1>1 DEF NoTag
<1>7. Hangs(x, 0, tag)
  <2>1. Ends(x, 0, tag)
    BY DEF Ends
  <2>2. \A k \in 0 + 1 .. Len(x) : FALSE
    BY <1>1
  <2>3. QED
    BY <1>1, <1>2, <2>1, <2>2 DEF Hangs
<1>8. Gains(a, a.text, a.thinking, inside, SubSeq(x, 1, Len(x) - 0))
  BY <1>4, <1>5
<1>9. a.held = Suffix(x, 0)
  BY <1>3, <1>5 DEF x
<1>10. Reads(a, a.text, a.thinking, inside, x)
  BY <1>1, <1>3, <1>6, <1>7, <1>8, <1>9 DEF Reads, tag
<1>11. QED
  BY <1>10 DEF x

(* The loop has read the beginning of w, of which left begins after o      *)
(* bytes; the first z bytes of left were held back from the last chunk.    *)
Remains(w, left, o, z) ==
  /\ left \in Seq(Bytes) /\ o \in Int /\ o + Len(left) = Len(w)
  /\ z \in 0 .. Len(left) /\ o + z >= 0
  /\ \A j \in z + 1 .. Len(left) : left[j] = w[o + j]

ReadAll(u, m, a, inside, held) ==
  /\ a.held = held /\ a.text \in Seq(Bytes) /\ a.thinking \in Seq(Bytes)
  /\ Reads(a, a.text, a.thinking, inside, held)
  /\ Shows(u, m, a.text, a.thinking)

(* The last round: no tag is left, and what hangs on is held back. *)
LEMMA LastRound ==
  ASSUME mode \in Uses, Simple(StartTag), Simple(EndTag),
         NEW w \in Seq(Bytes), NEW g, Reading(w, g), NEW left, left # <<>>,
         NEW o, NEW z, Remains(w, left, o, z), NEW m, Sound(m), Seen(m),
         NEW text \in Seq(Bytes), NEW thinking \in Seq(Bytes), NEW inside \in BOOLEAN,
         Reads(g[o + z], text, thinking, inside, SubSeq(left, 1, z)),
         Shows(mode, m, text, thinking),
         NEW tag, tag = TagOf(inside), ~ TagPanics(left, tag),
         \A k \in 1 .. Len(left) : ~ Matches(left, k, tag)
  PROVE  ReadAll(mode, WithPiece(m, inside, SubSeq(left, 1, Len(left) - Len(HeldBack(left, tag)))),
                 g[Len(w)], inside, HeldBack(left, tag))
<1> DEFINE a == g[Len(w)]
           held == HeldBack(left, tag)
<1>1. /\ left \in Seq(Bytes) /\ o \in Int /\ o + Len(left) = Len(w) /\ z \in 0 .. Len(left)
      /\ o + z >= 0 /\ \A j \in z + 1 .. Len(left) : left[j] = w[o + j]
      /\ Len(left) \in Nat
  BY DEF Remains
<1>2. tag \in {StartTag, EndTag} /\ Simple(tag)
  BY DEF TagOf
<1>3. Len(left) \in z .. Len(left) /\ Len(left) \in 0 .. Len(left)
  BY <1>1
<1>4. \A k \in 1 .. Len(left) :
        Matches(left, k, TagOf(inside)) => k + Len(TagOf(inside)) - 1 > Len(left)
  OBVIOUS
<1>5. Reads(g[o + Len(left)], text, thinking, inside, SubSeq(left, 1, Len(left)))
  <2> DEFINE e == Len(left)
  <2>1. /\ e \in z .. Len(left)
        /\ \A k \in 1 .. Len(left) :
             Matches(left, k, TagOf(inside)) => k + Len(TagOf(inside)) - 1 > e
    BY <1>3, <1>4
  <2>2. /\ w \in Seq(Bytes) /\ Reading(w, g) /\ text \in Seq(Bytes) /\ thinking \in Seq(Bytes)
        /\ inside \in BOOLEAN
        /\ Reads(g[o + z], text, thinking, inside, SubSeq(left, 1, z))
    OBVIOUS
  <2> HIDE DEF e
  <2>3. Reads(g[o + e], text, thinking, inside, SubSeq(left, 1, e))
    BY <1>1, <2>1, <2>2, RunsOn, ZenonT(60)
  <2>4. QED
    BY <2>3 DEF e
<1>6. SubSeq(left, 1, Len(left)) = left
  <2> DEFINE u == SubSeq(left, 1, Len(left))
  <2>1. u \in Seq(Bytes) /\ Len(u) = Len(left) /\ \A i \in 1 .. Len(left) : u[i] = left[i]
    BY <1>1, <1>3, PrefixIs
  <2> HIDE DEF u
  <2>2. u = left
    BY <1>1, <2>1, SeqEqual
  <2>3. QED
    BY <2>2 DEF u
<1>7. Reads(a, text, thinking, inside, left)
  BY <1>1, <1>5, <1>6
<1> HIDE DEF a
<1>8. PICK n : /\ Hangs(left, n, tag) /\ a.held = Suffix(left, n)
               /\ Gains(a, text, thinking, inside, SubSeq(left, 1, Len(left) - n))
  BY <1>7 DEF Reads
<1>9. held = Suffix(left, n)
  BY <1>1, <1>2, <1>8, HeldIs
<1>10. n \in 0 .. Len(left)
  BY <1>8 DEF Hangs
<1>11. Len(held) = n
  BY <1>1, <1>9, <1>10, SuffixBytes
<1> DEFINE piece == SubSeq(left, 1, Len(left) - n)
<1>12. piece \in Seq(Bytes)
  <2>1. Len(left) - n \in 0 .. Len(left)
    BY <1>1, <1>10
  <2>2. QED
    BY <1>1, <2>1, PrefixIs
<1>13. /\ a.text = Grown(text, piece, ~inside) /\ a.thinking = Grown(thinking, piece, inside)
  <2>1. Gains(a, text, thinking, inside, piece)
    BY <1>8
  <2> HIDE DEF piece
  <2>2. QED
    BY <1>12, <2>1, GainsGrown
<1>14. Shows(mode, WithPiece(m, inside, piece), a.text, a.thinking)
  <2> HIDE DEF piece
  <2>1. QED
    BY <1>12, <1>13, PieceShows
<1>15. /\ Reads(a, a.text, a.thinking, inside, a.held)
       /\ a.text \in Seq(Bytes) /\ a.thinking \in Seq(Bytes)
  BY <1>7, ReadsHeld
<1>16. a.held = held
  BY <1>8, <1>9
<1> HIDE DEF held
<1>17. ReadAll(mode, WithPiece(m, inside, SubSeq(left, 1, Len(left) - Len(held))), a, inside, held)
  BY <1>11, <1>14, <1>15, <1>16 DEF ReadAll
<1>18. QED
  BY <1>17 DEF a, held

(* A tag that begins at pos: what is before it is read, and the rest is    *)
(* left.                                                                   *)
LEMMA TagRound ==
  ASSUME mode \in Uses, NEW w \in Seq(Bytes), NEW g, Reading(w, g), NEW left,
         NEW o, NEW z, Remains(w, left, o, z), NEW m, Sound(m), Seen(m),
         NEW text \in Seq(Bytes), NEW thinking \in Seq(Bytes), NEW inside \in BOOLEAN,
         Reads(g[o + z], text, thinking, inside, SubSeq(left, 1, z)),
         Shows(mode, m, text, thinking),
         NEW tag, tag = TagOf(inside), NEW pos \in 1 .. Len(left), Matches(left, pos, tag),
         \A k \in 1 .. Len(left) : Matches(left, k, tag) => pos <= k
  PROVE  LET p == pos + Len(tag) - 1
         IN /\ Remains(w, SubSeq(left, p + 1, Len(left)), o + p, 0)
            /\ p \in 1 .. Len(left)
            /\ ReadAll(mode, WithPiece(m, inside, SubSeq(left, 1, pos - 1)), g[o + p], ~inside,
                       <<>>)
<1> DEFINE e == pos + Len(tag) - 2
           b == left[e + 1]
           x == SubSeq(left, 1, e)
           y == SubSeq(left, 1, e + 1)
           last == SubSeq(left, e + 2, Len(left))
           first == SubSeq(left, 1, pos - 1)
<1>1. /\ left \in Seq(Bytes) /\ o \in Int /\ o + Len(left) = Len(w) /\ z \in 0 .. Len(left)
      /\ o + z >= 0 /\ \A j \in z + 1 .. Len(left) : left[j] = w[o + j]
      /\ Len(left) \in Nat
  BY DEF Remains
<1>2. tag \in {StartTag, EndTag} /\ Len(tag) \in Nat \ {0}
  BY TagOK DEF TagOf
<1>3. pos + Len(tag) - 1 <= Len(left) /\ \A i \in 1 .. Len(tag) : left[pos + i - 1] = tag[i]
  BY <1>1, <1>2, MatchesBytes
<1>4. e \in 0 .. Len(left) /\ e + 1 \in 1 .. Len(left) /\ e + 1 \in 0 .. Len(left)
      /\ e + 1 = pos + Len(tag) - 1
  BY <1>1, <1>2, <1>3
<1>5. e >= z
  <2>1. SUFFICES ASSUME e < z PROVE FALSE
    BY <1>1, <1>4
  <2> DEFINE u == SubSeq(left, 1, z)
  <2>2. u \in Seq(Bytes) /\ Len(u) = z /\ \A i \in 1 .. z : u[i] = left[i]
    BY <1>1, PrefixIs
  <2>3. NoTag(u, tag)
    BY DEF Reads
  <2> HIDE DEF u
  <2>4. pos \in 1 .. Len(u) /\ pos + Len(tag) - 1 <= Len(u)
    <3>1. pos \in Nat /\ pos >= 1 /\ Len(tag) >= 1 /\ z \in Nat /\ e + 1 <= z
      BY <1>1, <1>2, <1>4, <2>1
    <3> HIDE DEF e
    <3>2. QED
      BY <1>2, <1>4, <2>2, <3>1, SMTT(60)
  <2>5. \A i \in 1 .. Len(tag) : pos + i - 1 \in 1 .. z
    <3>1. pos \in Nat /\ pos >= 1 /\ z \in Nat
      BY <1>1
    <3>2. QED
      BY <1>2, <2>2, <2>4, <3>1, SMTT(60)
  <2>6. \A i \in 1 .. Len(tag) : u[pos + i - 1] = tag[i]
    BY <1>3, <2>2, <2>5
  <2>7. Matches(u, pos, tag)
    BY <1>2, <2>2, <2>4, <2>6, MatchesBytes
  <2>8. QED
    BY <2>3, <2>4, <2>7 DEF NoTag
<1>6. x \in Seq(Bytes) /\ Len(x) = e /\ \A i \in 1 .. e : x[i] = left[i]
  <2> HIDE DEF e
  <2>1. QED
    BY <1>1, <1>4, PrefixIs
<1>7. y \in Seq(Bytes) /\ Len(y) = e + 1 /\ \A i \in 1 .. e + 1 : y[i] = left[i]
  <2> DEFINE f == e + 1
  <2>1. f \in 0 .. Len(left)
    BY <1>4
  <2> HIDE DEF f
  <2>2. SubSeq(left, 1, f) \in Seq(Bytes) /\ Len(SubSeq(left, 1, f)) = f
        /\ \A i \in 1 .. f : SubSeq(left, 1, f)[i] = left[i]
    BY <1>1, <2>1, PrefixIs
  <2>3. QED
    BY <2>2 DEF f
<1>8. b \in Bytes
  BY <1>1, <1>4
<1>9. Reads(g[o + e], text, thinking, inside, x)
  <2>1. ASSUME NEW k \in 1 .. Len(left), Matches(left, k, TagOf(inside))
        PROVE  k + Len(TagOf(inside)) - 1 > e
    BY <1>1, <1>2, <2>1
  <2>2. e \in z .. Len(left)
    BY <1>1, <1>4, <1>5
  <2>3. /\ w \in Seq(Bytes) /\ Reading(w, g) /\ text \in Seq(Bytes) /\ thinking \in Seq(Bytes)
        /\ inside \in BOOLEAN
        /\ Reads(g[o + z], text, thinking, inside, SubSeq(left, 1, z))
    OBVIOUS
  <2> HIDE DEF e
  <2>4. QED
    BY <1>1, <2>1, <2>2, <2>3, RunsOn, ZenonT(60)
<1>10. o + (e + 1) \in 1 .. Len(w) /\ o + (e + 1) - 1 = o + e /\ w[o + (e + 1)] = b
  <2> HIDE DEF e
  <2>1. e \in Int /\ Len(w) \in Nat /\ e + 1 \in z + 1 .. Len(left)
    BY <1>1, <1>4, <1>5
  <2>2. left[e + 1] = w[o + (e + 1)]
    BY <1>1, <2>1
  <2>3. o + (e + 1) \in 1 .. Len(w) /\ o + (e + 1) - 1 = o + e
    BY <1>1, <2>1
  <2>4. QED
    BY <2>2, <2>3
<1>11. g[o + (e + 1)] = ReadByte(g[o + e], b)
  <2> HIDE DEF e, b
  <2>1. PICK q \in 1 .. Len(w) : q = o + (e + 1)
    BY <1>10, Zenon
  <2>2. q - 1 = o + e /\ w[q] = b
    <3>1. e \in Int /\ o \in Int /\ q \in Int
      BY <1>1, <1>4, <2>1
    <3>2. q - 1 = o + e
      BY <2>1, <3>1
    <3>3. w[o + (e + 1)] = b
      BY <1>10, Zenon
    <3>4. w[q] = b
      BY <2>1, <3>3, Zenon
    <3>5. QED
      BY <3>2, <3>4
  <2>3. g[q] = ReadByte(g[q - 1], w[q])
    BY DEF Reading
  <2>4. g[q] = ReadByte(g[o + e], b)
    BY <2>2, <2>3, Zenon
  <2>5. QED
    BY <2>1, <2>4, Zenon
<1>12. y = Append(x, b)
  <2> DEFINE t == Append(x, b)
  <2> HIDE DEF x, y, e
  <2>1. /\ t \in Seq(Bytes) /\ Len(t) = Len(x) + 1 /\ t[Len(x) + 1] = b
        /\ \A i \in 1 .. Len(x) : t[i] = x[i]
    BY <1>6, <1>8, Appended
  <2>2. y[e + 1] = b
    BY <1>4, <1>7
  <2> HIDE DEF t, b
  <2>3. Len(y) = Len(t)
    BY <1>6, <1>7, <2>1
  <2>4. ASSUME NEW i \in 1 .. Len(y)
        PROVE  y[i] = t[i]
    <3>1. CASE i = e + 1
      BY <1>6, <2>1, <2>2, <3>1
    <3>2. CASE i # e + 1
      <4>1. i \in 1 .. e
        BY <1>4, <1>7, <3>2
      <4>2. QED
        BY <1>6, <1>7, <2>1, <4>1
    <3>3. QED
      BY <3>1, <3>2
  <2>5. y = t
    BY <1>7, <2>1, <2>3, <2>4, SeqEqual
  <2>6. QED
    BY <2>5 DEF t
<1>13. Matches(y, pos, tag)
  <2>1. pos \in 1 .. Len(y) /\ pos + Len(tag) - 1 <= Len(y)
    <3>1. pos \in Nat /\ pos >= 1 /\ Len(tag) >= 1
      BY <1>2
    <3> HIDE DEF y, e
    <3>2. QED
      BY <1>4, <1>7, <3>1, SMTT(60)
  <2>2. \A i \in 1 .. Len(tag) : pos + i - 1 \in 1 .. e + 1
    <3>1. pos \in Nat /\ pos >= 1
      OBVIOUS
    <3> HIDE DEF e
    <3>2. QED
      BY <1>2, <1>4, <3>1, SMTT(60)
  <2>3. \A i \in 1 .. Len(tag) : y[pos + i - 1] = tag[i]
    BY <1>3, <1>7, <2>2
  <2> HIDE DEF y
  <2>4. QED
    BY <1>2, <1>7, <2>1, <2>3, MatchesBytes
<1>14. SubSeq(y, 1, pos - 1) = first
  <2> DEFINE u == SubSeq(y, 1, pos - 1)
             f == pos - 1
  <2>1. f \in 0 .. Len(y) /\ f \in 0 .. Len(left) /\ f \in 0 .. e + 1
    BY <1>1, <1>2, <1>4, <1>7
  <2> HIDE DEF f, y
  <2>2. SubSeq(y, 1, f) \in Seq(Bytes) /\ Len(SubSeq(y, 1, f)) = f
        /\ \A i \in 1 .. f : SubSeq(y, 1, f)[i] = y[i]
    BY <1>7, <2>1, PrefixIs
  <2>3. SubSeq(left, 1, f) \in Seq(Bytes) /\ Len(SubSeq(left, 1, f)) = f
        /\ \A i \in 1 .. f : SubSeq(left, 1, f)[i] = left[i]
    BY <1>1, <2>1, PrefixIs
  <2>4. \A i \in 1 .. f : y[i] = left[i]
    BY <1>4, <1>7, <2>1
  <2>5. \A i \in 1 .. f : SubSeq(y, 1, f)[i] = SubSeq(left, 1, f)[i]
    BY <2>2, <2>3, <2>4
  <2>6. SubSeq(y, 1, f) = SubSeq(left, 1, f)
    BY <2>2, <2>3, <2>5, SeqEqual
  <2>7. QED
    BY <2>6 DEF f
<1>15. first \in Seq(Bytes)
  <2>1. pos - 1 \in 0 .. Len(left)
    BY <1>1
  <2>2. QED
    BY <1>1, <2>1, PrefixIs
<1> DEFINE a == g[o + (e + 1)]
<1>16. /\ a = [text |-> a.text, thinking |-> a.thinking, held |-> <<>>, inside |-> ~inside]
       /\ Gains(a, text, thinking, inside, first)
  <2>1. pos \in 1 .. Len(y)
    BY <1>2, <1>4, <1>7
  <2> DEFINE r == ReadByte(g[o + e], b)
  <2>2. ReadTo(r, text, thinking, inside, SubSeq(y, 1, pos - 1))
    <3>1. Matches(y, pos, TagOf(inside))
      BY <1>13
    <3> HIDE DEF x, y, b, e
    <3>2. ReadTo(ReadByte(g[o + e], b), text, thinking, inside, SubSeq(y, 1, pos - 1))
      BY <1>8, <1>9, <1>12, <2>1, <3>1, ReadsTag, ZenonT(60)
    <3>3. QED
      BY <3>2, Zenon DEF r
  <2> HIDE DEF r, y
  <2>3. a = r
    BY <1>11 DEF r
  <2>4. QED
    BY <1>14, <2>2, <2>3 DEF ReadTo
<1> HIDE DEF a, first
<1>17. /\ a.text = Grown(text, first, ~inside) /\ a.thinking = Grown(thinking, first, inside)
       /\ a.text \in Seq(Bytes) /\ a.thinking \in Seq(Bytes)
  BY <1>15, <1>16, GainsGrown
<1>18. Shows(mode, WithPiece(m, inside, first), a.text, a.thinking)
  BY <1>15, <1>17, PieceShows
<1>19. Reads(a, a.text, a.thinking, ~inside, <<>>)
  <2> DEFINE other == ~inside
  <2>1. other \in BOOLEAN
    BY inside \in BOOLEAN, Zenon
  <2>2. a = [text |-> a.text, thinking |-> a.thinking, held |-> <<>>, inside |-> other]
    BY <1>16
  <2> HIDE DEF other
  <2>3. Reads(a, a.text, a.thinking, other, <<>>)
    BY <1>17, <2>1, <2>2, ReadsNothing
  <2>4. QED
    BY <2>3 DEF other
<1>20. a.held = <<>>
  BY <1>16
<1>21. ReadAll(mode, WithPiece(m, inside, first), a, ~inside, <<>>)
  BY <1>17, <1>18, <1>19, <1>20 DEF ReadAll
<1>22. Remains(w, last, o + (e + 1), 0)
  <2>1. e + 2 \in Nat \ {0} /\ Len(left) \in Int
    BY <1>4
  <2>2. /\ last \in Seq(Bytes)
        /\ Len(last) = IF e + 2 <= Len(left) THEN Len(left) - (e + 2) + 1 ELSE 0
        /\ \A i \in 1 .. Len(left) - (e + 2) + 1 : last[i] = left[e + 2 + i - 1]
    <3> DEFINE f == e + 2
    <3>1. f \in Nat \ {0}
      BY <2>1
    <3> HIDE DEF f
    <3>2. /\ SubSeq(left, f, Len(left)) \in Seq(Bytes)
          /\ Len(SubSeq(left, f, Len(left))) = IF f <= Len(left) THEN Len(left) - f + 1 ELSE 0
          /\ \A i \in 1 .. Len(left) - f + 1 : SubSeq(left, f, Len(left))[i] = left[f + i - 1]
      BY <1>1, <2>1, <3>1, Slice
    <3>3. QED
      BY <3>2 DEF f
  <2> HIDE DEF last, e
  <2>3. Len(last) = Len(left) - (e + 1)
    BY <1>1, <1>4, <2>2
  <2>4. ASSUME NEW j \in 0 + 1 .. Len(last)
        PROVE  last[j] = w[o + (e + 1) + j]
    <3>3. /\ j \in Nat /\ j >= 1 /\ j <= Len(left) - (e + 1) /\ e \in Nat /\ z \in Nat
          /\ e >= z /\ o \in Int /\ Len(left) \in Nat
      BY <1>1, <1>4, <1>5, <2>2, <2>3
    <3>1. /\ j \in 1 .. Len(left) - (e + 2) + 1
          /\ e + 2 + j - 1 \in z + 1 .. Len(left)
          /\ o + (e + 2 + j - 1) = o + (e + 1) + j
      BY <3>3
    <3>2. QED
      BY <1>1, <2>2, <3>1
  <2>7. o \in Int /\ e \in Nat /\ Len(last) \in Nat /\ o + e >= 0
    BY <1>1, <1>4, <1>5, <2>2
  <2>5. /\ o + (e + 1) \in Int /\ o + (e + 1) + Len(last) = Len(w) /\ 0 \in 0 .. Len(last)
        /\ o + (e + 1) + 0 >= 0
    <3>1. o \in Int /\ o + Len(left) = Len(w) /\ Len(left) \in Nat
      BY <1>1
    <3>2. QED
      <4>1. o + (e + 1) + Len(last) = Len(w) /\ o + (e + 1) \in Int
        <5>1. Len(w) \in Nat
          OBVIOUS
        <5>2. QED
          BY <2>3, <2>7, <3>1, <5>1, RestOf, Zenon
      <4>2. o + (e + 1) + 0 >= 0
        BY <2>7
      <4>3. 0 \in 0 .. Len(last)
        BY <2>7
      <4>4. QED
        BY <4>1, <4>2, <4>3
  <2>6. QED
    BY <2>2, <2>4, <2>5 DEF Remains
<1>23. e + 2 = (pos + Len(tag) - 1) + 1
  BY <1>1, <1>2
<1>24. QED
  BY <1>4, <1>21, <1>22, <1>23 DEF a, first, last

(* The loop in the midst of a text, at the end of one, or in a panic.      *)
Progress(r, w, g) ==
  \/ r.left = <<>> /\ r.panics = TRUE
  \/ /\ r.left # <<>> /\ r.panics = FALSE /\ r.held = <<>>
     /\ \E o, z : \E text, thinking \in Seq(Bytes) :
          /\ Remains(w, r.left, o, z)
          /\ Reads(g[o + z], text, thinking, r.thinking, SubSeq(r.left, 1, z))
          /\ Shows(mode, r.m, text, thinking)
  \/ r.left = <<>> /\ r.panics = FALSE /\ ReadAll(mode, r.m, g[Len(w)], r.thinking, r.held)

(* A round shows what the reference reads in the bytes it took. *)
LEMMA RoundReads ==
  ASSUME mode \in Uses, Simple(StartTag), Simple(EndTag),
         NEW d \in Seq(Delta), Len(d) <= Len(Tokens), NEW r, Looping(r, d),
         NEW w \in Seq(Bytes), NEW g, Reading(w, g), Progress(r, w, g)
  PROVE  /\ Progress(Round(r), w, g)
         /\ Round(r).left = <<>> \/ Len(Round(r).left) < Len(r.left)
<1> DEFINE tag == IF r.thinking THEN EndTag ELSE StartTag
           pos == Find(r.left, tag)
           held == HeldBack(r.left, tag)
           n == Round(r)
<1>1. /\ r = [m |-> r.m, left |-> r.left, thinking |-> r.thinking, held |-> r.held,
              panics |-> r.panics]
      /\ Sound(r.m) /\ Seen(r.m) /\ r.left \in Seq(Bytes)
      /\ r.thinking \in BOOLEAN
  BY DEF Looping, Good
<1>2. tag \in {StartTag, EndTag} /\ tag = TagOf(r.thinking)
  BY DEF TagOf
<1>3. CASE r.left = <<>>
  <2>1. n = r
    BY <1>3 DEF Round
  <2>2. QED
    BY <1>3, <2>1
<1> HIDE DEF tag
<1>4. ASSUME r.left # <<>>
      PROVE  /\ r.panics = FALSE /\ r.held = <<>>
             /\ \E o, z : \E text, thinking \in Seq(Bytes) :
                  /\ Remains(w, r.left, o, z)
                  /\ Reads(g[o + z], text, thinking, r.thinking, SubSeq(r.left, 1, z))
                  /\ Shows(mode, r.m, text, thinking)
  BY <1>4 DEF Progress
<1>5. CASE r.left # <<>> /\ pos # 0
  <2>1. PICK o, z : \E text, thinking \in Seq(Bytes) :
                  /\ Remains(w, r.left, o, z)
                  /\ Reads(g[o + z], text, thinking, r.thinking, SubSeq(r.left, 1, z))
                  /\ Shows(mode, r.m, text, thinking)
    BY <1>4, <1>5
  <2>2. PICK text \in Seq(Bytes), thinking \in Seq(Bytes) :
                  /\ Remains(w, r.left, o, z)
                  /\ Reads(g[o + z], text, thinking, r.thinking, SubSeq(r.left, 1, z))
                  /\ Shows(mode, r.m, text, thinking)
    BY <2>1
  <2>3. /\ pos \in 1 .. Len(r.left) /\ Matches(r.left, pos, tag)
        /\ \A k \in 1 .. Len(r.left) : Matches(r.left, k, tag) => pos <= k
    BY <1>1, <1>2, <1>5, Found
  <2> DEFINE p == pos + Len(tag) - 1
             first == SubSeq(r.left, 1, pos - 1)
             last == SubSeq(r.left, pos + Len(tag), Len(r.left))
  <2>4. n = [r EXCEPT !.m = WithPiece(@, r.thinking, first), !.left = last,
                      !.thinking = ~r.thinking]
    BY <1>5 DEF Round, tag
  <2>5. n = [m |-> WithPiece(r.m, r.thinking, first), left |-> last, thinking |-> ~r.thinking,
             held |-> r.held, panics |-> r.panics]
    BY <1>1, <2>4
  <2>6. r.panics = FALSE /\ r.held = <<>>
    BY <1>4, <1>5
  <2> HIDE DEF pos
  <2>7. p + 1 = pos + Len(tag)
    <3>1. Len(tag) \in Nat
      BY <1>2, TagOK
    <3>2. QED
      BY <2>3, <3>1
  <2>8. /\ Remains(w, SubSeq(r.left, p + 1, Len(r.left)), o + p, 0) /\ p \in 1 .. Len(r.left)
        /\ ReadAll(mode, WithPiece(r.m, r.thinking, first), g[o + p], ~r.thinking, <<>>)
    BY <1>1, <1>2, <2>2, <2>3, TagRound
  <2>9. Remains(w, last, o + p, 0)
    BY <2>7, <2>8
  <2>10. /\ last \in Seq(Bytes) /\ Len(last) \in Nat /\ Len(last) < Len(r.left)
         /\ (o + p) + Len(last) = Len(w) /\ o + p \in Int
    <3>1. last \in Seq(Bytes) /\ (o + p) + Len(last) = Len(w) /\ o + p \in Int
      BY <2>9 DEF Remains
    <3>2. o \in Int /\ o + Len(r.left) = Len(w) /\ Len(w) \in Nat /\ Len(r.left) \in Nat
      BY <1>1, <2>2 DEF Remains
    <3>3. p \in 1 .. Len(r.left)
      BY <2>8
    <3> HIDE DEF p, last
    <3>4. Len(last) \in Nat
      BY <3>1
    <3>5. Len(last) < Len(r.left)
      BY <3>1, <3>2, <3>3, <3>4
    <3>6. QED
      BY <3>1, <3>4, <3>5
  <2> DEFINE a == g[o + p]
             q == WithPiece(r.m, r.thinking, first)
  <2> HIDE DEF n, first, last
  <2>11. /\ n.m = q /\ n.left = last /\ n.held = <<>> /\ n.panics = FALSE
         /\ n.thinking = ~r.thinking
    BY <2>5, <2>6
  <2>12. ReadAll(mode, q, a, ~r.thinking, <<>>)
    BY <2>8
  <2> HIDE DEF a, q
  <2>13. CASE last = <<>>
    <3>1. o + p = Len(w)
      BY <2>10, <2>13
    <3>2. g[Len(w)] = a
      BY <3>1 DEF a
    <3>3. ReadAll(mode, n.m, g[Len(w)], n.thinking, n.held)
      BY <2>11, <2>12, <3>2
    <3>4. Progress(n, w, g)
      BY <2>11, <2>13, <3>3 DEF Progress
    <3>5. QED
      BY <2>11, <2>13, <3>4 DEF n
  <2>14. CASE last # <<>>
    <3>1. SubSeq(last, 1, 0) = <<>>
      <4> DEFINE u == SubSeq(last, 1, 0)
      <4>1. u \in Seq(Bytes) /\ Len(u) = 0
        BY <2>10, PrefixIs
      <4> HIDE DEF u
      <4>2. u = <<>>
        BY <4>1, EmptySeq
      <4>3. QED
        BY <4>2 DEF u
    <3>2. (o + p) + 0 = o + p
      BY <2>10
    <3>3. /\ a.text \in Seq(Bytes) /\ a.thinking \in Seq(Bytes)
          /\ Reads(a, a.text, a.thinking, ~r.thinking, <<>>) /\ Shows(mode, q, a.text, a.thinking)
      BY <2>12 DEF ReadAll
    <3>4. Reads(g[(o + p) + 0], a.text, a.thinking, n.thinking, SubSeq(n.left, 1, 0))
      <4>1. Reads(g[o + p], a.text, a.thinking, ~r.thinking, <<>>)
        BY <3>3 DEF a
      <4>2. QED
        BY <2>11, <3>1, <3>2, <4>1
    <3>5. Remains(w, n.left, o + p, 0) /\ Shows(mode, n.m, a.text, a.thinking)
      BY <2>9, <2>11, <3>3
    <3>6. \E o2, z2 : \E text2, thinking2 \in Seq(Bytes) :
            /\ Remains(w, n.left, o2, z2)
            /\ Reads(g[o2 + z2], text2, thinking2, n.thinking, SubSeq(n.left, 1, z2))
            /\ Shows(mode, n.m, text2, thinking2)
      BY <3>3, <3>4, <3>5
    <3>7. Progress(n, w, g)
      BY <2>11, <2>14, <3>6 DEF Progress
    <3>8. QED
      BY <2>10, <2>11, <3>7 DEF n
  <2>15. QED
    BY <2>13, <2>14
<1>6. CASE r.left # <<>> /\ pos = 0
  <2>1. PICK o, z : \E text, thinking \in Seq(Bytes) :
                  /\ Remains(w, r.left, o, z)
                  /\ Reads(g[o + z], text, thinking, r.thinking, SubSeq(r.left, 1, z))
                  /\ Shows(mode, r.m, text, thinking)
    BY <1>4, <1>6
  <2>2. PICK text \in Seq(Bytes), thinking \in Seq(Bytes) :
                  /\ Remains(w, r.left, o, z)
                  /\ Reads(g[o + z], text, thinking, r.thinking, SubSeq(r.left, 1, z))
                  /\ Shows(mode, r.m, text, thinking)
    BY <2>1
  <2>3. \A k \in 1 .. Len(r.left) : ~ Matches(r.left, k, tag)
    BY <1>1, <1>2, <1>6, Found
  <2> DEFINE all == SubSeq(r.left, 1, Len(r.left) - Len(held))
             stops == TagPanics(r.left, tag)
  <2>4. n = [r EXCEPT !.m = WithPiece(@, r.thinking, all), !.left = <<>>, !.held = held,
                      !.panics = stops]
    BY <1>6 DEF Round, tag
  <2> HIDE DEF pos, stops
  <2>5. n = [m |-> WithPiece(r.m, r.thinking, all), left |-> <<>>, thinking |-> r.thinking,
             held |-> held, panics |-> stops]
    BY <1>1, <2>4
  <2> DEFINE q == WithPiece(r.m, r.thinking, all)
  <2>6. n.m = q /\ n.left = <<>> /\ n.held = held /\ n.panics = stops /\ n.thinking = r.thinking
    BY <2>5
  <2>7. stops = TRUE \/ stops = FALSE
    BY DEF stops, TagPanics
  <2>8. CASE stops = TRUE
    <3> HIDE DEF n
    <3>1. Progress(n, w, g)
      BY <2>6, <2>8 DEF Progress
    <3>2. QED
      BY <2>6, <3>1 DEF n
  <2>9. CASE stops = FALSE
    <3>1. ~ TagPanics(r.left, tag)
      BY <2>9 DEF stops
    <3>2. ReadAll(mode, q, g[Len(w)], r.thinking, held)
      BY <1>1, <1>2, <1>6, <2>2, <2>3, <3>1, LastRound
    <3> HIDE DEF n, q, held
    <3>3. Progress(n, w, g)
      BY <2>6, <2>9, <3>2 DEF Progress
    <3>4. QED
      BY <2>6, <3>3 DEF n
  <2>10. QED
    BY <2>7, <2>8, <2>9
<1>7. QED
  BY <1>3, <1>5, <1>6

(* So the loop shows what the reference reads in the chunk, by induction   *)
(* on its rounds.                                                          *)
LEMMA ScanReads ==
  ASSUME mode \in Uses, Simple(StartTag), Simple(EndTag),
         NEW d \in Seq(Delta), Len(d) <= Len(Tokens), Good(Manager, d), in_thinking \in BOOLEAN,
         NEW s \in Seq(Bytes), NEW w \in Seq(Bytes), NEW g, Reading(w, g),
         Progress(Begun(s), w, g)
  PROVE  Progress(Scan(s), w, g) /\ Scan(s).left = <<>>
<1>1. PICK f : /\ Scan(s) = f[Len(s)]
               /\ f[0] = Begun(s)
               /\ \A n \in 1 .. Len(s) : f[n] = Round(f[n - 1])
  BY ScanUnfolds
<1> DEFINE Fine(r, n) ==
             /\ Looping(r, d) /\ Progress(r, w, g)
             /\ r.left = <<>> \/ Len(r.left) <= Len(s) - n
           Bad == {n \in 0 .. Len(s) : ~ Fine(f[n], n)}
<1>2. Fine(f[0], 0)
  <2>1. <<>> \in Seq(Bytes) /\ Len(s) \in Nat
    BY EmptySeq
  <2>2. Looping(Begun(s), d) /\ Begun(s).left = s
    BY <2>1 DEF Looping, Begun
  <2>3. QED
    BY <1>1, <2>1, <2>2
<1>3. Bad = {}
  <2>1. SUFFICES ASSUME Bad # {} PROVE FALSE
    OBVIOUS
  <2>2. PICK n \in Bad : \A k \in Bad : n <= k
    <3>1. Bad \subseteq Nat
      OBVIOUS
    <3> HIDE DEF Bad
    <3>2. QED
      BY <2>1, <3>1, Least
  <2> HIDE DEF Fine
  <2>3. n \in 1 .. Len(s) /\ n - 1 \in 0 .. Len(s) /\ n - 1 \notin Bad
    BY <1>2, <2>2
  <2>4. Fine(f[n - 1], n - 1) /\ f[n] = Round(f[n - 1])
    BY <1>1, <2>3
  <2> DEFINE r == f[n - 1]
  <2> HIDE DEF r
  <2>5. /\ Looping(r, d) /\ Progress(r, w, g)
        /\ r.left = <<>> \/ Len(r.left) <= Len(s) - (n - 1)
    BY <2>4 DEF Fine, r
  <2>6. /\ Progress(Round(r), w, g)
        /\ Round(r).left = <<>> \/ Len(Round(r).left) < Len(r.left)
    BY <2>5, RoundReads
  <2>7. Looping(Round(r), d)
    BY <2>5, RoundLoops
  <2> DEFINE t == Round(r)
  <2>8. t.left \in Seq(Bytes) /\ r.left \in Seq(Bytes)
    BY <2>5, <2>7 DEF Looping
  <2> HIDE DEF t
  <2>9. t.left = <<>> \/ Len(t.left) <= Len(s) - n
    <3>1. CASE Len(t.left) < Len(r.left) /\ r.left # <<>>
      <4>1. Len(t.left) \in Nat /\ Len(r.left) \in Nat /\ Len(s) \in Nat /\ n \in Nat
            /\ Len(r.left) <= Len(s) - (n - 1)
        BY <2>3, <2>5, <2>8, <3>1
      <4>2. QED
        BY <3>1, <4>1
    <3>2. CASE Len(t.left) < Len(r.left) /\ r.left = <<>>
      <4>1. Len(t.left) \in Nat /\ Len(r.left) = 0
        BY <2>8, <3>2
      <4>2. QED
        BY <3>2, <4>1
    <3>3. QED
      BY <2>6, <3>1, <3>2 DEF t
  <2>10. Fine(t, n)
    BY <2>6, <2>7, <2>9 DEF Fine, t
  <2>11. Fine(f[n], n)
    BY <2>4, <2>10 DEF t, r
  <2>12. QED
    BY <2>2, <2>11
<1>4. Len(s) \in 0 .. Len(s) /\ Len(s) \in Nat
  OBVIOUS
<1>5. Fine(f[Len(s)], Len(s))
  <2> HIDE DEF Fine
  <2>1. QED
    BY <1>3, <1>4
<1> DEFINE r == Scan(s)
<1>6. Looping(r, d) /\ Progress(r, w, g) /\ (r.left = <<>> \/ Len(r.left) <= Len(s) - Len(s))
  BY <1>1, <1>5
<1> HIDE DEF r
<1>7. r.left \in Seq(Bytes)
  BY <1>6 DEF Looping
<1>8. r.left = <<>>
  BY <1>4, <1>6, <1>7, EmptySeq
<1>9. QED
  BY <1>6, <1>8 DEF r

(* The next chunk is read on from what was held back of the last.          *)
LEMMA ChunkReads ==
  ASSUME PartsInv, Simple(StartTag), Simple(EndTag),
         ReadAll(mode, Manager, Read(fed), in_thinking, partial),
         NEW n \in Chunks, ~ Scanned(n).panics
  PROVE  ReadAll(mode, Scanned(n).m, Read(fed \o SubSeq(rest, 1, n)), Scanned(n).thinking,
                 Scanned(n).held)
<1> DEFINE w == fed \o SubSeq(rest, 1, n)
           c == SubSeq(rest, 1, n)
           s == partial \o c
           o == Len(fed) - Len(partial)
           z == Len(partial)
<1>1. /\ mode \in Uses /\ fed \in Seq(Bytes) /\ partial \in Seq(Bytes) /\ rest \in Seq(Bytes)
      /\ sent \in Seq(Delta) /\ Len(sent) <= mode.deltas /\ Good(Manager, sent)
      /\ in_thinking \in BOOLEAN
  BY DEF PartsInv
<1>2. Len(sent) <= Len(Tokens)
  <2>1. mode.deltas \in 0 .. Len(Tokens) /\ Len(sent) \in Nat /\ Len(Tokens) \in Nat
    BY <1>1, ModeOK, TokensApart
  <2>2. QED
    BY <1>1, <2>1
<1>3. n \in 1 .. Len(rest) /\ c \in Seq(Bytes) /\ Len(c) = n
  <2>1. n \in 1 .. Len(rest) /\ n \in 0 .. Len(rest)
    BY <1>1 DEF Chunks
  <2>2. QED
    BY <1>1, <2>1, PrefixIs
<1>4. w = fed \o c
  OBVIOUS
<1> HIDE DEF c, w
<1>5. /\ w \in Seq(Bytes) /\ Len(w) = Len(fed) + Len(c) /\ Len(fed) \in Nat /\ Len(c) \in Nat
      /\ \A x \in 1 .. Len(fed) : w[x] = fed[x]
      /\ \A x \in 1 .. Len(c) : w[Len(fed) + x] = c[x]
  <2>1. fed \in Seq(Bytes) /\ c \in Seq(Bytes)
    BY <1>1, <1>3
  <2> DEFINE t == fed \o c
  <2>2. /\ Len(t) = Len(fed) + Len(c) /\ Len(fed) \in Nat /\ Len(c) \in Nat
        /\ t \in Seq(Bytes)
        /\ \A x \in 1 .. Len(fed) : t[x] = fed[x]
        /\ \A x \in 1 .. Len(c) : t[Len(fed) + x] = c[x]
    BY <2>1, Joined
  <2>3. w = t
    BY <1>4
  <2> HIDE DEF t
  <2>4. QED
    BY <2>2, <2>3
<1>6. /\ s \in Seq(Bytes) /\ Len(s) = Len(partial) + Len(c) /\ Len(partial) \in Nat
      /\ \A x \in 1 .. Len(partial) : s[x] = partial[x]
      /\ \A x \in 1 .. Len(c) : s[Len(partial) + x] = c[x]
  <2>1. partial \in Seq(Bytes) /\ c \in Seq(Bytes)
    BY <1>1, <1>3
  <2>2. QED
    BY <2>1, Joined
<1>7. PICK g : Reading(w, g) /\ Read(w) = g[Len(w)]
  <2>1. Len(w) \in Nat
    BY <1>5
  <2>2. QED
    BY <2>1, ReadUnfolds
<1>8. Read(fed) = g[Len(fed)]
  <2>1. Len(fed) <= Len(w) /\ Len(w) \in Nat
    BY <1>3, <1>5
  <2>2. QED
    BY <1>5, <1>7, <2>1, ReadsBeginning
<1> HIDE DEF s
<1>9. Remains(w, s, o, z)
  <2>1. ASSUME NEW j \in z + 1 .. Len(s)
        PROVE  s[j] = w[o + j]
    <3>1. /\ j - Len(partial) \in 1 .. Len(c) /\ Len(partial) + (j - Len(partial)) = j
          /\ Len(fed) + (j - Len(partial)) = o + j
      BY <1>5, <1>6
    <3>2. QED
      BY <1>5, <1>6, <3>1
  <2>2. o \in Int /\ o + Len(s) = Len(w) /\ z \in 0 .. Len(s) /\ o + z >= 0
    <3>1. /\ Len(w) = Len(fed) + Len(c) /\ Len(fed) \in Nat /\ Len(c) \in Nat
          /\ Len(s) = Len(partial) + Len(c) /\ Len(partial) \in Nat
      BY <1>5, <1>6
    <3>2. o \in Int /\ z \in 0 .. Len(s)
      BY <3>1
    <3>3. o + Len(s) = Len(w)
      BY <3>1
    <3>4. o + z >= 0
      BY <3>1
    <3>5. QED
      BY <3>2, <3>3, <3>4
  <2>3. QED
    BY <1>6, <2>1, <2>2 DEF Remains
<1>10. SubSeq(s, 1, z) = partial
  <2> DEFINE u == SubSeq(s, 1, z)
  <2>1. z \in 0 .. Len(s)
    BY <1>5, <1>6
  <2>2. u \in Seq(Bytes) /\ Len(u) = z /\ \A i \in 1 .. z : u[i] = s[i]
    BY <1>6, <2>1, PrefixIs
  <2> HIDE DEF u
  <2>3. u = partial
    BY <1>1, <1>6, <2>2, SeqEqual
  <2>4. QED
    BY <2>3 DEF u
<1>11. o + z = Len(fed)
  BY <1>5, <1>6
<1> DEFINE text == Read(fed).text
           thinking == Read(fed).thinking
<1>12. /\ text \in Seq(Bytes) /\ thinking \in Seq(Bytes)
       /\ Reads(Read(fed), text, thinking, in_thinking, partial)
       /\ Shows(mode, Manager, text, thinking)
  BY DEF ReadAll
<1> HIDE DEF o, z, text, thinking
<1>13. Reads(g[o + z], text, thinking, in_thinking, SubSeq(s, 1, z))
  BY <1>8, <1>10, <1>11, <1>12
<1>14. s # <<>>
  BY <1>3, <1>5, <1>6
<1> DEFINE b == Begun(s)
<1>15. /\ b.left = s /\ b.panics = FALSE /\ b.held = <<>> /\ b.m = Manager
       /\ b.thinking = in_thinking
  BY DEF Begun
<1> HIDE DEF b
<1>16. Progress(b, w, g)
  <2>1. \E o2, z2 : \E text2, thinking2 \in Seq(Bytes) :
          /\ Remains(w, b.left, o2, z2)
          /\ Reads(g[o2 + z2], text2, thinking2, b.thinking, SubSeq(b.left, 1, z2))
          /\ Shows(mode, b.m, text2, thinking2)
    BY <1>9, <1>12, <1>13, <1>15
  <2>2. QED
    BY <1>14, <1>15, <2>1 DEF Progress
<1> DEFINE r == Scan(s)
<1>17. Progress(r, w, g) /\ r.left = <<>>
  BY <1>1, <1>2, <1>5, <1>6, <1>7, <1>16, ScanReads DEF b
<1>18. Scanned(n) = r
  BY DEF Scanned, s, c
<1> HIDE DEF r
<1>19. ReadAll(mode, r.m, g[Len(w)], r.thinking, r.held)
  BY <1>17, <1>18 DEF Progress
<1>20. QED
  BY <1>7, <1>18, <1>19 DEF w

(* Nothing was read of nothing. *)
LEMMA NothingRead ==
  ASSUME NEW m, m = [parts |-> <<>>, index |-> [v \in {} |-> 0], view |-> <<>>]
  PROVE  ReadAll(mode, m, Read(<<>>), FALSE, <<>>)
<1> DEFINE s == <<>>
<1>1. s \in Seq(Bytes) /\ Len(s) = 0 /\ Len(s) \in Nat
  BY EmptySeq
<1>2. Read(<<>>) = ReadStart
  <2> HIDE DEF s
  <2>1. PICK g : Reading(s, g) /\ Read(s) = g[Len(s)]
    BY <1>1, ReadUnfolds
  <2>2. Read(s) = ReadStart
    BY <1>1, <2>1 DEF Reading
  <2>3. QED
    BY <2>2 DEF s
<1> DEFINE a == ReadStart
<1>3. /\ a = [text |-> a.text, thinking |-> a.thinking, held |-> <<>>, inside |-> FALSE]
      /\ a.text = <<>> /\ a.thinking = <<>> /\ a.held = <<>>
  BY DEF ReadStart
<1> HIDE DEF a
<1>4. a.text \in Seq(Bytes) /\ a.thinking \in Seq(Bytes)
  BY <1>1, <1>3
<1>5. Reads(a, a.text, a.thinking, FALSE, <<>>)
  BY <1>3, <1>4, ReadsNothing
<1>6. Shows(mode, m, <<>>, <<>>)
  <2>1. m.parts = <<>> /\ 1 .. Len(m.parts) = {} /\ DOMAIN m.index = {}
    BY EmptySeq
  <2>2. OwnPart(mode, m) /\ OnlyOne(m, "thinking", <<>>) /\ OnlyOne(m, "text", <<>>)
    BY <2>1 DEF OwnPart, OnlyOne
  <2>3. Trimmed(mode, <<>>, <<>>)
    <3>1. IsBlank(<<>>)
      BY DEF IsBlank
    <3>2. <<>> \in Seq(Bytes) /\ <<>> = <<>> \o <<>>
      BY <1>1, NothingJoined
    <3>3. QED
      BY <3>1, <3>2 DEF Trimmed
  <2>4. QED
    BY <1>1, <2>2, <2>3 DEF Shows
<1>7. Shows(mode, m, a.text, a.thinking)
  BY <1>3, <1>6
<1>8. ReadAll(mode, m, a, FALSE, <<>>)
  BY <1>3, <1>4, <1>5, <1>7 DEF ReadAll
<1>9. QED
  BY <1>2, <1>8 DEF a

(* Deltas of other kinds leave text and thinking alone. *)
LEMMA OtherShows ==
  ASSUME NEW m, NEW n, Sound(m), NEW kind, kind \notin {"text", "thinking"}, NEW c, NEW v,
         Reached(m, n, kind, c, v), mode.vendor # None => v # mode.vendor,
         NEW text, NEW thinking, Shows(mode, m, text, thinking)
  PROVE  Shows(mode, n, text, thinking)
<1>1. CASE n = m
  BY <1>1
<1>2. CASE \E i : Put(m, n, i, kind, c, v)
  <2>1. PICK i : Put(m, n, i, kind, c, v)
    BY <1>2
  <2>2. Sound(n)
    BY DEF Reached
  <2>3. PICK kept \in Seq(Bytes) :
          Trimmed(mode, text, kept) /\ OnlyOne(m, "text", kept) /\ OnlyOne(m, "thinking", thinking)
            /\ OwnPart(mode, m)
    BY DEF Shows
  <2>4. OnlyOne(n, "text", kept) /\ OnlyOne(n, "thinking", thinking)
    <3>1. "text" # kind /\ "thinking" # kind
      OBVIOUS
    <3>2. QED
      BY <2>1, <2>2, <2>3, <3>1, PutOther
  <2>5. OwnPart(mode, n)
    <3>1. CASE mode.vendor = None
      BY <3>1 DEF OwnPart
    <3>2. CASE mode.vendor # None
      <4>1. kind # "text" /\ (v = None \/ v # mode.vendor)
        BY <3>2
      <4>2. QED
        BY <2>1, <2>2, <2>3, <4>1, PutOwn
    <3>3. QED
      BY <3>1, <3>2
  <2>6. QED
    BY <2>3, <2>4, <2>5 DEF Shows
<1>3. QED
  BY <1>1, <1>2 DEF Reached

----------------------------------------------------------------------------
(* All content of a kind *)

FlatStep(seqs, f, i) == IF i = 1 THEN seqs[i] ELSE f[i - 1] \o seqs[i]

(* The recursive function of FlattenSeq exists. *)
LEMMA FlatExists ==
  ASSUME NEW seqs, NEW l \in Nat
  PROVE  \E f : f = [i \in 1 .. l |-> FlatStep(seqs, f, i)]
<1> DEFINE Solved(m) == \E f : f = [i \in 1 .. m |-> FlatStep(seqs, f, i)]
           Unsolved == {m \in Nat : ~ Solved(m)}
<1>1. SUFFICES ASSUME Unsolved # {} PROVE FALSE
  OBVIOUS
<1>2. PICK m \in Unsolved : \A n \in Unsolved : m <= n
  <2>1. Unsolved \subseteq Nat
    OBVIOUS
  <2> HIDE DEF Unsolved
  <2>2. QED
    BY <1>1, <2>1, Least
<1>3. Solved(0)
  <2> DEFINE f == [i \in 1 .. 0 |-> <<>>]
  <2>1. f = [i \in 1 .. 0 |-> FlatStep(seqs, f, i)]
    OBVIOUS
  <2>2. QED
    BY <2>1
<1>4. m \in Nat /\ m # 0
  BY <1>2, <1>3
<1>5. m - 1 \in Nat /\ m - 1 \notin Unsolved
  BY <1>2, <1>4
<1>6. PICK f : f = [i \in 1 .. m - 1 |-> FlatStep(seqs, f, i)]
  BY <1>5
<1> DEFINE g == [i \in 1 .. m |-> IF i = m THEN FlatStep(seqs, f, m) ELSE f[i]]
<1>7. \A i \in 1 .. m : FlatStep(seqs, g, i) = g[i]
  <2> SUFFICES ASSUME NEW i \in 1 .. m PROVE FlatStep(seqs, g, i) = g[i]
    OBVIOUS
  <2>1. i # 1 => i - 1 \in 1 .. m /\ i - 1 # m
    BY <1>4
  <2>2. i # 1 => g[i - 1] = f[i - 1]
    BY <2>1
  <2>3. FlatStep(seqs, g, i) = FlatStep(seqs, f, i)
    BY <2>2 DEF FlatStep
  <2>4. i # m => i \in 1 .. m - 1
    BY <1>4
  <2>5. i # m => f[i] = FlatStep(seqs, f, i)
    BY <1>6, <2>4
  <2>6. QED
    BY <2>3, <2>5
<1>8. g = [i \in 1 .. m |-> FlatStep(seqs, g, i)]
  BY <1>7
<1>9. Solved(m)
  BY <1>8
<1>10. QED
  BY <1>2, <1>9

(* FlattenSeq is sequence after sequence. *)
LEMMA FlatUnfolds ==
  ASSUME NEW seqs, Len(seqs) \in Nat \ {0}
  PROVE  \E f : /\ FlattenSeq(seqs) = f[Len(seqs)]
                /\ \A i \in 1 .. Len(seqs) : f[i] = FlatStep(seqs, f, i)
<1> DEFINE f == CHOOSE h : h = [i \in 1 .. Len(seqs) |-> FlatStep(seqs, h, i)]
<1>1. f = [i \in 1 .. Len(seqs) |-> FlatStep(seqs, f, i)]
  BY FlatExists
<1>2. FlattenSeq(seqs) = f[Len(seqs)]
  BY DEF FlattenSeq, FlatStep
<1> HIDE DEF f
<1>3. QED
  BY <1>1, <1>2

(* A part among empty ones is all there is. *)
LEMMA OneFlat ==
  ASSUME NEW S, NEW seqs, Len(seqs) \in Nat \ {0}, NEW c \in Seq(S), NEW k \in 0 .. Len(seqs),
         \A i \in 1 .. Len(seqs) : seqs[i] = IF i = k THEN c ELSE <<>>,
         k = 0 => c = <<>>
  PROVE  FlattenSeq(seqs) = c
<1>1. PICK f : /\ FlattenSeq(seqs) = f[Len(seqs)]
               /\ \A i \in 1 .. Len(seqs) : f[i] = FlatStep(seqs, f, i)
  BY FlatUnfolds
<1> DEFINE so(i) == IF i >= k THEN c ELSE <<>>
           Bad == {i \in 1 .. Len(seqs) : f[i] # so(i)}
<1>2. Bad = {}
  <2>1. SUFFICES ASSUME Bad # {} PROVE FALSE
    OBVIOUS
  <2>2. PICK n \in Bad : \A i \in Bad : n <= i
    <3>1. Bad \subseteq Nat
      OBVIOUS
    <3> HIDE DEF Bad
    <3>2. QED
      BY <2>1, <3>1, Least
  <2>3. n \in 1 .. Len(seqs) /\ f[n] # so(n) /\ n \in Nat /\ k \in Nat
    OBVIOUS
  <2>4. f[n] = FlatStep(seqs, f, n)
    BY <1>1, <2>3
  <2>5. CASE n = 1
    <3>1. f[n] = seqs[n]
      BY <2>4, <2>5 DEF FlatStep
    <3>2. seqs[n] = IF n = k THEN c ELSE <<>>
      BY <2>3
    <3>3. QED
      BY <2>3, <2>5, <3>1, <3>2
  <2>6. CASE n # 1
    <3>1. n - 1 \in 1 .. Len(seqs) /\ ~ n <= n - 1
      BY <2>3, <2>6
    <3>2. f[n - 1] = so(n - 1)
      BY <2>2, <3>1
    <3>3. f[n] = so(n - 1) \o IF n = k THEN c ELSE <<>>
      BY <2>3, <2>4, <2>6, <3>2 DEF FlatStep
    <3>4. c \o <<>> = c /\ <<>> \o c = c /\ <<>> \o <<>> = <<>>
      OBVIOUS
    <3>5. CASE n = k
      <4>1. so(n - 1) = <<>> /\ so(n) = c
        BY <2>3, <3>5
      <4>2. QED
        BY <2>3, <3>3, <3>4, <3>5, <4>1
    <3>6. CASE n # k
      <4>1. so(n - 1) = so(n)
        BY <2>3, <3>6
      <4>2. so(n) = c \/ so(n) = <<>>
        OBVIOUS
      <4>3. f[n] = so(n) \o <<>>
        BY <3>3, <3>6, <4>1
      <4> HIDE DEF so
      <4>4. QED
        BY <2>3, <3>4, <4>2, <4>3
    <3>7. QED
      BY <3>5, <3>6
  <2>7. QED
    BY <2>5, <2>6
<1>3. f[Len(seqs)] = so(Len(seqs))
  <2>1. Len(seqs) \in 1 .. Len(seqs)
    OBVIOUS
  <2> HIDE DEF so
  <2>2. QED
    BY <1>2, <2>1
<1>4. so(Len(seqs)) = c
  OBVIOUS
<1>5. QED
  BY <1>1, <1>3, <1>4

(* If only one part is of a kind, the content of the kind is that of the   *)
(* part.                                                                   *)
LEMMA ContentOnly ==
  ASSUME PartsInv, NEW kind, NEW c \in Seq(Bytes), OnlyOne(Manager, kind, c)
  PROVE  Content(kind) = c
<1> DEFINE seqs == [i \in DOMAIN parts |->
                      IF parts[i].kind = kind THEN parts[i].content ELSE <<>>]
<1>1. parts \in Seq(AnyPart) /\ Len(parts) \in Nat
  BY SoundParts DEF PartsInv, Good, Manager
<1>2. DOMAIN parts = 1 .. Len(parts) /\ DOMAIN seqs = 1 .. Len(parts)
  BY <1>1
<1>3. \/ c = <<>> /\ \A i \in 1 .. Len(parts) : parts[i].kind # kind
      \/ \E i \in 1 .. Len(parts) :
           /\ parts[i].kind = kind /\ parts[i].content = c
           /\ \A j \in 1 .. Len(parts) : parts[j].kind = kind => j = i
  BY DEF OnlyOne, Manager
<1>4. PICK k \in 0 .. Len(parts) :
        /\ k = 0 => c = <<>>
        /\ \A i \in 1 .. Len(parts) : seqs[i] = IF i = k THEN c ELSE <<>>
  <2>1. CASE c = <<>> /\ \A i \in 1 .. Len(parts) : parts[i].kind # kind
    <3>1. 0 \in 0 .. Len(parts) /\ 0 \notin 1 .. Len(parts)
      BY <1>1
    <3>2. \A i \in 1 .. Len(parts) : seqs[i] = <<>>
      BY <1>2, <2>1
    <3>3. QED
      BY <2>1, <3>1, <3>2
  <2>2. CASE \E i \in 1 .. Len(parts) :
               /\ parts[i].kind = kind /\ parts[i].content = c
               /\ \A j \in 1 .. Len(parts) : parts[j].kind = kind => j = i
    <3>1. PICK k \in 1 .. Len(parts) :
               /\ parts[k].kind = kind /\ parts[k].content = c
               /\ \A j \in 1 .. Len(parts) : parts[j].kind = kind => j = k
      BY <2>2
    <3>2. k \in 0 .. Len(parts) /\ k # 0
      BY <1>1
    <3>3. \A i \in 1 .. Len(parts) : seqs[i] = IF i = k THEN c ELSE <<>>
      BY <1>2, <3>1
    <3> HIDE DEF seqs
    <3>4. QED
      BY <3>2, <3>3
  <2>3. QED
    BY <1>3, <2>1, <2>2
<1>5. Len(seqs) = Len(parts)
  BY <1>1, <1>2
<1>6. Content(kind) = FlattenSeq(seqs)
  BY DEF Content
<1> HIDE DEF seqs
<1>7. CASE Len(parts) = 0
  <2>1. seqs = <<>> 
    BY <1>2, <1>5, <1>7 DEF seqs
  <2>2. FlattenSeq(seqs) = seqs
    BY <1>5, <1>7 DEF FlattenSeq
  <2>3. k = 0
    BY <1>7
  <2>4. QED
    BY <1>4, <1>6, <2>1, <2>2, <2>3
<1>8. CASE Len(parts) # 0
  <2>1. Len(seqs) \in Nat \ {0} /\ k \in 0 .. Len(seqs)
    BY <1>1, <1>5, <1>8
  <2>2. \A i \in 1 .. Len(seqs) : seqs[i] = IF i = k THEN c ELSE <<>>
    BY <1>4, <1>5
  <2>3. QED
    BY <1>4, <1>6, <2>1, <2>2, OneFlat
<1>9. QED
  BY <1>7, <1>8

----------------------------------------------------------------------------
(* The invariant of the chunks *)

ChunkInv == mode.tagged /\ OwnText => ReadAll(mode, Manager, Read(fed), in_thinking, partial)

(* The invariant about chunks holds at first. *)
LEMMA ChunkInit == Init => ChunkInv
<1> SUFFICES ASSUME Init PROVE ChunkInv
  OBVIOUS
<1>1. Manager = [parts |-> <<>>, index |-> [v \in {} |-> 0], view |-> <<>>]
  BY DEF Init, Manager
<1>2. fed = <<>> /\ in_thinking = FALSE /\ partial = <<>>
  BY DEF Init
<1>3. ReadAll(mode, Manager, Read(<<>>), FALSE, <<>>)
  BY <1>1, NothingRead
<1>4. QED
  BY <1>2, <1>3 DEF ChunkInv

(* A delta of another kind, with an id that is not the text's. *)
LEMMA OtherRead ==
  ASSUME PartsInv, ChunkInv, NEW what, NEW kind, kind \notin {"text", "thinking"}, NEW c, NEW v,
         NEW m, Reached(Manager, m, kind, c, v), Become(m), Sent(what, v)
  PROVE  ChunkInv'
<1>1. Sound(Manager) /\ sent \in Seq(Delta)
  BY DEF PartsInv, Good
<1>2. Manager' = m
  BY ManagerIs DEF Reached
<1>3. /\ mode' = mode /\ in_thinking' = in_thinking /\ partial' = partial /\ fed' = fed
      /\ sent' = Append(sent, [kind |-> what, vendor |-> v])
  BY DEF Sent
<1>4. SUFFICES ASSUME mode.tagged, OwnText'
      PROVE  ReadAll(mode, m, Read(fed), in_thinking, partial)
  BY <1>2, <1>3 DEF ChunkInv
<1>5. mode.vendor # None => \A k \in DOMAIN sent' : sent'[k].vendor # mode.vendor
  BY <1>3, <1>4 DEF OwnText
<1> DEFINE e == [kind |-> what, vendor |-> v]
<1>6. /\ \A k \in 1 .. Len(sent) : k \in DOMAIN sent' /\ sent'[k] = sent[k]
      /\ Len(sent) + 1 \in DOMAIN sent' /\ sent'[Len(sent) + 1] = e
      /\ DOMAIN sent = 1 .. Len(sent)
  BY <1>1, <1>3
<1>7. OwnText /\ (mode.vendor # None => v # mode.vendor)
  BY <1>5, <1>6 DEF OwnText
<1>8. ReadAll(mode, Manager, Read(fed), in_thinking, partial)
  BY <1>4, <1>7 DEF ChunkInv
<1> DEFINE a == Read(fed)
<1> HIDE DEF a
<1>9. Shows(mode, m, a.text, a.thinking)
  <2>1. Shows(mode, Manager, a.text, a.thinking)
    BY <1>8 DEF ReadAll, a
  <2>2. QED
    BY <1>1, <1>7, <2>1, OtherShows
<1>10. ReadAll(mode, m, a, in_thinking, partial)
  BY <1>8, <1>9 DEF ReadAll, a
<1>11. QED
  BY <1>10 DEF a

(* It is inductive: a chunk is read as the loop reads it, and nothing      *)
(* else touches text.                                                      *)
LEMMA ChunkStep ==
  ASSUME Simple(StartTag), Simple(EndTag)
  PROVE  PartsInv /\ ChunkInv /\ [Next]_vars => ChunkInv'
<1> SUFFICES ASSUME PartsInv, ChunkInv, [Next]_vars PROVE ChunkInv'
  OBVIOUS
<1>1. Sound(Manager) /\ Seen(Manager) /\ Good(Manager, sent) /\ mode \in Uses
      /\ partial \in Seq(Bytes) /\ in_thinking \in BOOLEAN /\ sent \in Seq(Delta)
  BY DEF PartsInv, Good
<1>2. ASSUME NEW n \in Chunks, HandlePlainText(n)
      PROVE  ChunkInv'
  BY <1>2 DEF HandlePlainText, TextArrives, ChunkInv
<1>3. ASSUME NEW n \in Chunks, HandleTaggedText(n)
      PROVE  ChunkInv'
  <2> DEFINE r == Scanned(n)
  <2>1. /\ Become(r.m) /\ in_thinking' = r.thinking /\ partial' = r.held
        /\ mode.tagged /\ mode' = mode /\ sent' = sent /\ fed' = fed \o SubSeq(rest, 1, n)
        /\ ~ r.panics
    BY <1>3 DEF HandleTaggedText, TextArrives
  <2>2. OwnText' <=> OwnText
    BY <2>1 DEF OwnText
  <2>3. CASE ~ OwnText
    BY <2>2, <2>3 DEF ChunkInv
  <2>4. CASE OwnText
    <3>1. ReadAll(mode, r.m, Read(fed \o SubSeq(rest, 1, n)), r.thinking, r.held)
      BY <2>1, <2>4, ChunkReads DEF ChunkInv
    <3>2. Looping(r, sent)
      <4> DEFINE c == SubSeq(rest, 1, n)
                 s == partial \o c
      <4>1. c \in Seq(Bytes)
        BY <1>3, ChunkBytes DEF HandleTaggedText
      <4> HIDE DEF c
      <4>2. s \in Seq(Bytes)
        BY <1>1, <4>1, Joined
      <4>3. Len(sent) <= Len(Tokens)
        <5>1. mode.deltas \in 0 .. Len(Tokens) /\ Len(sent) \in Nat /\ Len(Tokens) \in Nat
              /\ Len(sent) <= mode.deltas
          BY <1>1, ModeOK, TokensApart DEF PartsInv
        <5>2. QED
          BY <5>1
      <4>4. r = Scan(s)
        BY DEF Scanned, c
      <4> HIDE DEF r, s
      <4>5. QED
        BY <1>1, <4>2, <4>3, <4>4, ScanLoops
    <3> HIDE DEF r
    <3>3. Manager' = r.m
      BY <2>1, <3>2, ManagerIs DEF Looping, Good
    <3>4. ReadAll(mode, Manager', Read(fed'), in_thinking', partial')
      BY <2>1, <3>1, <3>3
    <3>5. QED
      BY <2>1, <3>4 DEF ChunkInv
  <2>5. QED
    BY <2>3, <2>4
<1>4. ASSUME NEW n \in Chunks, TextPanics(n)
      PROVE  ChunkInv'
  BY <1>4 DEF TextPanics, ghosts, ChunkInv, OwnText, Manager
<1>5. ASSUME NEW v \in VendorIds \cup {None}, HandleThinking(v)
      PROVE  ChunkInv'
  BY <1>5 DEF HandleThinking, Sent, ChunkInv
<1>6. ASSUME NEW v \in VendorIds \cup {None}, Len(sent) < mode.deltas, HandleFile(v)
      PROVE  ChunkInv'
  <2> DEFINE file == Part("file", <<Token>>, FALSE)
             m == Created(Manager, v, file, file)
  <2>1. Sent("file", v) /\ Become(m)
    BY <1>6 DEF HandleFile
  <2>2. <<Token>> \in Seq(Atoms)
    BY <1>6, TokenContent
  <2>3. Reached(Manager, m, "file", <<Token>>, v)
    BY <1>1, <2>2, FileReached
  <2> HIDE DEF m
  <2>4. "file" \notin {"text", "thinking"}
    OBVIOUS
  <2>5. QED
    BY <2>1, <2>3, <2>4, OtherRead
<1>7. ASSUME NEW v \in VendorIds \cup {None}, Len(sent) < mode.deltas, NEW kind \in CallKinds,
             HandleCall(kind, v)
      PROVE  ChunkInv'
  <2>1. PICK named \in BOOLEAN, id \in BOOLEAN, content \in {<<>>, <<Token>>} :
          /\ Sent(IF content = <<>> THEN "metadata" ELSE kind, v)
          /\ Become(WithCall(Manager, kind, v, named, content, id))
    BY <1>7 DEF HandleCall
  <2> DEFINE m == WithCall(Manager, kind, v, named, content, id)
  <2>2. content \in Seq(Atoms)
    BY <1>7, TokenContent
  <2>3. Become(m) /\ Reached(Manager, m, kind, content, v)
    BY <1>1, <2>1, <2>2, CallReached
  <2> DEFINE what == IF content = <<>> THEN "metadata" ELSE kind
  <2>4. Sent(what, v)
    BY <2>1
  <2> HIDE DEF m, what
  <2>5. kind \notin {"text", "thinking"}
    BY DEF CallKinds
  <2>6. QED
    BY <2>3, <2>4, <2>5, OtherRead
<1>8. CASE Clear
  <2>1. mode' = mode /\ in_thinking' = FALSE /\ partial' = <<>> /\ fed' = <<>>
    BY <1>8 DEF Clear
  <2>2. Manager' = [parts |-> <<>>, index |-> [v \in {} |-> 0], view |-> <<>>]
    BY <1>8 DEF Clear, Manager
  <2>3. ReadAll(mode, Manager', Read(<<>>), FALSE, <<>>)
    BY <2>2, NothingRead
  <2>4. QED
    BY <2>1, <2>3 DEF ChunkInv
<1>9. CASE UNCHANGED vars
  BY <1>9 DEF vars, ghosts, ChunkInv, OwnText, Manager
<1>10. QED
  BY <1>2, <1>3, <1>4, <1>5, <1>6, <1>7, <1>8, <1>9 DEF Next

(* White space that was dropped at the front. *)
LEMMA TrimmedDrops ==
  ASSUME NEW text, NEW kept, NEW d \in Seq(Bytes), kept \in Seq(Bytes), text = d \o kept,
         IsBlank(d)
  PROVE  Drops(text, kept)
<1> DEFINE t == d \o kept
<1>1. /\ t \in Seq(Bytes) /\ Len(t) = Len(d) + Len(kept) /\ Len(d) \in Nat /\ Len(kept) \in Nat
      /\ \A x \in 1 .. Len(d) : t[x] = d[x]
      /\ \A x \in 1 .. Len(kept) : t[Len(d) + x] = kept[x]
  BY Joined
<1> HIDE DEF t
<1> DEFINE n == Len(d)
<1>2. n \in 0 .. Len(t)
  BY <1>1
<1>3. SubSeq(t, 1, n) = d
  <2> DEFINE u == SubSeq(t, 1, n)
  <2>1. u \in Seq(Bytes) /\ Len(u) = n /\ \A i \in 1 .. n : u[i] = t[i]
    BY <1>1, <1>2, PrefixIs
  <2> HIDE DEF u
  <2>2. u = d
    BY <1>1, <2>1, SeqEqual
  <2>3. QED
    BY <2>2 DEF u
<1>4. SubSeq(t, n + 1, Len(t)) = kept
  <2> DEFINE a == n + 1
             b == Len(t)
  <2>1. a \in Nat \ {0} /\ b \in Int /\ b <= Len(t)
        /\ Len(kept) = IF a <= b THEN b - a + 1 ELSE 0
    BY <1>1
  <2>2. ASSUME NEW i \in 1 .. Len(kept)
        PROVE  kept[i] = t[a + i - 1]
    <3>1. a + i - 1 = Len(d) + i
      BY <1>1
    <3>2. QED
      BY <1>1, <3>1
  <2> HIDE DEF a, b
  <2>3. SubSeq(t, a, b) = kept
    BY <1>1, <2>1, <2>2, SliceIs, SMTT(60)
  <2>4. QED
    BY <2>3 DEF a, b
<1>5. Drops(t, kept)
  BY <1>2, <1>3, <1>4 DEF Drops
<1>6. QED
  BY <1>5 DEF t

(* ChunkingInvisible follows. *)
LEMMA ChunksHidden == PartsInv /\ ChunkInv => ChunkingInvisible
<1> SUFFICES ASSUME PartsInv, ChunkInv, mode.tagged, OwnText
    PROVE  LET whole == Read(fed)
           IN /\ in_thinking = whole.inside
              /\ partial = whole.held
              /\ Content("thinking") = whole.thinking
              /\ IF mode.ignore_blanks
                 THEN Drops(whole.text, Content("text"))
                 ELSE Content("text") = whole.text
  BY DEF ChunkingInvisible
<1> DEFINE a == Read(fed)
<1>1. ReadAll(mode, Manager, a, in_thinking, partial)
  BY DEF ChunkInv
<1> HIDE DEF a
<1>2. /\ a.held = partial /\ a.text \in Seq(Bytes) /\ a.thinking \in Seq(Bytes)
      /\ a.inside = in_thinking /\ Shows(mode, Manager, a.text, a.thinking)
  BY <1>1 DEF ReadAll, Reads
<1>3. Content("thinking") = a.thinking
  BY <1>2, ContentOnly DEF Shows
<1>4. PICK kept \in Seq(Bytes) : Trimmed(mode, a.text, kept) /\ OnlyOne(Manager, "text", kept)
  BY <1>2 DEF Shows
<1>5. Content("text") = kept
  BY <1>4, ContentOnly
<1>6. PICK d \in Seq(Bytes) :
        a.text = d \o kept /\ IsBlank(d) /\ (~mode.ignore_blanks => d = <<>>)
  BY <1>4 DEF Trimmed
<1>7. CASE mode.ignore_blanks
  <2>1. Drops(a.text, kept)
    BY <1>6, TrimmedDrops
  <2>2. QED
    BY <1>2, <1>3, <1>5, <1>7, <2>1 DEF a
<1>8. CASE ~mode.ignore_blanks
  <2>1. d = <<>> /\ <<>> \o kept = kept
    BY <1>6, <1>8
  <2>2. a.text = kept
    BY <1>6, <2>1
  <2>3. QED
    BY <1>2, <1>3, <1>5, <1>8, <2>2 DEF a
<1>9. QED
  BY <1>7, <1>8

(* However a stream cuts a text with thinking tags, the parts that         *)
(* handle_text_with_thinking_tags makes of its chunks hold the text and    *)
(* the thinking of the reference that reads it byte by byte, and no more   *)
(* is held back than what may still become the tag.  The first byte of a   *)
(* tag must not come back before its last: find_partial_tag_suffix takes   *)
(* the shortest suffix that begins the tag, and the tags <think> and       *)
(* </think> of the code have no other.                                     *)
THEOREM ChunkingStaysInvisible ==
  ASSUME Simple(StartTag), Simple(EndTag)
  PROVE  Spec => []ChunkingInvisible
<1>1. Init => PartsInv /\ ChunkInv
  BY PartsInit, ChunkInit
<1>2. (PartsInv /\ ChunkInv) /\ [Next]_vars => (PartsInv /\ ChunkInv)'
  BY PartsStep, ChunkStep
<1>3. PartsInv /\ ChunkInv => ChunkingInvisible
  BY ChunksHidden
<1>4. QED
  BY <1>1, <1>2, <1>3, PTL DEF Spec
=============================================================================
