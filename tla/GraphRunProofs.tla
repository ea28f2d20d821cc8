--------------------------- MODULE GraphRunProofs ---------------------------
(***************************************************************************)
(* Theorems about every GraphRun: whatever the workers, the step limits,   *)
(* the number of calls and the store.                                      *)
(***************************************************************************)
EXTENDS GraphRun, TLAPS

----------------------------------------------------------------------------
(* The invariant *)

(* An open file that was not removed is there, and still empty unless      *)
(* several have had it open at once.                                       *)
FileInv ==
  \A w \in Workers, k \in Entries :
    HasOpen(w, k) =>
      /\ entry[k] # Absent /\ (entry[k] = Empty \/ k \in crossed)
      /\ \A v \in Workers \ {w} : HasOpen(v, k) => k \in crossed

(* What may be in entry k, of what was saved as it.                        *)
Sound(k, good) ==
  entry[k] \in {Absent, Empty, Torn} \cup good \/ (entry[k] = Garbled /\ MayBeGarbled(k))

(* A worker has an entry open for writing exactly when it is about to      *)
(* write it.                                                               *)
StoreInv ==
  /\ FileInv
  /\ Sound("state", saved)
  /\ \A w \in Workers :
       /\ call[w].pc = "saving" => open[w] # None /\ open[w].key = "state"
       /\ call[w].pc = "storing" => open[w] # None /\ open[w].key = "result"

(* What is known of a worker in call c. *)
CallOK(c) ==
  /\ c.resumed => IF c.garbled THEN MayBeGarbled("state") ELSE c.from \in saved
  /\ c.pc = "saving" => c.state \in saved
  /\ c.pc \in {"ended", "storing"} => c.state \in ends /\ autoSave
  /\ c.pc \in Running => c.from + limit <= MaxWork
  /\ c.pc \in {"node", "saving"} => c.state - c.from = c.step - 1
  /\ c.pc \in {"ended", "storing"} => c.state - c.from = c.step
  /\ c.step <= limit

CallInv == \A w \in Workers : CallOK(call[w])

(* A delete that has done away with the state leaves none but a new one.   *)
DeleteInv ==
  \A w \in Workers :
    call[w].pc \in {"erasing", "unlinking"} /\ entry["state"] # Absent => "state" \in renewed[w]

(* What may be handed out as a result. *)
KnownEnd(v) == v \in ends \/ (v = Garbled /\ MayBeGarbled("result"))

Inv ==
  /\ TypeOK
  /\ StoreInv
  /\ CallInv
  /\ DeleteInv
  /\ ResultFromAnEnd

----------------------------------------------------------------------------
(* Lemmas *)

LEMMA GraphTypes ==
  ASSUME TypeOK, NEW w \in Workers
  PROVE  /\ call[w] \in Call /\ answer[w] \in Answer
         /\ call[w].pc \in {"idle", "loading", "fetching"} \cup Running \cup Deleting
         /\ call[w].from \in Nat /\ call[w].state \in Nat /\ call[w].step \in Nat
         /\ limit \in Nat /\ MaxWork \in Nat
<1>1. call[w] \in Call /\ answer[w] \in Answer
  BY DEF TypeOK
<1>2. QED
  BY <1>1, GraphAssumption DEF TypeOK, Call

LEMMA IdleType ==
  /\ Idle \in Call /\ Idle.pc = "idle" /\ ~Idle.resumed /\ Idle.step = 0
  /\ [is |-> "none", value |-> None] \in Answer
  BY DEF Idle, Call, Answer

LEMMA InvInit == Init => Inv
<1> SUFFICES ASSUME Init PROVE Inv
  OBVIOUS
<1>1. \A w \in Workers : call[w] = Idle /\ open[w] = None /\ answer[w].is = "none"
  BY DEF Init, StoreInit
<1>2. entry["state"] = Absent /\ entry["result"] = Absent
  BY DEF Init, StoreInit, Entries
<1>3. limit \in Nat
  BY GraphAssumption DEF Init
<1>4. TypeOK
  <2>1. StoreOK(Nat)
    BY GraphAssumption DEF Init, StoreInit, StoreOK
  <2>2. QED
    BY <1>1, <2>1, IdleType, GraphAssumption DEF Init, TypeOK, Entries
<1>5. CallInv
  <2>1. CallOK(Idle)
    BY <1>3, IdleType DEF CallOK, Running
  <2>2. QED
    BY <1>1, <2>1 DEF CallInv
<1>6. StoreInv /\ DeleteInv /\ ResultFromAnEnd
  <2>1. FileInv
    BY <1>1 DEF FileInv, HasOpen
  <2>2. QED
    BY <1>1, <1>2, <2>1, IdleType DEF StoreInv, Sound, DeleteInv, ResultFromAnEnd
<1>7. QED
  BY <1>4, <1>5, <1>6 DEF Inv

(* A step of one worker that leaves the store alone, to call c with answer *)
(* a.                                                                      *)
LEMMA QuietStep ==
  ASSUME Inv, NEW w \in Workers, NEW c \in Call, NEW a \in Answer,
         UNCHANGED <<store, executor, saved>>,
         call' = [call EXCEPT ![w] = c], answer' = [answer EXCEPT ![w] = a],
         calls' \in 0..MaxCalls,
         ends \subseteq ends', ends' \subseteq Nat,
         renewed' \in {renewed, [renewed EXCEPT ![w] = {}]},
         call[w].pc \notin {"saving", "storing"},
         c.pc \notin {"saving", "storing", "erasing", "unlinking"},
         CallOK(c)',
         a.is = "result" => KnownEnd(a.value)'
  PROVE  Inv'
<1>1. /\ medium' = medium /\ entry' = entry /\ open' = open /\ limit' = limit
      /\ autoSave' = autoSave /\ saved' = saved /\ broken' = broken /\ crossed' = crossed
  BY DEF store, executor
<1>2. /\ call'[w] = c /\ answer'[w] = a
      /\ \A v \in Workers \ {w} : call'[v] = call[v] /\ answer'[v] = answer[v]
                                  /\ renewed'[v] = renewed[v]
      /\ call' \in [Workers -> Call] /\ answer' \in [Workers -> Answer]
      /\ renewed' \in [Workers -> SUBSET Entries]
  BY DEF Inv, TypeOK
<1>3. open[w] = None
  BY DEF Inv, TypeOK
<1>4. TypeOK'
  <2>1. StoreOK(Nat)'
    BY <1>1 DEF Inv, TypeOK, StoreOK
  <2>2. QED
    BY <1>1, <1>2, <1>3, <2>1 DEF Inv, TypeOK
<1>5. StoreInv'
  <2>1. FileInv' /\ Sound("state", saved)'
    BY <1>1 DEF Inv, StoreInv, FileInv, HasOpen, Sound, MayBeGarbled
  <2>2. QED
    BY <1>1, <1>2, <1>3, <2>1 DEF Inv, StoreInv
<1>6. CallInv'
  <2>1. ASSUME NEW v \in Workers \ {w} PROVE CallOK(call[v])'
    BY <1>1, <1>2 DEF Inv, CallInv, CallOK, MayBeGarbled
  <2>2. CallOK(call[w])'
    BY <1>1, <1>2 DEF CallOK
  <2>3. QED
    BY <2>1, <2>2 DEF CallInv
<1>7. DeleteInv'
  BY <1>1, <1>2 DEF Inv, DeleteInv
<1>8. ResultFromAnEnd'
  <2>1. \A v \in Workers : answer'[v].is = "result" => KnownEnd(answer[v].value)'
    <3>1. \A v \in Workers : answer[v].is = "result" => KnownEnd(answer[v].value)
      BY DEF Inv, ResultFromAnEnd, KnownEnd
    <3>2. \A v : KnownEnd(v) => KnownEnd(v)'
      BY <1>1 DEF KnownEnd, MayBeGarbled
    <3>3. QED
      BY <1>2, <3>1, <3>2
  <2>2. QED
    BY <1>1, <2>1 DEF Inv, ResultFromAnEnd, KnownEnd, MayBeGarbled
<1>9. QED
  BY <1>4, <1>5, <1>6, <1>7, <1>8 DEF Inv

(* A quiet step that returns. *)
LEMMA QuietReturn ==
  ASSUME Inv, NEW w \in Workers, NEW is, NEW value, [is |-> is, value |-> value] \in Answer,
         Gives(w, is, value),
         UNCHANGED <<store, executor, saved, ends>>,
         calls' \in 0..MaxCalls,
         renewed' \in {renewed, [renewed EXCEPT ![w] = {}]},
         call[w].pc \notin {"saving", "storing"},
         is = "result" => KnownEnd(value)
  PROVE  Inv'
<1> DEFINE a == [is |-> is, value |-> value]
<1>1. call' = [call EXCEPT ![w] = Idle] /\ answer' = [answer EXCEPT ![w] = a]
  BY DEF Gives
<1>2. Idle \in Call /\ Idle.pc = "idle" /\ CallOK(Idle)'
  BY IdleType, GraphTypes DEF CallOK, Inv, Running, executor
<1>3. ends \subseteq ends' /\ ends' \subseteq Nat
  BY DEF Inv, TypeOK
<1>4. a.is = "result" => KnownEnd(a.value)'
  BY DEF KnownEnd, MayBeGarbled, store
<1> HIDE DEF a
<1>5. a \in Answer
  BY DEF a
<1>6. QED
  BY <1>1, <1>2, <1>3, <1>4, <1>5, QuietStep

(* A run begins from what was found in the store, or from nothing, with    *)
(* its first step.                                                         *)
LEMMA BeginsKeepsInv ==
  ASSUME Inv, NEW w \in Workers, NEW resumed \in BOOLEAN, NEW s \in Nat,
         resumed => IF entry["state"] = Garbled THEN MayBeGarbled("state") ELSE s \in saved,
         Begins(w, resumed, s),
         UNCHANGED <<store, executor, saved, ends>>,
         calls' \in 0..MaxCalls,
         renewed' \in {renewed, [renewed EXCEPT ![w] = {}]},
         call[w].pc \notin {"saving", "storing"}
  PROVE  Inv'
<1>1. CASE TooMany(1)
  <2>1. Gives(w, "error", None) /\ [is |-> "error", value |-> None] \in Answer
    BY <1>1 DEF Begins, Returns, Answer
  <2>2. QED
    BY <2>1, QuietReturn
<1>2. CASE ~TooMany(1)
  <2>0. PICK g \in BOOLEAN : g = (resumed /\ entry["state"] = Garbled)
    OBVIOUS
  <2> DEFINE c == [pc |-> "node", resumed |-> resumed, garbled |-> g, from |-> s, state |-> s,
                   step |-> 1, saves |-> TRUE]
  <2>1. s + limit <= MaxWork /\ call' = [call EXCEPT ![w] = c] /\ answer' = answer
    BY <1>2, <2>0 DEF Begins
  <2>2. c \in Call /\ c.pc = "node" /\ c.from = s /\ c.state = s /\ c.step = 1 /\ c.resumed = resumed
        /\ c.garbled = g
    BY DEF Call, Running
  <2> HIDE DEF c
  <2>3. 1 <= limit
    BY <1>2, GraphTypes DEF TooMany, Inv
  <2>4. CallOK(c)'
    <3>1. c.resumed => IF c.garbled THEN MayBeGarbled("state")' ELSE c.from \in saved'
      <4>1. CASE resumed /\ entry["state"] = Garbled
        BY <2>0, <2>2, <4>1 DEF MayBeGarbled, store
      <4>2. CASE resumed /\ entry["state"] # Garbled
        BY <2>0, <2>2, <4>2
      <4>3. CASE ~resumed
        BY <2>2, <4>3
      <4>4. QED
        BY <4>1, <4>2, <4>3
    <3>2. limit' = limit
      BY DEF executor
    <3>3. QED
      BY <2>1, <2>2, <2>3, <3>1, <3>2 DEF CallOK, Running
  <2>5. answer' = [answer EXCEPT ![w] = answer[w]] /\ answer[w] \in Answer
    BY <2>1 DEF Inv, TypeOK
  <2>6. PICK a \in Answer : a = answer[w]
    BY <2>5
  <2>7. a.is = "result" => KnownEnd(a.value)'
    BY <2>6 DEF Inv, ResultFromAnEnd, KnownEnd, MayBeGarbled, store
  <2>8. ends \subseteq ends' /\ ends' \subseteq Nat
    BY DEF Inv, TypeOK
  <2>9. QED
    BY <2>1, <2>2, <2>4, <2>5, <2>6, <2>7, <2>8, QuietStep
<1>3. QED
  BY <1>1, <1>2

(* A call that goes from one place to another and does nothing else. *)
LEMMA QuietGo ==
  ASSUME Inv, NEW w \in Workers, NEW pc,
         pc \in {"loading", "fetching", "deleting"},
         call[w].pc \notin {"saving", "storing"},
         Goes(w, pc), answer' = answer,
         UNCHANGED <<store, executor, saved, ends>>,
         calls' \in 0..MaxCalls,
         renewed' \in {renewed, [renewed EXCEPT ![w] = {}]}
  PROVE  Inv'
<1>0. call[w] \in Call
  BY GraphTypes DEF Inv
<1>1. PICK c : c = [call[w] EXCEPT !.pc = pc]
  OBVIOUS
<1>2. c \in Call /\ c.pc = pc /\ c.resumed = call[w].resumed /\ c.from = call[w].from
      /\ c.garbled = call[w].garbled /\ c.step = call[w].step /\ call' = [call EXCEPT ![w] = c]
  BY <1>0, <1>1 DEF Goes, Call, Deleting
<1>3. CallOK(c)'
  <2>1. CallOK(call[w]) /\ UNCHANGED <<saved, limit>>
    BY DEF Inv, CallInv, executor
  <2>2. QED
    BY <1>2, <2>1 DEF CallOK, Running, MayBeGarbled, store
<1>4. PICK a \in Answer : a = answer[w] /\ answer' = [answer EXCEPT ![w] = a]
                           /\ (a.is = "result" => KnownEnd(a.value)')
  BY DEF Inv, TypeOK, ResultFromAnEnd, KnownEnd, MayBeGarbled, store
<1>5. ends \subseteq ends' /\ ends' \subseteq Nat
  BY DEF Inv, TypeOK
<1>6. QED
  BY <1>1, <1>2, <1>3, <1>4, <1>5, QuietStep

(* What parses is what was saved, or garbled. *)
LEMMA ContentSaved ==
  ASSUME Inv
  PROVE  /\ Parses(entry["state"]) =>
              /\ StateIn(entry["state"]) \in Nat
              /\ IF entry["state"] = Garbled THEN MayBeGarbled("state")
                 ELSE StateIn(entry["state"]) \in saved
         /\ Parses(entry["result"]) =>
              KnownEnd(ResultIn(entry["result"])) /\ ResultIn(entry["result"]) \in Nat \cup {Garbled}
         /\ entry["state"] # Absent /\ medium = "memory" =>
              entry["state"] \in saved /\ entry["state"] \in Nat /\ entry["state"] # Garbled
         /\ entry["result"] # Absent /\ medium = "memory" =>
              entry["result"] \in ends /\ entry["result"] \in Nat
<1>1. /\ \A k \in Entries : entry[k] \in {Absent} \cup Damage \cup Nat
      /\ medium = "memory" => \A k \in Entries : entry[k] \notin Damage
      /\ saved \subseteq Nat /\ ends \subseteq Nat /\ "state" \in Entries /\ "result" \in Entries
      /\ \A k \in Nat : k \notin Damage /\ k # Absent
  BY GraphAssumption DEF Inv, TypeOK, StoreOK, Entries
<1>2. Sound("state", saved)
      /\ (entry["result"] \in {Absent, Empty, Torn} \/ KnownEnd(entry["result"]))
  BY DEF Inv, StoreInv, ResultFromAnEnd, KnownEnd
<1>3. QED
  BY <1>1, <1>2, GraphAssumption DEF Sound, Damage, Parses, StateIn, ResultIn, KnownEnd

LEMMA NothingType ==
  ASSUME NEW is \in {"missing", "error", "deleted", "ended", "none"}
  PROVE  [is |-> is, value |-> None] \in Answer /\ is # "result"
  BY DEF Answer

LEMMA CalledType ==
  ASSUME Inv, NEW w \in Workers, Called(w)
  PROVE  /\ call[w].pc = "idle" /\ calls' \in 0..MaxCalls
         /\ renewed' \in {renewed, [renewed EXCEPT ![w] = {}]}
  BY GraphAssumption DEF Called, At, Inv, TypeOK

----------------------------------------------------------------------------
(* The steps that leave the store alone *)

LEMMA RunKeepsInv ==
  ASSUME Inv, NEW w \in Workers, Run(w) PROVE Inv'
<1>1. Called(w) /\ Begins(w, FALSE, 0) /\ UNCHANGED <<store, executor, saved, ends>>
  BY DEF Run
<1>2. QED
  BY <1>1, CalledType, BeginsKeepsInv

LEMMA ResumeKeepsInv ==
  ASSUME Inv, NEW w \in Workers, Resume(w) PROVE Inv'
<1>1. Called(w) /\ UNCHANGED <<store, executor, saved, ends>>
  BY DEF Resume
<1>2. CASE Returns(w, "missing")
  BY <1>1, <1>2, CalledType, NothingType, QuietReturn DEF Returns
<1>3. CASE entry["state"] # Absent /\ medium = "memory" /\ Begins(w, TRUE, entry["state"])
  <2>1. PICK s \in Nat : s = entry["state"] /\ s \in saved /\ s # Garbled
    BY <1>3, ContentSaved
  <2>2. QED
    BY <1>1, <1>3, <2>1, CalledType, BeginsKeepsInv
<1>4. CASE Goes(w, "loading") /\ UNCHANGED answer
  BY <1>1, <1>4, CalledType, QuietGo
<1>5. QED
  BY <1>2, <1>3, <1>4 DEF Resume

LEMMA LoadKeepsInv ==
  ASSUME Inv, NEW w \in Workers, Load(w) PROVE Inv'
<1>1. /\ call[w].pc = "loading" /\ UNCHANGED <<store, executor, saved, ends>>
      /\ calls' \in 0..MaxCalls /\ renewed' \in {renewed, [renewed EXCEPT ![w] = {}]}
  BY DEF Load, At, ghosts, Inv, TypeOK
<1>2. CASE Parses(entry["state"])
  <2>1. PICK s \in Nat :
          /\ s = StateIn(entry["state"])
          /\ IF entry["state"] = Garbled THEN MayBeGarbled("state") ELSE s \in saved
    BY <1>2, ContentSaved
  <2>2. Begins(w, TRUE, s)
    BY <1>2, <2>1 DEF Load
  <2>3. QED
    BY <1>1, <2>1, <2>2, BeginsKeepsInv
<1>3. CASE ~Parses(entry["state"])
  BY <1>1, <1>3, NothingType, QuietReturn DEF Load, Returns
<1>4. QED
  BY <1>2, <1>3

LEMMA NodeContinuesKeepsInv ==
  ASSUME Inv, NEW w \in Workers, NodeContinues(w) PROVE Inv'
<1>1. /\ call[w].pc = "node" /\ UNCHANGED <<store, executor, saved, ends>>
      /\ calls' \in 0..MaxCalls /\ renewed' \in {renewed, [renewed EXCEPT ![w] = {}]}
  BY DEF NodeContinues, At, ghosts, Inv, TypeOK
<1>2. CASE TooMany(Counted(call[w].step))
  BY <1>1, <1>2, NothingType, QuietReturn DEF NodeContinues, Returns
<1>3. CASE ~TooMany(Counted(call[w].step))
  <2>1. PICK c : /\ c = [call[w] EXCEPT !.state = Worked(@), !.step = Counted(@), !.saves = TRUE]
                 /\ call' = [call EXCEPT ![w] = c] /\ answer' = answer
    BY <1>3 DEF NodeContinues
  <2>2. /\ call[w] \in Call /\ call[w].from \in Nat /\ call[w].state \in Nat /\ call[w].step \in Nat
        /\ limit \in Nat /\ MaxWork \in Nat
    BY GraphTypes DEF Inv
  <2>3. call[w].step + 1 <= limit
    BY <1>3, <2>2 DEF TooMany, Counted
  <2>4. call[w].state < MaxWork
    BY <1>1, <2>2, <2>3 DEF Inv, CallInv, CallOK, Running
  <2>5. /\ c \in Call /\ c.pc = "node" /\ c.state = call[w].state + 1 /\ c.step = call[w].step + 1
        /\ c.from = call[w].from /\ c.resumed = call[w].resumed /\ c.garbled = call[w].garbled
    <3>1. c = [call[w] EXCEPT !.state = call[w].state + 1, !.step = call[w].step + 1, !.saves = TRUE]
      BY <2>1, <2>4 DEF Worked, Counted
    <3>2. call[w].state + 1 \in Nat /\ call[w].step + 1 \in Nat
      BY <2>2
    <3>3. c \in Call
      BY <2>2, <3>1, <3>2 DEF Call
    <3>4. QED
      BY <1>1, <2>2, <3>1, <3>3 DEF Call
  <2>6. CallOK(c)'
    <3>1. CallOK(call[w]) /\ UNCHANGED <<saved, limit>>
      BY <1>1 DEF Inv, CallInv, executor
    <3>2. QED
      BY <1>1, <2>2, <2>3, <2>5, <3>1 DEF CallOK, Running, MayBeGarbled, store
  <2>7. PICK a \in Answer : a = answer[w] /\ answer' = [answer EXCEPT ![w] = a]
                             /\ (a.is = "result" => KnownEnd(a.value)')
    BY <1>1, <2>1 DEF Inv, TypeOK, ResultFromAnEnd, KnownEnd, MayBeGarbled, store
  <2>8. ends \subseteq ends' /\ ends' \subseteq Nat
    BY <1>1 DEF Inv, TypeOK
  <2>9. QED
    BY <1>1, <2>1, <2>5, <2>6, <2>7, <2>8, QuietStep
<1>4. QED
  BY <1>2, <1>3

LEMMA NodeFailsKeepsInv ==
  ASSUME Inv, NEW w \in Workers, NodeFails(w) PROVE Inv'
<1>1. /\ call[w].pc = "node" /\ UNCHANGED <<store, executor, saved, ends>>
      /\ calls' \in 0..MaxCalls /\ renewed' \in {renewed, [renewed EXCEPT ![w] = {}]}
      /\ Gives(w, "error", None)
  BY DEF NodeFails, At, ghosts, Inv, TypeOK, Returns
<1>2. QED
  BY <1>1, NothingType, QuietReturn

LEMMA NodeEndsKeepsInv ==
  ASSUME Inv, NEW w \in Workers, NodeEnds(w) PROVE Inv'
<1> DEFINE end == Worked(call[w].state)
<1>1. /\ call[w].pc = "node" /\ UNCHANGED <<store, executor, saved>>
      /\ calls' \in 0..MaxCalls /\ renewed' \in {renewed, [renewed EXCEPT ![w] = {}]}
  BY DEF NodeEnds, At, Inv, TypeOK
<1>2. CASE StoresResult(w)
  <2>1. PICK c : /\ c = [call[w] EXCEPT !.pc = "ended", !.state = end]
                 /\ call' = [call EXCEPT ![w] = c] /\ answer' = answer /\ ends' = ends \cup {end}
    BY <1>2 DEF NodeEnds
  <2>2. /\ call[w] \in Call /\ call[w].from \in Nat /\ call[w].state \in Nat /\ call[w].step \in Nat
        /\ limit \in Nat /\ MaxWork \in Nat
    BY GraphTypes DEF Inv
  <2>3. call[w].state < MaxWork
    BY <1>1, <2>2 DEF Inv, CallInv, CallOK, Running
  <2>4. end = call[w].state + 1
    BY <2>3 DEF Worked
  <2> HIDE DEF end
  <2>5. /\ c \in Call /\ c.pc = "ended" /\ c.state = end /\ c.step = call[w].step
        /\ c.from = call[w].from /\ c.resumed = call[w].resumed /\ c.garbled = call[w].garbled
    <3>1. end \in Nat
      BY <2>2, <2>4
    <3>2. QED
      BY <2>1, <2>2, <3>1 DEF Call, Running
  <2>6. CallOK(c)'
    <3>1. CallOK(call[w]) /\ UNCHANGED <<saved, limit, autoSave>> /\ autoSave /\ end \in ends'
      BY <1>1, <1>2, <2>1 DEF Inv, CallInv, executor, StoresResult
    <3>2. QED
      BY <1>1, <2>2, <2>4, <2>5, <3>1 DEF CallOK, Running, MayBeGarbled, store
  <2>7. PICK a \in Answer : a = answer[w] /\ answer' = [answer EXCEPT ![w] = a]
                             /\ (a.is = "result" => KnownEnd(a.value)')
    BY <1>1, <2>1 DEF Inv, TypeOK, ResultFromAnEnd, KnownEnd, MayBeGarbled, store
  <2>8. ends \subseteq ends' /\ ends' \subseteq Nat
    <3>1. end \in Nat /\ ends \subseteq Nat
      BY <2>2, <2>4 DEF Inv, TypeOK
    <3>2. QED
      BY <2>1, <3>1
  <2>9. QED
    BY <1>1, <2>1, <2>5, <2>6, <2>7, <2>8, QuietStep
<1>3. CASE ~StoresResult(w)
  BY <1>1, <1>3, NothingType, QuietReturn DEF NodeEnds, Returns
<1>4. QED
  BY <1>2, <1>3

LEMMA GetResultKeepsInv ==
  ASSUME Inv, NEW w \in Workers, GetResult(w) PROVE Inv'
<1>1. Called(w) /\ UNCHANGED <<store, executor, saved, ends>>
  BY DEF GetResult
<1>2. CASE Returns(w, "missing")
  BY <1>1, <1>2, CalledType, NothingType, QuietReturn DEF Returns
<1>3. CASE entry["result"] # Absent /\ medium = "memory" /\ Gives(w, "result", entry["result"])
  <2>1. PICK v \in Nat : v = entry["result"] /\ KnownEnd(v)
    BY <1>3, ContentSaved DEF KnownEnd
  <2>2. [is |-> "result", value |-> v] \in Answer
    BY DEF Answer
  <2>3. QED
    BY <1>1, <1>3, <2>1, <2>2, CalledType, QuietReturn
<1>4. CASE Goes(w, "fetching") /\ UNCHANGED answer
  BY <1>1, <1>4, CalledType, QuietGo
<1>5. QED
  BY <1>2, <1>3, <1>4 DEF GetResult

LEMMA FetchKeepsInv ==
  ASSUME Inv, NEW w \in Workers, Fetch(w) PROVE Inv'
<1>1. /\ call[w].pc = "fetching" /\ UNCHANGED <<store, executor, saved, ends>>
      /\ calls' \in 0..MaxCalls /\ renewed' \in {renewed, [renewed EXCEPT ![w] = {}]}
  BY DEF Fetch, At, ghosts, Inv, TypeOK
<1>2. CASE Parses(entry["result"])
  <2>1. PICK v \in Nat \cup {Garbled} : v = ResultIn(entry["result"]) /\ KnownEnd(v)
    BY <1>2, ContentSaved
  <2>2. Gives(w, "result", v)
    BY <1>2, <2>1 DEF Fetch
  <2>3. [is |-> "result", value |-> v] \in Answer
    BY DEF Answer
  <2>4. QED
    BY <1>1, <2>1, <2>2, <2>3, QuietReturn
<1>3. CASE ~Parses(entry["result"])
  BY <1>1, <1>3, NothingType, QuietReturn DEF Fetch, Returns
<1>4. QED
  BY <1>2, <1>3

LEMMA DeleteKeepsInv ==
  ASSUME Inv, NEW w \in Workers, Delete(w) PROVE Inv'
<1>1. Called(w) /\ Goes(w, "deleting") /\ UNCHANGED <<store, executor, answer, saved, ends>>
  BY DEF Delete
<1>2. QED
  BY <1>1, CalledType, QuietGo

----------------------------------------------------------------------------
(* The steps that change the store *)

(* What a step of worker w does to entry k of the store: it may leave one  *)
(* of vs there, or a damaged entry.                                        *)
StoreMoves(w, k, vs) ==
  /\ StoreOK(Nat)' /\ FileInv' /\ medium' = medium
  /\ broken \subseteq broken' /\ crossed \subseteq crossed'
  /\ \A i \in Entries \ {k} : entry'[i] = entry[i]
  /\ \/ entry'[k] = entry[k]
     \/ entry'[k] \in {Absent, Empty, Torn} \cup vs
     \/ entry'[k] = Garbled /\ MayBeGarbled(k)'
  /\ \A v \in Workers \ {w} : (open'[v] = None <=> open[v] = None)
                              /\ (open[v] # None => open'[v].key = open[v].key)

LEMMA GarbledGrows ==
  ASSUME broken \subseteq broken', crossed \subseteq crossed', NEW k, MayBeGarbled(k)
  PROVE  MayBeGarbled(k)'
  BY DEF MayBeGarbled

LEMMA StoreTypes ==
  ASSUME Inv
  PROVE  /\ entry \in [Entries -> {Absent} \cup Damage \cup Nat]
         /\ open \in [Workers -> {None} \cup [key : Entries, live : BOOLEAN]]
         /\ broken \subseteq Entries /\ crossed \subseteq Entries /\ medium \in {"file", "memory"}
         /\ medium = "memory" => (\A k \in Entries : entry[k] \notin Damage)
                                 /\ \A w \in Workers : open[w] = None
         /\ FileInv
         /\ \A v \in Nat : v # Absent /\ v \notin Damage
  BY GraphAssumption DEF Inv, TypeOK, StoreOK, StoreInv

LEMMA OpenedFile ==
  ASSUME NEW k \in Entries
  PROVE  /\ [key |-> k, live |-> TRUE] \in [key : Entries, live : BOOLEAN]
         /\ [key |-> k, live |-> TRUE].key = k /\ [key |-> k, live |-> TRUE].live
         /\ [key |-> k, live |-> TRUE] # None
<1>1. [key |-> k, live |-> TRUE] \in [key : Entries, live : BOOLEAN]
  OBVIOUS
<1>2. QED
  BY <1>1, GraphAssumption

(* A file that is opened is empty; whoever has it open too has crossed it. *)
LEMMA OpenMoves ==
  ASSUME Inv, NEW w \in Workers, NEW k \in Entries, open[w] = None, OpenEntry(w, k)
  PROVE  /\ StoreMoves(w, k, {}) /\ UNCHANGED broken /\ entry'[k] = Empty
         /\ open'[w] # None /\ open'[w].key = k
<1>1. PICK o \in [key : Entries, live : BOOLEAN] :
        /\ o = [key |-> k, live |-> TRUE] /\ o.key = k /\ o.live /\ o # None
  BY OpenedFile
<1>2. /\ medium = "file" /\ entry' = [entry EXCEPT ![k] = Empty]
      /\ open' = [open EXCEPT ![w] = o]
      /\ crossed' = crossed \cup {e \in {k} : \E v \in Workers \ {w} : HasOpen(v, e)}
      /\ medium' = medium /\ broken' = broken
  BY <1>1 DEF OpenEntry
<1>3. /\ entry'[k] = Empty /\ \A i \in Entries \ {k} : entry'[i] = entry[i]
      /\ open'[w] = o /\ \A v \in Workers \ {w} : open'[v] = open[v]
      /\ Empty # Absent /\ crossed \subseteq crossed'
  BY <1>2, StoreTypes, GraphAssumption DEF Damage
<1>4. StoreOK(Nat)'
  BY <1>2, <1>3, StoreTypes DEF StoreOK, Damage
<1>5. FileInv'
  <2>1. ASSUME NEW v \in Workers \ {w}, NEW i \in Entries
        PROVE  HasOpen(v, i)' <=> HasOpen(v, i)
    BY <1>3 DEF HasOpen
  <2>2. ASSUME NEW i \in Entries PROVE HasOpen(w, i)' <=> i = k
    BY <1>1, <1>3 DEF HasOpen
  <2>3. ASSUME NEW v \in Workers \ {w}, HasOpen(v, k) PROVE k \in crossed'
    BY <1>2, <2>3
  <2>4. ASSUME NEW v \in Workers, NEW i \in Entries, HasOpen(v, i)'
        PROVE  entry'[i] # Absent /\ (entry'[i] = Empty \/ i \in crossed')
    BY <1>3, <2>1, <2>2, <2>4, StoreTypes DEF FileInv
  <2>5. ASSUME NEW v \in Workers, NEW u \in Workers \ {v}, NEW i \in Entries,
               HasOpen(v, i)', HasOpen(u, i)'
        PROVE  i \in crossed'
    BY <1>3, <2>1, <2>2, <2>3, <2>5, StoreTypes DEF FileInv
  <2>6. QED
    BY <2>4, <2>5 DEF FileInv
<1>6. QED
  BY <1>1, <1>2, <1>3, <1>4, <1>5 DEF StoreMoves

(* Worker w closes its file, and leaves something in it. *)
LEMMA CloseMoves ==
  ASSUME Inv, NEW w \in Workers, open[w] # None, NEW k \in Entries, k = open[w].key,
         NEW new \in Damage \cup Nat, NEW vs \in SUBSET Nat,
         entry' \in {entry, [entry EXCEPT ![k] = new]}, entry' # entry => HasOpen(w, k),
         new \in {Empty, Torn} \cup vs \/ (new = Garbled /\ MayBeGarbled(k)'),
         open' = [open EXCEPT ![w] = None], UNCHANGED <<medium, crossed>>,
         broken \subseteq broken', broken' \subseteq Entries
  PROVE  /\ StoreMoves(w, k, vs) /\ open'[w] = None
         /\ \A i \in Entries : entry[i] = Absent => entry'[i] = Absent
<1>1. /\ medium = "file" /\ open'[w] = None /\ \A v \in Workers \ {w} : open'[v] = open[v]
      /\ \A i \in Entries \ {k} : entry'[i] = entry[i]
      /\ entry'[k] = entry[k] \/ (entry'[k] = new /\ entry[k] # Absent /\ HasOpen(w, k))
      /\ new # Absent
  BY StoreTypes, GraphAssumption DEF FileInv
<1>2. StoreOK(Nat)'
  BY <1>1, StoreTypes DEF StoreOK
<1>3. FileInv'
  <2>1. ASSUME NEW v \in Workers, NEW i \in Entries, HasOpen(v, i)'
        PROVE  v # w /\ HasOpen(v, i)
    BY <1>1, <2>1 DEF HasOpen
  <2>2. ASSUME NEW v \in Workers, NEW i \in Entries, HasOpen(v, i)'
        PROVE  entry'[i] # Absent /\ (entry'[i] = Empty \/ i \in crossed')
    BY <1>1, <2>1, <2>2, StoreTypes DEF FileInv
  <2>3. ASSUME NEW v \in Workers, NEW u \in Workers \ {v}, NEW i \in Entries,
               HasOpen(v, i)', HasOpen(u, i)'
        PROVE  i \in crossed'
    BY <2>1, <2>3, StoreTypes DEF FileInv
  <2>4. QED
    BY <2>2, <2>3 DEF FileInv
<1>4. QED
  BY <1>1, <1>2, <1>3 DEF StoreMoves

(* A whole write: over what another has written it may come out garbled,   *)
(* but then the two had the file open at once.                             *)
LEMMA WriteMoves ==
  ASSUME Inv, NEW w \in Workers, open[w] # None, NEW k \in Entries, k = open[w].key,
         NEW v \in Nat, WriteEntry(w, v)
  PROVE  StoreMoves(w, k, {v}) /\ open'[w] = None
<1>1. PICK new \in Written(k, v) :
        /\ entry' = IF open[w].live THEN [entry EXCEPT ![k] = new] ELSE entry
        /\ open' = [open EXCEPT ![w] = None] /\ UNCHANGED <<medium, broken, crossed>>
  BY DEF WriteEntry
<1>2. CASE open[w].live
  <2>1. HasOpen(w, k)
    BY <1>2 DEF HasOpen
  <2>2. new \in {Empty, Torn, v} \/ (new = Garbled /\ k \in Bare /\ k \in crossed)
    BY <1>1, <2>1, StoreTypes DEF Written, Part, FileInv
  <2>3. new \in Damage \cup Nat
    BY <2>2 DEF Damage
  <2>4. new \in {Empty, Torn} \cup {v} \/ (new = Garbled /\ MayBeGarbled(k)')
    BY <1>1, <2>2 DEF MayBeGarbled
  <2>5. broken \subseteq broken' /\ broken' \subseteq Entries
    BY <1>1, StoreTypes
  <2>6. QED
    BY <1>1, <1>2, <2>1, <2>3, <2>4, <2>5, CloseMoves
<1>3. CASE ~open[w].live
  <2>1. Torn \in Damage /\ Torn \in {Empty, Torn}
    BY DEF Damage
  <2>2. broken \subseteq broken' /\ broken' \subseteq Entries
    BY <1>1, StoreTypes
  <2>3. QED
    BY <1>1, <1>3, <2>1, <2>2, CloseMoves
<1>4. QED
  BY <1>2, <1>3

(* A write that is cut short: garbled where a part of a value parses, or   *)
(* over what another has written.                                          *)
LEMMA AbandonMoves ==
  ASSUME Inv, NEW w \in Workers, open[w] # None, NEW k \in Entries, k = open[w].key, AbandonEntry(w)
  PROVE  /\ StoreMoves(w, k, {}) /\ open'[w] = None
         /\ \A i \in Entries : entry[i] = Absent => entry'[i] = Absent
<1>1. open' = [open EXCEPT ![w] = None] /\ UNCHANGED <<medium, crossed>>
      /\ broken \subseteq Entries /\ Torn \in Damage /\ {} \in SUBSET Nat
  BY StoreTypes DEF AbandonEntry, Damage
<1>2. CASE UNCHANGED <<entry, broken>>
  <2>1. entry' = entry /\ broken' = broken
    BY <1>2
  <2>2. Torn \in {Empty, Torn} \cup {}
    OBVIOUS
  <2>3. QED
    BY <1>1, <2>1, <2>2, CloseMoves
<1>3. CASE /\ open[w].live
           /\ \E c \in CutShort(k) : entry' = [entry EXCEPT ![k] = c]
           /\ broken' = broken \cup {k}
  <2>1. PICK new \in CutShort(k) : entry' = [entry EXCEPT ![k] = new]
    BY <1>3
  <2>2. HasOpen(w, k)
    BY <1>3 DEF HasOpen
  <2>3. new = Torn \/ (new = Garbled /\ (k \in Bare \/ k \in crossed))
    BY <2>1, <2>2, StoreTypes DEF CutShort, Part, FileInv
  <2>4. new \in Damage \cup Nat
    BY <2>3 DEF Damage
  <2>5. new \in {Empty, Torn} \cup {} \/ (new = Garbled /\ MayBeGarbled(k)')
    BY <1>1, <1>3, <2>3 DEF MayBeGarbled
  <2>6. broken \subseteq broken' /\ broken' \subseteq Entries
    BY <1>1, <1>3
  <2>7. QED
    BY <1>1, <2>1, <2>2, <2>4, <2>5, <2>6, CloseMoves
<1>4. QED
  BY <1>2, <1>3 DEF AbandonEntry

(* A value is inserted into the map. *)
LEMMA InsertMoves ==
  ASSUME Inv, NEW w \in Workers, NEW k \in Entries, NEW v \in Nat, InsertEntry(k, v)
  PROVE  StoreMoves(w, k, {v}) /\ open'[w] = None /\ entry'[k] = v
<1>1. /\ medium = "memory" /\ medium' = medium /\ open' = open /\ broken' = broken
      /\ crossed' = crossed /\ entry' = [entry EXCEPT ![k] = v]
  BY DEF InsertEntry
<1>2. /\ entry'[k] = v /\ \A i \in Entries \ {k} : entry'[i] = entry[i]
      /\ \A u \in Workers : open'[u] = None
  BY <1>1, StoreTypes
<1>3. StoreOK(Nat)'
  BY <1>1, <1>2, StoreTypes DEF StoreOK
<1>4. FileInv'
  BY <1>2 DEF FileInv, HasOpen
<1>5. QED
  BY <1>1, <1>2, <1>3, <1>4, StoreTypes DEF StoreMoves

(* A file is removed: whoever has it open writes to no file of the store.  *)
LEMMA RemoveMoves ==
  ASSUME Inv, NEW w \in Workers, NEW k \in Entries, open[w] = None, RemoveEntry(k)
  PROVE  StoreMoves(w, k, {}) /\ open'[w] = None /\ entry'[k] = Absent
<1>1. /\ medium' = medium /\ broken' = broken /\ crossed' = crossed
      /\ entry'[k] = Absent /\ \A i \in Entries \ {k} : entry'[i] = entry[i]
      /\ entry' \in [Entries -> {Absent} \cup Damage \cup Nat]
  BY StoreTypes DEF RemoveEntry
<1>2. ASSUME NEW v \in Workers
      PROVE  /\ open'[v] \in {None} \cup [key : Entries, live : BOOLEAN]
             /\ open'[v] = None <=> open[v] = None
             /\ open[v] # None => open'[v].key = open[v].key
             /\ \A i \in Entries : HasOpen(v, i)' => HasOpen(v, i) /\ i # k
  <2>1. CASE open[v] # None /\ open[v].key = k
    <3>1. open'[v] = [open[v] EXCEPT !.live = FALSE] /\ open[v] \in [key : Entries, live : BOOLEAN]
      BY <2>1, StoreTypes DEF RemoveEntry
    <3>2. /\ open'[v] \in [key : Entries, live : BOOLEAN]
          /\ open'[v].key = open[v].key /\ ~open'[v].live
      BY <3>1
    <3>3. open'[v] # None
      BY <3>2, GraphAssumption
    <3>4. QED
      BY <2>1, <3>2, <3>3 DEF HasOpen
  <2>2. CASE ~(open[v] # None /\ open[v].key = k)
    BY <2>2, StoreTypes DEF RemoveEntry, HasOpen
  <2>3. QED
    BY <2>1, <2>2
<1>3. StoreOK(Nat)'
  <2>1. open' \in [Workers -> {None} \cup [key : Entries, live : BOOLEAN]]
    BY <1>2 DEF RemoveEntry
  <2>2. medium = "memory" => \A i \in Entries : entry'[i] \notin Damage
    BY <1>1, StoreTypes, GraphAssumption
  <2>3. QED
    BY <1>1, <1>2, <2>1, <2>2, StoreTypes DEF StoreOK
<1>4. FileInv'
  BY <1>1, <1>2, StoreTypes DEF FileInv
<1>5. QED
  BY <1>1, <1>2, <1>3, <1>4 DEF StoreMoves

(* Worker w changes entry k, and goes on in call c. *)
LEMMA StoreStep ==
  ASSUME Inv, NEW w \in Workers, NEW c \in Call, NEW a \in Answer, NEW k \in Entries,
         NEW vs \in SUBSET Nat,
         StoreMoves(w, k, vs),
         UNCHANGED <<executor, calls, ends>>,
         call' = [call EXCEPT ![w] = c], answer' = [answer EXCEPT ![w] = a],
         saved \subseteq saved', saved' \subseteq Nat,
         vs \subseteq (IF k = "state" THEN saved' ELSE ends),
         Renews(k) \/ (renewed' = renewed /\ \A i \in Entries : entry[i] = Absent => entry'[i] = Absent),
         k = "result" /\ entry'[k] # Absent => autoSave,
         IF open'[w] = None THEN c.pc \notin {"saving", "storing"}
         ELSE c.pc = (IF k = "state" THEN "saving" ELSE "storing") /\ open'[w].key = k,
         c.pc \in {"erasing", "unlinking"} /\ entry'["state"] # Absent =>
           call[w].pc \in {"erasing", "unlinking"},
         CallOK(c)',
         a.is # "result" \/ a = answer[w]
  PROVE  Inv'
<1>1. /\ limit' = limit /\ autoSave' = autoSave /\ ends' = ends /\ medium' = medium
      /\ StoreOK(Nat)' /\ FileInv' /\ k \in {"state", "result"} /\ calls' = calls
      /\ \A i : MayBeGarbled(i) => MayBeGarbled(i)'
  BY GarbledGrows DEF executor, StoreMoves, Entries
<1>2. /\ call'[w] = c /\ answer'[w] = a
      /\ \A v \in Workers \ {w} : call'[v] = call[v] /\ answer'[v] = answer[v]
      /\ \A v \in Workers \ {w} : (open'[v] = None <=> open[v] = None)
                                  /\ (open[v] # None => open'[v].key = open[v].key)
      /\ call' \in [Workers -> Call] /\ answer' \in [Workers -> Answer]
  BY DEF Inv, TypeOK, StoreMoves
<1>3. /\ \A i \in Entries \ {k} : entry'[i] = entry[i]
      /\ \/ entry'[k] = entry[k]
         \/ entry'[k] \in {Absent, Empty, Torn} \cup vs
         \/ entry'[k] = Garbled /\ MayBeGarbled(k)'
  BY DEF StoreMoves
<1>4. /\ renewed' \in [Workers -> SUBSET Entries]
      /\ \A v \in Workers, i \in Entries :
           entry'[i] # Absent /\ (entry[i] # Absent => i \in renewed[v]) => i \in renewed'[v]
  <2>1. renewed \in [Workers -> SUBSET Entries]
    BY DEF Inv, TypeOK
  <2>2. CASE Renews(k)
    BY <1>3, <2>1, <2>2 DEF Renews
  <2>3. CASE renewed' = renewed /\ \A i \in Entries : entry[i] = Absent => entry'[i] = Absent
    BY <2>1, <2>3
  <2>4. QED
    BY <2>2, <2>3
<1>5. TypeOK'
  <2>1. \A v \in Workers : open'[v] # None => call'[v].pc \in {"saving", "storing"}
    BY <1>2 DEF Inv, TypeOK
  <2>2. QED
    BY <1>1, <1>2, <1>4, <2>1 DEF Inv, TypeOK
<1>6. StoreInv'
  <2>1. ASSUME NEW v \in Workers \ {w}
        PROVE  /\ call'[v].pc = "saving" => open'[v] # None /\ open'[v].key = "state"
               /\ call'[v].pc = "storing" => open'[v] # None /\ open'[v].key = "result"
    BY <1>2 DEF Inv, StoreInv
  <2>2. /\ call'[w].pc = "saving" => open'[w] # None /\ open'[w].key = "state"
        /\ call'[w].pc = "storing" => open'[w] # None /\ open'[w].key = "result"
    BY <1>1, <1>2
  <2>3. Sound("state", saved)'
    BY <1>1, <1>3 DEF Inv, StoreInv, Sound, Entries
  <2>4. QED
    BY <1>1, <2>1, <2>2, <2>3 DEF StoreInv
<1>7. CallInv'
  <2>1. ASSUME NEW v \in Workers \ {w} PROVE CallOK(call[v])'
    BY <1>1, <1>2 DEF Inv, CallInv, CallOK
  <2>2. CallOK(call[w])'
    BY <1>1, <1>2 DEF CallOK
  <2>3. QED
    BY <2>1, <2>2 DEF CallInv
<1>8. DeleteInv'
  <2>1. ASSUME NEW v \in Workers, call'[v].pc \in {"erasing", "unlinking"}, entry'["state"] # Absent
        PROVE  call[v].pc \in {"erasing", "unlinking"}
    BY <1>2, <2>1
  <2>2. QED
    BY <1>4, <2>1 DEF Inv, DeleteInv, Entries
<1>9. ResultFromAnEnd'
  <2>1. \A v : KnownEnd(v) => KnownEnd(v)'
    BY <1>1 DEF KnownEnd
  <2>2. entry'["result"] \in {Absent, Empty, Torn} \/ KnownEnd(entry["result"])'
    BY <1>1, <1>3, <2>1 DEF Inv, ResultFromAnEnd, KnownEnd, Entries
  <2>3. \A v \in Workers : answer'[v].is = "result" => KnownEnd(answer[v].value)'
    BY <1>2, <2>1 DEF Inv, ResultFromAnEnd, KnownEnd
  <2>4. ~autoSave => entry'["result"] = Absent
    BY <1>1, <1>3 DEF Inv, ResultFromAnEnd, Entries
  <2>5. QED
    BY <1>1, <2>2, <2>3, <2>4 DEF ResultFromAnEnd, KnownEnd
<1>10. QED
  BY <1>5, <1>6, <1>7, <1>8, <1>9 DEF Inv

(* A worker that is about to write has its file open; the store is one of  *)
(* files.                                                                  *)
LEMMA OpenType ==
  ASSUME Inv, NEW w \in Workers, open[w] # None
  PROVE  /\ open[w].key \in Entries
         /\ open[w].key = IF call[w].pc = "saving" THEN "state" ELSE "result"
         /\ call[w].pc \in {"saving", "storing"}
  BY DEF Inv, TypeOK, StoreOK, StoreInv

LEMMA NodeSavesKeepsInv ==
  ASSUME Inv, NEW w \in Workers, NodeSaves(w) PROVE Inv'
<1>1. PICK s \in Nat : s = call[w].state
  BY GraphTypes DEF Inv
<1>2. /\ call[w].pc = "node" /\ saved' = saved \cup {s} /\ Renews("state")
      /\ UNCHANGED <<executor, answer, calls, ends>>
  BY <1>1 DEF NodeSaves, At
<1>3. /\ call[w] \in Call /\ CallOK(call[w]) /\ limit' = limit /\ autoSave' = autoSave
      /\ "state" \in Entries /\ open[w] = None
      /\ saved \subseteq saved' /\ saved' \subseteq Nat
  BY <1>2, GraphTypes DEF Inv, CallInv, executor, Entries, TypeOK
<1>4. PICK a \in Answer : a = answer[w] /\ answer' = [answer EXCEPT ![w] = a]
  BY <1>2, GraphTypes DEF Inv, TypeOK
<1>5. CASE OpenEntry(w, "state") /\ Goes(w, "saving")
  <2>1. PICK c : c = [call[w] EXCEPT !.pc = "saving"] /\ call' = [call EXCEPT ![w] = c]
    BY <1>5 DEF Goes
  <2>2. c \in Call /\ c.pc = "saving" /\ c.state = s /\ c.from = call[w].from /\ c.step = call[w].step
        /\ c.resumed = call[w].resumed /\ c.garbled = call[w].garbled
    BY <1>1, <1>3, <2>1 DEF Call, Running
  <2>3. StoreMoves(w, "state", {}) /\ open'[w] # None /\ open'[w].key = "state"
    BY <1>3, <1>5, OpenMoves
  <2>4. CallOK(c)'
    BY <1>1, <1>2, <1>3, <2>2, <2>3, GarbledGrows DEF CallOK, Running, StoreMoves
  <2>5. {} \in SUBSET Nat
    OBVIOUS
  <2>6. QED
    BY <1>2, <1>3, <1>4, <2>1, <2>2, <2>3, <2>4, <2>5, StoreStep
<1>6. CASE InsertEntry("state", s) /\ call' = [call EXCEPT ![w].saves = FALSE]
  <2>1. PICK c : c = [call[w] EXCEPT !.saves = FALSE] /\ call' = [call EXCEPT ![w] = c]
    BY <1>6
  <2>2. c \in Call /\ c.pc = "node" /\ c.state = s /\ c.from = call[w].from /\ c.step = call[w].step
        /\ c.resumed = call[w].resumed /\ c.garbled = call[w].garbled
    BY <1>1, <1>2, <1>3, <2>1 DEF Call, Running
  <2>3. StoreMoves(w, "state", {s}) /\ open'[w] = None
    BY <1>3, <1>6, InsertMoves
  <2>4. CallOK(c)'
    BY <1>1, <1>2, <1>3, <2>2, <2>3, GarbledGrows DEF CallOK, Running, StoreMoves
  <2>5. {s} \in SUBSET Nat /\ {s} \subseteq saved'
    BY <1>2
  <2>6. QED
    BY <1>2, <1>3, <1>4, <2>1, <2>2, <2>3, <2>4, <2>5, StoreStep
<1>7. QED
  BY <1>1, <1>5, <1>6 DEF NodeSaves

LEMMA NodeSavedKeepsInv ==
  ASSUME Inv, NEW w \in Workers, NodeSaved(w) PROVE Inv'
<1>1. PICK s \in Nat : s = call[w].state
  BY GraphTypes DEF Inv
<1>2. /\ call[w].pc = "saving" /\ Renews("state") /\ WriteEntry(w, s)
      /\ UNCHANGED <<executor, answer, calls, saved, ends>>
  BY <1>1 DEF NodeSaved, At
<1>3. /\ call[w] \in Call /\ CallOK(call[w]) /\ s \in saved /\ saved' = saved
      /\ limit' = limit /\ autoSave' = autoSave
      /\ open[w] # None /\ open[w].key = "state" /\ "state" \in Entries /\ saved \subseteq Nat
  BY <1>1, <1>2, GraphTypes DEF Inv, TypeOK, CallInv, CallOK, StoreInv, executor, Entries
<1>4. PICK a \in Answer : a = answer[w] /\ answer' = [answer EXCEPT ![w] = a]
  BY <1>2, GraphTypes DEF Inv, TypeOK
<1>5. PICK c : c = [call[w] EXCEPT !.pc = "node", !.saves = FALSE] /\ call' = [call EXCEPT ![w] = c]
  BY DEF NodeSaved
<1>6. c \in Call /\ c.pc = "node" /\ c.state = s /\ c.from = call[w].from /\ c.step = call[w].step
      /\ c.resumed = call[w].resumed /\ c.garbled = call[w].garbled
  BY <1>1, <1>3, <1>5 DEF Call, Running
<1>7. StoreMoves(w, "state", {s}) /\ open'[w] = None
  BY <1>2, <1>3, WriteMoves
<1>8. CallOK(c)'
  BY <1>1, <1>2, <1>3, <1>6, <1>7, GarbledGrows DEF CallOK, Running, StoreMoves
<1>9. {s} \in SUBSET Nat /\ {s} \subseteq saved'
  BY <1>3
<1>10. QED
  BY <1>2, <1>3, <1>4, <1>5, <1>6, <1>7, <1>8, <1>9, StoreStep

LEMMA ReturnedCall ==
  ASSUME Inv, NEW w \in Workers, UNCHANGED executor
  PROVE  Idle \in Call /\ Idle.pc = "idle" /\ CallOK(Idle)'
  BY IdleType, GraphTypes DEF CallOK, Inv, Running, executor

LEMMA OpenResultKeepsInv ==
  ASSUME Inv, NEW w \in Workers, OpenResult(w) PROVE Inv'
<1>1. PICK s \in Nat : s = call[w].state
  BY GraphTypes DEF Inv
<1>2. /\ call[w].pc = "ended" /\ Renews("result")
      /\ UNCHANGED <<executor, calls, saved, ends>>
  BY DEF OpenResult, At
<1>3. /\ call[w] \in Call /\ CallOK(call[w]) /\ s \in ends /\ autoSave
      /\ "result" \in Entries /\ open[w] = None /\ saved' = saved /\ saved \subseteq Nat
      /\ limit' = limit /\ autoSave' = autoSave /\ ends' = ends
  BY <1>1, <1>2, GraphTypes DEF Inv, TypeOK, CallInv, CallOK, executor, Entries
<1>4. CASE OpenEntry(w, "result") /\ Goes(w, "storing") /\ UNCHANGED answer
  <2>1. PICK c : c = [call[w] EXCEPT !.pc = "storing"] /\ call' = [call EXCEPT ![w] = c]
    BY <1>4 DEF Goes
  <2>2. c \in Call /\ c.pc = "storing" /\ c.state = s /\ c.from = call[w].from
        /\ c.step = call[w].step /\ c.resumed = call[w].resumed /\ c.garbled = call[w].garbled
    BY <1>1, <1>3, <2>1 DEF Call, Running
  <2>3. StoreMoves(w, "result", {}) /\ open'[w] # None /\ open'[w].key = "result"
    BY <1>3, <1>4, OpenMoves
  <2>4. CallOK(c)'
    BY <1>1, <1>2, <1>3, <2>2, <2>3, GarbledGrows DEF CallOK, Running, StoreMoves
  <2>5. PICK a \in Answer : a = answer[w] /\ answer' = [answer EXCEPT ![w] = a]
    BY <1>4, GraphTypes DEF Inv, TypeOK
  <2>6. {} \in SUBSET Nat
    OBVIOUS
  <2>7. QED
    BY <1>2, <1>3, <2>1, <2>2, <2>3, <2>4, <2>5, <2>6, StoreStep
<1>5. CASE InsertEntry("result", s) /\ Returns(w, "ended")
  <2>1. PICK a : a = [is |-> "ended", value |-> None]
    OBVIOUS
  <2>2. a \in Answer /\ a.is # "result" /\ call' = [call EXCEPT ![w] = Idle]
        /\ answer' = [answer EXCEPT ![w] = a]
    BY <1>5, <2>1, NothingType DEF Returns, Gives
  <2>3. StoreMoves(w, "result", {s}) /\ open'[w] = None
    BY <1>3, <1>5, InsertMoves
  <2>4. Idle \in Call /\ Idle.pc = "idle" /\ CallOK(Idle)'
    BY <1>2, ReturnedCall
  <2>5. {s} \in SUBSET Nat /\ {s} \subseteq ends
    BY <1>3
  <2>6. QED
    BY <1>2, <1>3, <2>2, <2>3, <2>4, <2>5, StoreStep
<1>6. QED
  BY <1>1, <1>4, <1>5 DEF OpenResult

LEMMA WriteResultKeepsInv ==
  ASSUME Inv, NEW w \in Workers, WriteResult(w) PROVE Inv'
<1>1. PICK s \in Nat : s = call[w].state
  BY GraphTypes DEF Inv
<1>2. PICK a : a = [is |-> "ended", value |-> None]
  OBVIOUS
<1>3. /\ call[w].pc = "storing" /\ Renews("result") /\ WriteEntry(w, s)
      /\ UNCHANGED <<executor, calls, saved, ends>>
      /\ call' = [call EXCEPT ![w] = Idle] /\ answer' = [answer EXCEPT ![w] = a]
      /\ a \in Answer /\ a.is # "result"
  BY <1>1, <1>2, NothingType DEF WriteResult, At, Returns, Gives
<1>4. /\ s \in ends /\ autoSave /\ "result" \in Entries
      /\ open[w] # None /\ open[w].key = "result" /\ saved' \subseteq Nat /\ saved \subseteq saved'
  BY <1>1, <1>3, GraphTypes DEF Inv, TypeOK, CallInv, CallOK, StoreInv, Entries
<1>5. StoreMoves(w, "result", {s}) /\ open'[w] = None
  BY <1>3, <1>4, WriteMoves
<1>6. Idle \in Call /\ Idle.pc = "idle" /\ CallOK(Idle)'
  BY <1>3, ReturnedCall
<1>7. {s} \in SUBSET Nat /\ {s} \subseteq ends
  BY <1>4
<1>8. QED
  BY <1>3, <1>4, <1>5, <1>6, <1>7, StoreStep

(* A write that fails, or a worker that dies, may leave a damaged file. *)
LEMMA AbandonKeepsInv ==
  ASSUME Inv, NEW w \in Workers, NEW is \in {"error", "none"}, AbandonEntry(w), Returns(w, is),
         UNCHANGED <<executor, calls, ghosts>>
  PROVE  Inv'
<1>1. PICK a : a = [is |-> is, value |-> None]
  OBVIOUS
<1>2. /\ call' = [call EXCEPT ![w] = Idle] /\ answer' = [answer EXCEPT ![w] = a]
      /\ a \in Answer /\ a.is # "result"
      /\ UNCHANGED <<executor, calls, saved, ends, renewed>>
      /\ saved' \subseteq Nat /\ saved \subseteq saved'
  BY <1>1, NothingType DEF Returns, Gives, ghosts, Inv, TypeOK
<1>3. Idle \in Call /\ Idle.pc = "idle" /\ CallOK(Idle)'
  BY <1>2, ReturnedCall
<1>4. PICK k \in Entries :
        /\ StoreMoves(w, k, {}) /\ open'[w] = None
        /\ \A i \in Entries : entry[i] = Absent => entry'[i] = Absent
  <2>1. CASE open[w] # None
    <3>1. PICK k \in Entries : k = open[w].key
      BY <2>1, OpenType
    <3>2. QED
      BY <2>1, <3>1, AbandonMoves
  <2>2. CASE open[w] = None
    <3>1. /\ entry' = entry /\ open' = open /\ broken' = broken /\ crossed' = crossed
          /\ medium' = medium
      BY <2>2, StoreTypes DEF AbandonEntry
    <3>2. StoreMoves(w, "state", {})
      BY <3>1, StoreTypes DEF StoreMoves, Inv, TypeOK, StoreOK, FileInv, HasOpen, Entries
    <3>3. QED
      BY <2>2, <3>1, <3>2 DEF Entries
  <2>3. QED
    BY <2>1, <2>2
<1>5. k = "result" /\ entry'[k] # Absent => autoSave
  BY <1>4 DEF Inv, ResultFromAnEnd
<1>6. {} \in SUBSET Nat
  OBVIOUS
<1>7. QED
  BY <1>2, <1>3, <1>4, <1>5, <1>6, StoreStep

----------------------------------------------------------------------------
(* Removal *)

(* A delete leaves the state behind it only if it is a new one.            *)
LEMMA RemoveStep ==
  ASSUME Inv, NEW w \in Workers, NEW c \in Call, NEW a \in Answer,
         call[w].pc \in Deleting,
         \/ RemoveEntry(Doomed(w))
         \/ UNCHANGED store /\ (entry[Doomed(w)] = Absent \/ c.pc \in {"removing", "unlinking"}),
         UNCHANGED <<executor, calls, ghosts>>,
         call' = [call EXCEPT ![w] = c], answer' = [answer EXCEPT ![w] = a],
         c.pc \in (IF Doomed(w) = "state" THEN {"removing", "erasing"} ELSE {"unlinking", "idle"}),
         c = Idle \/ (c.resumed = call[w].resumed /\ c.from = call[w].from /\ c.step = call[w].step
                      /\ c.garbled = call[w].garbled),
         a.is # "result" \/ a = answer[w]
  PROVE  Inv'
<1>1. PICK k \in Entries : k = Doomed(w)
  BY DEF Doomed, Entries
<1>2. /\ UNCHANGED <<limit, autoSave, saved, ends, renewed, calls>>
      /\ c.pc \notin Running /\ open[w] = None /\ saved' \subseteq Nat /\ saved \subseteq saved'
  BY DEF executor, ghosts, Running, Deleting, Inv, TypeOK
<1>3. /\ StoreMoves(w, k, {}) /\ open'[w] = None
      /\ \A i \in Entries : entry'[i] = entry[i] \/ entry'[i] = Absent
      /\ entry'[k] = Absent \/ c.pc \in {"removing", "unlinking"}
  <2>1. CASE RemoveEntry(k)
    <3>1. StoreMoves(w, k, {}) /\ open'[w] = None /\ entry'[k] = Absent
      BY <1>2, <2>1, RemoveMoves
    <3>2. QED
      BY <3>1 DEF StoreMoves
  <2>2. CASE UNCHANGED store /\ (entry[k] = Absent \/ c.pc \in {"removing", "unlinking"})
    <3>1. /\ entry' = entry /\ open' = open /\ broken' = broken /\ crossed' = crossed
          /\ medium' = medium
      BY <2>2 DEF store
    <3>2. StoreMoves(w, k, {})
      BY <3>1, StoreTypes DEF StoreMoves, Inv, TypeOK, StoreOK, FileInv, HasOpen
    <3>3. QED
      BY <1>2, <2>2, <3>1, <3>2
  <2>3. QED
    BY <1>1, <2>1, <2>2
<1>4. CallOK(c)'
  <2>1. CallOK(call[w]) /\ limit \in Nat
    BY GraphTypes DEF Inv, CallInv
  <2>2. CASE c = Idle
    BY <1>2, <2>2, ReturnedCall
  <2>3. CASE c # Idle
    BY <1>2, <1>3, <2>1, <2>3, GarbledGrows DEF CallOK, Running, StoreMoves
  <2>4. QED
    BY <2>2, <2>3
<1>5. c.pc \in {"erasing", "unlinking"} /\ entry'["state"] # Absent => call[w].pc \in {"erasing", "unlinking"}
  BY <1>1, <1>3 DEF Doomed, Deleting
<1>6. k = "result" /\ entry'[k] # Absent => autoSave
  BY <1>3 DEF Inv, ResultFromAnEnd
<1>7. {} \in SUBSET Nat /\ c.pc \notin {"saving", "storing"}
  BY <1>2 DEF Running
<1>8. QED
  BY <1>2, <1>3, <1>4, <1>5, <1>6, <1>7, StoreStep

(* Where a delete goes when one of the entries is gone. *)
LEMMA DeletedStep ==
  ASSUME Inv, NEW w \in Workers, call[w].pc \in Deleting, Deleted(w),
         UNCHANGED <<executor, calls, ghosts>>,
         \/ RemoveEntry(Doomed(w))
         \/ UNCHANGED store /\ entry[Doomed(w)] = Absent
  PROVE  Inv'
<1>1. CASE Doomed(w) = "state"
  <2>1. PICK c : c = [call[w] EXCEPT !.pc = "erasing"]
    OBVIOUS
  <2>2. /\ call' = [call EXCEPT ![w] = c] /\ answer' = [answer EXCEPT ![w] = answer[w]]
        /\ call[w] \in Call /\ answer[w] \in Answer
    BY <1>1, <2>1, GraphTypes DEF Deleted, Goes, Inv, TypeOK
  <2>3. c \in Call /\ c.pc = "erasing" /\ c.resumed = call[w].resumed /\ c.from = call[w].from
        /\ c.garbled = call[w].garbled /\ c.step = call[w].step
    BY <2>1, <2>2 DEF Call, Deleting
  <2>4. QED
    BY <1>1, <2>2, <2>3, RemoveStep
<1>2. CASE Doomed(w) # "state"
  <2>1. PICK a : a = [is |-> "deleted", value |-> None]
    OBVIOUS
  <2>2. call' = [call EXCEPT ![w] = Idle] /\ answer' = [answer EXCEPT ![w] = a]
    BY <1>2, <2>1 DEF Deleted, Returns, Gives
  <2>3. a \in Answer /\ a.is # "result"
    BY <2>1, NothingType
  <2>4. QED
    BY <1>2, <2>2, <2>3, IdleType, RemoveStep
<1>3. QED
  BY <1>1, <1>2

LEMMA DeleteLooksKeepsInv ==
  ASSUME Inv, NEW w \in Workers, DeleteLooks(w) PROVE Inv'
<1>1. call[w].pc \in {"deleting", "erasing"} /\ UNCHANGED <<executor, calls, ghosts>>
  BY DEF DeleteLooks
<1>2. call[w].pc \in Deleting
  BY <1>1 DEF Deleting
<1>3. CASE entry[Doomed(w)] = Absent /\ Deleted(w) /\ UNCHANGED store
  BY <1>1, <1>2, <1>3, DeletedStep
<1>4. CASE Deleted(w) /\ RemoveEntry(Doomed(w))
  BY <1>1, <1>2, <1>4, DeletedStep
<1>5. CASE /\ Goes(w, IF Doomed(w) = "state" THEN "removing" ELSE "unlinking")
           /\ UNCHANGED <<store, answer>>
  <2>1. PICK c : c = [call[w] EXCEPT !.pc = IF Doomed(w) = "state" THEN "removing" ELSE "unlinking"]
    OBVIOUS
  <2>2. /\ call' = [call EXCEPT ![w] = c] /\ answer' = [answer EXCEPT ![w] = answer[w]]
        /\ call[w] \in Call /\ answer[w] \in Answer
    BY <1>5, <2>1, GraphTypes DEF Goes, Inv, TypeOK
  <2>3. /\ c \in Call /\ c.pc = (IF Doomed(w) = "state" THEN "removing" ELSE "unlinking")
        /\ c.resumed = call[w].resumed /\ c.from = call[w].from /\ c.step = call[w].step
        /\ c.garbled = call[w].garbled
    BY <2>1, <2>2 DEF Call, Deleting
  <2>4. QED
    BY <1>1, <1>2, <1>5, <2>2, <2>3, RemoveStep
<1>6. QED
  BY <1>3, <1>4, <1>5 DEF DeleteLooks

LEMMA DeleteRemovesKeepsInv ==
  ASSUME Inv, NEW w \in Workers, DeleteRemoves(w) PROVE Inv'
<1>1. call[w].pc \in {"removing", "unlinking"} /\ UNCHANGED <<executor, calls, ghosts>>
  BY DEF DeleteRemoves
<1>2. call[w].pc \in Deleting
  BY <1>1 DEF Deleting
<1>3. CASE entry[Doomed(w)] = Absent
  <2>1. Gives(w, "error", None) /\ UNCHANGED <<store, executor, saved, ends>>
        /\ calls' \in 0..MaxCalls /\ renewed' = renewed
    BY <1>1, <1>3 DEF DeleteRemoves, Returns, ghosts, Inv, TypeOK
  <2>2. QED
    BY <1>1, <2>1, NothingType, QuietReturn
<1>4. CASE entry[Doomed(w)] # Absent
  BY <1>1, <1>2, <1>4, DeletedStep DEF DeleteRemoves
<1>5. QED
  BY <1>3, <1>4

----------------------------------------------------------------------------
(* The invariant is inductive *)

LEMMA InvNext == Inv /\ [Next]_vars => Inv'
<1> SUFFICES ASSUME Inv, [Next]_vars PROVE Inv'
  OBVIOUS
<1>1. ASSUME NEW w \in Workers, WriteFails(w) PROVE Inv'
  BY <1>1, AbandonKeepsInv DEF WriteFails
<1>2. ASSUME NEW w \in Workers, Crash(w) PROVE Inv'
  BY <1>2, AbandonKeepsInv DEF Crash
<1>3. ASSUME NEW w \in Workers, Progress(w) PROVE Inv'
  BY <1>3, LoadKeepsInv, FetchKeepsInv, NodeSavedKeepsInv, NodeContinuesKeepsInv, NodeFailsKeepsInv,
     NodeEndsKeepsInv, OpenResultKeepsInv, WriteResultKeepsInv, DeleteLooksKeepsInv,
     DeleteRemovesKeepsInv DEF Progress
<1>4. CASE UNCHANGED vars
  BY <1>4 DEF vars, store, executor, ghosts, Inv, TypeOK, StoreOK, StoreInv, CallInv, CallOK,
     FileInv, HasOpen, Sound, MayBeGarbled, DeleteInv, ResultFromAnEnd
<1>5. QED
  BY <1>1, <1>2, <1>3, <1>4, RunKeepsInv, ResumeKeepsInv, GetResultKeepsInv, DeleteKeepsInv,
     NodeSavesKeepsInv DEF Next

LEMMA Invariance == Spec => []Inv
<1>1. Init => Inv
  BY InvInit
<1>2. Inv /\ [Next]_vars => Inv'
  BY InvNext
<1>3. QED
  BY <1>1, <1>2, PTL DEF Spec

----------------------------------------------------------------------------
(* What the executor and its store promise *)

(* Whatever writers interleave, crash or delete, what a call reads back    *)
(* was written as it is read, a resumed run starts from a saved state and  *)
(* a result is the end of a run, unless writes of that entry were cut      *)
(* short and crossed, or either where results are bare numbers.            *)
THEOREM StoreAlwaysFaithful == Spec => []StoreFaithful
<1>1. Inv => StoreFaithful
  BY DEF Inv, CallInv, CallOK, StoreFaithful, ResumesSavedState
<1>2. QED
  BY <1>1, Invariance, PTL

(* A run has done the nodes its counter says, and no more than max_steps.  *)
THEOREM StepsAreAlwaysWork == Spec => []StepsAreWork
<1>1. Inv => StepsAreWork
  BY DEF Inv, CallInv, CallOK, StepsAreWork
<1>2. QED
  BY <1>1, Invariance, PTL

(* A delete that succeeds leaves nothing from before it. *)
THEOREM DeleteAlwaysErases == Spec => DeleteErases
<1> DEFINE Erases(w) ==
      call[w].pc \in Deleting /\ answer'[w].is = "deleted" /\ call'[w].pc = "idle" =>
        \A k \in Entries : entry'[k] # Absent => k \in renewed'[w]
<1>1. Inv /\ [Next]_vars => [\A w \in Workers : Erases(w)]_vars
  <2> SUFFICES ASSUME Inv, Next, NEW w \in Workers, call[w].pc \in Deleting,
                      answer'[w].is = "deleted", call'[w].pc = "idle"
               PROVE  \A k \in Entries : entry'[k] # Absent => k \in renewed'[w]
    OBVIOUS
  <2>1. /\ call \in [Workers -> Call] /\ answer \in [Workers -> Answer]
        /\ entry \in [Entries -> {Absent} \cup Damage \cup Nat]
    BY DEF Inv, TypeOK, StoreOK
  <2>2. ASSUME NEW v \in Workers \ {w}, NEW c, call' = [call EXCEPT ![v] = c] PROVE FALSE
    BY <2>1, <2>2 DEF Deleting
  <2>3. PICK v \in Workers :
          \/ Run(v) \/ Resume(v) \/ GetResult(v) \/ Delete(v)
          \/ NodeSaves(v) \/ WriteFails(v) \/ Crash(v) \/ Progress(v)
    BY DEF Next
  <2>4. \E c : call' = [call EXCEPT ![v] = c]
    BY <2>3 DEF Progress, Run, Resume, GetResult, Delete, NodeSaves, WriteFails, Crash, Load, Fetch,
      NodeSaved, NodeContinues, NodeFails, NodeEnds, OpenResult, WriteResult, DeleteLooks,
      DeleteRemoves, Begins, Deleted, Returns, Gives, Goes
  <2>5. v = w
    BY <2>2, <2>4
  <2>6. DeleteLooks(w) \/ DeleteRemoves(w) \/ Crash(w)
    BY <2>3, <2>5 DEF Progress, Run, Resume, GetResult, Delete, NodeSaves, WriteFails, Load, Fetch,
      NodeSaved, NodeContinues, NodeFails, NodeEnds, OpenResult, WriteResult, Called, At, Deleting
  <2>7. ASSUME NEW pc, Goes(w, pc), pc # "idle" PROVE FALSE
    BY <2>1, <2>7 DEF Goes, Call
  <2>8. ASSUME NEW is, Returns(w, is) PROVE is = "deleted"
    BY <2>1, <2>8 DEF Returns, Gives
  <2>9. /\ Doomed(w) = "result"
        /\ (UNCHANGED store /\ entry["result"] = Absent) \/ RemoveEntry("result")
    BY <2>6, <2>7, <2>8 DEF DeleteLooks, DeleteRemoves, Crash, Deleted, Doomed
  <2>10. call[w].pc \in {"erasing", "unlinking"}
    BY <2>9 DEF Doomed, Deleting
  <2>11. entry'["result"] = Absent /\ entry'["state"] = entry["state"]
    BY <2>1, <2>9 DEF RemoveEntry, store, Entries
  <2>12. renewed' = renewed
    BY <2>6 DEF DeleteLooks, DeleteRemoves, Crash, ghosts
  <2>13. QED
    BY <2>10, <2>11, <2>12 DEF Inv, DeleteInv, Entries
<1>2. QED
  BY <1>1, Invariance, PTL DEF Spec, DeleteErases
=============================================================================
