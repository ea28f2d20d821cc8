-------------------------- MODULE ModelChainProofs --------------------------
(***************************************************************************)
(* Theorems about every ModelChain: whatever the models, the policies of   *)
(* the layers, the delays the servers ask for and the lag of the timers.   *)
(***************************************************************************)
EXTENDS ModelChain, FiniteSetTheorems, TLAPS

----------------------------------------------------------------------------
(* The invariant *)

(* A loop that sleeps has a failure behind it and an attempt left, and     *)
(* wakes before its deadline; not before the delay the answer asked for.   *)
Sleeps(l) ==
  /\ loop[l].last # None
  /\ loop[l].wakeAt # None
  /\ loop[l].attempts < policy[l].attempts
  /\ loop[l].deadline # None => loop[l].wakeAt <= loop[l].deadline
  /\ (answered # None /\ answered.after # None /\ policy[l].honours /\ ~loop[l].givesUp)
       => loop[l].wakeAt >= answered.at + AtMost(answered.after, policy[l].cap)

LoopInv ==
  /\ pc = "backoff" => Sleeps("inner")
  /\ pc = "outerBackoff" => Sleeps("outer")

(* A request under way has no answer yet; the answer behind a wait is the  *)
(* failure the loop waits for.                                             *)
AnswerInv ==
  /\ pc = "asking" => answered = None
  /\ pc = "backoff" => answered # None /\ loop["inner"].last.after = answered.after
  /\ answered # None => answered.at <= now

(* The failures recorded are those of the models before the present one.   *)
FailureInv ==
  /\ pc \in {"asking", "backoff"} => Len(failures) = model - 1
  /\ pc = "asking" =>
       /\ Len(tried) \in {model - 1, model}
       /\ \A i \in 1 .. model - 1 : tried[i] = failures[i]
  /\ pc = "backoff" => tried = Append(failures, loop["inner"].last)

(* The error the outer layer holds is that of the last round given up. *)
LastFailure(fs) == IF fs = <<>> THEN None ELSE fs[Len(fs)]

ReportInv ==
  /\ reported = gaveUp
  /\ pc # "returned" => loop["outer"].last = LastFailure(gaveUp)
  /\ FailuresAccounted

(* The caller sees nothing before a stream is selected, and no other.      *)
ShownInv ==
  /\ asks # 0
  /\ pc \in {"asking", "backoff", "outerBackoff"} => shown = {}
  /\ pc = "streaming" => shown # {}
  /\ shown \subseteq {asks}

Inv ==
  /\ TypeOK
  /\ LoopInv
  /\ AnswerInv
  /\ FailureInv
  /\ ReportInv
  /\ ShownInv
  /\ BudgetKept

----------------------------------------------------------------------------
(* Lemmas about the loops *)

(* The policies and failures in force are typed. *)
LEMMA PolicyType ==
  ASSUME TypeOK, NEW l \in Layers
  PROVE  /\ policy[l] \in Policy
         /\ policy[l].attempts \in Nat \ {0}
         /\ policy[l].budget # None => policy[l].budget \in Nat
         /\ policy[l].cap \in Nat
<1>1. policy[l] \in Policy
  BY ChainAssumption DEF TypeOK
<1>2. QED
  BY <1>1 DEF Policy

LEMMA TimedOutType == TimedOut \in Failure /\ TimedOut # None
<1>1. TimedOut \in Failure
  BY DEF TimedOut, Failure, Kinds
<1>2. QED
  BY <1>1, ChainAssumption

(* A wait is a number of ticks; the one a server asked for, up to the cap, *)
(* where the policy honours it.                                            *)
LEMMA WaitsType ==
  ASSUME NEW p \in Policy, NEW n, NEW after \in Afters \cup {None}, NEW w \in Waits(p, n, after)
  PROVE  /\ w \in Nat
         /\ p.honours /\ after # None => w = AtMost(after, p.cap)
<1>1. CASE p.honours /\ after # None
  <2>1. after \in Nat /\ p.cap \in Nat
    BY <1>1, ChainAssumption DEF Policy
  <2>2. w = AtMost(after, p.cap)
    BY <1>1 DEF Waits
  <2>3. QED
    BY <2>1, <2>2 DEF AtMost
<1>2. CASE ~(p.honours /\ after # None)
  BY <1>2 DEF Waits, Backoff
<1>3. QED
  BY <1>1, <1>2

(* A new loop has its budget before it. *)
LEMMA NewLoopType ==
  ASSUME NEW p \in Policy, now \in Nat
  PROVE  /\ NewLoop(p) \in Loop
         /\ NewLoop(p).attempts = 1 /\ 1 <= p.attempts
         /\ NewLoop(p).deadline # None => NewLoop(p).deadline >= now
         /\ NewLoop(p).last = None
<1>1. p.attempts \in Nat \ {0} /\ (p.budget # None => p.budget \in Nat)
  BY DEF Policy
<1>2. NewLoop(p).deadline # None => NewLoop(p).deadline \in Nat /\ NewLoop(p).deadline >= now
  BY <1>1 DEF NewLoop
<1>3. QED
  BY <1>1, <1>2 DEF NewLoop, Loop

(* A loop with an attempt left takes it; its deadline stays. *)
LEMMA NextAttemptType ==
  ASSUME TypeOK, NEW l \in Layers, loop[l].attempts < policy[l].attempts
  PROVE  /\ NextAttempt(loop[l]) \in Loop
         /\ NextAttempt(loop[l]).attempts = loop[l].attempts + 1
         /\ NextAttempt(loop[l]).attempts <= policy[l].attempts
         /\ NextAttempt(loop[l]).deadline = loop[l].deadline
         /\ NextAttempt(loop[l]).last = loop[l].last
<1>1. loop[l] \in Loop /\ policy[l].attempts \in Nat
  BY PolicyType DEF TypeOK
<1>2. /\ loop[l].attempts \in Nat /\ loop[l].attempts + 1 \in Nat \ {0}
      /\ loop[l].attempts + 1 <= policy[l].attempts
  BY <1>1 DEF Loop
<1>3. NextAttempt(loop[l]) = [loop[l] EXCEPT !.attempts = loop[l].attempts + 1, !.wakeAt = None]
  BY DEF NextAttempt
<1>4. NextAttempt(loop[l]) \in Loop
  BY <1>1, <1>2, <1>3 DEF Loop
<1>5. /\ NextAttempt(loop[l]).attempts = loop[l].attempts + 1
      /\ NextAttempt(loop[l]).deadline = loop[l].deadline
      /\ NextAttempt(loop[l]).last = loop[l].last
  BY <1>1, <1>3 DEF Loop
<1>6. QED
  BY <1>2, <1>4, <1>5

(* A loop that goes to sleep after failure e. *)
LEMMA AsleepType ==
  ASSUME TypeOK, NEW l \in Layers, NEW e \in Failure,
         ~IsLast(policy[l], loop[l], e),
         NEW s \in Asleep(policy[l], loop[l], e)
  PROVE  /\ s \in Loop
         /\ s.last = e /\ s.last # None
         /\ s.wakeAt # None
         /\ s.attempts = loop[l].attempts /\ s.attempts < policy[l].attempts
         /\ s.deadline = loop[l].deadline
         /\ s.deadline # None => s.wakeAt <= s.deadline
         /\ (e.after # None /\ policy[l].honours /\ ~s.givesUp)
              => s.wakeAt = now + AtMost(e.after, policy[l].cap)
<1>1. /\ loop[l] \in Loop /\ policy[l] \in Policy /\ now \in Nat
      /\ e.after \in Afters \cup {None} /\ e # None
  <2>1. e # None
    BY ChainAssumption
  <2>2. QED
    BY <2>1, PolicyType, ChainAssumption DEF TypeOK, Failure
<1>2. PICK w \in Waits(policy[l], loop[l].attempts, e.after) :
        LET at == now + w
        IN s = [loop[l] EXCEPT !.last = e, !.givesUp = TooLate(loop[l], at),
                  !.wakeAt = IF TooLate(loop[l], at) THEN loop[l].deadline ELSE at]
  BY DEF Asleep
<1>3. w \in Nat /\ (policy[l].honours /\ e.after # None => w = AtMost(e.after, policy[l].cap))
  BY <1>1, WaitsType
<1> DEFINE at == now + w
<1>4. at \in Nat /\ at # None
  BY <1>1, <1>3, ChainAssumption
<1>5. /\ s = [loop[l] EXCEPT !.last = e, !.givesUp = TooLate(loop[l], at),
                !.wakeAt = IF TooLate(loop[l], at) THEN loop[l].deadline ELSE at]
      /\ TooLate(loop[l], at) \in BOOLEAN
  BY <1>2 DEF TooLate
<1>6. loop[l].attempts < policy[l].attempts
  BY <1>1, PolicyType DEF IsLast, Loop
<1>7. /\ s.last = e /\ s.attempts = loop[l].attempts /\ s.deadline = loop[l].deadline
      /\ s.givesUp = TooLate(loop[l], at)
      /\ s.wakeAt = IF TooLate(loop[l], at) THEN loop[l].deadline ELSE at
      /\ s \in Loop
  <2>1. loop[l].deadline \in Nat \cup {None}
    BY <1>1 DEF Loop
  <2>2. TooLate(loop[l], at) => loop[l].deadline # None
    BY DEF TooLate
  <2> HIDE DEF at
  <2>3. QED
    BY <1>1, <1>4, <1>5, <2>1, <2>2 DEF Loop
<1>8. s.deadline # None => s.deadline \in Nat
  BY <1>1, <1>7 DEF Loop
<1> HIDE DEF at
<1>9. /\ s.wakeAt # None
      /\ s.deadline # None => s.wakeAt <= s.deadline
  <2>1. CASE TooLate(loop[l], at)
    BY <1>7, <1>8, <2>1 DEF TooLate
  <2>2. CASE ~TooLate(loop[l], at)
    BY <1>4, <1>7, <1>8, <2>2 DEF TooLate
  <2>3. QED
    BY <2>1, <2>2
<1>10. (e.after # None /\ policy[l].honours /\ ~s.givesUp)
         => s.wakeAt = now + AtMost(e.after, policy[l].cap)
  BY <1>3, <1>7 DEF at
<1>11. QED
  BY <1>1, <1>6, <1>7, <1>9, <1>10

----------------------------------------------------------------------------
(* What a failure does *)

Answer == [after : Afters \cup {None}, at : 0..MaxTime]

(* Failure e of the request under way, or of a wait for the next one, was  *)
(* answered by a (a timer's was not), and is the last one recorded.        *)
Failing(e, a) ==
  /\ pc \in {"asking", "backoff"}
  /\ e \in Failure
  /\ a \in {None} \cup Answer
  /\ a # None => a.at <= now /\ a.after = e.after
  /\ answered' = IF asks' = asks THEN a ELSE None
  /\ UNCHANGED <<config, now, shown>>

(* The outer layer sleeps or reports the failure with those before it.     *)
LEMMA OuterFailsKeepsInv ==
  ASSUME Inv, NEW e, NEW a, Failing(e, a), tried' = Append(failures, e), OuterFails(e)
  PROVE  Inv'
<1> DEFINE p == policy["outer"]
           o == loop["outer"]
<1>1. /\ failures' = failures /\ UNCHANGED <<model, asks, config, now, shown>>
      /\ answered' = a /\ e \in Failure /\ a \in {None} \cup Answer
      /\ a # None => a.at <= now /\ a.after = e.after
      /\ pc \in {"asking", "backoff"}
  BY DEF OuterFails, Failing
<1>2. /\ tried' \in Seq(Failure)
      /\ Len(tried') = model
      /\ failures \in Seq(Failure) /\ Len(failures) = model - 1 /\ model \in 1..Models
      /\ reported' = tried' /\ gaveUp' = tried'
      /\ tried' # <<>> /\ tried'[Len(tried')] = e
  <2>1. failures \in Seq(Failure) /\ Len(failures) = model - 1 /\ model \in 1..Models
    BY <1>1 DEF Inv, TypeOK, FailureInv
  <2>2. reported' = tried' /\ gaveUp' = tried'
    BY DEF OuterFails
  <2>3. QED
    BY <1>1, <2>1, <2>2
<1>3. CASE IsLast(p, o, e)
  <2>1. pc' = "returned" /\ result' = [error |-> e, failures |-> tried'] /\ loop' = loop
    BY <1>2, <1>3 DEF OuterFails, Return
  <2>2. TypeOK'
    BY <1>1, <1>2, <2>1 DEF Inv, TypeOK, config, Answer
  <2>3. ReportInv'
    BY <1>2, <2>1 DEF ReportInv, FailuresAccounted
  <2>4. QED
    BY <1>1, <2>1, <2>2, <2>3 DEF Inv, LoopInv, AnswerInv, FailureInv, ShownInv, BudgetKept
<1>4. CASE ~IsLast(p, o, e)
  <2>1. PICK s \in Asleep(p, o, e) : loop' = [loop EXCEPT !["outer"] = s]
    BY <1>4 DEF OuterFails
  <2>2. pc' = "outerBackoff" /\ result' = result
    BY <1>4 DEF OuterFails
  <2>3. /\ s \in Loop
        /\ s.last = e /\ s.last # None
        /\ s.wakeAt # None
        /\ s.attempts < p.attempts
        /\ s.deadline = o.deadline
        /\ s.deadline # None => s.wakeAt <= s.deadline
        /\ (e.after # None /\ p.honours /\ ~s.givesUp)
              => s.wakeAt = now + AtMost(e.after, p.cap)
    BY <1>1, <1>4, AsleepType DEF Inv, Layers
  <2>4. loop'["outer"] = s /\ loop'["inner"] = loop["inner"] /\ policy' = policy
        /\ loop' \in [Layers -> Loop]
    BY <1>1, <2>1, <2>3 DEF Inv, TypeOK, Layers, config
  <2>5. s.attempts <= p.attempts
    BY <2>3, PolicyType DEF Inv, Loop, Layers
  <2>6. TypeOK'
    BY <1>1, <1>2, <2>2, <2>4, <2>5 DEF Inv, TypeOK, config, Answer, Layers
  <2>7. Sleeps("outer")'
    <3>1. a # None /\ a.after # None => now + AtMost(a.after, p.cap) >= a.at + AtMost(a.after, p.cap)
      <4>1. a # None /\ a.after # None => a.after \in Nat /\ a.at \in Nat /\ a.at <= now
        BY <1>1, ChainAssumption DEF Answer
      <4>2. p.cap \in Nat /\ now \in Nat
        BY PolicyType, ChainAssumption DEF Inv, TypeOK, Layers
      <4>3. QED
        BY <4>1, <4>2 DEF AtMost
    <3>2. QED
      BY <1>1, <2>3, <2>4, <3>1 DEF Sleeps
  <2>8. FailureInv' /\ ReportInv'
    BY <1>1, <1>2, <2>2, <2>3, <2>4 DEF FailureInv, ReportInv, FailuresAccounted, LastFailure
  <2>9. BudgetKept'
    <3>1. o.deadline # None => now <= o.deadline + Lag
      BY <1>1 DEF Inv, BudgetKept, Layers
    <3>2. QED
      BY <1>1, <2>2, <2>3, <2>4, <3>1 DEF BudgetKept, Layers
  <2>10. AnswerInv' /\ ShownInv' /\ LoopInv'
    BY <1>1, <2>2, <2>7 DEF Inv, AnswerInv, ShownInv, LoopInv
  <2>11. QED
    BY <2>6, <2>8, <2>9, <2>10 DEF Inv
<1>5. QED
  BY <1>3, <1>4

(* The chain asks the next model, or is done.                              *)
LEMMA ModelFailsKeepsInv ==
  ASSUME Inv, NEW e, NEW a, Failing(e, a), tried' = Append(failures, e), ModelFails(e)
  PROVE  Inv'
<1>1. CASE ~(model < Models /\ MayFallBack(e))
  BY <1>1, OuterFailsKeepsInv DEF ModelFails
<1>2. CASE model < Models /\ MayFallBack(e)
  <2> DEFINE new == NewLoop(policy["inner"])
  <2>1. /\ model' = model + 1
        /\ failures' = Append(failures, e)
        /\ loop' = [loop EXCEPT !["inner"] = new]
        /\ asks' = asks + 1 /\ pc' = "asking"
        /\ UNCHANGED <<result, reported, gaveUp, config, now, shown>>
        /\ e \in Failure
        /\ pc \in {"asking", "backoff"}
    BY <1>2 DEF ModelFails, Recorded, Ask, Failing
  <2>2. answered' = None
    BY <2>1 DEF Failing, Inv, TypeOK
  <2>3. /\ new \in Loop /\ new.attempts <= policy["inner"].attempts
        /\ new.deadline # None => new.deadline \in Nat /\ new.deadline >= now
    <3>1. now \in Nat
      BY ChainAssumption DEF Inv, TypeOK
    <3>2. QED
      BY <3>1, NewLoopType, PolicyType DEF Inv, Layers, Loop
  <2> HIDE DEF new
  <2>4. /\ loop'["inner"] = new /\ loop'["outer"] = loop["outer"] /\ policy' = policy
        /\ loop' \in [Layers -> Loop]
    BY <2>1, <2>3 DEF Inv, TypeOK, Layers, config
  <2>5. /\ failures \in Seq(Failure) /\ Len(failures) = model - 1 /\ model \in Nat
        /\ failures' \in Seq(Failure) /\ Len(failures') = model /\ model' \in 1..Models
        /\ Len(failures') < Models
    <3>1. /\ failures \in Seq(Failure) /\ Len(failures) = model - 1
          /\ model \in 1..Models /\ model < Models /\ Models \in Nat
      BY <1>2, <2>1, ChainAssumption DEF Inv, TypeOK, FailureInv
    <3>2. QED
      BY <2>1, <3>1
  <2>6. tried' = failures'
    BY <2>1
  <2>7. TypeOK'
    <3>1. shown \subseteq 1..asks /\ asks \in Nat
      BY DEF Inv, TypeOK
    <3>2. shown' \subseteq 1..asks'
      BY <2>1, <3>1
    <3>3. QED
      BY <2>1, <2>2, <2>3, <2>4, <2>5, <2>6, <3>1, <3>2 DEF Inv, TypeOK, config, Layers
  <2>8. FailureInv' /\ ReportInv'
    BY <2>1, <2>4, <2>5, <2>6 DEF Inv, FailureInv, ReportInv, FailuresAccounted
  <2>9. BudgetKept'
    <3>1. loop["outer"].deadline # None => now <= loop["outer"].deadline + Lag
      BY <2>1 DEF Inv, BudgetKept, Layers
    <3>2. new.deadline # None => now <= new.deadline + Lag
      BY <2>3, ChainAssumption DEF Inv, TypeOK
    <3>3. QED
      BY <2>1, <2>4, <3>1, <3>2 DEF BudgetKept, Layers
  <2>10. ShownInv'
    BY <2>1 DEF Inv, TypeOK, ShownInv
  <2>11. QED
    BY <2>1, <2>2, <2>7, <2>8, <2>9, <2>10 DEF Inv, AnswerInv, LoopInv
<1>3. QED
  BY <1>1, <1>2

(* The failure of an attempt is the last of its model.                     *)
LEMMA TriedFailure ==
  ASSUME Inv, pc = "asking", NEW e \in Failure, Tried(e)
  PROVE  tried' = Append(failures, e)
<1>1. /\ failures \in Seq(Failure) /\ Len(failures) = model - 1
      /\ tried \in Seq(Failure) /\ Len(tried) >= model - 1
      /\ model \in Nat \ {0}
      /\ \A i \in 1 .. model - 1 : tried[i] = failures[i]
  <2>1. failures \in Seq(Failure) /\ tried \in Seq(Failure) /\ model \in 1..Models
    BY DEF Inv, TypeOK
  <2>2. model \in Nat \ {0}
    BY <2>1, ChainAssumption
  <2>3. Len(failures) = model - 1 /\ Len(tried) \in {model - 1, model}
        /\ \A i \in 1 .. model - 1 : tried[i] = failures[i]
    BY DEF Inv, FailureInv
  <2>4. QED
    BY <2>1, <2>2, <2>3
<1>2. SubSeq(tried, 1, model - 1) = failures
  BY <1>1
<1>3. QED
  BY <1>2 DEF Tried

----------------------------------------------------------------------------
(* The invariant is inductive *)

LEMMA InvInit == Init => Inv
<1> SUFFICES ASSUME Init PROVE Inv
  OBVIOUS
<1>1. /\ now = 0 /\ pc = "asking" /\ model = 1 /\ failures = <<>> /\ result = None /\ asks = 1
      /\ answered = None /\ tried = <<>> /\ shown = {} /\ reported = <<>> /\ gaveUp = <<>>
      /\ loop = [l \in Layers |-> NewLoop(policy[l])]
  BY DEF Init
<1>2. ASSUME NEW l \in Layers
      PROVE  /\ loop[l] \in Loop /\ loop[l].attempts <= policy[l].attempts
             /\ loop[l].deadline # None => now <= loop[l].deadline + Lag
  <2>1. policy[l] \in Policy /\ now \in Nat
    BY <1>1, ChainAssumption DEF Init
  <2>2. loop[l] = NewLoop(policy[l])
    BY <1>1
  <2>3. /\ loop[l] \in Loop /\ loop[l].attempts <= policy[l].attempts
        /\ loop[l].deadline # None => loop[l].deadline >= now
    BY <2>1, <2>2, NewLoopType
  <2>4. loop[l].deadline # None => loop[l].deadline \in Nat
    BY <2>3 DEF Loop
  <2>5. QED
    BY <1>1, <2>3, <2>4, ChainAssumption
<1>3. TypeOK
  <2>1. loop \in [Layers -> Loop]
    BY <1>1, <1>2
  <2>2. QED
    BY <1>1, <1>2, <2>1, ChainAssumption DEF Init, TypeOK
<1>4. BudgetKept
  BY <1>2 DEF BudgetKept
<1>5. ReportInv
  BY <1>1 DEF ReportInv, FailuresAccounted, LastFailure, NewLoop, Layers
<1>6. QED
  BY <1>1, <1>3, <1>4, <1>5 DEF Inv, LoopInv, AnswerInv, FailureInv, ShownInv

(* A request is sent again, to the model that failed. *)
LEMMA RetryKeepsInv ==
  ASSUME Inv, pc = "backoff", BackoffEnds, ~loop["inner"].givesUp
  PROVE  Inv'
<1> DEFINE next == NextAttempt(loop["inner"])
<1>1. /\ loop' = [loop EXCEPT !["inner"] = next]
      /\ asks' = asks + 1 /\ pc' = "asking"
      /\ UNCHANGED <<config, now, model, failures, reported, result, tried, gaveUp, shown>>
  BY DEF BackoffEnds, Ask
<1>2. answered' = None
  BY <1>1 DEF BackoffEnds, Answered, Inv, TypeOK
<1>3. /\ next \in Loop /\ next.attempts <= policy["inner"].attempts
      /\ next.deadline = loop["inner"].deadline
  BY NextAttemptType DEF Inv, LoopInv, Sleeps, Layers
<1> HIDE DEF next
<1>4. /\ loop'["inner"] = next /\ loop'["outer"] = loop["outer"] /\ policy' = policy
      /\ loop' \in [Layers -> Loop]
  BY <1>1, <1>3 DEF Inv, TypeOK, Layers, config
<1>5. TypeOK'
  <2>1. shown' \subseteq 1..asks' /\ asks' \in Nat
    BY <1>1 DEF Inv, TypeOK
  <2>2. QED
    BY <1>1, <1>2, <1>3, <1>4, <2>1 DEF Inv, TypeOK, config, Layers
<1>6. FailureInv' /\ ReportInv'
  <2>1. tried = Append(failures, loop["inner"].last) /\ Len(failures) = model - 1
        /\ failures \in Seq(Failure) /\ model \in Nat
    BY DEF Inv, TypeOK, FailureInv
  <2>2. FailureInv'
    BY <1>1, <2>1 DEF FailureInv
  <2>3. QED
    BY <1>1, <1>4, <2>2 DEF Inv, ReportInv, FailuresAccounted
<1>7. BudgetKept'
  <2>1. \A l \in Layers : loop[l].deadline # None => now <= loop[l].deadline + Lag
    BY DEF Inv, BudgetKept
  <2>2. QED
    BY <1>1, <1>3, <1>4, <2>1 DEF BudgetKept, Layers
<1>8. ShownInv'
  BY <1>1 DEF Inv, TypeOK, ShownInv
<1>9. QED
  BY <1>1, <1>2, <1>5, <1>6, <1>7, <1>8 DEF Inv, AnswerInv, LoopInv

(* The inner layer sleeps after failure e. *)
LEMMA BackoffKeepsInv ==
  ASSUME Inv, pc = "asking", NEW e \in Failure, AttemptFails(e),
         Answered([after |-> e.after, at |-> now]), UNCHANGED <<config, now, shown>>,
         ~IsLast(policy["inner"], loop["inner"], e)
  PROVE  Inv'
<1> DEFINE p == policy["inner"]
           a == [after |-> e.after, at |-> now]
<1>1. PICK s \in Asleep(p, loop["inner"], e) : loop' = [loop EXCEPT !["inner"] = s]
  BY DEF AttemptFails
<1>2. /\ pc' = "backoff"
      /\ UNCHANGED <<model, failures, reported, result, asks, gaveUp, config, now, shown>>
      /\ tried' = Append(failures, e)
  BY TriedFailure DEF AttemptFails
<1>3. answered' = a /\ a \in Answer /\ a # None
  <2>1. answered' = a /\ a \in Answer
    BY <1>2 DEF Answered, Inv, TypeOK, Answer, Failure
  <2>2. a # None
    <3>1. a \in [after : Afters \cup {None}, at : Nat]
      BY <2>1, ChainAssumption DEF Answer
    <3>2. QED
      BY <3>1, ChainAssumption
  <2>3. QED
    BY <2>1, <2>2
<1>4. /\ s \in Loop
      /\ s.last = e /\ s.last # None
      /\ s.wakeAt # None
      /\ s.attempts < p.attempts
      /\ s.deadline = loop["inner"].deadline
      /\ s.deadline # None => s.wakeAt <= s.deadline
      /\ (e.after # None /\ p.honours /\ ~s.givesUp)
            => s.wakeAt = now + AtMost(e.after, p.cap)
  BY AsleepType DEF Inv, Layers
<1>5. loop'["inner"] = s /\ loop'["outer"] = loop["outer"] /\ policy' = policy
      /\ loop' \in [Layers -> Loop]
  BY <1>1, <1>2, <1>4 DEF Inv, TypeOK, Layers, config
<1>6. s.attempts <= p.attempts
  BY <1>4, PolicyType DEF Inv, Loop, Layers
<1>7. /\ failures \in Seq(Failure) /\ tried' \in Seq(Failure)
  BY <1>2 DEF Inv, TypeOK
<1>8. TypeOK'
  BY <1>2, <1>3, <1>5, <1>6, <1>7 DEF Inv, TypeOK, config, Answer, Layers
<1>9. Sleeps("inner")'
  <2>1. e.after # None => now + AtMost(e.after, p.cap) >= now + AtMost(e.after, p.cap)
    <3>1. e.after # None => e.after \in Nat
      BY ChainAssumption DEF Failure
    <3>2. p.cap \in Nat /\ now \in Nat
      BY PolicyType, ChainAssumption DEF Inv, TypeOK, Layers
    <3>3. QED
      BY <3>1, <3>2 DEF AtMost
  <2>2. QED
    BY <1>2, <1>3, <1>4, <1>5, <2>1 DEF Sleeps
<1>10. BudgetKept'
  <2>1. \A l \in Layers : loop[l].deadline # None => now <= loop[l].deadline + Lag
    BY DEF Inv, BudgetKept
  <2>2. QED
    BY <1>2, <1>4, <1>5, <2>1 DEF BudgetKept, Layers
<1>11. AnswerInv'
  <2>1. now <= now
    BY ChainAssumption DEF Inv, TypeOK
  <2>2. QED
    BY <1>2, <1>3, <1>4, <1>5, <2>1 DEF AnswerInv
<1>12. FailureInv' /\ ReportInv'
  BY <1>2, <1>4, <1>5 DEF Inv, FailureInv, ReportInv, FailuresAccounted
<1>13. ShownInv' /\ LoopInv'
  BY <1>2, <1>9 DEF Inv, ShownInv, LoopInv
<1>14. QED
  BY <1>8, <1>10, <1>11, <1>12, <1>13 DEF Inv

(* The whole chain is tried again. *)
LEMMA RoundKeepsInv ==
  ASSUME Inv, OuterBackoffEnds, ~loop["outer"].givesUp
  PROVE  Inv'
<1> DEFINE next == NextAttempt(loop["outer"])
           new == NewLoop(policy["inner"])
<1>1. /\ loop' = [outer |-> next, inner |-> new]
      /\ model' = 1 /\ failures' = <<>> /\ tried' = <<>>
      /\ asks' = asks + 1 /\ pc' = "asking" /\ pc = "outerBackoff"
      /\ UNCHANGED <<config, now, reported, result, gaveUp, shown>>
  BY DEF OuterBackoffEnds, Ask
<1>2. answered' = None
  BY <1>1 DEF OuterBackoffEnds, Answered, Inv, TypeOK
<1>3. /\ next \in Loop /\ next.attempts <= policy["outer"].attempts
      /\ next.deadline = loop["outer"].deadline /\ next.last = loop["outer"].last
  BY <1>1, NextAttemptType DEF Inv, LoopInv, Sleeps, Layers
<1>4. /\ new \in Loop /\ new.attempts <= policy["inner"].attempts
      /\ new.deadline # None => now <= new.deadline + Lag
  <2>1. now \in Nat
    BY ChainAssumption DEF Inv, TypeOK
  <2>2. /\ new \in Loop /\ new.attempts = 1 /\ 1 <= policy["inner"].attempts
        /\ new.deadline # None => new.deadline >= now
    BY <2>1, NewLoopType, PolicyType DEF Inv, Layers
  <2>3. new.deadline # None => new.deadline \in Nat
    BY <2>2 DEF Loop
  <2>4. QED
    BY <2>1, <2>2, <2>3, ChainAssumption
<1> HIDE DEF next, new
<1>5. /\ loop'["inner"] = new /\ loop'["outer"] = next /\ policy' = policy
      /\ loop' \in [Layers -> Loop]
  BY <1>1, <1>3, <1>4 DEF Layers, config
<1>6. TypeOK'
  <2>1. shown' \subseteq 1..asks' /\ asks' \in Nat
    BY <1>1 DEF Inv, TypeOK
  <2>2. QED
    BY <1>1, <1>2, <1>3, <1>4, <1>5, <2>1, ChainAssumption DEF Inv, TypeOK, config, Layers
<1>7. BudgetKept'
  <2>1. loop["outer"].deadline # None => now <= loop["outer"].deadline + Lag
    BY <1>1 DEF Inv, BudgetKept, Layers
  <2>2. QED
    BY <1>1, <1>3, <1>4, <1>5, <2>1 DEF BudgetKept, Layers
<1>8. ShownInv'
  BY <1>1 DEF Inv, TypeOK, ShownInv
<1>9. ReportInv'
  BY <1>1, <1>3, <1>5 DEF Inv, ReportInv, FailuresAccounted
<1>10. QED
  BY <1>1, <1>2, <1>6, <1>7, <1>8, <1>9 DEF Inv, AnswerInv, LoopInv, FailureInv

(* What the caller is owed when the call fails before any event. *)
Owed(e, fs) ==
  /\ fs = gaveUp
  /\ e = IF gaveUp = <<>> THEN TimedOut ELSE gaveUp[Len(gaveUp)]

(* The call comes to its end where it is. *)
LEMMA ReturnKeepsInv ==
  ASSUME Inv, NEW e \in Failure \cup {None}, NEW fs \in Seq(Failure), Return(e, fs),
         e # None /\ shown = {} => Owed(e, fs),
         UNCHANGED <<config, now, model, loop, failures, reported, asks, tried, gaveUp, shown>>,
         answered' = answered
  PROVE  Inv'
<1>1. TypeOK'
  BY DEF Return, Inv, TypeOK, config
<1>2. ReportInv'
  BY DEF Return, Inv, ReportInv, FailuresAccounted, Owed
<1>3. QED
  BY <1>1, <1>2 DEF Return, Inv, LoopInv, AnswerInv, FailureInv, ShownInv, BudgetKept

LEMMA SucceedKeepsInv ==
  ASSUME Inv, Succeed,
         UNCHANGED <<config, now, model, loop, failures, reported, asks, tried, gaveUp, shown>>,
         answered' = answered
  PROVE  Inv'
<1>1. Return(None, <<>>) /\ None \in Failure \cup {None} /\ <<>> \in Seq(Failure)
  BY DEF Succeed
<1>2. QED
  BY <1>1, ReturnKeepsInv

LEMMA ExceededType ==
  ASSUME TypeOK, NEW l \in Layers
  PROVE  Exceeded(loop[l]) \in Failure
<1>1. loop[l].last \in Failure \cup {None}
  BY DEF TypeOK, Loop
<1>2. QED
  BY <1>1, TimedOutType DEF Exceeded

LEMMA InvNext == Inv /\ [Next]_vars => Inv'
<1> SUFFICES ASSUME Inv, [Next]_vars PROVE Inv'
  OBVIOUS
<1>1. CASE ServerRefuses
  <2>1. PICK e \in Failure : AttemptFails(e) /\ Answered([after |-> e.after, at |-> now])
    BY <1>1 DEF ServerRefuses
  <2>2. pc = "asking" /\ UNCHANGED <<config, now, shown>> /\ tried' = Append(failures, e)
    BY <1>1, <2>1, TriedFailure DEF ServerRefuses, AttemptFails
  <2>3. CASE IsLast(policy["inner"], loop["inner"], e)
    <3>1. [after |-> e.after, at |-> now] \in Answer /\ now <= now
      BY ChainAssumption DEF Inv, TypeOK, Answer, Failure
    <3>2. Failing(e, [after |-> e.after, at |-> now]) /\ ModelFails(e)
      BY <2>1, <2>2, <2>3, <3>1 DEF Failing, AttemptFails, Answered
    <3>3. QED
      BY <2>2, <3>2, ModelFailsKeepsInv
  <2>4. CASE ~IsLast(policy["inner"], loop["inner"], e)
    BY <2>1, <2>2, <2>4, BackoffKeepsInv
  <2>5. QED
    BY <2>3, <2>4
<1>2. CASE ServerAnswers
  BY <1>2, SucceedKeepsInv DEF ServerAnswers
<1>3. CASE StreamBegins
  <2>1. CASE Succeed /\ UNCHANGED shown
    BY <1>3, <2>1, SucceedKeepsInv DEF StreamBegins
  <2>2. CASE pc' = "streaming" /\ shown' = shown \cup {asks} /\ UNCHANGED result
    <3>1. UNCHANGED <<config, now, model, loop, failures, reported, asks, answered, tried, gaveUp>>
          /\ shown' = {asks} /\ pc = "asking"
      BY <1>3, <2>2 DEF StreamBegins, Inv, ShownInv
    <3>2. TypeOK'
      BY <2>2, <3>1 DEF Inv, TypeOK, ShownInv, config
    <3>3. ReportInv'
      BY <2>2, <3>1 DEF Inv, ReportInv, FailuresAccounted
    <3>4. QED
      BY <2>2, <3>1, <3>2, <3>3 DEF Inv, LoopInv, AnswerInv, FailureInv, ShownInv, BudgetKept
  <2>3. QED
    BY <1>3, <2>1, <2>2 DEF StreamBegins
<1>4. CASE StreamContinues
  <2>1. /\ pc = "streaming" /\ shown' = {asks}
        /\ UNCHANGED <<config, now, pc, model, loop, failures, reported, result, asks, answered,
                       tried, gaveUp>>
    BY <1>4 DEF StreamContinues, Inv, ShownInv
  <2>2. TypeOK'
    BY <2>1 DEF Inv, TypeOK, ShownInv, config
  <2>3. ReportInv'
    BY <2>1 DEF Inv, ReportInv, FailuresAccounted
  <2>4. QED
    BY <2>1, <2>2, <2>3 DEF Inv, LoopInv, AnswerInv, FailureInv, ShownInv, BudgetKept
<1>5. CASE StreamEnds
  BY <1>5, SucceedKeepsInv DEF StreamEnds
<1>6. CASE StreamBreaks
  <2>1. PICK e \in Failure : Return(e, <<e>>)
    BY <1>6 DEF StreamBreaks, Surfaces
  <2>2. /\ UNCHANGED <<config, now, model, loop, failures, reported, asks, tried, gaveUp, shown>>
        /\ answered' = answered /\ pc = "streaming"
    BY <1>6 DEF StreamBreaks, Surfaces
  <2>3. <<e>> \in Seq(Failure) /\ e \in Failure \cup {None} /\ shown # {}
    BY <2>2 DEF Inv, ShownInv
  <2>4. QED
    BY <2>1, <2>2, <2>3, ReturnKeepsInv
<1>7. CASE AttemptTimesOut
  <2> DEFINE e == Exceeded(loop["inner"])
  <2>1. e \in Failure
    BY ExceededType DEF Inv, Layers
  <2>2. pc = "asking" /\ Tried(e) /\ ModelFails(e) /\ UNCHANGED <<config, now, shown>>
        /\ answered' = IF asks' = asks THEN answered ELSE None
    BY <1>7 DEF AttemptTimesOut, Answered
  <2> HIDE DEF e
  <2>3. answered = None
    BY <2>2 DEF Inv, AnswerInv
  <2>4. Failing(e, None)
    BY <2>1, <2>2, <2>3 DEF Failing
  <2>5. QED
    BY <2>1, <2>2, <2>4, TriedFailure, ModelFailsKeepsInv
<1>8. CASE BackoffEnds
  <2>1. CASE loop["inner"].givesUp
    <3> DEFINE e == loop["inner"].last
    <3>1. /\ pc = "backoff" /\ ModelFails(e) /\ UNCHANGED <<config, now, tried, shown>>
          /\ answered' = IF asks' = asks THEN answered ELSE None
      BY <1>8, <2>1 DEF BackoffEnds, Answered
    <3>2. e \in Failure /\ tried' = Append(failures, e)
      BY <3>1 DEF Inv, TypeOK, LoopInv, Sleeps, FailureInv, Layers, Loop
    <3>3. answered \in Answer /\ answered.at <= now /\ answered.after = e.after
      BY <3>1 DEF Inv, TypeOK, AnswerInv, Answer
    <3>4. Failing(e, answered)
      BY <3>1, <3>2, <3>3 DEF Failing
    <3>5. QED
      BY <3>1, <3>2, <3>4, ModelFailsKeepsInv
  <2>2. CASE ~loop["inner"].givesUp
    BY <1>8, <2>2, RetryKeepsInv DEF BackoffEnds
  <2>3. QED
    BY <2>1, <2>2
<1>9. CASE CallTimesOut
  <2>1. Exceeded(loop["outer"]) \in Failure
    BY ExceededType DEF Inv, Layers
  <2>2. reported \in Seq(Failure) /\ None \notin Failure
    BY ChainAssumption DEF Inv, TypeOK
  <2>3. \A i \in 1 .. Len(gaveUp) : gaveUp[i] \in Failure
    BY DEF Inv, TypeOK
  <2>4. Owed(Exceeded(loop["outer"]), reported)
    <3>1. loop["outer"].last = LastFailure(gaveUp) /\ reported = gaveUp /\ gaveUp \in Seq(Failure)
      BY <1>9 DEF CallTimesOut, Inv, ReportInv, TypeOK
    <3>2. gaveUp # <<>> => LastFailure(gaveUp) \in Failure
      BY <2>3, <3>1 DEF LastFailure
    <3>3. QED
      BY <2>2, <3>1, <3>2 DEF Owed, Exceeded, LastFailure
  <2>5. QED
    BY <1>9, <2>1, <2>2, <2>4, ReturnKeepsInv DEF CallTimesOut
<1>10. CASE OuterBackoffEnds
  <2>1. CASE loop["outer"].givesUp
    <3>1. /\ Return(loop["outer"].last, reported) /\ pc = "outerBackoff"
          /\ UNCHANGED <<config, now, model, loop, failures, reported, asks, tried, gaveUp, shown>>
          /\ answered' = answered
      BY <1>10, <2>1 DEF OuterBackoffEnds, Answered
    <3>2. loop["outer"].last \in Failure \cup {None} /\ reported \in Seq(Failure)
      BY DEF Inv, TypeOK, Layers, Loop
    <3>3. loop["outer"].last # None => Owed(loop["outer"].last, reported)
      BY <3>1 DEF Inv, ReportInv, LastFailure, Owed
    <3>4. QED
      BY <3>1, <3>2, <3>3, ReturnKeepsInv
  <2>2. QED
    BY <1>10, <2>1, RoundKeepsInv
<1>11. CASE Tick
  <2>1. /\ pc \in {"asking", "backoff", "outerBackoff"} /\ now' = now + 1 /\ now < MaxTime
        /\ UNCHANGED <<config, pc, model, loop, failures, reported, result, asks, answered, tried,
                       gaveUp, shown>>
        /\ \A t \in Armed : now < t + Lag
    BY <1>11 DEF Tick, Inv, TypeOK
  <2>2. now \in Nat /\ now' \in 0..MaxTime
    BY <2>1, ChainAssumption DEF Inv, TypeOK
  <2>3. TypeOK'
    BY <2>1, <2>2 DEF Inv, TypeOK, config
  <2>4. LoopInv' /\ FailureInv' /\ ReportInv' /\ ShownInv'
    BY <2>1 DEF Inv, LoopInv, Sleeps, FailureInv, ReportInv, FailuresAccounted, ShownInv, config
  <2>5. AnswerInv'
    <3>1. answered # None => answered.at \in Nat
      BY ChainAssumption DEF Inv, TypeOK
    <3>2. QED
      BY <2>1, <2>2, <3>1 DEF Inv, AnswerInv
  <2>6. ASSUME NEW l \in Layers,
               pc \in {"asking", "backoff"} \/ (l = "outer" /\ pc = "outerBackoff"),
               loop[l].deadline # None
        PROVE  now + 1 <= loop[l].deadline + Lag
    <3>1. loop[l] \in Loop /\ loop[l].deadline \in Nat
      BY <2>6 DEF Inv, TypeOK, Loop
    <3>2. loop[l].wakeAt # None => loop[l].wakeAt \in Nat
      BY <3>1 DEF Loop
    <3>3. CASE pc = "asking" \/ (pc = "backoff" /\ l = "outer")
      <4>1. loop[l].deadline \in Armed
        BY <2>6, <3>3 DEF Armed, Layers
      <4>2. QED
        BY <2>1, <2>2, <3>1, <4>1, ChainAssumption
    <3>4. CASE (pc = "backoff" /\ l = "inner") \/ (pc = "outerBackoff" /\ l = "outer")
      <4>1. Sleeps(l)
        BY <3>4 DEF Inv, LoopInv
      <4>2. loop[l].wakeAt \in Armed /\ loop[l].wakeAt <= loop[l].deadline
        BY <2>6, <3>4, <4>1 DEF Armed, Sleeps
      <4>3. QED
        BY <2>1, <2>2, <3>1, <3>2, <4>1, <4>2, ChainAssumption DEF Sleeps
    <3>5. QED
      BY <2>6, <3>3, <3>4 DEF Layers
  <2>7. BudgetKept'
    BY <2>1, <2>6 DEF BudgetKept
  <2>8. QED
    BY <2>3, <2>4, <2>5, <2>7 DEF Inv
<1>12. CASE UNCHANGED vars
  BY <1>12 DEF vars, config, Inv, TypeOK, LoopInv, Sleeps, AnswerInv, FailureInv, ReportInv,
     FailuresAccounted, ShownInv, BudgetKept
<1>13. QED
  BY <1>1, <1>2, <1>3, <1>4, <1>5, <1>6, <1>7, <1>8, <1>9, <1>10, <1>11, <1>12 DEF Next

LEMMA Invariance == Spec => []Inv
<1>1. Init => Inv
  BY InvInit
<1>2. Inv /\ [Next]_vars => Inv'
  BY InvNext
<1>3. QED
  BY <1>1, <1>2, PTL DEF Spec

----------------------------------------------------------------------------
(* What the chain promises *)

(* The caller of a stream never sees the events of two requests, and sees  *)
(* none of a request that is retried or replaced.                          *)
THEOREM ChainSpeaksWithOneVoice == Spec => []OneVoice
<1>1. Inv => OneVoice
  <2> SUFFICES ASSUME Inv PROVE OneVoice
    OBVIOUS
  <2>1. shown \subseteq {asks} /\ (shown # {} => pc \in {"streaming", "returned"})
    BY DEF Inv, TypeOK, ShownInv
  <2>2. IsFiniteSet({asks}) /\ Cardinality({asks}) = 1
    BY FS_Singleton
  <2>3. Cardinality(shown) <= 1
    BY <2>1, <2>2, FS_Subset
  <2>4. QED
    BY <2>1, <2>3 DEF OneVoice
<1>2. QED
  BY <1>1, Invariance, PTL

(* Every attempt is counted within its policy, and the caller of a call    *)
(* that fails before any event is handed the last failure of every model   *)
(* that was tried in the last round the chain gave up.                     *)
THEOREM ChainAccountsForAttempts == Spec => []AttemptsAccounted
<1>1. Inv => AttemptsAccounted
  BY DEF Inv, ReportInv, AttemptsAccounted
<1>2. QED
  BY <1>1, Invariance, PTL

(* No attempt and no wait outlives the budget of its layer.                *)
THEOREM ChainKeepsBudgets == Spec => []BudgetKept
<1>1. Inv => BudgetKept
  BY DEF Inv
<1>2. QED
  BY <1>1, Invariance, PTL

(* A model that asked for a delay is not asked again before it has passed. *)
THEOREM ChainHonoursRetryAfter == Spec => RetryAfterHonoured
<1> DEFINE layer == IF loop'["outer"].attempts # loop["outer"].attempts THEN "outer" ELSE "inner"
           Honoured == asks' # asks /\ model' = model /\ answered # None /\ answered.after # None =>
                         (policy[layer].honours =>
                            now >= answered.at + AtMost(answered.after, policy[layer].cap))
<1>1. Inv /\ [Next]_vars => [Honoured]_vars
  <2> SUFFICES ASSUME Inv, Next, asks' # asks, model' = model,
                      answered # None, answered.after # None, policy[layer].honours
               PROVE  now >= answered.at + AtMost(answered.after, policy[layer].cap)
    OBVIOUS
  <2>1. pc # "asking"
    BY DEF Inv, AnswerInv
  <2>2. ASSUME NEW l \in Layers, Sleeps(l), ~loop[l].givesUp, Passed(loop[l].wakeAt),
               policy[l].honours
        PROVE  now >= answered.at + AtMost(answered.after, policy[l].cap)
    <3>1. /\ loop[l].wakeAt >= answered.at + AtMost(answered.after, policy[l].cap)
          /\ now >= loop[l].wakeAt
      BY <2>2 DEF Sleeps, Passed
    <3>2. now \in Nat /\ loop[l].wakeAt \in Nat
      BY <2>2, ChainAssumption DEF Inv, TypeOK, Sleeps, Loop
    <3>3. answered.at \in Nat /\ answered.after \in Nat /\ policy[l].cap \in Nat
      BY PolicyType, ChainAssumption DEF Inv, TypeOK
    <3>4. QED
      BY <3>1, <3>2, <3>3 DEF AtMost
  <2>3. CASE BackoffEnds
    <3>1. ~loop["inner"].givesUp
      <4>1. model \in Nat /\ model + 1 # model
        BY DEF Inv, TypeOK
      <4>2. QED
        BY <2>3, <4>1 DEF BackoffEnds, ModelFails, OuterFails
    <3>2. pc = "backoff" /\ Passed(loop["inner"].wakeAt)
          /\ loop' = [loop EXCEPT !["inner"] = NextAttempt(@)]
      BY <2>3, <3>1 DEF BackoffEnds
    <3>3. layer = "inner"
      BY <3>2 DEF Inv, TypeOK, Layers
    <3>4. QED
      BY <2>2, <3>1, <3>2, <3>3 DEF Inv, LoopInv, Layers
  <2>4. CASE OuterBackoffEnds
    <3>1. /\ pc = "outerBackoff" /\ Passed(loop["outer"].wakeAt) /\ ~loop["outer"].givesUp
          /\ loop'["outer"] = NextAttempt(loop["outer"])
      BY <2>4 DEF OuterBackoffEnds
    <3>2. Sleeps("outer")
      BY <3>1 DEF Inv, LoopInv
    <3>3. layer = "outer"
      <4>1. NextAttempt(loop["outer"]).attempts = loop["outer"].attempts + 1
            /\ loop["outer"].attempts \in Nat
        BY <3>2, NextAttemptType DEF Inv, TypeOK, Sleeps, Layers, Loop
      <4>2. QED
        BY <3>1, <4>1
    <3>4. QED
      BY <2>2, <3>1, <3>2, <3>3 DEF Layers
  <2>5. QED
    BY <2>1, <2>3, <2>4 DEF Next, ServerRefuses, ServerAnswers, StreamBegins, StreamContinues,
      StreamEnds, StreamBreaks, Surfaces, AttemptTimesOut, CallTimesOut, Tick
<1>2. QED
  BY <1>1, Invariance, PTL DEF Spec, RetryAfterHonoured
=============================================================================
