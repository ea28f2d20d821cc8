----------------------------- MODULE ModelChain -----------------------------
(***************************************************************************)
(* One model call through the decorators of serdes-ai-models: a            *)
(* RetryingModel around a FallbackModel around RetryingModels (retry.rs,   *)
(* fallback.rs), each retry loop being with_retry_policy of                *)
(* serdes-ai-retries/src/executor.rs.  A layer that is not there is the    *)
(* policy with one attempt and no budget.  Time is counted in ticks.       *)
(***************************************************************************)
EXTENDS Integers, FiniteSets, Sequences

CONSTANTS
  Models,     \* number of models in the chain
  Policies,   \* the retry policies of the two layers: [Layers -> Policy]
  RetryOns,   \* the fallback policies: "any", "rate", "transient"
  Modes,      \* how the model is called: "request", "stream"
  Afters,     \* the delays a server may ask for
  Lag,        \* how late a timer may fire
  MaxTime,    \* bound: ticks
  None

Layers == {"outer", "inner"}

(* honours: WaitStrategy::RetryAfter with its max_wait `cap`; the backoff  *)
(* doubles from `initial` up to `max`, give or take `jitter`.              *)
Policy == [attempts : Nat \ {0}, budget : Nat \cup {None}, honours : BOOLEAN,
           cap : Nat, initial : Nat, max : Nat, jitter : Nat]

Kinds == {"rate", "transient", "permanent"}

(* A failure as the policies see it; the failures of the decorators count  *)
(* as the last one they report.                                            *)
Failure == [kind : Kinds, after : Afters \cup {None}]
TimedOut == [kind |-> "transient", after |-> None]

ASSUME ChainAssumption ==
  /\ Models \in Nat \ {0}
  /\ Policies \subseteq [Layers -> Policy]
  /\ RetryOns \subseteq {"any", "rate", "transient"}
  /\ Modes \subseteq {"request", "stream"}
  /\ Afters \subseteq Nat
  /\ Lag \in Nat /\ MaxTime \in Nat
  /\ None \notin Int \cup Failure \cup [after : Afters \cup {None}, at : Nat]

VARIABLES
  policy, retryOn, mode,  \* what the call was made with
  now,       \* the clock
  pc,        \* asking, backoff, outerBackoff, streaming, returned
  model,     \* the model being tried
  loop,      \* per layer: the attempts, deadline, last failure and wakeup
  failures,  \* `attempts` of the fallback: failures of the models before
  reported,  \* the failures that the outer loop's last error lists
  result,    \* what the caller got
  asks,      \* ghost: requests sent
  answered,  \* ghost: the failure the last request was answered with, and when
  tried,     \* ghost: per model of this round, its last failure
  gaveUp,    \* ghost: `tried` of the last round that the chain gave up
  shown      \* ghost: the requests whose events the caller has seen

config == <<policy, retryOn, mode>>
vars == <<config, now, pc, model, loop, failures, reported, result, asks, answered,
          tried, gaveUp, shown>>

Loop == [attempts : Nat \ {0}, deadline : Nat \cup {None}, last : Failure \cup {None},
         wakeAt : Nat \cup {None}, givesUp : BOOLEAN]

TypeOK ==
  /\ policy \in Policies /\ retryOn \in RetryOns /\ mode \in Modes
  /\ now \in 0..MaxTime
  /\ pc \in {"asking", "backoff", "outerBackoff", "streaming", "returned"}
  /\ model \in 1..Models
  /\ loop \in [Layers -> Loop]
  /\ \A l \in Layers : loop[l].attempts <= policy[l].attempts
  /\ failures \in Seq(Failure) /\ Len(failures) < Models
  /\ {reported, gaveUp} \subseteq Seq(Failure)
  /\ result \in {None} \cup [error : Failure \cup {None}, failures : Seq(Failure)]
  /\ asks \in Nat
  /\ answered \in {None} \cup [after : Afters \cup {None}, at : 0..MaxTime]
  /\ tried \in Seq(Failure)
  /\ shown \subseteq 1..asks

----------------------------------------------------------------------------
(* executor.rs with_retry_policy and config.rs *)

(* Mutant: the budget bounds the waits and not the attempts. *)
NewUntimedLoop(p) ==
  [attempts |-> 1, deadline |-> None, last |-> None, wakeAt |-> None, givesUp |-> FALSE]

NewLoop(p) ==
  [attempts |-> 1, deadline |-> IF p.budget = None THEN None ELSE now + p.budget,
   last |-> None, wakeAt |-> None, givesUp |-> FALSE]

AtMost(a, b) == IF a < b THEN a ELSE b

Backoff(p, attempt) ==
  {AtMost(p.initial * 2^(attempt - 1) + j, p.max) : j \in -p.jitter..p.jitter} \cap Nat

(* Mutant: the delay the server asked for is forgotten. *)
WaitsBackoff(p, attempt, after) == Backoff(p, attempt)

Waits(p, attempt, after) ==
  IF p.honours /\ after # None THEN {AtMost(after, p.cap)} ELSE Backoff(p, attempt)

Passed(t) == t # None /\ now >= t

Retryable(e) == e.kind \in {"rate", "transient"}

(* A loop that has seen failure e ends with it... *)
IsLast(p, l, e) ==
  \/ ~Retryable(e)
  \/ l.attempts >= p.attempts
  \/ Passed(l.deadline)

(* Mutant: a wait may go past the deadline. *)
AnyWait(l, wakeAt) == FALSE

TooLate(l, wakeAt) == l.deadline # None /\ wakeAt >= l.deadline

(* ... or sleeps, to the deadline when the wait would reach it.            *)
Asleep(p, l, e) ==
  {LET at == now + w IN
   [l EXCEPT !.last = e, !.givesUp = TooLate(l, at),
             !.wakeAt = IF TooLate(l, at) THEN l.deadline ELSE at] :
   w \in Waits(p, l.attempts, e.after)}

NextAttempt(l) == [l EXCEPT !.attempts = @ + 1, !.wakeAt = None]

(* A budget that runs out is reported as the last failure, or as a timeout *)
(* when no attempt has failed yet.                                         *)
Exceeded(l) == IF l.last = None THEN TimedOut ELSE l.last

----------------------------------------------------------------------------
(* The layers, from the inside out *)

Return(e, fs) ==
  /\ pc' = "returned"
  /\ result' = [error |-> e, failures |-> fs]

Succeed == Return(None, <<>>)

(* fallback.rs finish_failure: the error lists the failures of all models  *)
(* tried, its own last; a single one goes as it is.                        *)
OuterFails(e) ==
  /\ reported' = Append(failures, e)
  /\ gaveUp' = tried'
  /\ IF IsLast(policy["outer"], loop["outer"], e)
     THEN /\ Return(e, reported')
          /\ UNCHANGED loop
     ELSE /\ \E l \in Asleep(policy["outer"], loop["outer"], e) :
               loop' = [loop EXCEPT !["outer"] = l]
          /\ pc' = "outerBackoff"
          /\ UNCHANGED result
  /\ UNCHANGED <<model, failures, asks>>

Ask == asks' = asks + 1 /\ pc' = "asking"

(* RetryOn::should_retry *)
MayFallBack(e) ==
  CASE retryOn = "any" -> TRUE
    [] retryOn = "rate" -> e.kind = "rate"
    [] OTHER -> e.kind = "transient"

(* Mutant: the failure of the model given up is not recorded. *)
Forgotten(e) == failures

Recorded(e) == Append(failures, e)

(* fallback.rs request and request_stream: the next model, unless this is  *)
(* the last one or the policy does not allow it.                           *)
ModelFails(e) ==
  IF model < Models /\ MayFallBack(e)
  THEN /\ model' = model + 1
       /\ failures' = Recorded(e)
       /\ loop' = [loop EXCEPT !["inner"] = NewLoop(policy["inner"])]
       /\ Ask
       /\ UNCHANGED <<result, reported, gaveUp>>
  ELSE OuterFails(e)

Tried(e) == tried' = Append(SubSeq(tried, 1, model - 1), e)

AttemptFails(e) ==
  /\ Tried(e)
  /\ IF IsLast(policy["inner"], loop["inner"], e)
     THEN ModelFails(e)
     ELSE /\ \E l \in Asleep(policy["inner"], loop["inner"], e) :
               loop' = [loop EXCEPT !["inner"] = l]
          /\ pc' = "backoff"
          /\ UNCHANGED <<model, failures, reported, result, asks, gaveUp>>

----------------------------------------------------------------------------
(* What happens to the call *)

Init ==
  /\ policy \in Policies /\ retryOn \in RetryOns /\ mode \in Modes
  /\ now = 0
  /\ pc = "asking"
  /\ model = 1
  /\ loop = [l \in Layers |-> NewLoop(policy[l])]
  /\ failures = <<>>
  /\ reported = <<>>
  /\ result = None
  /\ asks = 1
  /\ answered = None
  /\ tried = <<>>
  /\ gaveUp = <<>>
  /\ shown = {}

(* A new request is not answered yet. *)
Answered(failure) == answered' = IF asks' = asks THEN failure ELSE None

(* A failure, of the request or in place of a stream's first event.        *)
ServerRefuses ==
  /\ pc = "asking"
  /\ \E e \in Failure :
       /\ AttemptFails(e)
       /\ Answered([after |-> e.after, at |-> now])
  /\ UNCHANGED <<config, now, shown>>

ServerAnswers ==
  /\ pc = "asking" /\ mode = "request"
  /\ Succeed
  /\ UNCHANGED <<config, now, model, loop, failures, reported, asks, answered, tried, gaveUp, shown>>

(* The first event selects the stream; one that ends at once is selected   *)
(* as well.                                                                *)
StreamBegins ==
  /\ pc = "asking" /\ mode = "stream"
  /\ \/ pc' = "streaming" /\ shown' = shown \cup {asks} /\ UNCHANGED result
     \/ Succeed /\ UNCHANGED shown
  /\ UNCHANGED <<config, now, model, loop, failures, reported, asks, answered, tried, gaveUp>>

StreamContinues ==
  /\ pc = "streaming"
  /\ shown' = shown \cup {asks}
  /\ UNCHANGED <<config, now, pc, model, loop, failures, reported, result, asks, answered, tried,
                 gaveUp>>

StreamEnds ==
  /\ pc = "streaming"
  /\ Succeed
  /\ UNCHANGED <<config, now, model, loop, failures, reported, asks, answered, tried, gaveUp, shown>>

(* Mutant: a failure falls back wherever the stream was. *)
FallsBack(e) == ModelFails(e)

(* A failure after the first event goes to the caller as it is.            *)
Surfaces(e) ==
  /\ Return(e, <<e>>)
  /\ UNCHANGED <<model, loop, failures, reported, asks, gaveUp>>

StreamBreaks ==
  /\ pc = "streaming"
  /\ \E e \in Failure : Surfaces(e)
  /\ UNCHANGED <<config, now, answered, tried, gaveUp, shown>>

(* timeout_at drops the attempt in flight.                                 *)
AttemptTimesOut ==
  /\ pc = "asking"
  /\ Passed(loop["inner"].deadline)
  /\ Tried(Exceeded(loop["inner"]))
  /\ ModelFails(Exceeded(loop["inner"]))
  /\ Answered(answered)
  /\ UNCHANGED <<config, now, shown>>

BackoffEnds ==
  /\ pc = "backoff"
  /\ Passed(loop["inner"].wakeAt)
  /\ UNCHANGED <<config, now, tried, shown>>
  /\ IF loop["inner"].givesUp
     THEN ModelFails(loop["inner"].last)
     ELSE /\ loop' = [loop EXCEPT !["inner"] = NextAttempt(@)]
          /\ Ask
          /\ UNCHANGED <<model, failures, reported, result, gaveUp>>
  /\ Answered(answered)

(* The outer budget drops whatever the chain is doing; the error is that   *)
(* of the round before.                                                    *)
CallTimesOut ==
  /\ pc \in {"asking", "backoff"}
  /\ Passed(loop["outer"].deadline)
  /\ Return(Exceeded(loop["outer"]), reported)
  /\ UNCHANGED <<config, now, model, loop, failures, reported, asks, answered, tried, gaveUp, shown>>

(* The whole chain again, with nothing kept of the last round.             *)
OuterBackoffEnds ==
  /\ pc = "outerBackoff"
  /\ Passed(loop["outer"].wakeAt)
  /\ IF loop["outer"].givesUp
     THEN /\ Return(loop["outer"].last, reported)
          /\ UNCHANGED <<model, loop, failures, asks, tried>>
     ELSE /\ loop' = [outer |-> NextAttempt(loop["outer"]),
                      inner |-> NewLoop(policy["inner"])]
          /\ model' = 1
          /\ failures' = <<>>
          /\ tried' = <<>>
          /\ Ask
          /\ UNCHANGED result
  /\ Answered(answered)
  /\ UNCHANGED <<config, now, reported, gaveUp, shown>>

(* The timers that are armed; the clock does not leave one behind by more  *)
(* than Lag.                                                               *)
Armed ==
  (CASE pc = "asking" -> {loop["inner"].deadline, loop["outer"].deadline}
     [] pc = "backoff" -> {loop["inner"].wakeAt, loop["outer"].deadline}
     [] pc = "outerBackoff" -> {loop["outer"].wakeAt}
     [] OTHER -> {}) \ {None}

Tick ==
  /\ pc \notin {"streaming", "returned"}
  /\ now < MaxTime
  /\ \A t \in Armed : now < t + Lag
  /\ now' = now + 1
  /\ UNCHANGED <<config, pc, model, loop, failures, reported, result, asks, answered, tried, gaveUp,
                 shown>>

Timers == AttemptTimesOut \/ BackoffEnds \/ CallTimesOut \/ OuterBackoffEnds

Next ==
  \/ ServerRefuses
  \/ ServerAnswers
  \/ StreamBegins
  \/ StreamContinues
  \/ StreamEnds
  \/ StreamBreaks
  \/ AttemptTimesOut
  \/ BackoffEnds
  \/ CallTimesOut
  \/ OuterBackoffEnds
  \/ Tick

Spec == Init /\ [][Next]_vars

(* Time passes and timers fire; the servers owe no answer.                 *)
FairSpec == Spec /\ WF_vars(Tick) /\ WF_vars(Timers)

----------------------------------------------------------------------------
(* Properties *)

(* The caller sees the events of one request only: no model's output is    *)
(* replayed by another attempt or concatenated with another model's        *)
(* (fallback.rs:64).                                                       *)
OneVoice ==
  /\ Cardinality(shown) <= 1
  /\ shown # {} => pc \in {"streaming", "returned"}

(* The caller of a call that fails before any event is handed the last     *)
(* failure of every model tried in the last round that the chain gave up,  *)
(* in order, and an error like the last of them: nothing of an earlier     *)
(* round and nothing of one that the outer budget cut short; a mere        *)
(* timeout when there was no round before that (fallback.rs                *)
(* finish_failure, retry.rs adapt_failure).                                *)
FailuresAccounted ==
  /\ pc = "outerBackoff" => gaveUp = tried /\ model = Len(tried)
  /\ pc = "returned" /\ result.error # None /\ shown = {} =>
       /\ result.failures = gaveUp
       /\ result.error = IF gaveUp = <<>> THEN TimedOut ELSE gaveUp[Len(gaveUp)]

(* Every attempt is counted and every failure reported. *)
AttemptsAccounted == TypeOK /\ FailuresAccounted

(* A model that asks for a delay is not asked again right after its answer *)
(* before the delay, or the cap on it, has passed, whichever layer asks    *)
(* again and through however many wrapped errors the delay had to travel   *)
(* (error.rs retry_after, config.rs calculate).  When another request came *)
(* between, the delay is forgotten: a chain that fell back and is retried  *)
(* as a whole waits as its last failure says.                              *)
RetryAfterHonoured ==
  [][asks' # asks /\ model' = model
     /\ answered # None /\ answered.after # None =>
       LET p == policy[IF loop'["outer"].attempts # loop["outer"].attempts
                       THEN "outer" ELSE "inner"]
       IN p.honours => now >= answered.at + AtMost(answered.after, p.cap)]_vars

(* No attempt and no wait of a layer outlives the layer's budget by more   *)
(* than a timer's delay: there is always a timer that ends it (executor.rs *)
(* deadline).                                                              *)
BudgetKept ==
  \A l \in Layers :
    /\ pc \in {"asking", "backoff"} \/ (l = "outer" /\ pc = "outerBackoff")
    /\ loop[l].deadline # None
    => now <= loop[l].deadline + Lag

(* With a budget in either layer the call comes to its end, or to its      *)
(* stream, although no server answers.                                     *)
CallReturns ==
  (\E l \in Layers : policy[l].budget # None) => <>(pc \in {"streaming", "returned"})
=============================================================================
