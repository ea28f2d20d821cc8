------------------------------ MODULE AgentRun ------------------------------
(***************************************************************************)
(* serdes-ai-agent/src/run.rs: one AgentRun, the loop that asks the model, *)
(* executes the tools it calls and stops on an accepted output.            *)
(*                                                                         *)
(* The caller holds the run exclusively (step takes &mut self), so the     *)
(* concurrency is that of the cancellation token, a clone of which any     *)
(* task may hold, of the tool futures joined in one step, and of a caller  *)
(* that drops a step future at one of its awaits and calls step again.     *)
(***************************************************************************)
EXTENDS AgentCore

CONSTANTS
  Responses,         \* what the model may answer
  Validated,         \* what the validators make of an output they accept
  ParallelToolCalls, \* parallel_tool_calls of the agent
  MaxConcurrent,     \* max_concurrent_tools, None when there is no semaphore
  MaxRetries,        \* max_retries of each registered tool
  MaxOutputRetries,  \* max_output_retries of the agent
  EarlyEnd,          \* end_strategy is EndStrategy::Early
  AgentLimits,       \* usage_limits of the agent, None when there are none
  RunLimits,         \* usage_limits of the run options, None likewise
  HasTimeLimit,      \* one of the two has max_time_seconds
  Cancellable,       \* the run was made by new_with_cancel
  StepwiseCaller,    \* the caller uses step() rather than run_to_completion()
  MaxSteps           \* bound: the steps a run may take before the model fails

ASSUME RunAssumption ==
  /\ Responses \subseteq Response
  /\ Validated \in [AcceptedOutputs -> Outputs]
  /\ {ParallelToolCalls, EarlyEnd, HasTimeLimit, Cancellable, StepwiseCaller}
       \subseteq BOOLEAN
  /\ MaxConcurrent \in Nat \cup {None}
  /\ MaxRetries \in [Tools -> Nat]
  /\ MaxOutputRetries \in Nat
  /\ {AgentLimits, RunLimits} \subseteq UsageLimits \cup {None}
  /\ MaxSteps \in Nat

VARIABLES
  pc,             \* where the current step is, "done" once the caller is through
  step,
  messages,       \* the conversation, see Message
  responses,
  usage,
  output_retries,
  final_output,
  finished,
  execs,          \* the tool futures of the current step, by call position
  lost,           \* history: tool calls charged in steps that were dropped
  cancelled,      \* the token has been triggered
  overtime,       \* elapsed_seconds() has passed max_time_seconds
  outcome,        \* what the last step() returned
  result          \* the output run_to_completion returned

state == <<messages, responses, usage, output_retries, final_output, finished>>
vars == <<pc, step, state, execs, lost, cancelled, overtime, outcome, result>>

----------------------------------------------------------------------------
(* A message is the prompt the run starts from, a copy of a response (by   *)
(* its index in `responses'), the answers to the calls of that response    *)
(* (pairs of a call position and a verdict), or the retry prompt after a   *)
(* rejected output.                                                        *)

Verdict == {"returned", "error", "not_found", "cancelled"}

Message ==
  [kind: {"prompt", "retry"}]
    \cup [kind: {"response"}, of: Nat]
    \cup [kind: {"answers"}, of: Nat, answers: SUBSET (Nat \X Verdict)]

Exec == [status: Verdict \cup {"waiting", "running"}, retries: Nat]

Errors ==
  {"cancelled", "limit", "model_error", "validation_failed", "unexpected_stop"}

StepResults ==
  Errors \cup {"none", "continue", "tools_executed", "output_ready",
               "retrying_output", "finished", "dropped"}

Last == responses[Len(responses)]

Calls == DOMAIN execs

Running(p) == execs[p].status = "running"

Completed(p) == execs[p].status \in Verdict

(* The calls of the step that are counted as tool calls by now.            *)
ChargedCalls ==
  IF ParallelToolCalls THEN Calls
  ELSE {p \in Calls : execs[p].status \notin {"waiting", "cancelled"}}

Init ==
  /\ pc = "idle"
  /\ step = 0
  /\ messages = <<[kind |-> "prompt"]>>
  /\ responses = <<>>
  /\ usage = ZeroUsage
  /\ output_retries = 0
  /\ final_output = None
  /\ finished = FALSE
  /\ execs = <<>>
  /\ lost = 0
  /\ cancelled = FALSE
  /\ overtime = FALSE
  /\ outcome = "none"
  /\ result = None

(* The outputs a run may end with: the validators may change what they     *)
(* accept, so that a run need not deliver what the model wrote.            *)
ValidatedOutputs == {Validated[v] : v \in AcceptedOutputs}

(* The step returns `r' to the caller. *)
Return(r) == pc' = "idle" /\ outcome' = r

----------------------------------------------------------------------------
(* step(), up to the await on the model *)

OverLimits ==
  \/ AgentLimits # None /\ LimitExceeded(usage, AgentLimits)
  \/ RunLimits # None /\ LimitExceeded(usage, RunLimits)
  \/ overtime

(* Mutant: step() does not look whether the run is finished. *)
CallStepAgain ==
  /\ pc = "idle"
  /\ outcome \in Errors => StepwiseCaller

(* run_to_completion leaves its loop at the first error; a caller of       *)
(* step() may go on.                                                       *)
CallStep ==
  /\ pc = "idle"
  /\ ~finished
  /\ outcome \in Errors => StepwiseCaller

StepCancelled ==
  /\ CallStep
  /\ cancelled
  /\ Return("cancelled")
  /\ UNCHANGED <<step, state, execs, lost, cancelled, overtime, result>>

(* Mutant: a step over the limits asks nothing, and the run goes on. *)
SkipOverLimits ==
  /\ CallStep
  /\ ~cancelled
  /\ step < MaxSteps
  /\ OverLimits
  /\ step' = step + 1
  /\ Return("continue")
  /\ UNCHANGED <<state, execs, lost, cancelled, overtime, result>>

StepOverLimits ==
  /\ CallStep
  /\ ~cancelled
  /\ step < MaxSteps
  /\ OverLimits
  /\ step' = step + 1
  /\ Return("limit")
  /\ UNCHANGED <<state, execs, lost, cancelled, overtime, result>>

(* Mutant: the token is not looked at before a step. *)
BeginStepUnchecked ==
  /\ CallStep
  /\ step < MaxSteps
  /\ ~OverLimits
  /\ step' = step + 1
  /\ pc' = "preparing"
  /\ UNCHANGED <<state, execs, lost, cancelled, overtime, outcome, result>>

(* The checks are passed, and process_history awaits the history           *)
(* processors of the agent.                                                *)
BeginStep ==
  /\ CallStep
  /\ ~cancelled
  /\ step < MaxSteps
  /\ ~OverLimits
  /\ step' = step + 1
  /\ pc' = "preparing"
  /\ UNCHANGED <<state, execs, lost, cancelled, overtime, outcome, result>>

(* Nothing is checked again after the processors: a token triggered in     *)
(* between does not hold the request back.                                 *)
SendRequest ==
  /\ pc = "preparing"
  /\ pc' = "requesting"
  /\ UNCHANGED <<step, state, execs, lost, cancelled, overtime, outcome, result>>

----------------------------------------------------------------------------
(* The model's answer, and the start of process_response *)

ModelError ==
  /\ pc = "requesting"
  /\ Return("model_error")
  /\ UNCHANGED <<step, state, execs, lost, cancelled, overtime, result>>

(* Calls take priority over output; the parallel executor charges them all *)
(* before it polls the first.                                              *)
ModelResponse(r) ==
  /\ pc = "requesting"
  /\ step < MaxSteps
  /\ responses' = Append(responses, r)
  /\ LET charged == IF r.usage = None THEN usage ELSE AddRequest(usage, r.usage)
     IN usage' = IF ParallelToolCalls
                 THEN RecordToolCalls(charged, Cardinality(CallPositions(r)))
                 ELSE charged
  /\ execs' = [p \in CallPositions(r) |-> [status |-> "waiting", retries |-> 0]]
  /\ pc' = IF CallPositions(r) # {} THEN "tools" ELSE "output"
  /\ UNCHANGED <<step, messages, output_retries, final_output, finished,
                 lost, cancelled, overtime, outcome, result>>

----------------------------------------------------------------------------
(* execute_tool_calls *)

Finish(p, verdict) == execs' = [execs EXCEPT ![p].status = verdict]

(* The future of call p is next: in order when sequential, when it has a   *)
(* permit (if there is a semaphore) when parallel.                         *)
MayStart(p) ==
  /\ pc = "tools"
  /\ execs[p].status = "waiting"
  /\ IF ParallelToolCalls
     THEN MaxConcurrent # None =>
            Cardinality({q \in Calls : Running(q)}) < MaxConcurrent
     ELSE \A q \in Calls : q < p => Completed(q)

(* The sequential executor looks at the token before each call. *)
SkipCall(p) ==
  /\ MayStart(p)
  /\ ~ParallelToolCalls
  /\ cancelled
  /\ Finish(p, "cancelled")
  /\ UNCHANGED <<pc, step, state, lost, cancelled, overtime, outcome, result>>

(* Mutant: the parallel executor charges a call once more as it begins.    *)
StartCallCharged(p) ==
  /\ MayStart(p)
  /\ ParallelToolCalls \/ ~cancelled
  /\ usage' = RecordToolCalls(usage, 1)
  /\ Finish(p, IF Last.parts[p].tool \in Tools THEN "running" ELSE "not_found")
  /\ UNCHANGED <<pc, step, messages, responses, output_retries, final_output,
                 finished, lost, cancelled, overtime, outcome, result>>

StartCall(p) ==
  /\ MayStart(p)
  /\ ParallelToolCalls \/ ~cancelled
  /\ usage' = IF ParallelToolCalls THEN usage ELSE RecordToolCalls(usage, 1)
  /\ Finish(p, IF Last.parts[p].tool \in Tools THEN "running" ELSE "not_found")
  /\ UNCHANGED <<pc, step, messages, responses, output_retries, final_output,
                 finished, lost, cancelled, overtime, outcome, result>>

ToolReturns(p) ==
  /\ Running(p)
  /\ Finish(p, "returned")
  /\ UNCHANGED <<pc, step, state, lost, cancelled, overtime, outcome, result>>

(* A retryable error with retries left executes the tool again at once. *)
ToolRetries(p) ==
  /\ Running(p)
  /\ execs[p].retries < MaxRetries[Last.parts[p].tool]
  /\ execs' = [execs EXCEPT ![p].retries = @ + 1]
  /\ UNCHANGED <<pc, step, state, lost, cancelled, overtime, outcome, result>>

(* Any other error, and the retryable one when the retries are used up. *)
ToolFails(p) ==
  /\ Running(p)
  /\ Finish(p, "error")
  /\ UNCHANGED <<pc, step, state, lost, cancelled, overtime, outcome, result>>

(* Mutant: the first future to complete is enough. *)
SomeJoined == \E p \in Calls : Completed(p)

(* join_all, or the loop of the sequential executor, is done. *)
AllJoined == \A p \in Calls : Completed(p)

(* add_tool_returns pushes the response and its answers. *)
AddToolReturns ==
  /\ pc = "tools"
  /\ AllJoined
  /\ LET response == [kind |-> "response", of |-> Len(responses)]
         answers  == [kind |-> "answers", of |-> Len(responses),
                      answers |-> {<<p, execs[p].status>> : p \in Calls}]
     IN messages' = Append(Append(messages, response), answers)
  /\ execs' = <<>>
  /\ Return("tools_executed")
  /\ UNCHANGED <<step, responses, usage, output_retries, final_output, finished,
                 lost, cancelled, overtime, result>>

----------------------------------------------------------------------------
(* process_response of a response without calls *)

Rejected == FoundOutput(Last) # None /\ FoundOutput(Last) \notin AcceptedOutputs

(* Mutants: one correction more is asked for; the first accepted output    *)
(* is kept; the output is stored as it was before the validators changed   *)
(* it.                                                                     *)
MayAskOnceMore == output_retries <= MaxOutputRetries

KeptOutput ==
  IF final_output = None /\ FoundOutput(Last) # None
  THEN Validated[FoundOutput(Last)] ELSE final_output

ParsedOutput ==
  IF FoundOutput(Last) = None THEN final_output ELSE FoundOutput(Last)

MayAskAgain == output_retries < MaxOutputRetries

(* What final_output is once an accepted output has been stored, as the    *)
(* validators returned it.                                                 *)
StoredOutput ==
  IF FoundOutput(Last) = None THEN final_output ELSE Validated[FoundOutput(Last)]

AcceptOutputEarly ==
  /\ pc = "output"
  /\ FoundOutput(Last) \in AcceptedOutputs
  /\ EarlyEnd
  /\ final_output' = Validated[FoundOutput(Last)]
  /\ finished' = TRUE
  /\ Return("output_ready")
  /\ UNCHANGED <<step, messages, responses, usage, output_retries, execs,
                 lost, cancelled, overtime, result>>

RetryOutput ==
  /\ pc = "output"
  /\ Rejected
  /\ MayAskAgain
  /\ output_retries' = output_retries + 1
  /\ messages' = Append(messages, [kind |-> "retry"])
  /\ Return("retrying_output")
  /\ UNCHANGED <<step, responses, usage, final_output, finished, execs,
                 lost, cancelled, overtime, result>>

RejectOutput ==
  /\ pc = "output"
  /\ Rejected
  /\ ~MayAskAgain
  /\ output_retries' = output_retries + 1
  /\ Return("validation_failed")
  /\ UNCHANGED <<step, messages, responses, usage, final_output, finished, execs,
                 lost, cancelled, overtime, result>>

(* No output, or an accepted one under EndStrategy::Exhaustive, from here. *)
Settles ==
  /\ pc = "output"
  /\ ~Rejected
  /\ ~(EarlyEnd /\ FoundOutput(Last) # None)

FinishOnStop ==
  /\ Settles
  /\ Last.finish = "stop"
  /\ StoredOutput # None
  /\ final_output' = StoredOutput
  /\ finished' = TRUE
  /\ Return("finished")
  /\ UNCHANGED <<step, messages, responses, usage, output_retries, execs,
                 lost, cancelled, overtime, result>>

(* The code parses the first text once more here; it did not parse before, *)
(* or an output would have been found, and parsing is a function.          *)
UnexpectedStop ==
  /\ Settles
  /\ Last.finish = "stop"
  /\ StoredOutput = None
  /\ Return("unexpected_stop")
  /\ UNCHANGED <<step, state, execs, lost, cancelled, overtime, result>>

ContinueRun ==
  /\ Settles
  /\ Last.finish # "stop"
  /\ final_output' = StoredOutput
  /\ Return("continue")
  /\ UNCHANGED <<step, messages, responses, usage, output_retries, finished,
                 execs, lost, cancelled, overtime, result>>

----------------------------------------------------------------------------
(* The caller and its environment *)

(* finalize() consumes the run. *)
Finalize ==
  /\ pc = "idle"
  /\ finished
  /\ pc' = "done"
  /\ result' = final_output
  /\ UNCHANGED <<step, state, execs, lost, cancelled, overtime, outcome>>

(* run_to_completion returns the error; a stepwise caller may stop between *)
(* any two steps.                                                          *)
GiveUp ==
  /\ pc = "idle"
  /\ StepwiseCaller \/ outcome \in Errors
  /\ pc' = "done"
  /\ UNCHANGED <<step, state, execs, lost, cancelled, overtime, outcome, result>>

(* A stepwise caller drops the step future at an await (in a select! or a  *)
(* timeout): the processors, the request, the tools under way or the       *)
(* validator go with it, the fields already assigned stay.                 *)
DropStep ==
  /\ StepwiseCaller
  /\ \/ pc \in {"preparing", "requesting"}
     \/ pc = "tools" /\ \E p \in Calls : Running(p)
     \/ pc = "output" /\ FoundOutput(Last) # None
  /\ execs' = <<>>
  /\ lost' = lost + Cardinality(ChargedCalls)
  /\ Return("dropped")
  /\ UNCHANGED <<step, state, cancelled, overtime, result>>

(* Some holder of the token calls cancel(). *)
Cancel ==
  /\ Cancellable
  /\ pc # "done"
  /\ ~cancelled
  /\ cancelled' = TRUE
  /\ UNCHANGED <<pc, step, state, execs, lost, overtime, outcome, result>>

(* The clock passes the time limit. *)
TimePasses ==
  /\ HasTimeLimit
  /\ pc # "done"
  /\ ~overtime
  /\ overtime' = TRUE
  /\ UNCHANGED <<pc, step, state, execs, lost, cancelled, outcome, result>>

(* The run was consumed or dropped. *)
Over == pc = "done" /\ UNCHANGED vars

----------------------------------------------------------------------------
Request == BeginStep \/ SendRequest \/ StepCancelled \/ StepOverLimits

Answer == ModelError \/ \E r \in Responses : ModelResponse(r)

Tool(p) ==
  SkipCall(p) \/ StartCall(p) \/ ToolReturns(p) \/ ToolRetries(p) \/ ToolFails(p)

ProcessOutput ==
  \/ AcceptOutputEarly
  \/ RetryOutput
  \/ RejectOutput
  \/ FinishOnStop
  \/ UnexpectedStop
  \/ ContinueRun

Next ==
  \/ Request
  \/ Answer
  \/ \E p \in Calls : Tool(p)
  \/ AddToolReturns
  \/ ProcessOutput
  \/ Finalize
  \/ GiveUp
  \/ DropStep
  \/ Cancel
  \/ TimePasses
  \/ Over

Spec == Init /\ [][Next]_vars

(* The loop of run_to_completion runs until it returns, the model client   *)
(* answers or fails (its HTTP client has a timeout), and a tool returns.   *)
Fairness ==
  /\ WF_vars(Request)
  /\ WF_vars(Answer)
  /\ WF_vars(AddToolReturns)
  /\ WF_vars(ProcessOutput)
  /\ WF_vars(Finalize)
  /\ WF_vars(~StepwiseCaller /\ GiveUp)
  /\ WF_vars(\E p \in Calls : Tool(p))

FairSpec == Spec /\ Fairness

----------------------------------------------------------------------------
(* What the run promises *)

Kind(k) == messages[k].kind

TypeOK ==
  /\ pc \in {"idle", "preparing", "requesting", "tools", "output", "done"}
  /\ step \in Nat
  /\ messages \in Seq(Message)
  /\ responses \in Seq(Responses)
  /\ usage \in RunUsage
  /\ output_retries \in Nat
  /\ final_output \in ValidatedOutputs \cup {None}
  /\ finished \in BOOLEAN
  /\ execs \in [Calls -> Exec]
  /\ lost \in Nat
  /\ cancelled \in BOOLEAN
  /\ overtime \in BOOLEAN
  /\ outcome \in StepResults
  /\ result \in ValidatedOutputs \cup {None}

(* `answers' holds one verdict for each call of response r, and no other.  *)
AnswersCalls(answers, r) ==
  /\ \A p \in CallPositions(r) :
       \E v \in Verdict : \A w \in Verdict : <<p, w>> \in answers <=> w = v
  /\ \A a \in answers : a[1] \in CallPositions(r)

(* Every response in the conversation is followed by the answers to its    *)
(* calls, each call answered once, and answers stand nowhere else, whatever*)
(* was cancelled, failed or dropped.                                       *)
CallsAnswered ==
  \A k \in DOMAIN messages :
    /\ Kind(k) = "response" =>
         /\ k + 1 \in DOMAIN messages
         /\ Kind(k + 1) = "answers"
         /\ messages[k + 1].of = messages[k].of
    /\ Kind(k) = "answers" =>
         /\ k - 1 \in DOMAIN messages
         /\ Kind(k - 1) = "response"
         /\ messages[k].of \in DOMAIN responses
         /\ AnswersCalls(messages[k].answers, responses[messages[k].of])

(* The output of a run is what the validators made of the one the last     *)
(* response without pending calls carried: neither a rejected or superseded*)
(* value, nor one taken from a response whose tools were still to run, nor *)
(* the model's own where the validators changed it.                        *)
OutputProvenance ==
  /\ finished => final_output # None
  /\ final_output # None =>
       \E i \in DOMAIN responses :
         /\ CallPositions(responses[i]) = {}
         /\ FoundOutput(responses[i]) \in AcceptedOutputs
         /\ Validated[FoundOutput(responses[i])] = final_output
         /\ ~StepwiseCaller =>
              \A j \in i + 1 .. Len(responses) :
                \/ CallPositions(responses[j]) # {}
                \/ FoundOutput(responses[j]) \notin AcceptedOutputs
                \/ j = Len(responses) /\ pc = "output"

(* The model is asked to correct its output at most MaxOutputRetries times *)
(* and is told of every rejection but the ones that end a step in error.   *)
RetryBudget ==
  LET retries == Cardinality({k \in DOMAIN messages : Kind(k) = "retry"})
  IN IF output_retries <= MaxOutputRetries
     THEN retries = output_retries
     ELSE retries = MaxOutputRetries

(* What a run hands out was accepted, and it asked no more than it may. *)
OutputAccounted == OutputProvenance /\ RetryBudget

(* Usage is what happened: one request per response that reported usage,   *)
(* one tool call per answer that was not a cancellation, call that is being*)
(* worked out, or call that went with a dropped step.                      *)
AnsweredCalls ==
  UNION { {<<k, a>> : a \in {b \in messages[k].answers : b[2] # "cancelled"}} :
            k \in {j \in DOMAIN messages : Kind(j) = "answers"} }

UsageIsExact ==
  /\ usage.requests = Cardinality({i \in DOMAIN responses : responses[i].usage # None})
  /\ usage.tool_calls =
       Cardinality(AnsweredCalls) + Cardinality(ChargedCalls) + lost

(* A limit is overshot by at most one request, and by the calls of at most *)
(* one response: what one step can spend between two checks.               *)
OvershootBounded ==
  \A limits \in {AgentLimits, RunLimits} \ {None} :
    /\ limits.requests # None => usage.requests <= limits.requests + 1
    /\ limits.tool_calls # None /\ usage.tool_calls > limits.tool_calls =>
         \E r \in Responses :
           usage.tool_calls <= limits.tool_calls + Cardinality(CallPositions(r))

(* A run to completion with a request limit begins at most one step more   *)
(* than the limit and its overshoot allow, when every response reports its *)
(* usage.  A stepwise caller may step on past failing requests for ever.   *)
StepsBounded ==
  (/\ ~StepwiseCaller
   /\ RunLimits # None
   /\ RunLimits.requests # None
   /\ \A r \in Responses : r.usage # None)
    => step <= RunLimits.requests + 2

(* What is charged is what happened, and so limits bound the run. *)
UsageAccounted == UsageIsExact /\ OvershootBounded /\ StepsBounded

(* Whatever was cancelled, failed or dropped, the calls that enter the     *)
(* conversation are answered, and what was charged is accounted for.       *)
WorkAccounted == CallsAnswered /\ UsageAccounted

(* After cancel() no step begins, and the sequential executor starts no    *)
(* further tool.  One request may still be sent: that of a step that passed*)
(* its check of the token before, and was preparing the history.           *)
NoWorkAfterCancel ==
  [][ cancelled =>
        /\ step' = step
        /\ pc' = "preparing" => pc = "preparing"
        /\ pc' = "requesting" => pc \in {"preparing", "requesting"}
        /\ ~ParallelToolCalls => \A p \in Calls :
             (p \in DOMAIN execs' /\ execs'[p].status = "running") => Running(p) ]_vars

(* A finished run is frozen: no later step, cancellation or drop changes   *)
(* its conversation, its usage or its output.                              *)
FinishedIsFinal == [][finished => UNCHANGED state]_vars

(* A run whose responses report their usage and that has a request limit   *)
(* ends, though the model may go on calling tools for ever: each step      *)
(* returns, and the limit stops it (StepsBounded: not the bound on steps). *)
RunEnds == <>(pc = "done")

(* The conversation an AgentRun carries on. *)
AbstractStatus ==
  IF pc = "done" THEN "closed" ELSE IF finished THEN "finished" ELSE "open"

AbstractOutput ==
  IF pc = "done" THEN result ELSE IF finished THEN final_output ELSE None

Abstract ==
  INSTANCE Conversation WITH
    AcceptedOutputs <- ValidatedOutputs,
    messages <- messages, rejections <- output_retries,
    status <- AbstractStatus, output <- AbstractOutput

(* Steps, tool executions, drops and cancellations of a run are invisible, *)
(* but for the exchanges, corrections and the end they lead to.            *)
ImplementsConversation == Abstract!Spec
=============================================================================
