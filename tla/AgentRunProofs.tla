--------------------------- MODULE AgentRunProofs ---------------------------
(***************************************************************************)
(* Theorems about every AgentRun: whatever the tools, the responses of the *)
(* model, the limits, the executor and the caller.                         *)
(***************************************************************************)
EXTENDS AgentRun, FiniteSetTheorems, TLAPS

----------------------------------------------------------------------------
(* Sequences *)

(* The positions of s that hold an element of T. *)
Positions(s, T) == {i \in DOMAIN s : s[i] \in T}

(* An element more is a position more, if it is one of those counted.      *)
LEMMA AppendPositions ==
  ASSUME NEW S, NEW s \in Seq(S), NEW e \in S, NEW T
  PROVE  /\ Cardinality(Positions(s, T)) \in Nat
         /\ Cardinality(Positions(Append(s, e), T)) =
              Cardinality(Positions(s, T)) + IF e \in T THEN 1 ELSE 0
<1>1. /\ DOMAIN s = 1 .. Len(s) /\ Len(s) \in Nat
      /\ DOMAIN Append(s, e) = DOMAIN s \cup {Len(s) + 1}
      /\ \A i \in DOMAIN s : Append(s, e)[i] = s[i]
      /\ Append(s, e)[Len(s) + 1] = e
      /\ Len(s) + 1 \notin DOMAIN s
  OBVIOUS
<1>2. IsFiniteSet(Positions(s, T)) /\ Cardinality(Positions(s, T)) \in Nat
  <2>1. IsFiniteSet(1 .. Len(s)) /\ Positions(s, T) \in SUBSET (1 .. Len(s))
    BY <1>1, FS_Interval DEF Positions
  <2>2. QED
    BY <2>1, FS_Subset, FS_CardinalityType
<1>3. CASE e \in T
  <2>1. Positions(Append(s, e), T) = Positions(s, T) \cup {Len(s) + 1}
    BY <1>1, <1>3 DEF Positions
  <2>2. Len(s) + 1 \notin Positions(s, T)
    BY <1>1 DEF Positions
  <2>3. QED
    BY <1>2, <1>3, <2>1, <2>2, FS_AddElement
<1>4. CASE e \notin T
  <2>1. Positions(Append(s, e), T) = Positions(s, T)
    BY <1>1, <1>4 DEF Positions
  <2>2. QED
    BY <1>2, <1>4, <2>1
<1>5. QED
  BY <1>2, <1>3, <1>4

----------------------------------------------------------------------------
(* Lemmas about responses and usage *)

(* The calls of a response are finitely many of its positions. *)
LEMMA CallPositionsFinite ==
  ASSUME NEW r \in Response
  PROVE  /\ CallPositions(r) \subseteq DOMAIN r.parts
         /\ CallPositions(r) \subseteq Nat
         /\ IsFiniteSet(CallPositions(r))
         /\ Cardinality(CallPositions(r)) \in Nat
<1>1. /\ CallPositions(r) \subseteq DOMAIN r.parts
      /\ DOMAIN r.parts = 1 .. Len(r.parts)
      /\ Len(r.parts) \in Nat
  BY DEF CallPositions, Response
<1>2. IsFiniteSet(1 .. Len(r.parts))
  BY <1>1, FS_Interval
<1>3. IsFiniteSet(CallPositions(r))
  BY <1>1, <1>2, FS_Subset
<1>4. QED
  BY <1>1, <1>3, FS_CardinalityType

(* Counting a response or its calls keeps usage a record of counters. *)
LEMMA UsageType ==
  ASSUME NEW u \in RunUsage
  PROVE  /\ \A n \in Nat : RecordToolCalls(u, n) \in RunUsage
         /\ \A r \in RequestUsage : AddRequest(u, r) \in RunUsage
<1>1. \A n \in Nat : RecordToolCalls(u, n) \in RunUsage
  BY DEF RecordToolCalls, RunUsage
<1>2. ASSUME NEW r \in RequestUsage
      PROVE  AddRequest(u, r) \in RunUsage
  <2> DEFINE request == u.request_tokens + r.request_tokens
             response == u.response_tokens + r.response_tokens
             total == IF r.total_tokens = None THEN request + response
                      ELSE u.total_tokens + r.total_tokens
  <2>1. request \in Nat /\ response \in Nat /\ total \in Nat /\ u.requests + 1 \in Nat
    BY DEF RunUsage, RequestUsage
  <2>2. AddRequest(u, r) =
          [u EXCEPT !.request_tokens = request, !.response_tokens = response,
                    !.total_tokens = total, !.requests = u.requests + 1]
    BY DEF AddRequest
  <2> HIDE DEF request, response, total
  <2>3. QED
    BY <2>1, <2>2 DEF RunUsage
<1>3. QED
  BY <1>1, <1>2

----------------------------------------------------------------------------
(* Typing, with what the place of the step says of its tool futures *)

(* The futures of a step are those of the calls of its response; there are *)
(* none while no tool runs, and one at least while some do; and a step past*)
(* the model has a response.                                               *)
StepInv ==
  /\ pc \in {"tools", "output"} => responses # <<>>
  /\ pc = "tools" => Calls = CallPositions(Last) /\ Calls # {}
  /\ pc # "tools" => Calls = {}
  /\ pc = "output" => CallPositions(Last) = {}

Inv1 == TypeOK /\ StepInv

(* A new run is typed and has no tool futures. *)
LEMMA Inv1Init == Init => Inv1
<1> SUFFICES ASSUME Init PROVE Inv1
  OBVIOUS
<1>1. messages \in Seq(Message)
  <2>1. [kind |-> "prompt"] \in Message
    BY DEF Message
  <2>2. QED
    BY <2>1 DEF Init
<1>2. responses \in Seq(Responses)
  BY DEF Init
<1>3. usage \in RunUsage
  BY DEF Init, RunUsage, ZeroUsage
<1>4. Calls = {} /\ execs \in [Calls -> Exec]
  BY DEF Init, Calls
<1>5. QED
  BY <1>1, <1>2, <1>3, <1>4 DEF Init, Inv1, TypeOK, StepInv, StepResults

(* The futures of a step are finitely many. *)
LEMMA CallsFinite ==
  ASSUME Inv1
  PROVE  Calls \subseteq Nat /\ IsFiniteSet(Calls)
<1>1. CASE pc = "tools"
  <2>1. Last \in Response
    BY <1>1, RunAssumption DEF Inv1, TypeOK, StepInv, Last
  <2>2. QED
    BY <1>1, <2>1, CallPositionsFinite DEF Inv1, StepInv
<1>2. CASE pc # "tools"
  BY <1>2, FS_EmptySet DEF Inv1, StepInv
<1>3. QED
  BY <1>1, <1>2

(* The futures charged are finitely many. *)
LEMMA ChargedCallsFinite ==
  ASSUME Inv1
  PROVE  /\ ChargedCalls \subseteq Calls
         /\ IsFiniteSet(ChargedCalls)
         /\ Cardinality(ChargedCalls) \in Nat
<1>1. ChargedCalls \subseteq Calls
  BY DEF ChargedCalls
<1>2. ChargedCalls \in SUBSET Calls /\ IsFiniteSet(Calls)
  BY <1>1, CallsFinite
<1>3. QED
  BY <1>1, <1>2, FS_Subset, FS_CardinalityType

(* Every action keeps the types, and the futures those of the step under   *)
(* way.                                                                    *)
LEMMA Inv1Next == Inv1 /\ [Next]_vars => Inv1'
<1> SUFFICES ASSUME Inv1, [Next]_vars PROVE Inv1'
  OBVIOUS
<1> USE DEF Inv1
<1>a. \A r \in Responses : r \in Response
  BY RunAssumption
<1>b. pc \in {"tools", "output"} => Last \in Responses
  BY DEF TypeOK, StepInv, Last
<1>1. CASE Request
  <2>1. /\ pc \in {"idle", "preparing"}
        /\ pc' \in {"idle", "preparing", "requesting"}
        /\ step' \in Nat
        /\ outcome' \in StepResults
        /\ UNCHANGED <<state, execs, lost, cancelled, overtime, result>>
    BY <1>1 DEF Request, BeginStep, SendRequest, StepCancelled, StepOverLimits, CallStep, Return,
                TypeOK, StepResults, Errors
  <2>2. QED
    BY <2>1 DEF TypeOK, StepInv, state, Calls
<1>2. CASE ModelError
  BY <1>2 DEF ModelError, Return, TypeOK, StepInv, state, Last, Calls, StepResults, Errors
<1>3. ASSUME NEW r \in Responses, ModelResponse(r)
      PROVE  Inv1'
  <2>1. /\ CallPositions(r) \subseteq Nat
        /\ Cardinality(CallPositions(r)) \in Nat
    BY <1>a, CallPositionsFinite
  <2>2. usage' \in RunUsage
    BY <1>3, <1>a, <2>1, UsageType DEF ModelResponse, TypeOK, Response
  <2>3. /\ responses' = Append(responses, r)
        /\ responses' \in Seq(Responses)
        /\ Len(responses') = Len(responses) + 1
        /\ Len(responses) \in Nat
    BY <1>3 DEF ModelResponse, TypeOK
  <2>4. Last' = r /\ responses' # <<>>
    BY <2>3 DEF Last
  <2>5. /\ Calls' = CallPositions(r)
        /\ execs' \in [Calls' -> Exec]
    BY <1>3 DEF ModelResponse, Calls, Exec
  <2>6. TypeOK'
    BY <1>3, <2>2, <2>3, <2>5 DEF ModelResponse, TypeOK
  <2>7. StepInv'
    BY <1>3, <2>4, <2>5 DEF ModelResponse, StepInv
  <2>8. QED
    BY <2>6, <2>7
<1>4. ASSUME NEW p \in Calls, Tool(p)
      PROVE  Inv1'
  <2>0. pc = "tools"
    BY <1>4 DEF StepInv
  <2>1. UNCHANGED <<pc, responses>>
    BY <1>4 DEF Tool, SkipCall, StartCall, ToolReturns, ToolRetries, ToolFails, state
  <2>2. execs' \in [Calls -> Exec] /\ Calls' = Calls
    <3>1. execs \in [Calls -> Exec]
      BY DEF TypeOK
    <3>2. \/ execs' = [execs EXCEPT ![p].retries = @ + 1]
          \/ \E v \in Verdict \cup {"running"} : execs' = [execs EXCEPT ![p].status = v]
      BY <1>4 DEF Tool, SkipCall, StartCall, ToolReturns, ToolRetries, ToolFails, Finish,
                  Verdict
    <3>3. QED
      BY <3>1, <3>2 DEF Exec, Calls
  <2>3. usage' \in RunUsage
    BY <1>4, UsageType DEF Tool, SkipCall, StartCall, ToolReturns, ToolRetries, ToolFails,
                TypeOK, state
  <2>4. UNCHANGED <<step, messages, responses, output_retries, final_output, finished,
                    lost, cancelled, overtime, outcome, result, pc>>
    BY <1>4 DEF Tool, SkipCall, StartCall, ToolReturns, ToolRetries, ToolFails, state
  <2>5. TypeOK'
    BY <2>2, <2>3, <2>4 DEF TypeOK
  <2>6. StepInv'
    BY <2>0, <2>1, <2>2 DEF StepInv, Last
  <2>7. QED
    BY <2>5, <2>6
<1>5. CASE AddToolReturns
  <2>1. messages' \in Seq(Message)
    <3> DEFINE response == [kind |-> "response", of |-> Len(responses)]
               answers == [kind |-> "answers", of |-> Len(responses),
                           answers |-> {<<p, execs[p].status>> : p \in Calls}]
    <3>1. response \in Message
      BY DEF TypeOK, Message
    <3>2. Calls \subseteq Nat
      BY <1>5, <1>a, <1>b, CallPositionsFinite DEF AddToolReturns, StepInv
    <3>3. answers \in Message
      BY <1>5, <3>2 DEF AddToolReturns, AllJoined, TypeOK, Message, Completed
    <3>4. messages' = Append(Append(messages, response), answers)
      BY <1>5 DEF AddToolReturns
    <3>5. QED
      BY <3>1, <3>3, <3>4 DEF TypeOK
  <2>2. execs' = <<>> /\ Calls' = {} /\ execs' \in [Calls' -> Exec]
    BY <1>5 DEF AddToolReturns, Calls
  <2>3. TypeOK'
    BY <1>5, <2>1, <2>2 DEF AddToolReturns, Return, TypeOK, StepResults
  <2>4. StepInv'
    BY <1>5, <2>2 DEF AddToolReturns, Return, StepInv
  <2>5. QED
    BY <2>3, <2>4
<1>6. CASE ProcessOutput
  <2>1. /\ pc = "output" /\ pc' = "idle"
        /\ outcome' \in StepResults
        /\ UNCHANGED <<step, responses, usage, execs, lost, cancelled, overtime, result>>
    BY <1>6 DEF ProcessOutput, AcceptOutputEarly, RetryOutput, RejectOutput,
           FinishOnStop, UnexpectedStop, ContinueRun, Settles, Return, state,
           StepResults, Errors
  <2>2. messages' \in Seq(Message)
    <3>1. [kind |-> "retry"] \in Message
      BY DEF Message
    <3>2. messages' \in {messages, Append(messages, [kind |-> "retry"])}
      BY <1>6 DEF ProcessOutput, AcceptOutputEarly, RetryOutput, RejectOutput,
             FinishOnStop, UnexpectedStop, ContinueRun, state
    <3>3. QED
      BY <3>1, <3>2 DEF TypeOK
  <2>3. final_output' # final_output => final_output' \in ValidatedOutputs
    BY <1>6, CoreAssumption DEF ValidatedOutputs, ProcessOutput, AcceptOutputEarly, RetryOutput, RejectOutput, FinishOnStop,
           UnexpectedStop, ContinueRun, Settles, Rejected, StoredOutput, state
  <2>4. output_retries' \in {output_retries, output_retries + 1}
    BY <1>6 DEF ProcessOutput, AcceptOutputEarly, RetryOutput, RejectOutput,
           FinishOnStop, UnexpectedStop, ContinueRun, state
  <2>5. finished' \in BOOLEAN
    <3>1. finished \in BOOLEAN
      BY DEF TypeOK
    <3>2. finished' = finished \/ finished' = TRUE
      BY <1>6 DEF ProcessOutput, AcceptOutputEarly, RetryOutput, RejectOutput,
             FinishOnStop, UnexpectedStop, ContinueRun, state
    <3>3. QED
      BY <3>1, <3>2
  <2>6. TypeOK'
    BY <2>1, <2>2, <2>3, <2>4, <2>5 DEF TypeOK, Calls
  <2>7. StepInv'
    BY <2>1 DEF StepInv, Calls
  <2>8. QED
    BY <2>6, <2>7
<1>7. CASE Finalize \/ GiveUp \/ Cancel \/ TimePasses \/ Over
  BY <1>7 DEF Finalize, GiveUp, Cancel, TimePasses, Over, TypeOK, StepInv, state, vars,
              Last, Calls
<1>8. CASE DropStep
  <2>1. Cardinality(ChargedCalls) \in Nat
    BY ChargedCallsFinite
  <2>2. QED
    BY <1>8, <2>1 DEF DropStep, Return, TypeOK, StepInv, state, Calls, StepResults
<1>9. CASE UNCHANGED vars
  BY <1>9 DEF vars, state, TypeOK, StepInv, Last, Calls
<1>10. QED
  BY <1>1, <1>2, <1>3, <1>4, <1>5, <1>6, <1>7, <1>8, <1>9 DEF Next, Answer

----------------------------------------------------------------------------
(* The end of a run *)

(* A finished run has an accepted output and is not in a step; the output  *)
(* is delivered when the run is over and not before.                       *)
EndInv ==
  /\ finished => pc \in {"idle", "done"} /\ final_output \in ValidatedOutputs
  /\ pc # "done" => result = None

(* A run finishes with an accepted output only, and delivers no other. *)
LEMMA EndInvNext == Inv1 /\ EndInv /\ [Next]_vars => EndInv'
<1> SUFFICES ASSUME Inv1, EndInv, [Next]_vars PROVE EndInv'
  OBVIOUS
<1>1. CASE Request
  BY <1>1 DEF Request, BeginStep, SendRequest, StepCancelled, StepOverLimits, CallStep, Return,
              EndInv, state
<1>2. CASE Answer
  BY <1>2 DEF Answer, ModelError, ModelResponse, Return, EndInv, state
<1>3. CASE \E p \in Calls : Tool(p)
  BY <1>3 DEF Tool, SkipCall, StartCall, ToolReturns, ToolRetries, ToolFails, EndInv, state
<1>4. CASE AddToolReturns
  BY <1>4 DEF AddToolReturns, Return, EndInv
<1>5. CASE ProcessOutput
  BY <1>5 DEF ProcessOutput, AcceptOutputEarly, RetryOutput, RejectOutput, FinishOnStop,
         UnexpectedStop, ContinueRun, Settles, Rejected, StoredOutput, ValidatedOutputs,
         Return, EndInv, Inv1, TypeOK, state
<1>6. CASE Finalize \/ GiveUp \/ DropStep \/ Cancel \/ TimePasses \/ Over
  BY <1>6 DEF Finalize, GiveUp, DropStep, Cancel, TimePasses, Over, Return, EndInv,
              state, vars
<1>7. CASE UNCHANGED vars
  BY <1>7 DEF EndInv, state, vars
<1>8. QED
  BY <1>1, <1>2, <1>3, <1>4, <1>5, <1>6, <1>7 DEF Next

(* A finished run takes no step but those of its caller and environment.   *)
LEMMA FinishedStep ==
  EndInv /\ [Next]_vars => (finished => UNCHANGED state)
<1> SUFFICES ASSUME EndInv, [Next]_vars, finished PROVE UNCHANGED state
  OBVIOUS
<1>1. pc \in {"idle", "done"}
  BY DEF EndInv
<1>2. ~Request /\ ~Answer /\ ~AddToolReturns /\ ~ProcessOutput
  BY <1>1 DEF Request, BeginStep, SendRequest, StepCancelled, StepOverLimits, CallStep, Answer,
       ModelError, ModelResponse, AddToolReturns, ProcessOutput, AcceptOutputEarly,
       RetryOutput, RejectOutput, FinishOnStop, UnexpectedStop, ContinueRun, Settles
<1>3. ASSUME NEW p \in Calls, Tool(p) PROVE UNCHANGED state
  BY <1>1, <1>3 DEF Tool, SkipCall, StartCall, ToolReturns, ToolRetries, ToolFails,
                    MayStart, state
<1>4. CASE Finalize \/ GiveUp \/ DropStep \/ Cancel \/ TimePasses \/ Over
  BY <1>4 DEF Finalize, GiveUp, DropStep, Cancel, TimePasses, Over, vars, state
<1>5. CASE UNCHANGED vars
  BY <1>5 DEF vars
<1>6. QED
  BY <1>2, <1>3, <1>4, <1>5 DEF Next

----------------------------------------------------------------------------
(* The conversation *)

(* Calls are answered, and the response under way is not yet in the        *)
(* conversation while its tools run.                                       *)
MessageInv ==
  /\ CallsAnswered
  /\ \A k \in DOMAIN messages : Kind(k) = "response" =>
       /\ messages[k].of <= Len(responses)
       /\ pc = "tools" => messages[k].of < Len(responses)

(* The futures of a step, once all are complete, answer its calls.         *)
LEMMA JoinedCallsAnswered ==
  ASSUME Inv1, pc = "tools", AllJoined
  PROVE  /\ AnswersCalls({<<p, execs[p].status>> : p \in Calls}, Last)
         /\ {<<p, execs[p].status>> : p \in Calls} \subseteq Nat \X Verdict
<1>1. Calls = CallPositions(Last) /\ Calls \subseteq Nat
  <2>1. Last \in Response
    BY RunAssumption DEF Inv1, TypeOK, StepInv, Last
  <2>2. QED
    BY <2>1, CallPositionsFinite DEF Inv1, StepInv
<1>2. \A p \in Calls : execs[p].status \in Verdict
  BY DEF AllJoined, Completed
<1>3. QED
  BY <1>1, <1>2 DEF AnswersCalls

(* Only the end of a tool step and a retry prompt touch the conversation;  *)
(* the former adds a response and its answers together.                    *)
LEMMA MessageInvNext == Inv1 /\ MessageInv /\ [Next]_vars => MessageInv'
<1> SUFFICES ASSUME Inv1, MessageInv, [Next]_vars PROVE MessageInv'
  OBVIOUS
<1>1. CASE UNCHANGED <<messages, responses>> /\ (pc' = pc \/ pc' # "tools")
  BY <1>1 DEF MessageInv, CallsAnswered, Kind
<1>2. ASSUME NEW r \in Responses, ModelResponse(r)
      PROVE  MessageInv'
  <2>1. /\ messages' = messages
        /\ responses' = Append(responses, r)
    BY <1>2 DEF ModelResponse
  <2>2. /\ Len(responses') = Len(responses) + 1
        /\ \A i \in DOMAIN responses : i \in DOMAIN responses' /\ responses'[i] = responses[i]
    BY <2>1 DEF Inv1, TypeOK
  <2>3. CallsAnswered'
    BY <2>1, <2>2 DEF MessageInv, CallsAnswered, Kind
  <2>4. \A k \in DOMAIN messages : Kind(k) = "response" =>
          messages[k].of < Len(responses') /\ messages[k].of <= Len(responses')
    <3>1. \A k \in DOMAIN messages : Kind(k) = "response" => messages[k].of \in Nat
      BY DEF Inv1, TypeOK, Message, Kind
    <3>2. QED
      BY <2>2, <3>1 DEF MessageInv, Inv1, TypeOK
  <2>5. QED
    BY <2>1, <2>3, <2>4 DEF MessageInv, Kind
<1>3. CASE RetryOutput
  <2> DEFINE retry == [kind |-> "retry"]
  <2>1. /\ messages' = Append(messages, retry)
        /\ responses' = responses
        /\ pc' # "tools"
    BY <1>3 DEF RetryOutput, Return
  <2>2. /\ DOMAIN messages' = DOMAIN messages \cup {Len(messages) + 1}
        /\ messages'[Len(messages) + 1] = retry
        /\ \A k \in DOMAIN messages : messages'[k] = messages[k]
        /\ Len(messages) + 1 \notin DOMAIN messages
    BY <2>1 DEF Inv1, TypeOK
  <2>3. QED
    BY <2>1, <2>2 DEF MessageInv, CallsAnswered, Kind
<1>4. CASE AddToolReturns
  <2> DEFINE n == Len(responses)
             given == {<<p, execs[p].status>> : p \in Calls}
             response == [kind |-> "response", of |-> n]
             answers == [kind |-> "answers", of |-> n, answers |-> given]
             l == Len(messages)
  <2>1. /\ messages' = Append(Append(messages, response), answers)
        /\ responses' = responses
        /\ pc' # "tools"
    BY <1>4 DEF AddToolReturns, Return
  <2>2. /\ l \in Nat
        /\ DOMAIN messages = 1 .. l
        /\ DOMAIN messages' = 1 .. (l + 2)
        /\ messages'[l + 1] = response
        /\ messages'[l + 2] = answers
        /\ \A k \in DOMAIN messages : messages'[k] = messages[k]
    BY <2>1 DEF Inv1, TypeOK
  <2>3. AnswersCalls(given, responses[n])
    BY <1>4, JoinedCallsAnswered DEF AddToolReturns, Last
  <2>4. n \in DOMAIN responses
    BY <1>4 DEF AddToolReturns, Inv1, TypeOK, StepInv
  <2> HIDE DEF given
  <2>5. CallsAnswered'
    BY <2>1, <2>2, <2>3, <2>4 DEF MessageInv, CallsAnswered, Kind
  <2>6. \A k \in DOMAIN messages' : Kind(k)' = "response" => messages'[k].of <= n
    <3>1. ASSUME NEW k \in DOMAIN messages', Kind(k)' = "response"
          PROVE  messages'[k].of <= n
      <4>1. CASE k \in DOMAIN messages
        BY <2>2, <3>1, <4>1 DEF MessageInv, Kind
      <4>2. CASE k = l + 1
        BY <2>2, <4>2 DEF Inv1, TypeOK
      <4>3. CASE k = l + 2
        BY <2>2, <3>1, <4>3 DEF Kind
      <4>4. QED
        BY <2>2, <4>1, <4>2, <4>3
    <3>2. QED
      BY <3>1
  <2>7. QED
    BY <2>1, <2>5, <2>6 DEF MessageInv
<1>5. QED
  <2>1. CASE \E p \in Calls : Tool(p)
    BY <1>1, <2>1 DEF Tool, SkipCall, StartCall, ToolReturns, ToolRetries, ToolFails, state
  <2>2. CASE Request \/ ModelError
    BY <1>1, <2>2 DEF Request, BeginStep, SendRequest, StepCancelled, StepOverLimits, ModelError,
                      Return, state
  <2>3. CASE ProcessOutput
    BY <1>1, <1>3, <2>3 DEF ProcessOutput, AcceptOutputEarly, RejectOutput, FinishOnStop,
         UnexpectedStop, ContinueRun, Return, state
  <2>4. CASE Finalize \/ GiveUp \/ DropStep \/ Cancel \/ TimePasses \/ Over
    BY <1>1, <2>4 DEF Finalize, GiveUp, DropStep, Cancel, TimePasses, Over, Return,
                      state, vars
  <2>5. CASE UNCHANGED vars
    BY <1>1, <2>5 DEF state, vars
  <2>6. QED
    BY <1>2, <1>4, <2>1, <2>2, <2>3, <2>4, <2>5 DEF Next, Answer

----------------------------------------------------------------------------
(* The run implements a conversation *)

Inv == Inv1 /\ EndInv /\ MessageInv

(* Typing, the end of a run and its conversation are one inductive         *)
(* invariant.                                                              *)
LEMMA InvInductive ==
  /\ Init => Inv
  /\ Inv /\ [Next]_vars => Inv'
<1>1. ASSUME Init PROVE EndInv /\ MessageInv
  BY <1>1 DEF Init, EndInv, MessageInv, CallsAnswered, Kind
<1>2. QED
  BY <1>1, Inv1Init, Inv1Next, EndInvNext, MessageInvNext DEF Inv

(* A new run is a new conversation. *)
LEMMA RefinesInit == Init => Abstract!Init
BY DEF Init, Abstract!Init, AbstractStatus, AbstractOutput

(* An exchange enters the conversation when the futures are joined. *)
LEMMA AddToolReturnsRefines == Inv /\ AddToolReturns => Abstract!Converse
<1> SUFFICES ASSUME Inv, AddToolReturns PROVE Abstract!Converse
  OBVIOUS
<1> DEFINE n == Len(responses)
           given == {<<p, execs[p].status>> : p \in Calls}
           response == [kind |-> "response", of |-> n]
           answers == [kind |-> "answers", of |-> n, answers |-> given]
           l == Len(messages)
<1>1. messages' = Append(Append(messages, response), answers)
  BY DEF AddToolReturns
<1>2. Len(messages') = l + 2 /\ messages'[Len(messages')] = answers
  BY <1>1 DEF Inv, Inv1, TypeOK
<1>3. AbstractStatus = "open"
  BY DEF AddToolReturns, Inv, EndInv, AbstractStatus
<1>4. \A k \in DOMAIN messages : messages[k].kind = "response" => messages[k].of < n
  BY DEF AddToolReturns, Inv, MessageInv, Kind
<1>5. given # {} /\ given \subseteq Nat \X Abstract!Verdict
  BY JoinedCallsAnswered DEF AddToolReturns, Inv, Inv1, StepInv, Verdict, Abstract!Verdict
<1>6. \A x, y \in given : x[1] = y[1] => x = y
  OBVIOUS
<1>7. n \in Nat
  BY DEF Inv, Inv1, TypeOK
<1>8. UNCHANGED <<output_retries, AbstractStatus, AbstractOutput>>
  BY <1>3 DEF AddToolReturns, Return, AbstractStatus, AbstractOutput
<1> HIDE DEF given
<1>9. Abstract!Exchange(n, given)
  BY <1>1, <1>3, <1>4, <1>5, <1>6, <1>7, <1>8 DEF Abstract!Exchange
<1>10. QED
  BY <1>2, <1>9 DEF Abstract!Converse

(* What becomes of an output is a step of the conversation: an accepted    *)
(* one settles it, a rejected one is asked for again or given up, and an   *)
(* answer without output changes nothing.                                  *)
LEMMA OutputRefines ==
  Inv /\ ProcessOutput => [Abstract!Next]_(Abstract!vars)
<1> SUFFICES ASSUME Inv, ProcessOutput PROVE [Abstract!Next]_(Abstract!vars)
  OBVIOUS
<1>1. pc = "output" /\ pc' = "idle" /\ ~finished
  BY DEF ProcessOutput, AcceptOutputEarly, RetryOutput, RejectOutput, FinishOnStop,
         UnexpectedStop, ContinueRun, Settles, Return, Inv, EndInv
<1>2. AbstractStatus = "open" /\ AbstractOutput = None
  BY <1>1 DEF AbstractStatus, AbstractOutput
<1>3. CASE AcceptOutputEarly \/ FinishOnStop
  <2>1. /\ finished'
        /\ final_output' \in ValidatedOutputs
        /\ UNCHANGED <<messages, output_retries>>
    BY <1>3 DEF AcceptOutputEarly, FinishOnStop, Settles, Rejected, StoredOutput,
                ValidatedOutputs, Inv, Inv1, TypeOK
  <2>2. AbstractStatus' = "finished" /\ AbstractOutput' = final_output'
    BY <1>1, <2>1 DEF AbstractStatus, AbstractOutput
  <2>3. Abstract!Settle(final_output')
    BY <1>2, <2>1, <2>2 DEF Abstract!Settle
  <2>4. QED
    BY <2>1, <2>3 DEF Abstract!Next
<1>4. CASE RetryOutput \/ RejectOutput
  <2>1. UNCHANGED <<AbstractStatus, AbstractOutput>>
    BY <1>1, <1>4 DEF RetryOutput, RejectOutput, AbstractStatus, AbstractOutput
  <2>2. Abstract!AskAgain \/ Abstract!Reject
    BY <1>2, <1>4, <2>1, RunAssumption
       DEF RetryOutput, RejectOutput, MayAskAgain, Abstract!AskAgain, Abstract!Reject, Inv,
           Inv1, TypeOK
  <2>3. QED
    BY <2>2 DEF Abstract!Next
<1>5. CASE UnexpectedStop \/ ContinueRun
  BY <1>1, <1>5 DEF UnexpectedStop, ContinueRun, state, Abstract!vars, AbstractStatus,
                    AbstractOutput
<1>6. QED
  BY <1>3, <1>4, <1>5 DEF ProcessOutput

(* Every other step of a run is a delivery, an abandonment or a stutter. *)
LEMMA RefinesNext == Inv /\ [Next]_vars => [Abstract!Next]_(Abstract!vars)
<1> SUFFICES ASSUME Inv, [Next]_vars PROVE [Abstract!Next]_(Abstract!vars)
  OBVIOUS
<1>1. CASE UNCHANGED <<messages, output_retries, finished, final_output, result>>
           /\ (pc = "done" <=> pc' = "done")
  BY <1>1 DEF Abstract!vars, AbstractStatus, AbstractOutput
<1>2. CASE Request \/ Answer
  BY <1>1, <1>2 DEF Request, BeginStep, SendRequest, StepCancelled, StepOverLimits, CallStep, Answer,
                    ModelError, ModelResponse, Return, state
<1>3. CASE \E p \in Calls : Tool(p)
  BY <1>1, <1>3 DEF Tool, SkipCall, StartCall, ToolReturns, ToolRetries, ToolFails, state
<1>4. CASE AddToolReturns
  BY <1>4, AddToolReturnsRefines DEF Abstract!Next
<1>5. CASE ProcessOutput
  BY <1>5, OutputRefines
<1>6. CASE Finalize
  <2>1. Abstract!Deliver
    BY <1>6 DEF Finalize, Abstract!Deliver, AbstractStatus, AbstractOutput, state
  <2>2. QED
    BY <2>1 DEF Abstract!Next
<1>7. CASE GiveUp
  <2>1. Abstract!Abandon
    BY <1>7 DEF GiveUp, Abstract!Abandon, AbstractStatus, AbstractOutput, state, Inv, EndInv
  <2>2. QED
    BY <2>1 DEF Abstract!Next
<1>8. CASE DropStep \/ Cancel \/ TimePasses \/ Over \/ UNCHANGED vars
  BY <1>1, <1>8 DEF DropStep, Cancel, TimePasses, Over, Return, state, vars
<1>9. QED
  BY <1>2, <1>3, <1>4, <1>5, <1>6, <1>7, <1>8 DEF Next

----------------------------------------------------------------------------
(* What begins, and what does not after a cancellation *)

(* Only StartCall sets a future running. *)
LEMMA RunningGrows ==
  ASSUME Inv1, NEW p \in Calls, Tool(p)
  PROVE  /\ Calls' = Calls
         /\ \A q \in Calls : q # p => execs'[q] = execs[q]
         /\ execs'[p].status # "waiting"
         /\ Completed(p) => Completed(p)'
         /\ (Running(p)' /\ ~Running(p)) => StartCall(p)
         /\ MayStart(p) \/ Running(p)
<1>1. execs \in [Calls -> Exec]
  BY DEF Inv1, TypeOK
<1>2. execs[p].status \in Verdict \cup {"waiting", "running"}
  BY <1>1 DEF Exec
<1>3. CASE SkipCall(p)
  <2>1. execs' = [execs EXCEPT ![p].status = "cancelled"] /\ MayStart(p)
    BY <1>3 DEF SkipCall, Finish
  <2>2. QED
    BY <1>1, <2>1 DEF Calls, Exec, Running, Completed, Verdict
<1>4. CASE StartCall(p)
  <2>1. /\ \E status \in {"running", "not_found"} :
             execs' = [execs EXCEPT ![p].status = status]
        /\ MayStart(p)
        /\ ~Completed(p)
    BY <1>4 DEF StartCall, MayStart, Finish, Completed, Verdict
  <2>2. QED
    BY <1>1, <1>4, <2>1 DEF Calls, Exec
<1>5. CASE ToolReturns(p) \/ ToolFails(p)
  <2>1. /\ \E status \in {"returned", "error"} :
             execs' = [execs EXCEPT ![p].status = status]
        /\ Running(p)
    BY <1>5 DEF ToolReturns, ToolFails, Finish
  <2>2. QED
    BY <1>1, <2>1 DEF Calls, Exec, Running, Completed, Verdict
<1>6. CASE ToolRetries(p)
  <2>1. execs' = [execs EXCEPT ![p].retries = @ + 1] /\ Running(p)
    BY <1>6 DEF ToolRetries
  <2>2. QED
    BY <1>1, <2>1 DEF Calls, Exec, Running, Completed, Verdict
<1>7. QED
  BY <1>3, <1>4, <1>5, <1>6 DEF Tool

(* No action past a look at the token begins new work once it is           *)
(* triggered.                                                              *)
LEMMA CancelledStep ==
  ASSUME Inv1, [Next]_vars, cancelled
  PROVE  /\ step' = step
         /\ pc' = "preparing" => pc = "preparing"
         /\ pc' = "requesting" => pc \in {"preparing", "requesting"}
         /\ ~ParallelToolCalls => \A p \in Calls :
              (p \in DOMAIN execs' /\ execs'[p].status = "running") => Running(p)
<1>1. CASE /\ UNCHANGED <<step, execs>>
           /\ pc' = "preparing" => pc = "preparing"
           /\ pc' = "requesting" => pc \in {"preparing", "requesting"}
  BY <1>1 DEF Running
<1>2. ASSUME NEW p \in Calls, Tool(p)
      PROVE  /\ UNCHANGED <<pc, step>>
             /\ ~ParallelToolCalls => \A q \in Calls :
                  execs'[q].status = "running" => Running(q)
  <2>1. ~ParallelToolCalls => ~StartCall(p)
    BY DEF StartCall
  <2>2. UNCHANGED <<pc, step>>
    BY <1>2 DEF Tool, SkipCall, StartCall, ToolReturns, ToolRetries, ToolFails
  <2>3. QED
    BY <1>2, <2>1, <2>2, RunningGrows DEF Running
<1>3. ASSUME NEW r \in Responses, ModelResponse(r)
      PROVE  /\ step' = step
             /\ pc' \notin {"preparing", "requesting"}
             /\ \A p \in DOMAIN execs' : execs'[p].status = "waiting"
  <2>1. pc' \in {"tools", "output"} /\ step' = step
    BY <1>3 DEF ModelResponse
  <2>2. execs' = [p \in CallPositions(r) |-> [status |-> "waiting", retries |-> 0]]
    BY <1>3 DEF ModelResponse
  <2>3. QED
    BY <2>1, <2>2
<1>4. CASE AddToolReturns \/ DropStep
  <2>1. pc' = "idle" /\ step' = step
    BY <1>4 DEF AddToolReturns, DropStep, Return
  <2>2. execs' = <<>>
    BY <1>4 DEF AddToolReturns, DropStep
  <2>3. QED
    BY <2>1, <2>2
<1>5. CASE SendRequest \/ StepCancelled \/ ModelError \/ ProcessOutput
  BY <1>1, <1>5 DEF SendRequest, StepCancelled, ModelError, ProcessOutput,
       AcceptOutputEarly, RetryOutput, RejectOutput, FinishOnStop, UnexpectedStop,
       ContinueRun, Return
<1>6. ~BeginStep /\ ~StepOverLimits
  BY DEF BeginStep, StepOverLimits
<1>7. CASE Finalize \/ GiveUp \/ Cancel \/ TimePasses \/ Over \/ UNCHANGED vars
  BY <1>1, <1>7 DEF Finalize, GiveUp, Cancel, TimePasses, Over, vars
<1>8. QED
  BY <1>2, <1>3, <1>4, <1>5, <1>6, <1>7 DEF Next, Answer, Request

----------------------------------------------------------------------------
(* Theorems *)

(* The invariant holds in every state of a run. *)
LEMMA InvAlways == Spec => []Inv
BY InvInductive, PTL DEF Spec

(* Every variable of a run keeps its type; what it holds as output was     *)
(* accepted by the validators.                                             *)
THEOREM TypeCorrect == Spec => []TypeOK
<1>1. Inv => TypeOK
  BY DEF Inv, Inv1
<1>2. QED
  BY <1>1, InvAlways, PTL

(* No run leaves a call in the conversation without its one answer,        *)
(* whatever the tools do, and whoever cancels the run or drops its steps.  *)
THEOREM CallsAlwaysAnswered == Spec => []CallsAnswered
<1>1. Inv => CallsAnswered
  BY DEF Inv, MessageInv
<1>2. QED
  BY <1>1, InvAlways, PTL

(* Once the token is triggered no step begins, so that at most the request *)
(* of the step under way is still sent, and no tool of the sequential      *)
(* executor; the parallel executor's futures never look at the token.      *)
THEOREM CancelStopsNewWork == Spec => NoWorkAfterCancel
<1>1. Inv /\ [Next]_vars =>
        [ cancelled =>
            /\ step' = step
            /\ pc' = "preparing" => pc = "preparing"
            /\ pc' = "requesting" => pc \in {"preparing", "requesting"}
            /\ ~ParallelToolCalls => \A p \in Calls :
                 (p \in DOMAIN execs' /\ execs'[p].status = "running") => Running(p) ]_vars
  BY CancelledStep DEF Inv
<1>2. QED
  BY <1>1, InvAlways, PTL DEF Spec, NoWorkAfterCancel

(* A finished run keeps its conversation, its usage and its output.        *)
THEOREM FinishedStaysFinal == Spec => FinishedIsFinal
<1>1. Inv /\ [Next]_vars => [finished => UNCHANGED state]_vars
  BY FinishedStep DEF Inv
<1>2. QED
  BY <1>1, InvAlways, PTL DEF Spec, FinishedIsFinal

(* Every run carries on a conversation as Conversation describes it.       *)
THEOREM RunImplementsConversation == Spec => ImplementsConversation
<1>1. QED
  BY RefinesInit, RefinesNext, InvAlways, PTL
     DEF Spec, ImplementsConversation, Abstract!Spec

----------------------------------------------------------------------------
(* The steps of a run, by what they leave alone *)

(* Steps that neither ask, answer, execute nor settle anything. *)
LEMMA QuietStep ==
  ASSUME [Next]_vars
  PROVE  \/ \E r \in Responses : ModelResponse(r)
         \/ \E p \in Calls : Tool(p)
         \/ AddToolReturns
         \/ ProcessOutput
         \/ DropStep
         \/ /\ UNCHANGED <<state, execs, lost>>
            /\ (pc # "output" /\ pc' # "output") \/ pc' = pc
BY DEF Next, Answer, Request, BeginStep, SendRequest, StepCancelled, StepOverLimits, CallStep,
       ModelError, Finalize, GiveUp, Cancel, TimePasses, Over, Return, vars, state

----------------------------------------------------------------------------
(* The output and the corrections asked for *)

RetryPrompts == {m \in Message : m.kind = "retry"}

(* The validators made v of the output of r. *)
Delivers(r, v) ==
  FoundOutput(r) \in AcceptedOutputs /\ Validated[FoundOutput(r)] = v

(* The output is the one of the last response that carried any: a later    *)
(* response has calls, or nothing the validators accept, or is being       *)
(* worked out.                                                             *)
LEMMA ProvenanceNext ==
  Inv1 /\ EndInv /\ OutputProvenance /\ [Next]_vars => OutputProvenance'
<1> SUFFICES ASSUME Inv1, EndInv, OutputProvenance, [Next]_vars PROVE OutputProvenance'
  OBVIOUS
<1>1. finished' => final_output' # None
  <2>1. EndInv'
    BY EndInvNext
  <2>2. ValidatedOutputs \subseteq Outputs /\ None \notin Outputs
    BY CoreAssumption, RunAssumption DEF ValidatedOutputs
  <2>3. QED
    BY <2>1, <2>2 DEF EndInv
<1>2. SUFFICES ASSUME final_output' # None
               PROVE  \E i \in DOMAIN responses' :
                        /\ CallPositions(responses'[i]) = {}
                        /\ Delivers(responses'[i], final_output')
                        /\ ~StepwiseCaller =>
                             \A j \in i + 1 .. Len(responses') :
                               \/ CallPositions(responses'[j]) # {}
                               \/ FoundOutput(responses'[j]) \notin AcceptedOutputs
                               \/ j = Len(responses') /\ pc' = "output"
  BY <1>1 DEF OutputProvenance, Delivers
<1>3. DOMAIN responses = 1 .. Len(responses) /\ Len(responses) \in Nat
  BY DEF Inv1, TypeOK
<1>4. CASE UNCHANGED <<responses, final_output>> /\ (pc = "output" => pc' = "output")
  BY <1>2, <1>4 DEF OutputProvenance, Delivers
<1>5. CASE \E r \in Responses : ModelResponse(r)
  <2> PICK r \in Responses : ModelResponse(r)
    BY <1>5
  <2>1. /\ responses' = Append(responses, r)
        /\ final_output' = final_output
        /\ pc = "requesting"
        /\ CallPositions(r) = {} => pc' = "output"
    BY DEF ModelResponse
  <2>2. /\ Len(responses') = Len(responses) + 1
        /\ DOMAIN responses' = 1 .. Len(responses) + 1
        /\ responses'[Len(responses) + 1] = r
        /\ \A i \in DOMAIN responses : responses'[i] = responses[i]
    BY <2>1, <1>3 DEF Inv1, TypeOK
  <2>3. PICK i \in DOMAIN responses :
          /\ CallPositions(responses[i]) = {}
          /\ Delivers(responses[i], final_output)
          /\ ~StepwiseCaller =>
               \A j \in i + 1 .. Len(responses) :
                 \/ CallPositions(responses[j]) # {}
                 \/ FoundOutput(responses[j]) \notin AcceptedOutputs
    BY <1>2, <2>1 DEF OutputProvenance, Delivers
  <2>4. ASSUME ~StepwiseCaller, NEW j \in i + 1 .. Len(responses')
        PROVE  \/ CallPositions(responses'[j]) # {}
               \/ FoundOutput(responses'[j]) \notin AcceptedOutputs
               \/ j = Len(responses') /\ pc' = "output"
    <3>1. CASE j = Len(responses')
      BY <1>3, <2>1, <2>2, <3>1
    <3>2. CASE j # Len(responses')
      <4>1. j \in i + 1 .. Len(responses) /\ j \in DOMAIN responses
        BY <1>3, <2>2, <2>4, <3>2
      <4>2. QED
        BY <2>2, <2>3, <2>4, <4>1
    <3>3. QED
      BY <3>1, <3>2
  <2>5. i \in DOMAIN responses' /\ responses'[i] = responses[i]
    BY <1>3, <2>2
  <2>6. QED
    BY <2>1, <2>3, <2>4, <2>5
<1>6. CASE ProcessOutput
  <2>1. /\ pc = "output" /\ pc' = "idle"
        /\ UNCHANGED responses
        /\ Len(responses) \in DOMAIN responses
        /\ CallPositions(responses[Len(responses)]) = {}
    BY <1>3, <1>6 DEF ProcessOutput, AcceptOutputEarly, RetryOutput, RejectOutput,
           FinishOnStop, UnexpectedStop, ContinueRun, Settles, Return, state, Inv1, TypeOK,
           StepInv, Last
  <2>2. \/ Delivers(Last, final_output')
        \/ final_output' = final_output /\ FoundOutput(Last) \notin AcceptedOutputs
    <3>1. None \notin AcceptedOutputs
      BY CoreAssumption
    <3>2. CASE AcceptOutputEarly
      BY <3>2 DEF AcceptOutputEarly, Delivers
    <3>3. CASE RetryOutput \/ RejectOutput
      BY <3>1, <3>3 DEF RetryOutput, RejectOutput, Rejected
    <3>4. CASE FinishOnStop \/ ContinueRun
      BY <3>1, <3>4 DEF FinishOnStop, ContinueRun, Settles, Rejected, StoredOutput, Delivers
    <3>5. CASE UnexpectedStop
      <4>1. \A v \in AcceptedOutputs : Validated[v] # None
        BY CoreAssumption, RunAssumption
      <4>2. QED
        BY <3>1, <3>5, <4>1 DEF UnexpectedStop, Settles, Rejected, StoredOutput, state
    <3>6. QED
      BY <1>6, <3>2, <3>3, <3>4, <3>5 DEF ProcessOutput
  <2>3. CASE Delivers(Last, final_output')
    BY <1>2, <1>3, <2>1, <2>3 DEF Last
  <2>4. CASE final_output' = final_output /\ FoundOutput(Last) \notin AcceptedOutputs
    BY <1>2, <1>3, <2>1, <2>4 DEF Last, OutputProvenance, Delivers
  <2>5. QED
    BY <2>2, <2>3, <2>4
<1>7. CASE DropStep
  <2>1. StepwiseCaller /\ UNCHANGED <<responses, final_output>>
    BY <1>7 DEF DropStep, state
  <2>2. QED
    BY <1>2, <2>1 DEF OutputProvenance, Delivers
<1>8. CASE AddToolReturns
  BY <1>4, <1>8 DEF AddToolReturns
<1>9. CASE \E p \in Calls : Tool(p)
  BY <1>4, <1>9 DEF Tool, SkipCall, StartCall, ToolReturns, ToolRetries, ToolFails, state
<1>10. CASE /\ UNCHANGED <<state, execs, lost>>
            /\ (pc # "output" /\ pc' # "output") \/ pc' = pc
  BY <1>4, <1>10 DEF state
<1>11. QED
  BY <1>5, <1>6, <1>7, <1>8, <1>9, <1>10, QuietStep

(* A message more is a correction more if it is a retry prompt. *)
LEMMA RetriesCounted ==
  ASSUME messages \in Seq(Message), NEW m \in Message
  PROVE  /\ Cardinality(Positions(messages, RetryPrompts)) \in Nat
         /\ Cardinality(Positions(Append(messages, m), RetryPrompts)) =
              Cardinality(Positions(messages, RetryPrompts))
                + IF m.kind = "retry" THEN 1 ELSE 0
<1>1. m \in RetryPrompts <=> m.kind = "retry"
  BY DEF RetryPrompts
<1>2. QED
  BY <1>1, AppendPositions

(* The corrections asked for are the retry prompts of the conversation. *)
LEMMA RetryPromptsCounted ==
  ASSUME messages \in Seq(Message)
  PROVE  {k \in DOMAIN messages : Kind(k) = "retry"} = Positions(messages, RetryPrompts)
BY DEF Kind, Positions, RetryPrompts

(* Each rejection within the budget adds one retry prompt, and nothing else*)
(* does.                                                                   *)
LEMMA RetryBudgetNext ==
  Inv1 /\ Inv1' /\ RetryBudget /\ [Next]_vars => RetryBudget'
<1> SUFFICES ASSUME Inv1, Inv1', RetryBudget, [Next]_vars PROVE RetryBudget'
  OBVIOUS
<1> DEFINE count == Cardinality(Positions(messages, RetryPrompts))
<1>1. /\ messages \in Seq(Message) /\ messages' \in Seq(Message)
      /\ output_retries \in Nat
      /\ MaxOutputRetries \in Nat
  BY RunAssumption DEF Inv1, TypeOK
<1>2. IF output_retries <= MaxOutputRetries THEN count = output_retries
      ELSE count = MaxOutputRetries
  BY <1>1, RetryPromptsCounted DEF RetryBudget
<1>3. {k \in DOMAIN messages' : Kind(k)' = "retry"} = Positions(messages', RetryPrompts)
  BY <1>1 DEF Kind, Positions, RetryPrompts
<1>4. SUFFICES IF output_retries' <= MaxOutputRetries THEN count' = output_retries'
               ELSE count' = MaxOutputRetries
  BY <1>3 DEF RetryBudget
<1>5. CASE UNCHANGED <<messages, output_retries>>
  BY <1>2, <1>5
<1>6. CASE AddToolReturns
  <2> DEFINE response == [kind |-> "response", of |-> Len(responses)]
             answers  == [kind |-> "answers", of |-> Len(responses),
                          answers |-> {<<p, execs[p].status>> : p \in Calls}]
  <2>1. messages' = Append(Append(messages, response), answers)
        /\ output_retries' = output_retries
    BY <1>6 DEF AddToolReturns
  <2>2. response \in Message
    BY DEF Message, Inv1, TypeOK
  <2>3. answers \in Message
    BY <1>6, JoinedCallsAnswered DEF AddToolReturns, Message, Inv1, TypeOK
  <2>4. response.kind # "retry" /\ answers.kind # "retry"
    OBVIOUS
  <2> HIDE DEF response, answers
  <2>5. /\ Append(messages, response) \in Seq(Message)
        /\ Cardinality(Positions(Append(messages, response), RetryPrompts)) = count
        /\ count \in Nat
    BY <1>1, <2>2, <2>4, RetriesCounted
  <2>6. answers \notin RetryPrompts
    BY <2>4 DEF RetryPrompts
  <2>7. count' = count
    <3> DEFINE asked == Append(messages, response)
    <3>1. /\ asked \in Seq(Message)
          /\ Cardinality(Positions(asked, RetryPrompts)) = count
          /\ messages' = Append(asked, answers)
      BY <2>1, <2>5
    <3> HIDE DEF asked
    <3>2. Cardinality(Positions(Append(asked, answers), RetryPrompts)) =
            Cardinality(Positions(asked, RetryPrompts)) + 0
      BY <2>3, <2>6, <3>1, AppendPositions
    <3>3. QED
      BY <2>5, <3>1, <3>2
  <2>8. QED
    BY <1>2, <2>1, <2>7
<1>7. CASE RetryOutput
  <2>1. /\ messages' = Append(messages, [kind |-> "retry"])
        /\ output_retries' = output_retries + 1
        /\ output_retries < MaxOutputRetries
    BY <1>7 DEF RetryOutput, MayAskAgain
  <2>2. [kind |-> "retry"] \in Message
    BY DEF Message
  <2>3. count' = count + 1
    BY <1>1, <2>1, <2>2, RetriesCounted
  <2>4. QED
    BY <1>1, <1>2, <2>1, <2>3
<1>8. CASE RejectOutput
  <2>1. /\ messages' = messages
        /\ output_retries' = output_retries + 1
        /\ ~ (output_retries < MaxOutputRetries)
    BY <1>8 DEF RejectOutput, MayAskAgain
  <2>2. QED
    BY <1>1, <1>2, <2>1
<1>9. CASE AcceptOutputEarly \/ FinishOnStop \/ UnexpectedStop \/ ContinueRun
  BY <1>5, <1>9 DEF AcceptOutputEarly, FinishOnStop, UnexpectedStop, ContinueRun, state
<1>10. ASSUME NEW p \in Calls, Tool(p)
       PROVE  UNCHANGED <<messages, output_retries>>
  BY <1>10 DEF Tool, SkipCall, StartCall, ToolReturns, ToolRetries, ToolFails, state
<1>11. ASSUME NEW r \in Responses, ModelResponse(r)
       PROVE  UNCHANGED <<messages, output_retries>>
  BY <1>11 DEF ModelResponse
<1>12. CASE DropStep \/ UNCHANGED <<state, execs, lost>>
  BY <1>5, <1>12 DEF DropStep, state
<1>13. QED
  BY <1>5, <1>6, <1>7, <1>8, <1>9, <1>10, <1>11, <1>12, QuietStep DEF ProcessOutput

----------------------------------------------------------------------------
(* The usage charged *)

Metered == {r \in Responses : r.usage # None}

(* Requests are those whose responses reported usage; tool calls are those *)
(* answered in the conversation, under way in the step, or dropped with    *)
(* theirs.  Only the sequential executor skips a call, and does not charge *)
(* it.                                                                     *)
UsageInv ==
  /\ usage.requests = Cardinality(Positions(responses, Metered))
  /\ IsFiniteSet(AnsweredCalls)
  /\ usage.tool_calls =
       Cardinality(AnsweredCalls) + Cardinality(ChargedCalls) + lost
  /\ ParallelToolCalls => \A p \in Calls : execs[p].status # "cancelled"

(* The calls answered, one by one. *)
LEMMA AnsweredCall ==
  /\ \A x : x \in AnsweredCalls <=>
       \E k \in DOMAIN messages : \E a \in messages[k].answers :
         Kind(k) = "answers" /\ a[2] # "cancelled" /\ x = <<k, a>>
  /\ \A x : x \in AnsweredCalls' <=>
       \E k \in DOMAIN messages' : \E a \in messages'[k].answers :
         Kind(k)' = "answers" /\ a[2] # "cancelled" /\ x = <<k, a>>
BY DEF AnsweredCalls, Kind

(* A response is one request more if it reported usage, and its calls are  *)
(* charged at once by the parallel executor.                               *)
LEMMA ResponseCharged ==
  ASSUME Inv1, Inv1', UsageInv, NEW r \in Responses, ModelResponse(r)
  PROVE  /\ UsageInv'
         /\ usage'.requests = usage.requests + IF r.usage # None THEN 1 ELSE 0
         /\ usage'.tool_calls =
              usage.tool_calls + IF ParallelToolCalls THEN Cardinality(ChargedCalls') ELSE 0
         /\ ~ParallelToolCalls => Cardinality(ChargedCalls') = 0
<1>1. r \in Response /\ usage \in RunUsage /\ responses \in Seq(Responses)
  BY RunAssumption DEF Inv1, TypeOK
<1>2. pc = "requesting" /\ Calls = {} /\ Calls' = CallPositions(r)
  BY DEF ModelResponse, Inv1, StepInv, Calls
<1>3. \A p \in Calls' : execs'[p].status = "waiting"
  BY DEF ModelResponse, Calls
<1>4. IF ParallelToolCalls THEN ChargedCalls' = CallPositions(r) ELSE ChargedCalls' = {}
  BY <1>2, <1>3 DEF ChargedCalls
<1>5. Cardinality(ChargedCalls) = 0
  BY <1>2, FS_EmptySet DEF ChargedCalls
<1>6. AnsweredCalls' = AnsweredCalls
  BY DEF ModelResponse, AnsweredCalls, Kind
<1>7. Cardinality(CallPositions(r)) \in Nat
  BY <1>1, CallPositionsFinite
<1>8. /\ usage'.requests = usage.requests + IF r.usage # None THEN 1 ELSE 0
      /\ usage'.tool_calls =
           usage.tool_calls + IF ParallelToolCalls THEN Cardinality(CallPositions(r)) ELSE 0
  BY <1>1, <1>7 DEF ModelResponse, AddRequest, RecordToolCalls, RunUsage
<1>9. Cardinality(Positions(responses', Metered)) =
        Cardinality(Positions(responses, Metered)) + IF r.usage # None THEN 1 ELSE 0
  <2>1. responses' = Append(responses, r) /\ (r \in Metered <=> r.usage # None)
    BY DEF ModelResponse, Metered
  <2>2. QED
    BY <1>1, <2>1, AppendPositions
<1>10. ParallelToolCalls => \A p \in Calls' : execs'[p].status # "cancelled"
  BY <1>3
<1>11. Cardinality(AnsweredCalls) \in Nat
  BY FS_CardinalityType DEF UsageInv
<1>12. Cardinality(ChargedCalls') = IF ParallelToolCalls THEN Cardinality(CallPositions(r)) ELSE 0
  BY <1>4, FS_EmptySet
<1>13. usage.tool_calls \in Nat
  BY <1>1 DEF RunUsage
<1>14. usage'.tool_calls =
         Cardinality(AnsweredCalls') + Cardinality(ChargedCalls') + lost'
  <2>1. lost' = lost /\ lost \in Nat
    BY DEF ModelResponse, Inv1, TypeOK
  <2>2. QED
    BY <1>5, <1>6, <1>7, <1>8, <1>11, <1>12, <1>13, <2>1 DEF UsageInv
<1>15. QED
  BY <1>6, <1>8, <1>9, <1>10, <1>12, <1>14 DEF UsageInv

(* A tool call is charged where it starts, once, if it was not yet.        *)
LEMMA ToolCharged ==
  ASSUME Inv1, Inv1', UsageInv, NEW p \in Calls, Tool(p)
  PROVE  /\ UsageInv'
         /\ usage'.requests = usage.requests
         /\ usage'.tool_calls - Cardinality(ChargedCalls') =
              usage.tool_calls - Cardinality(ChargedCalls)
<1>1. /\ UNCHANGED <<responses, messages, lost>>
      /\ AnsweredCalls' = AnsweredCalls
  BY DEF Tool, SkipCall, StartCall, ToolReturns, ToolRetries, ToolFails, state, AnsweredCalls,
         Kind
<1>2. usage' = IF StartCall(p) /\ ~ParallelToolCalls THEN RecordToolCalls(usage, 1) ELSE usage
  BY DEF Tool, SkipCall, StartCall, ToolReturns, ToolRetries, ToolFails, state, MayStart,
         Running
<1>3. usage \in RunUsage
  BY DEF Inv1, TypeOK
<1>4. /\ usage'.requests = usage.requests
      /\ usage'.tool_calls =
           usage.tool_calls + IF StartCall(p) /\ ~ParallelToolCalls THEN 1 ELSE 0
  BY <1>2, <1>3 DEF RecordToolCalls, RunUsage
<1>5. /\ Calls' = Calls
      /\ \A q \in Calls : q # p => execs'[q] = execs[q]
  BY RunningGrows
<1>6. Cardinality(ChargedCalls') =
        Cardinality(ChargedCalls) + IF StartCall(p) /\ ~ParallelToolCalls THEN 1 ELSE 0
  <2>1. CASE ParallelToolCalls
    BY <1>5, <2>1, ChargedCallsFinite DEF ChargedCalls
  <2>2. CASE ~ParallelToolCalls /\ StartCall(p)
    <3>1. execs[p].status = "waiting" /\ execs'[p].status \in {"running", "not_found"}
      BY <2>2 DEF StartCall, MayStart, Finish, Inv1, TypeOK, Calls, Exec
    <3>2. ChargedCalls' = ChargedCalls \cup {p} /\ p \notin ChargedCalls
      BY <1>5, <2>2, <3>1 DEF ChargedCalls
    <3>3. QED
      BY <2>2, <3>2, ChargedCallsFinite, FS_AddElement
  <2>3. CASE ~ParallelToolCalls /\ ~StartCall(p)
    <3>1. execs \in [Calls -> Exec]
      BY DEF Inv1, TypeOK
    <3>2. \/ execs[p].status = "waiting" /\ execs'[p].status = "cancelled"
          \/ /\ execs[p].status = "running"
             /\ execs'[p].status \in {"running", "returned", "error"}
      <4>1. CASE SkipCall(p)
        BY <3>1, <4>1 DEF SkipCall, MayStart, Finish, Calls, Exec
      <4>2. CASE ToolReturns(p) \/ ToolFails(p) \/ ToolRetries(p)
        BY <3>1, <4>2 DEF ToolReturns, ToolFails, ToolRetries, Running, Finish, Calls, Exec
      <4>3. QED
        BY <2>3, <4>1, <4>2 DEF Tool
    <3>3. ChargedCalls' = ChargedCalls
      BY <1>5, <2>3, <3>2 DEF ChargedCalls
    <3>4. QED
      BY <2>3, <3>3, ChargedCallsFinite
  <2>4. QED
    BY <2>1, <2>2, <2>3
<1>7. ParallelToolCalls => \A q \in Calls' : execs'[q].status # "cancelled"
  <2>1. ParallelToolCalls => ~SkipCall(p)
    BY DEF SkipCall
  <2>2. ~SkipCall(p) /\ execs[p].status # "cancelled" => execs'[p].status # "cancelled"
    BY DEF Tool, StartCall, ToolReturns, ToolFails, ToolRetries, Finish, Inv1, TypeOK, Calls,
           Exec
  <2>3. QED
    BY <1>5, <2>1, <2>2 DEF UsageInv
<1>8. /\ usage.tool_calls \in Nat
      /\ Cardinality(ChargedCalls) \in Nat
      /\ Cardinality(AnsweredCalls) \in Nat
      /\ lost \in Nat
  BY <1>3, ChargedCallsFinite, FS_CardinalityType DEF RunUsage, UsageInv, Inv1, TypeOK
<1>9. usage'.tool_calls - Cardinality(ChargedCalls') =
        usage.tool_calls - Cardinality(ChargedCalls)
  BY <1>4, <1>6, <1>8
<1>10. usage'.tool_calls =
         Cardinality(AnsweredCalls') + Cardinality(ChargedCalls') + lost'
  BY <1>1, <1>4, <1>6, <1>8 DEF UsageInv
<1>11. QED
  BY <1>1, <1>4, <1>7, <1>9, <1>10 DEF UsageInv

(* The answers to a response are as many as the calls it was charged for.  *)
LEMMA AnswersCharged ==
  ASSUME Inv1, Inv1', UsageInv, AddToolReturns
  PROVE  UsageInv'
<1> DEFINE given == {<<p, execs[p].status>> : p \in Calls}
           response == [kind |-> "response", of |-> Len(responses)]
           answers == [kind |-> "answers", of |-> Len(responses), answers |-> given]
           l == Len(messages)
           new == {<<l + 2, a>> : a \in {b \in given : b[2] # "cancelled"}}
<1>1. /\ messages' = Append(Append(messages, response), answers)
      /\ UNCHANGED <<responses, usage, lost>>
      /\ Calls' = {}
  BY DEF AddToolReturns, Calls
<1>2. /\ l \in Nat
      /\ DOMAIN messages = 1 .. l
      /\ DOMAIN messages' = 1 .. (l + 2)
      /\ messages'[l + 1] = response
      /\ messages'[l + 2] = answers
      /\ \A k \in DOMAIN messages : messages'[k] = messages[k]
  BY <1>1 DEF Inv1, TypeOK
<1>3. AnsweredCalls' = AnsweredCalls \cup new
  <2>1. response.kind # "answers" /\ answers.kind = "answers" /\ answers.answers = given
    OBVIOUS
  <2> HIDE DEF given, response, answers, l
  <2>2. ASSUME NEW x
        PROVE  x \in AnsweredCalls' <=> x \in AnsweredCalls \/ x \in new
    <3>1. x \in AnsweredCalls => x \in AnsweredCalls'
      BY <1>2, AnsweredCall DEF Kind
    <3>2. x \in new => x \in AnsweredCalls'
      <4>1. SUFFICES ASSUME NEW a \in given, a[2] # "cancelled", x = <<l + 2, a>>
                     PROVE  x \in AnsweredCalls'
        OBVIOUS
      <4>2. l + 2 \in DOMAIN messages'
        BY <1>2
      <4>3. messages'[l + 2].kind = "answers" /\ a \in messages'[l + 2].answers
        BY <1>2, <2>1, <4>1
      <4>4. QED
        BY <4>1, <4>2, <4>3, AnsweredCall DEF Kind
    <3>3. ASSUME x \in AnsweredCalls'
          PROVE  x \in AnsweredCalls \/ x \in new
      <4>1. PICK k \in DOMAIN messages' : \E a \in messages'[k].answers :
              Kind(k)' = "answers" /\ a[2] # "cancelled" /\ x = <<k, a>>
        BY <3>3, AnsweredCall
      <4>2. CASE k \in DOMAIN messages
        BY <1>2, <4>1, <4>2, AnsweredCall DEF Kind
      <4>3. CASE k = l + 1
        BY <1>2, <2>1, <4>1, <4>3 DEF Kind
      <4>4. CASE k = l + 2
        BY <1>2, <2>1, <4>1, <4>4
      <4>5. QED
        BY <1>2, <4>2, <4>3, <4>4
    <3>4. QED
      BY <3>1, <3>2, <3>3
  <2> HIDE DEF new
  <2>3. QED
    BY <2>2
<1>4. AnsweredCalls \cap new = {}
  <2>1. \A x \in new : x[1] = l + 2
    OBVIOUS
  <2>2. \A x \in AnsweredCalls : x[1] \in DOMAIN messages
    BY AnsweredCall
  <2>3. l + 2 \notin DOMAIN messages
    BY <1>2
  <2> HIDE DEF new
  <2>4. QED
    BY <2>1, <2>2, <2>3
<1>5. IsFiniteSet(new) /\ Cardinality(new) = Cardinality(ChargedCalls)
  <2> DEFINE f == [p \in ChargedCalls |-> <<l + 2, <<p, execs[p].status>>>>]
  <2>1. \A p \in Calls : execs[p].status \in Verdict
    BY DEF AddToolReturns, AllJoined, Completed
  <2>2. ChargedCalls = {p \in Calls : execs[p].status # "cancelled"}
    BY <2>1 DEF ChargedCalls, UsageInv, Verdict
  <2>3. f \in Bijection(ChargedCalls, new)
    <3>1. \A p \in ChargedCalls : f[p] \in new
      BY <2>2
    <3>2. \A x \in new : \E p \in ChargedCalls : f[p] = x
      BY <2>2
    <3>3. \A p, q \in ChargedCalls : f[p] = f[q] => p = q
      OBVIOUS
    <3>4. f \in [ChargedCalls -> new]
      BY <3>1
    <3> HIDE DEF f, new
    <3>5. QED
      BY <3>2, <3>3, <3>4 DEF Bijection, Injection, IsInjective, Surjection
  <2> HIDE DEF new, f
  <2>4. ExistsBijection(ChargedCalls, new)
    BY <2>3 DEF ExistsBijection
  <2>5. QED
    BY <2>4, ChargedCallsFinite, FS_Bijection
<1> HIDE DEF new
<1>6. /\ IsFiniteSet(AnsweredCalls')
      /\ Cardinality(AnsweredCalls') = Cardinality(AnsweredCalls) + Cardinality(ChargedCalls)
  <2>1. IsFiniteSet(AnsweredCalls)
    BY DEF UsageInv
  <2>2. Cardinality(AnsweredCalls \cap new) = 0
    BY <1>4, FS_EmptySet
  <2>3. /\ Cardinality(AnsweredCalls) \in Nat
        /\ Cardinality(ChargedCalls) \in Nat
    BY <2>1, ChargedCallsFinite, FS_CardinalityType
  <2>4. /\ IsFiniteSet(AnsweredCalls \cup new)
        /\ Cardinality(AnsweredCalls \cup new) =
             Cardinality(AnsweredCalls) + Cardinality(new) - Cardinality(AnsweredCalls \cap new)
    BY <1>5, <2>1, FS_Union
  <2>5. QED
    BY <1>3, <1>5, <2>2, <2>3, <2>4
<1>7. Cardinality(ChargedCalls') = 0
  BY <1>1, FS_EmptySet DEF ChargedCalls
<1>8. /\ Cardinality(AnsweredCalls) \in Nat
      /\ Cardinality(ChargedCalls) \in Nat
      /\ lost \in Nat
  BY ChargedCallsFinite, FS_CardinalityType DEF UsageInv, Inv1, TypeOK
<1>9. QED
  BY <1>1, <1>6, <1>7, <1>8 DEF UsageInv

(* What was answered stays answered when the model is asked to correct its *)
(* output, and a dropped step leaves its calls charged and lost.           *)
LEMMA OthersCharged ==
  /\ Inv1 /\ UsageInv /\ ProcessOutput =>
       UsageInv' /\ UNCHANGED <<usage, responses>>
  /\ Inv1 /\ UsageInv /\ DropStep =>
       UsageInv' /\ UNCHANGED <<usage, responses>>
<1>1. ASSUME Inv1, UsageInv, ProcessOutput
      PROVE  UsageInv' /\ UNCHANGED <<usage, responses>>
  <2> DEFINE retry == [kind |-> "retry"]
  <2>1. UNCHANGED <<usage, responses, execs, lost>> /\ messages' \in {messages, Append(messages, retry)}
    BY <1>1 DEF ProcessOutput, AcceptOutputEarly, RetryOutput, RejectOutput, FinishOnStop,
           UnexpectedStop, ContinueRun, state
  <2>2. AnsweredCalls' = AnsweredCalls
    <3>1. CASE messages' = messages
      BY <3>1 DEF AnsweredCalls, Kind
    <3>2. CASE messages' = Append(messages, retry)
      <4>1. /\ DOMAIN messages' = DOMAIN messages \cup {Len(messages) + 1}
            /\ messages'[Len(messages) + 1].kind # "answers"
            /\ \A k \in DOMAIN messages : messages'[k] = messages[k]
        BY <1>1, <3>2 DEF Inv1, TypeOK
      <4>2. \A x : x \in AnsweredCalls' <=> x \in AnsweredCalls
        BY <4>1, AnsweredCall DEF Kind
      <4>3. QED
        BY <4>2
    <3>3. QED
      BY <2>1, <3>1, <3>2
  <2>3. ChargedCalls' = ChargedCalls /\ Calls' = Calls
    BY <2>1 DEF ChargedCalls, Calls
  <2>4. QED
    BY <1>1, <2>1, <2>2, <2>3 DEF UsageInv
<1>2. ASSUME Inv1, UsageInv, DropStep
      PROVE  UsageInv' /\ UNCHANGED <<usage, responses>>
  <2>1. /\ UNCHANGED <<usage, responses, messages>>
        /\ Calls' = {}
        /\ lost' = lost + Cardinality(ChargedCalls)
    BY <1>2 DEF DropStep, state, Calls
  <2>2. AnsweredCalls' = AnsweredCalls
    BY <2>1 DEF AnsweredCalls, Kind
  <2>3. Cardinality(ChargedCalls') = 0
    BY <2>1, FS_EmptySet DEF ChargedCalls
  <2>4. /\ Cardinality(AnsweredCalls) \in Nat
        /\ Cardinality(ChargedCalls) \in Nat
        /\ usage.tool_calls \in Nat
        /\ lost \in Nat
    BY <1>2, ChargedCallsFinite, FS_CardinalityType DEF UsageInv, Inv1, TypeOK, RunUsage
  <2>5. QED
    BY <1>2, <2>1, <2>2, <2>3, <2>4 DEF UsageInv
<1>3. QED
  BY <1>1, <1>2

LEMMA UsageInvNext == Inv1 /\ Inv1' /\ UsageInv /\ [Next]_vars => UsageInv'
<1> SUFFICES ASSUME Inv1, Inv1', UsageInv, [Next]_vars PROVE UsageInv'
  OBVIOUS
<1>1. CASE UNCHANGED <<state, execs, lost>>
  BY <1>1 DEF UsageInv, state, AnsweredCalls, ChargedCalls, Calls, Kind
<1>2. QED
  BY <1>1, ResponseCharged, ToolCharged, AnswersCharged, OthersCharged, QuietStep

----------------------------------------------------------------------------
(* The limits *)

Limits == {AgentLimits, RunLimits} \ {None}

(* A request is sent within the limits; from there a step adds one request *)
(* at most, and the calls it starts.                                       *)
SpendInv ==
  \A limits \in Limits :
    /\ pc \in {"preparing", "requesting"} =>
         /\ limits.requests # None => usage.requests <= limits.requests
         /\ limits.tool_calls # None => usage.tool_calls <= limits.tool_calls
    /\ pc = "tools" /\ limits.tool_calls # None =>
         usage.tool_calls <= limits.tool_calls + Cardinality(ChargedCalls)

(* Limits are numbers, where there are any, and so is usage.               *)
LEMMA LimitTypes ==
  ASSUME Inv1
  PROVE  /\ usage.requests \in Nat /\ usage.tool_calls \in Nat
         /\ \A limits \in Limits :
              /\ limits.requests # None => limits.requests \in Nat
              /\ limits.tool_calls # None => limits.tool_calls \in Nat
<1>1. Limits \subseteq UsageLimits
  BY RunAssumption DEF Limits
<1>2. \A limits \in UsageLimits :
        /\ limits.requests # None => limits.requests \in Nat
        /\ limits.tool_calls # None => limits.tool_calls \in Nat
  BY DEF UsageLimits, Limit
<1>3. usage.requests \in Nat /\ usage.tool_calls \in Nat
  BY DEF Inv1, TypeOK, RunUsage
<1>4. QED
  BY <1>1, <1>2, <1>3

(* A request within the limits is one that neither of the two forbids.     *)
LEMMA SentWithinLimits ==
  ASSUME Inv1, BeginStep
  PROVE  SpendInv'
<1>1. UNCHANGED usage /\ pc' = "preparing" /\ ~OverLimits
  BY DEF BeginStep, state
<1>2. \A limits \in Limits :
        /\ ~Exceeds(usage.requests, limits.requests)
        /\ ~Exceeds(usage.tool_calls, limits.tool_calls)
  BY <1>1 DEF OverLimits, LimitExceeded, Limits
<1>3. QED
  BY <1>1, <1>2, LimitTypes DEF SpendInv, Exceeds

(* The calls under way are no more than those of the last response.        *)
SpendType ==
  /\ Cardinality(ChargedCalls) \in Nat
  /\ usage.requests \in Nat /\ usage.tool_calls \in Nat
  /\ pc = "tools" =>
       /\ Last \in Responses
       /\ Cardinality(CallPositions(Last)) \in Nat
       /\ Cardinality(ChargedCalls) <= Cardinality(CallPositions(Last))

LEMMA SpendTyped == Inv1 => SpendType
<1> SUFFICES ASSUME Inv1 PROVE SpendType
  OBVIOUS
<1>1. ASSUME pc = "tools"
      PROVE  /\ Last \in Responses
             /\ Cardinality(CallPositions(Last)) \in Nat
             /\ Cardinality(ChargedCalls) <= Cardinality(CallPositions(Last))
  <2>1. Last \in Responses /\ Last \in Response /\ Calls = CallPositions(Last)
    BY <1>1, RunAssumption DEF Inv1, TypeOK, StepInv, Last
  <2>2. ChargedCalls \in SUBSET Calls /\ IsFiniteSet(Calls)
    BY ChargedCallsFinite, CallsFinite
  <2>3. QED
    BY <2>1, <2>2, FS_Subset, CallPositionsFinite
<1>2. QED
  BY <1>1, ChargedCallsFinite, LimitTypes DEF SpendType

LEMMA SpendTypedNext == Inv1' => SpendType'
BY SpendTyped, PTL

(* Usage beyond a limit is what the last checked request led to.           *)
LEMMA SpendNext ==
  Inv1 /\ Inv1' /\ UsageInv /\ SpendInv /\ OvershootBounded /\ [Next]_vars
    => SpendInv' /\ OvershootBounded'
<1> SUFFICES ASSUME Inv1, Inv1', UsageInv, SpendInv, OvershootBounded, [Next]_vars
             PROVE  SpendInv' /\ OvershootBounded'
  OBVIOUS
<1>1. CASE UNCHANGED usage /\ pc' \notin {"preparing", "requesting", "tools"}
  BY <1>1 DEF SpendInv, OvershootBounded
<1>2. CASE UNCHANGED <<usage, execs, pc>>
  BY <1>2 DEF SpendInv, OvershootBounded, ChargedCalls, Calls
<1>3. CASE Request
  <2>1. UNCHANGED usage
    BY <1>3 DEF Request, BeginStep, SendRequest, StepCancelled, StepOverLimits, state
  <2>2. CASE BeginStep
    BY <2>1, <2>2, SentWithinLimits DEF OvershootBounded
  <2>5. CASE SendRequest
    BY <2>1, <2>5 DEF SendRequest, SpendInv, OvershootBounded
  <2>3. CASE StepCancelled \/ StepOverLimits
    BY <1>1, <2>1, <2>3 DEF StepCancelled, StepOverLimits, Return
  <2>4. QED
    BY <1>3, <2>2, <2>3, <2>5 DEF Request
<1>4. CASE \E r \in Responses : ModelResponse(r)
  <2> PICK r \in Responses : ModelResponse(r)
    BY <1>4
  <2>1. /\ usage'.requests <= usage.requests + 1
        /\ usage'.tool_calls <= usage.tool_calls + Cardinality(ChargedCalls')
        /\ Cardinality(ChargedCalls') \in Nat
        /\ usage'.tool_calls \in Nat
    <3>1. Cardinality(ChargedCalls') \in Nat
      BY SpendTypedNext DEF SpendType
    <3>2. usage.requests \in Nat /\ usage.tool_calls \in Nat /\ usage'.tool_calls \in Nat
      BY SpendTyped, SpendTypedNext DEF SpendType
    <3>3. QED
      BY <3>1, <3>2, ResponseCharged
  <2>2. pc = "requesting" /\ pc' \in {"tools", "output"}
    BY DEF ModelResponse
  <2>3. SpendInv'
    BY <2>1, <2>2, LimitTypes DEF SpendInv
  <2>4. pc' = "output" => Cardinality(ChargedCalls') = 0
    BY FS_EmptySet DEF Inv1, StepInv, ChargedCalls
  <2>5. pc' = "tools" => /\ Last' \in Responses
                         /\ Cardinality(ChargedCalls') <= Cardinality(CallPositions(Last'))
                         /\ Cardinality(CallPositions(Last')) \in Nat
    BY SpendTypedNext DEF SpendType
  <2>6. ASSUME NEW limits \in Limits
        PROVE  /\ limits.requests # None => usage'.requests <= limits.requests + 1
               /\ limits.tool_calls # None /\ usage'.tool_calls > limits.tool_calls =>
                    \E q \in Responses :
                      usage'.tool_calls <= limits.tool_calls + Cardinality(CallPositions(q))
    <3>1. limits.requests # None => usage'.requests <= limits.requests + 1
      BY <2>1, <2>2, <2>6, LimitTypes, SpendTypedNext DEF SpendInv, SpendType
    <3>2. ASSUME limits.tool_calls # None, usage'.tool_calls > limits.tool_calls
          PROVE  usage'.tool_calls <= limits.tool_calls + Cardinality(CallPositions(Last')) /\ pc' = "tools"
      <4>1. usage'.tool_calls <= limits.tool_calls + Cardinality(ChargedCalls') /\ limits.tool_calls \in Nat
        BY <2>1, <2>2, <2>6, <3>2, LimitTypes DEF SpendInv
      <4>2. pc' = "tools"
        BY <2>1, <2>2, <2>4, <3>2, <4>1
      <4>3. QED
        BY <2>1, <2>5, <4>1, <4>2
    <3>3. QED
      BY <2>5, <3>1, <3>2
  <2>7. QED
    BY <2>3, <2>6 DEF OvershootBounded, Limits
<1>5. CASE \E p \in Calls : Tool(p)
  <2> PICK p \in Calls : Tool(p)
    BY <1>5
  <2>1. /\ pc = "tools" /\ pc' = "tools"
        /\ UNCHANGED responses
    BY DEF Tool, SkipCall, StartCall, ToolReturns, ToolRetries, ToolFails, MayStart, Running,
           Inv1, StepInv, state
  <2>2. /\ usage'.requests = usage.requests
        /\ usage'.tool_calls - Cardinality(ChargedCalls') = usage.tool_calls - Cardinality(ChargedCalls)
        /\ Cardinality(ChargedCalls) \in Nat
        /\ Cardinality(ChargedCalls') \in Nat
        /\ usage.tool_calls \in Nat
        /\ usage'.tool_calls \in Nat
    <3>1. SpendType /\ SpendType'
      BY SpendTyped, SpendTypedNext
    <3>2. QED
      BY <3>1, ToolCharged DEF SpendType
  <2>3. SpendInv'
    BY <2>1, <2>2, LimitTypes DEF SpendInv
  <2>4. /\ Last' \in Responses
        /\ Cardinality(ChargedCalls') <= Cardinality(CallPositions(Last'))
        /\ Cardinality(CallPositions(Last')) \in Nat
    BY <2>1, SpendTypedNext DEF SpendType
  <2>5. ASSUME NEW limits \in Limits
        PROVE  limits.tool_calls # None =>
                 usage'.tool_calls <= limits.tool_calls + Cardinality(CallPositions(Last'))
    BY <2>1, <2>2, <2>3, <2>4, <2>5, LimitTypes DEF SpendInv
  <2>6. QED
    BY <2>2, <2>3, <2>4, <2>5 DEF OvershootBounded, Limits
<1>6. CASE ModelError
  BY <1>1, <1>6 DEF ModelError, Return, state
<1>7. CASE AddToolReturns
  BY <1>1, <1>7 DEF AddToolReturns, Return
<1>8. CASE ProcessOutput
  BY <1>1, <1>8 DEF ProcessOutput, AcceptOutputEarly, RetryOutput, RejectOutput, FinishOnStop,
         UnexpectedStop, ContinueRun, Return, state
<1>9. CASE Finalize \/ GiveUp \/ DropStep
  BY <1>1, <1>9 DEF Finalize, GiveUp, DropStep, Return, state
<1>10. CASE Cancel \/ TimePasses \/ Over \/ UNCHANGED vars
  BY <1>2, <1>10 DEF Cancel, TimePasses, Over, state, vars
<1>11. QED
  BY <1>3, <1>4, <1>5, <1>6, <1>7, <1>8, <1>9, <1>10 DEF Next, Answer

(* A run to completion gets a response for each step, but for the one that *)
(* ends it in an error.                                                    *)
PaceInv ==
  ~StepwiseCaller =>
    /\ step <= Len(responses) + 1
    /\ pc \notin {"preparing", "requesting"} /\ outcome \notin Errors =>
         step = Len(responses)
    /\ pc \in {"preparing", "requesting"} => step = Len(responses) + 1
    /\ pc \in {"preparing", "requesting", "tools", "output"} => outcome \notin Errors

LEMMA PaceNext == Inv1 /\ PaceInv /\ [Next]_vars => PaceInv'
<1> SUFFICES ASSUME Inv1, PaceInv, [Next]_vars, ~StepwiseCaller
             PROVE  PaceInv'
  BY DEF PaceInv
<1>0. step \in Nat /\ Len(responses) \in Nat
  BY DEF Inv1, TypeOK
<1>1. CASE Request
  BY <1>0, <1>1 DEF Request, BeginStep, SendRequest, StepCancelled, StepOverLimits, CallStep, Return,
                    state, PaceInv, Errors
<1>2. CASE ModelError
  BY <1>0, <1>2 DEF ModelError, Return, state, PaceInv, Errors
<1>3. ASSUME NEW r \in Responses, ModelResponse(r)
      PROVE  PaceInv'
  <2>1. Len(responses') = Len(responses) + 1
    BY <1>3 DEF ModelResponse, Inv1, TypeOK
  <2>2. QED
    BY <1>0, <1>3, <2>1 DEF ModelResponse, PaceInv
<1>4. ASSUME NEW p \in Calls, Tool(p)
      PROVE  PaceInv'
  <2>1. UNCHANGED <<pc, step, responses, outcome>>
    BY <1>4 DEF Tool, SkipCall, StartCall, ToolReturns, ToolRetries, ToolFails, state
  <2>2. QED
    BY <2>1 DEF PaceInv
<1>5. CASE AddToolReturns
  BY <1>0, <1>5 DEF AddToolReturns, Return, PaceInv
<1>6. CASE ProcessOutput
  <2>1. pc = "output" /\ pc' = "idle" /\ UNCHANGED <<step, responses>>
    BY <1>6 DEF ProcessOutput, AcceptOutputEarly, RetryOutput, RejectOutput, FinishOnStop,
         UnexpectedStop, ContinueRun, Settles, Return, state
  <2>2. QED
    BY <1>0, <2>1 DEF PaceInv
<1>7. CASE Finalize \/ GiveUp \/ Cancel \/ TimePasses \/ Over
  BY <1>0, <1>7 DEF Finalize, GiveUp, Cancel, TimePasses, Over, state, vars, PaceInv
<1>8. ~DropStep
  BY DEF DropStep
<1>9. CASE UNCHANGED vars
  BY <1>9 DEF vars, state, PaceInv
<1>10. QED
  BY <1>1, <1>2, <1>3, <1>4, <1>5, <1>6, <1>7, <1>8, <1>9 DEF Next, Answer

(* The steps of a run with a limit on requests are at most two more.       *)
LEMMA PaceBounds == Inv1 /\ UsageInv /\ OvershootBounded /\ PaceInv => StepsBounded
<1> SUFFICES ASSUME Inv1, UsageInv, OvershootBounded, PaceInv,
                    ~StepwiseCaller,
                    RunLimits # None,
                    RunLimits.requests # None,
                    \A r \in Responses : r.usage # None
             PROVE  step <= RunLimits.requests + 2
  BY DEF StepsBounded
<1>1. responses \in Seq(Responses) /\ Len(responses) \in Nat /\ step \in Nat
  BY DEF Inv1, TypeOK
<1>2. Positions(responses, Metered) = 1 .. Len(responses)
  BY <1>1 DEF Positions, Metered
<1>3. usage.requests = Len(responses)
  <2>1. Cardinality(1 .. Len(responses)) = Len(responses)
    BY <1>1, FS_Interval
  <2>2. QED
    BY <1>2, <2>1 DEF UsageInv
<1>4. usage.requests <= RunLimits.requests + 1 /\ RunLimits.requests \in Nat
  BY LimitTypes DEF OvershootBounded, Limits
<1>5. QED
  BY <1>1, <1>3, <1>4 DEF PaceInv

----------------------------------------------------------------------------
(* Theorems *)

AccountInv ==
  /\ OutputAccounted
  /\ UsageInv
  /\ SpendInv
  /\ OvershootBounded
  /\ PaceInv

(* A new run has nothing to account for. *)
LEMMA AccountInit == Init => AccountInv
<1> SUFFICES ASSUME Init PROVE AccountInv
  OBVIOUS
<1>1. /\ pc = "idle" /\ step = 0
      /\ DOMAIN messages = {1} /\ Kind(1) = "prompt"
      /\ responses = <<>> /\ DOMAIN responses = {} /\ Len(responses) = 0
      /\ usage.requests = 0 /\ usage.tool_calls = 0
      /\ output_retries = 0 /\ final_output = None /\ finished = FALSE
      /\ Calls = {} /\ lost = 0
      /\ outcome = "none"
  BY DEF Init, ZeroUsage, Calls, Kind
<1>2. IsFiniteSet({}) /\ Cardinality({}) = 0
  BY FS_EmptySet
<1>3. OutputAccounted
  <2>1. {k \in DOMAIN messages : Kind(k) = "retry"} = {}
    BY <1>1
  <2>2. RetryBudget
    <3>1. Cardinality({k \in DOMAIN messages : Kind(k) = "retry"}) = 0
      BY <1>2, <2>1
    <3>2. output_retries = 0 /\ 0 <= MaxOutputRetries
      BY <1>1, RunAssumption
    <3>3. QED
      BY <3>1, <3>2 DEF RetryBudget
  <2>3. QED
    BY <1>1, <2>2 DEF OutputAccounted, OutputProvenance
<1>4. UsageInv
  <2>1. AnsweredCalls = {}
    BY <1>1, AnsweredCall
  <2>2. ChargedCalls = {} /\ Positions(responses, Metered) = {}
    BY <1>1 DEF ChargedCalls, Positions
  <2>3. Cardinality(AnsweredCalls) = 0 /\ Cardinality(ChargedCalls) = 0
    BY <1>2, <2>1, <2>2
  <2>4. usage.requests = Cardinality(Positions(responses, Metered))
    BY <1>1, <1>2, <2>2
  <2>5. usage.tool_calls =
          Cardinality(AnsweredCalls) + Cardinality(ChargedCalls) + lost
    BY <1>1, <2>3
  <2>7. IsFiniteSet(AnsweredCalls) /\ \A p \in Calls : execs[p].status # "cancelled"
    BY <1>1, <1>2, <2>1
  <2>8. QED
    BY <2>4, <2>5, <2>7 DEF UsageInv
<1>5. SpendInv /\ PaceInv
  BY <1>1 DEF SpendInv, PaceInv
<1>6. OvershootBounded
  <2>1. \A limits \in Limits :
          /\ limits.requests # None => limits.requests \in Nat
          /\ limits.tool_calls # None => limits.tool_calls \in Nat
    BY Inv1Init, LimitTypes
  <2>2. QED
    BY <1>1, <2>1 DEF OvershootBounded, Limits
<1>7. QED
  BY <1>3, <1>4, <1>5, <1>6 DEF AccountInv

(* Every step keeps the accounts. *)
LEMMA AccountNext == Inv /\ Inv' /\ AccountInv /\ [Next]_vars => AccountInv'
BY ProvenanceNext, RetryBudgetNext, UsageInvNext, SpendNext, PaceNext
   DEF Inv, AccountInv, OutputAccounted

LEMMA AccountAlways == Spec => []AccountInv
<1>1. Init => AccountInv
  BY AccountInit
<1>2. Inv /\ Inv' /\ AccountInv /\ [Next]_vars => AccountInv'
  BY AccountNext
<1>3. QED
  BY <1>1, <1>2, InvAlways, PTL DEF Spec

(* The output of a run is what the validators made of its latest accepted  *)
(* one, and the corrections it asked for are the rejections, up to the     *)
(* budget.                                                                 *)
THEOREM OutputAlwaysAccounted == Spec => []OutputAccounted
<1>1. AccountInv => OutputAccounted
  BY DEF AccountInv
<1>2. QED
  BY <1>1, AccountAlways, PTL

(* The requests and tool calls charged are those that happened, dropped    *)
(* steps included, and what was spent beyond a limit is one request, or the*)
(* calls of one response.                                                  *)
THEOREM UsageAlwaysAccounted == Spec => []UsageAccounted
<1>1. Inv /\ AccountInv => UsageAccounted
  <2> SUFFICES ASSUME Inv, AccountInv PROVE UsageAccounted
    OBVIOUS
  <2>2. StepsBounded
    BY PaceBounds DEF Inv, AccountInv
  <2>3. {i \in DOMAIN responses : responses[i].usage # None} = Positions(responses, Metered)
    BY DEF Positions, Metered, Inv, Inv1, TypeOK
  <2>4. UsageIsExact
    BY <2>3 DEF UsageIsExact, UsageInv, AccountInv
  <2>5. QED
    BY <2>2, <2>4 DEF UsageAccounted, AccountInv
<1>2. QED
  BY <1>1, InvAlways, AccountAlways, PTL
=============================================================================
